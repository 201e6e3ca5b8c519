---------------------------- MODULE CheckProofs ----------------------------
(***************************************************************************)
(* Theorems about JingleCheck, for IQs with any number of elements: what a *)
(* handler goes on with is complete, and every JingleContent is freed.     *)
(***************************************************************************)
EXTENDS JingleCheck, TLAPS

Places == 1 .. MaxElements

Typed ==
  /\ iq.children \in Seq(Element \cup {Other}) /\ Len(iq.children) <= MaxElements
  /\ child \in Nat \ {0} /\ content \in Seq(Nat)
  /\ result \in BOOLEAN
  /\ frees \in [Places -> Nat] /\ destroyed \in Nat
  /\ pc \in {"received", "checking", "checked", "done"}

\* The content elements below n are in the list, in order and none refused.
Listed(n) ==
  /\ ToSet(content) = {i \in Contents : i < n}
  /\ \A i, j \in DOMAIN content : i < j => content[i] < content[j]
  /\ \A i \in Contents : i < n => ~Refuses(iq.children[i])

\* Nothing was freed before the check is over; a refusal has freed what was found
\* and the element that was refused.
Unfreed == \A i \in Places : frees[i] = 0
Refused == child \in Contents /\ \A i \in Contents : i <= child => frees[i] >= 1

IInv ==
  /\ Typed
  /\ pc # "done" => destroyed = 0
  /\ pc = "received" => child = 1 /\ content = <<>> /\ result /\ Unfreed
  /\ iq.children # <<>> =>
       iq.attributes.jingle /\ iq.attributes.namespace /\ ~Malformed(iq.attributes)
                            /\ iq.attributes.action # "idle"
  /\ pc \in {"checking", "checked"} => ~Malformed(iq.attributes) /\ Listed(child)
  /\ pc = "checking" => result /\ Unfreed
  /\ pc = "checked" => IF result THEN child > Len(iq.children) /\ Unfreed ELSE Refused
  /\ ContentsFreed

\* What Append makes of a sequence of numbers.
LEMMA Appended ==
  ASSUME NEW s \in Seq(Nat), NEW n \in Nat
  PROVE  /\ Append(s, n) \in Seq(Nat)
         /\ DOMAIN Append(s, n) = DOMAIN s \cup {Len(s) + 1}
         /\ DOMAIN s = 1 .. Len(s) /\ Len(s) \in Nat
         /\ \A j \in DOMAIN s : Append(s, n)[j] = s[j]
         /\ Append(s, n)[Len(s) + 1] = n
         /\ ToSet(Append(s, n)) = ToSet(s) \cup {n}
<1>1. /\ Append(s, n) \in Seq(Nat)
      /\ DOMAIN s = 1 .. Len(s) /\ Len(s) \in Nat
      /\ DOMAIN Append(s, n) = 1 .. Len(s) + 1
      /\ \A j \in 1 .. Len(s) : Append(s, n)[j] = s[j]
      /\ Append(s, n)[Len(s) + 1] = n
  OBVIOUS
<1>2. DOMAIN Append(s, n) = DOMAIN s \cup {Len(s) + 1}
  BY <1>1
<1> QED BY <1>1, <1>2, ZenonT(30) DEF ToSet

-----------------------------------------------------------------------------
(* The invariant *)

\* An IQ as it comes in.
LEMMA InitIInv == Init => IInv
<1> SUFFICES ASSUME Init PROVE IInv OBVIOUS
<1>1. PICK attributes \in Attributes, elements \in BoundedSeq(Element \cup {Other}, MaxElements) :
        /\ elements = <<>> \/ (attributes.jingle /\ attributes.namespace /\ attributes.sid
                               /\ attributes.action = "checks" /\ attributes.initiator = "missing")
        /\ iq = [attributes |-> attributes, children |-> elements]
  BY DEF Init
<1>2. elements \in Seq(Element \cup {Other}) /\ Len(elements) <= MaxElements
  BY ElementsAssumption DEF BoundedSeq, SeqOf
<1>3. Typed
  BY <1>1, <1>2, ElementsAssumption DEF Init, Typed, Places
<1>4. iq.children # <<>> =>
        iq.attributes.jingle /\ iq.attributes.namespace /\ ~Malformed(iq.attributes)
                             /\ iq.attributes.action # "idle"
  BY <1>1 DEF Malformed
<1>5. Unfreed
  BY DEF Init, Unfreed, Places
<1> QED BY <1>3, <1>4, <1>5 DEF Init, IInv, ContentsFreed

\* Nothing is freed before the check, and an IQ of another namespace has no contents.
LEMMA CheckJingle == IInv /\ check_jingle => IInv'
<1> SUFFICES ASSUME IInv, check_jingle PROVE IInv' OBVIOUS
<1>1. /\ pc = "received" /\ iq.attributes.jingle /\ iq.attributes.namespace
      /\ UNCHANGED <<iq, child, content, frees>> /\ destroyed = 0
      /\ child = 1 /\ content = <<>> /\ result /\ Unfreed /\ Typed
  BY DEF IInv, check_jingle
<1>2. Contents' = Contents /\ Unfreed'
  BY <1>1 DEF Contents, Unfreed
<1>3. CASE Malformed(iq.attributes) \/ iq.attributes.action = "idle"
  <2>1. iq.children = <<>>
    BY <1>3 DEF IInv
  <2>2. destroyed' = 1 /\ pc' = "done" /\ result' \in BOOLEAN
    <3>1. CASE Malformed(iq.attributes)
      <4>1. destroyed' = destroyed + 1 /\ pc' = "done" /\ result' = FALSE
        BY <3>1, Zenon DEF check_jingle
      <4>2. destroyed = 0
        BY <1>1
      <4>3. destroyed' = 1
        <5>1. destroyed' = destroyed + 1
          BY <4>1
        <5> QED BY <4>2, <5>1
      <4>4. result' \in BOOLEAN
        BY <4>1
      <4> QED BY <4>1, <4>3, <4>4
    <3>2. CASE ~Malformed(iq.attributes) /\ iq.attributes.action = "idle"
      BY <1>1, <3>2 DEF check_jingle, Typed
    <3> QED BY <1>3, <3>1, <3>2
  <2>3. Typed'
    BY <1>1, <2>2 DEF Typed
  <2>4. Contents' = {}
    BY <1>1, <2>1 DEF Contents
  <2> QED BY <1>1, <2>1, <2>2, <2>3, <2>4 DEF IInv, ContentsFreed
<1>4. CASE ~Malformed(iq.attributes) /\ iq.attributes.action # "idle"
  <2>1. pc' = "checking" /\ UNCHANGED <<destroyed, err, result>>
    BY <1>4 DEF check_jingle
  <2>2. Typed'
    BY <1>1, <2>1 DEF Typed
  <2>3. \A i \in Contents : ~(i < 1)
    BY <1>1 DEF Contents, Typed
  <2>4. Listed(child)'
    BY <1>1, <1>2, <2>3 DEF Listed, ToSet
  <2>5. Malformed(iq.attributes)' = Malformed(iq.attributes)
    BY <1>1 DEF Malformed
  <2> QED BY <1>1, <1>2, <1>4, <2>1, <2>2, <2>4, <2>5 DEF IInv, ContentsFreed
<1> QED BY <1>3, <1>4

\* Each child is left out, put in the list, or ends the check.
LEMMA CheckContent == IInv /\ check_content => IInv'
<1> SUFFICES ASSUME IInv, check_content PROVE IInv' OBVIOUS
<1> DEFINE e == iq.children[child]
<1>1. /\ pc = "checking" /\ child <= Len(iq.children) /\ UNCHANGED <<iq, destroyed>>
      /\ result /\ Unfreed /\ destroyed = 0
      /\ ~Malformed(iq.attributes) /\ Listed(child)
      /\ iq.children # <<>> =>
           iq.attributes.jingle /\ iq.attributes.namespace /\ ~Malformed(iq.attributes)
                                /\ iq.attributes.action # "idle"
  BY DEF IInv, check_content
<1>2. Typed BY DEF IInv
<1>3. Contents' = Contents /\ Malformed(iq.attributes)' = Malformed(iq.attributes)
  BY <1>1 DEF Contents, Malformed
<1>4. child \in DOMAIN iq.children /\ child \in Nat /\ \A i \in Contents : i \in Nat
  BY <1>1, <1>2 DEF Typed, Contents
<1>5. /\ iq.children' # <<>> =>
           (iq.attributes.jingle /\ iq.attributes.namespace /\ ~Malformed(iq.attributes)
                                 /\ iq.attributes.action # "idle")'
  BY <1>1, <1>3
<1>6. CASE e.tag = "other" /\ child' = child + 1 /\ UNCHANGED <<content, err, result, pc, frees>>
  <2>1. child \notin Contents
    BY <1>6 DEF Contents
  <2>2. Typed' BY <1>1, <1>2, <1>6 DEF Typed
  <2>3. \A i \in Contents : i < child + 1 <=> i < child
    BY <1>4, <2>1
  <2>4. Listed(child)'
    BY <1>1, <1>3, <1>6, <2>3 DEF Listed, Refuses
  <2>5. Unfreed' BY <1>1, <1>6 DEF Unfreed
  <2> QED BY <1>1, <1>3, <1>5, <1>6, <2>2, <2>4, <2>5 DEF IInv, ContentsFreed
<1>7. CASE /\ e.tag = "content" /\ ~Refuses(e)
           /\ content' = Append(content, child)
           /\ child' = child + 1 /\ UNCHANGED <<result, pc, frees>>
  <2>1. child \in Contents
    BY <1>4, <1>7 DEF Contents
  <2>2. \A i \in Contents : i < child + 1 <=> (i < child \/ i = child)
    BY <1>4
  <2>3. /\ Append(content, child) \in Seq(Nat)
        /\ DOMAIN Append(content, child) = DOMAIN content \cup {Len(content) + 1}
        /\ DOMAIN content = 1 .. Len(content) /\ Len(content) \in Nat
        /\ \A j \in DOMAIN content : Append(content, child)[j] = content[j]
        /\ Append(content, child)[Len(content) + 1] = child
        /\ ToSet(Append(content, child)) = ToSet(content) \cup {child}
    BY <1>2, <1>4, Appended, Zenon DEF Typed
  <2>4. Typed' BY <1>1, <1>2, <1>7, <2>3 DEF Typed
  <2>5. ToSet(content') = {i \in Contents : i < child + 1}
    BY <1>1, <1>7, <2>1, <2>2, <2>3 DEF Listed
  <2>6. \A i \in DOMAIN content : content[i] \in Nat /\ content[i] < child
    <3>1. \A i \in DOMAIN content : content[i] \in ToSet(content)
      BY DEF ToSet
    <3> QED BY <1>1, <1>4, <3>1 DEF Listed
  <2>7. \A i, j \in DOMAIN content' : i < j => content'[i] < content'[j]
    <3> SUFFICES ASSUME NEW i \in DOMAIN content', NEW j \in DOMAIN content', i < j
                 PROVE  content'[i] < content'[j]
      OBVIOUS
    <3>1. i \in DOMAIN content
      BY <1>7, <2>3
    <3>2. CASE j \in DOMAIN content
      BY <1>1, <1>7, <2>3, <3>1, <3>2 DEF Listed
    <3>3. CASE j = Len(content) + 1
      BY <1>7, <2>3, <2>6, <3>1, <3>3
    <3> QED BY <1>7, <2>3, <3>2, <3>3
  <2>8. \A i \in Contents : i < child + 1 => ~Refuses(iq.children[i])
    BY <1>1, <1>7, <2>2 DEF Listed
  <2>9. Listed(child)'
    BY <1>1, <1>3, <1>7, <2>5, <2>7, <2>8 DEF Listed, Refuses
  <2>10. Unfreed' BY <1>1, <1>7 DEF Unfreed
  <2> QED BY <1>1, <1>3, <1>5, <1>7, <2>4, <2>9, <2>10 DEF IInv, ContentsFreed
<1>8. CASE /\ e.tag = "content" /\ Refuses(e)
           /\ frees' = Freed({child} \cup ToSet(content)) /\ Return(FALSE)
           /\ UNCHANGED <<content, child>>
  <2>1. child \in Contents
    BY <1>4, <1>8 DEF Contents
  <2>2. frees' \in [Places -> Nat]
    BY <1>2, <1>8 DEF Freed, Typed
  <2>3. Typed' BY <1>1, <1>2, <1>8, <2>2 DEF Typed, Return
  <2>4. Listed(child)'
    BY <1>1, <1>3, <1>8 DEF Listed, Refuses
  <2>5. \A i \in Contents : i <= child => i \in {child} \cup ToSet(content)
    BY <1>1, <1>4 DEF Listed
  <2>6. \A i \in Contents : i \in Places
    BY <1>2, ElementsAssumption DEF Contents, Typed, Places
  <2>7. \A i \in Contents : i <= child => frees'[i] >= 1
    BY <1>1, <1>2, <1>8, <2>5, <2>6 DEF Freed, Typed, Unfreed
  <2>8. Refused'
    BY <1>3, <1>8, <2>1, <2>7 DEF Refused
  <2> QED BY <1>1, <1>3, <1>5, <1>8, <2>3, <2>4, <2>8 DEF IInv, ContentsFreed, Return
<1> QED BY <1>6, <1>7, <1>8 DEF check_content

LEMMA Checked == IInv /\ ContentsChecked => IInv'
<1> SUFFICES ASSUME IInv, ContentsChecked PROVE IInv' OBVIOUS
<1>1. /\ pc = "checking" /\ child > Len(iq.children) /\ result' = TRUE /\ pc' = "checked"
      /\ UNCHANGED <<iq, child, content, err, frees, destroyed>>
  BY DEF ContentsChecked, Return
<1>2. Typed' BY <1>1 DEF IInv, Typed
<1>3. Listed(child)' /\ Unfreed' /\ ~Malformed(iq.attributes)'
  BY <1>1 DEF IInv, Listed, Contents, Refuses, Unfreed, Malformed
<1> QED BY <1>1, <1>2, <1>3 DEF IInv, ContentsFreed

\* The contents of a check that succeeded are freed here and were not before.
LEMMA Free == IInv /\ jingle_free_jinglenode => IInv'
<1> SUFFICES ASSUME IInv, jingle_free_jinglenode PROVE IInv' OBVIOUS
<1>1. /\ pc = "checked" /\ pc' = "done" /\ frees' = Freed(ToSet(content))
      /\ destroyed' = destroyed + 1 /\ destroyed = 0
      /\ UNCHANGED <<iq, child, content, err, result>>
      /\ Listed(child) /\ Typed
  BY DEF IInv, jingle_free_jinglenode
<1>2. frees' \in [Places -> Nat] /\ \A i \in Places : frees'[i] >= frees[i]
  BY <1>1 DEF Freed, Typed
<1>3. Typed' BY <1>1, <1>2 DEF Typed
<1>4. Contents' = Contents /\ \A i \in Contents : i \in Places /\ i \in Nat /\ i <= Len(iq.children)
  BY <1>1, ElementsAssumption DEF Contents, Typed, Places
<1>5. CASE result
  <2>1. \A i \in Contents : i \in ToSet(content)
    BY <1>1, <1>4, <1>5 DEF IInv, Listed, Typed
  <2>2. \A i \in Contents : frees'[i] = 1
    BY <1>1, <1>4, <1>5, <2>1 DEF IInv, Freed, Unfreed, Typed
  <2> QED BY <1>1, <1>3, <1>4, <2>2 DEF IInv, ContentsFreed, Malformed
<1>6. CASE ~result
  <2>1. \A i \in Contents : i <= child => frees[i] >= 1
    BY <1>1, <1>6 DEF IInv, Refused
  <2>2. \A i \in Contents : i <= child => frees'[i] >= 1
    BY <1>1, <1>2, <1>4, <2>1 DEF Typed
  <2> QED BY <1>1, <1>3, <1>4, <1>6, <2>2 DEF IInv, ContentsFreed, Malformed
<1> QED BY <1>5, <1>6

LEMMA Step == IInv /\ [Next]_vars => IInv'
<1> SUFFICES ASSUME IInv, [Next]_vars PROVE IInv' OBVIOUS
<1>1. CASE NotOurs
  <2>1. Typed' BY <1>1 DEF NotOurs, IInv, Typed
  <2> QED BY <1>1, <2>1 DEF NotOurs, IInv, ContentsFreed, Malformed
<1>2. CASE UNCHANGED vars
  BY <1>2 DEF vars, IInv, Typed, Listed, Contents, Refuses, Unfreed, Refused, ContentsFreed,
              Malformed
<1> QED BY <1>1, <1>2, CheckJingle, CheckContent, Checked, Free DEF Next

LEMMA Invariant == Spec => []IInv
BY InitIInv, Step, PTL DEF Spec

-----------------------------------------------------------------------------
(* Theorems *)

\* Whatever the IQ holds, a handler that goes on after the checks finds every
\* content element, in order, with all it dereferences.
THEOREM HandlersAreSafe == Spec => []HandlersSafe
<1>1. IInv => HandlersSafe
  <2> SUFFICES ASSUME IInv, pc = "checked", result
               PROVE  /\ ToSet(content) = Contents
                      /\ \A i, j \in DOMAIN content : i < j => content[i] < content[j]
                      /\ \A i \in Contents : iq.children[i].name /\ iq.children[i].complete
                      /\ iq.attributes.sid /\ iq.attributes.initiator # "bad"
    BY DEF HandlersSafe
  <2>1. Listed(child) /\ ~Malformed(iq.attributes) /\ child > Len(iq.children) /\ Typed
    BY DEF IInv
  <2>2. \A i \in Contents : i < child
    BY <2>1 DEF Contents, Typed
  <2> QED BY <2>1, <2>2 DEF Listed, Refuses, Malformed
<1> QED BY <1>1, Invariant, PTL

\* Every JingleContent that was allocated is freed, once when the check succeeded.
THEOREM AllContentsFreed == Spec => []ContentsFreed
<1>1. IInv => ContentsFreed
  BY DEF IInv
<1> QED BY <1>1, Invariant, PTL
=============================================================================
