---------------------------- MODULE JingleCheck ----------------------------
(***************************************************************************)
(* The life of one JingleNode: jingle_handle_iq allocates it, check_jingle *)
(* fills it, check_contents (called by the handlers of session-initiate    *)
(* and session-accept) hangs a JingleContent on it for each content        *)
(* element, and jingle_free_jinglenode frees it with its contents.  An     *)
(* IQ is a state of the variable iq; a JingleContent is named by the       *)
(* position of its element.                                                *)
(***************************************************************************)
EXTENDS Naturals, Sequences, FiniteSets, SequencesExt

CONSTANT MaxElements     \* bound: children of the jingle element

ASSUME ElementsAssumption == MaxElements \in Nat

VARIABLES
  iq,            \* the incoming IQ, of type set
  pc,            \* where jingle_handle_iq stands
  child,         \* the element check_contents looks at
  content,       \* jn->content
  err,           \* an error was stored
  result,        \* what the last check returned
  frees,         \* how often each JingleContent was freed
  destroyed      \* how often the JingleNode was freed

vars == <<iq, pc, child, content, err, result, frees, destroyed>>

Validity == {"missing", "good", "bad"}

\* content element: its name, its two children, its creator and its senders.
Element  == [tag : {"content"}, name : BOOLEAN, complete : BOOLEAN,
             creator : Validity, senders : Validity]
Other    == [tag |-> "other"]
Attributes == [jingle : BOOLEAN, namespace : BOOLEAN, action : {"missing", "unknown", "idle", "checks"},
               sid : BOOLEAN, initiator : Validity]

\* "idle" is a known action without a handler; "checks" one whose handler calls
\* check_contents.
Init ==
  /\ \E attributes \in Attributes, elements \in BoundedSeq(Element \cup {Other}, MaxElements) :
       /\ elements = <<>> \/ (attributes.jingle /\ attributes.namespace /\ attributes.sid
                              /\ attributes.action = "checks" /\ attributes.initiator = "missing")
       /\ iq = [attributes |-> attributes, children |-> elements]
  /\ pc = "received" /\ child = 1 /\ content = <<>>
  /\ err = FALSE /\ result = TRUE
  /\ frees = [i \in 1 .. MaxElements |-> 0] /\ destroyed = 0

Return(value) == result' = value /\ pc' = "checked"

-----------------------------------------------------------------------------
(* jingle_handle_iq and check_jingle *)

\* No jingle element, or not in our namespace: left alone, before any check.
NotOurs ==
  /\ pc = "received" /\ ~(iq.attributes.jingle /\ iq.attributes.namespace)
  /\ pc' = "done"
  /\ UNCHANGED <<iq, child, content, err, result, frees, destroyed>>

\* What check_jingle refuses.
Malformed(a) == a.action \in {"missing", "unknown"} \/ ~a.sid \/ a.initiator = "bad"

check_jingle ==
  /\ pc = "received" /\ iq.attributes.jingle /\ iq.attributes.namespace
  /\ IF Malformed(iq.attributes)
     THEN /\ destroyed' = destroyed + 1 /\ pc' = "done"
          /\ err' = TRUE /\ result' = FALSE
     ELSE IF iq.attributes.action = "idle"
     THEN /\ destroyed' = destroyed + 1 /\ pc' = "done"
          /\ UNCHANGED <<err, result>>
     ELSE pc' = "checking" /\ UNCHANGED <<destroyed, err, result>>
  /\ UNCHANGED <<iq, child, content, frees>>

-----------------------------------------------------------------------------
(* check_contents *)

Freed(S) == [i \in DOMAIN frees |-> IF i \in S THEN frees[i] + 1 ELSE frees[i]]

\* Faulty: the children are not looked for.
Refuses_Childless(e) == ~e.name \/ e.senders = "bad"

\* check_content returns NULL.
Refuses(e) == ~e.name \/ e.senders = "bad" \/ ~e.complete

\* A bad creator stores an error, and nothing else.
check_content ==
  /\ pc = "checking" /\ child <= Len(iq.children)
  /\ LET e == iq.children[child] IN
     \/ /\ e.tag = "other"
        /\ child' = child + 1 /\ UNCHANGED <<content, err, result, pc, frees>>
     \/ /\ e.tag = "content" /\ ~Refuses(e)
        /\ content' = Append(content, child)
        /\ err' = (err \/ e.creator = "bad")
        /\ child' = child + 1 /\ UNCHANGED <<result, pc, frees>>
     \/ /\ e.tag = "content" /\ Refuses(e)
        /\ frees' = Freed({child} \cup ToSet(content))   \* jn->content is not reset
        /\ err' = TRUE /\ Return(FALSE)
        /\ UNCHANGED <<content, child>>
  /\ UNCHANGED <<iq, destroyed>>

ContentsChecked ==
  /\ pc = "checking" /\ child > Len(iq.children)
  /\ Return(TRUE)
  /\ UNCHANGED <<iq, child, content, err, frees, destroyed>>

\* Faulty: the contents are left to the JingleNode.
jingle_free_jinglenode_Shallow ==
  /\ pc = "checked" /\ pc' = "done"
  /\ destroyed' = destroyed + 1
  /\ UNCHANGED <<iq, child, content, err, result, frees>>

\* The handler answers a refusal and returns; the JingleNode and its contents go.
jingle_free_jinglenode ==
  /\ pc = "checked" /\ pc' = "done"
  /\ frees' = Freed(ToSet(content)) /\ destroyed' = destroyed + 1
  /\ UNCHANGED <<iq, child, content, err, result>>

Next == NotOurs \/ check_jingle \/ check_content \/ ContentsChecked \/ jingle_free_jinglenode

Spec == Init /\ [][Next]_vars

-----------------------------------------------------------------------------
(* Properties *)

Contents == {i \in DOMAIN iq.children : iq.children[i].tag = "content"}

\* A handler that goes on finds every content element in the list, in order, and
\* each with the name, description and transport it dereferences.
HandlersSafe ==
  pc = "checked" /\ result =>
    /\ ToSet(content) = Contents /\ \A i, j \in DOMAIN content : i < j => content[i] < content[j]
    /\ \A i \in Contents : iq.children[i].name /\ iq.children[i].complete
    /\ iq.attributes.sid /\ iq.attributes.initiator # "bad"

\* Every JingleContent that was allocated is freed, and only once when the check
\* succeeded, whichever of the three places that free them is reached; so is the
\* JingleNode of an IQ that is ours.
ContentsFreed ==
  pc = "done" /\ iq.attributes.jingle /\ iq.attributes.namespace =>
    /\ destroyed = 1
    /\ \A i \in Contents : i <= child => frees[i] >= 1
    /\ result => \A i \in Contents : frees[i] = 1
=============================================================================
