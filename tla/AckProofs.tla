----------------------------- MODULE AckProofs -----------------------------
(***************************************************************************)
(* Theorems about AckHandlers, for any requests and any timeout: a handle  *)
(* that was called back is out of the list, and the list and loudmouth's   *)
(* table together implement AckPromise, callback by callback.  The replies *)
(* to handles the checker freed are the case to watch: such a handle has   *)
(* been called back once, with the timeout, so that its reply is the       *)
(* second and the last callback.                                           *)
(***************************************************************************)
EXTENDS AckHandlers, Integers, SequenceTheorems, WellFoundedInduction, TLAPS

-----------------------------------------------------------------------------
(* Lists and loops *)

\* A nonempty set of natural numbers has a least element.
LEMMA LeastNat ==
  ASSUME NEW T \in SUBSET Nat, T # {}
  PROVE  \E x \in T : \A y \in T : x <= y
<1>1. PICK x \in T : \A y \in T : <<y, x>> \notin OpToRel(<, Nat)
  BY NatLessThanWellFounded, WFMin
<1>2. ASSUME NEW y \in T PROVE x <= y
  <2>1. ~(y < x)
    BY <1>1 DEF OpToRel
  <2> QED BY <2>1
<1> QED BY <1>2

\* An element is appended to a list it is not in.
LEMMA Entering ==
  ASSUME NEW kind, NEW s \in Seq(kind), NEW x \in kind, IsInjective(s), x \notin ToSet(s)
  PROVE  /\ Append(s, x) \in Seq(kind)
         /\ ToSet(Append(s, x)) = ToSet(s) \cup {x}
         /\ IsInjective(Append(s, x))
<1>1. /\ Append(s, x) \in Seq(kind)
      /\ DOMAIN s = 1 .. Len(s) /\ Len(s) \in Nat
      /\ DOMAIN Append(s, x) = 1 .. Len(s) + 1
      /\ \A j \in 1 .. Len(s) : Append(s, x)[j] = s[j]
      /\ Append(s, x)[Len(s) + 1] = x
  OBVIOUS
<1>2. DOMAIN Append(s, x) = DOMAIN s \cup {Len(s) + 1}
  BY <1>1
<1>3. ToSet(Append(s, x)) = ToSet(s) \cup {x}
  BY <1>1, <1>2, ZenonT(30) DEF ToSet
<1>4. \A j \in DOMAIN s : s[j] # x
  BY DEF ToSet
<1> QED BY <1>1, <1>2, <1>3, <1>4 DEF IsInjective

\* f are the values of a loop of n rounds, round i of which computes step[i] of the
\* value before it.
Runs(f, n, V, v0, step) ==
  f \in [0 .. n -> V] /\ f[0] = v0 /\ \A i \in 1 .. n : f[i] = step[i][f[i - 1]]

\* Such a loop has a value after each of its rounds.
LEMMA Rounds ==
  ASSUME NEW n \in Nat, NEW V, NEW v0 \in V, NEW step \in [1 .. n -> [V -> V]]
  PROVE  \E f : Runs(f, n, V, v0, step)
<1> USE DEF Runs
<1> DEFINE Loop(m) == \E f : Runs(f, m, V, v0, step)
           T == {m \in 0 .. n : ~Loop(m)}
<1>1. SUFFICES ASSUME T # {} PROVE FALSE
  <2>1. Loop(n) => \E f : Runs(f, n, V, v0, step)
    OBVIOUS
  <2>2. n \in 0 .. n
    OBVIOUS
  <2>3. T = {} => Loop(n)
    <3> HIDE DEF Loop
    <3> QED BY <2>2
  <2> HIDE DEF Loop, T
  <2> QED BY <2>1, <2>3
<1>2. PICK m \in T : \A k \in T : m <= k
  <2>1. T \in SUBSET Nat
    OBVIOUS
  <2> HIDE DEF T
  <2> QED BY <1>1, <2>1, LeastNat
<1>3. Loop(0)
  <2> DEFINE f == [i \in 0 .. 0 |-> v0]
  <2>1. f \in [0 .. 0 -> V] /\ f[0] = v0
    OBVIOUS
  <2> HIDE DEF f
  <2> QED BY <2>1
<1>4. m # 0 /\ m \in 0 .. n /\ ~Loop(m)
  BY ZenonT(30), <1>2, <1>3
<1>5. Loop(m - 1)
  <2>1. m - 1 \in 0 .. n /\ ~(m <= m - 1)
    BY <1>4
  <2> HIDE DEF Loop
  <2> QED BY <1>2, <2>1
<1>6. PICK f : Runs(f, m - 1, V, v0, step)
  BY <1>5
<1> DEFINE g == [i \in 0 .. m |-> IF i = m THEN step[m][f[m - 1]] ELSE f[i]]
<1>7. f[m - 1] \in V /\ step[m] \in [V -> V]
  BY <1>4, <1>6
<1>8. step[m][f[m - 1]] \in V
  BY <1>7
<1>9. /\ g \in [0 .. m -> V] /\ g[m] = step[m][f[m - 1]]
      /\ \A i \in 0 .. m - 1 : g[i] = f[i]
  BY <1>4, <1>6, <1>8
<1> HIDE DEF g
<1>10. g[0] = v0
  BY <1>4, <1>6, <1>9
<1>11. ASSUME NEW i \in 1 .. m PROVE g[i] = step[i][g[i - 1]]
  <2>1. CASE i = m
    BY <1>4, <1>9, <2>1
  <2>2. CASE i # m
    <3>1. i \in 1 .. m - 1 /\ i \in 0 .. m - 1 /\ i - 1 \in 0 .. m - 1
      BY <1>4, <2>2
    <3> QED BY <1>6, <1>9, <3>1
  <2> QED BY <2>1, <2>2
<1>12. Loop(m)
  BY <1>9, <1>10, <1>11
<1> QED BY <1>4, <1>12

IInv ==
  /\ TypeOK
  /\ CalledIsUnlisted
  /\ \A r \in table \ Listed : calls[r] = <<"timeout">>

-----------------------------------------------------------------------------
(* Lists of handles *)

\* jingle_ack_handler_free of a set of handles keeps the others, each once.
LEMMA Unlinking ==
  ASSUME ack_handlers \in Seq(Requests), IsInjective(ack_handlers), NEW S
  PROVE  /\ Unlink(S) \in Seq(Requests) /\ IsInjective(Unlink(S))
         /\ ToSet(Unlink(S)) = Listed \ S
<1> DEFINE h == ack_handlers
           n == Len(h)
           Next1(i, s) == IF h[i] \in S THEN s ELSE Append(s, h[i])
           Body(g) == [i \in 0 .. n |-> IF i = 0 THEN <<>> ELSE
                                        IF h[i] \in S THEN g[i - 1] ELSE Append(g[i - 1], h[i])]
           kept == CHOOSE g : g = Body(g)
<1>1. n \in Nat /\ h \in Seq(Requests) /\ \A i \in 1 .. n : h[i] \in Requests
  OBVIOUS
<1>2. kept = Body(kept)
  <2> DEFINE V == Seq(Requests)
             step == [i \in 1 .. n |-> [s \in V |-> Next1(i, s)]]
  <2>1. \A i \in 1 .. n, s \in V : Next1(i, s) \in V
    BY <1>1
  <2>2. step \in [1 .. n -> [V -> V]] /\ <<>> \in V
    <3> HIDE DEF Next1
    <3>1. \A i \in 1 .. n : [s \in V |-> Next1(i, s)] \in [V -> V]
      BY <2>1
    <3> QED BY <3>1
  <2>3. PICK f : Runs(f, n, V, <<>>, step)
    <3>1. n \in Nat
      BY <1>1
    <3> HIDE DEF V, step, n
    <3> QED BY <2>2, <3>1, Rounds
  <2>4. f = Body(f)
    <3>1. \A i \in 1 .. n : f[i - 1] \in V /\ f[i] = Next1(i, f[i - 1])
      <4> HIDE DEF V, Next1
      <4> QED BY <1>1, <2>3 DEF Runs
    <3>2. \A i \in 0 .. n : f[i] = IF i = 0 THEN <<>> ELSE
                                   IF h[i] \in S THEN f[i - 1] ELSE Append(f[i - 1], h[i])
      <4>1. f[0] = <<>>
        BY <2>3 DEF Runs
      <4>2. \A i \in 0 .. n : i = 0 \/ i \in 1 .. n
        BY <1>1
      <4> QED BY <3>1, <4>1, <4>2, Zenon
    <3> QED BY <2>3, <3>2 DEF Runs
  <2> HIDE DEF Body
  <2> QED BY <2>4
<1>3. Unlink(S) = kept[n]
  BY DEF Unlink
<1> HIDE DEF kept
<1>4. kept[0] = <<>> /\ \A i \in 1 .. n : kept[i] = Next1(i, kept[i - 1])
  <2>1. \A i \in 0 .. n : kept[i] = IF i = 0 THEN <<>> ELSE
                                    IF h[i] \in S THEN kept[i - 1] ELSE Append(kept[i - 1], h[i])
    BY <1>2
  <2> QED BY <1>1, <2>1
<1> DEFINE P(i) == /\ kept[i] \in Seq(Requests) /\ IsInjective(kept[i])
                   /\ ToSet(kept[i]) = {h[j] : j \in 1 .. i} \ S
<1>5. P(0)
  BY <1>4 DEF IsInjective, ToSet
<1>6. ASSUME NEW i \in 1 .. n, P(i - 1) PROVE P(i)
  <2>1. {h[j] : j \in 1 .. i} = {h[j] : j \in 1 .. i - 1} \cup {h[i]}
    BY <1>1
  <2>2. CASE h[i] \in S
    BY <1>4, <1>6, <2>1, <2>2
  <2>3. CASE h[i] \notin S
    <3>1. kept[i] = Append(kept[i - 1], h[i])
      BY <1>4, <2>3
    <3>2. h[i] \notin ToSet(kept[i - 1])
      BY <1>1, <1>6 DEF IsInjective
    <3>3. h[i] \in Requests
      BY <1>1
    <3> DEFINE before == kept[i - 1]
               r == h[i]
    <3>4. before \in Seq(Requests) /\ IsInjective(before) /\ r \in Requests /\ r \notin ToSet(before)
      BY <1>6, <3>2, <3>3
    <3>5. /\ Append(before, r) \in Seq(Requests) /\ IsInjective(Append(before, r))
          /\ ToSet(Append(before, r)) = ToSet(before) \cup {r}
      <4> HIDE DEF before, r
      <4> QED BY <3>4, Entering
    <3> QED BY <1>6, <2>1, <2>3, <3>1, <3>5
  <2> QED BY <2>2, <2>3
<1>7. P(n)
  <2> DEFINE T == {i \in 0 .. n : ~P(i)}
  <2> HIDE DEF P
  <2>1. SUFFICES ASSUME T # {} PROVE FALSE
    BY <1>1
  <2>2. T \in SUBSET Nat
    OBVIOUS
  <2>3. PICK m \in T : \A k \in T : m <= k
    <3> HIDE DEF T
    <3> QED BY <2>1, <2>2, LeastNat
  <2>4. m \in 1 .. n /\ m - 1 \in 0 .. n /\ ~(m <= m - 1) /\ ~P(m)
    BY <1>1, <1>5, <2>3
  <2>5. P(m - 1)
    BY <2>3, <2>4
  <2> QED BY <1>6, <2>4, <2>5
<1>8. {h[j] : j \in 1 .. n} = Listed
  BY <1>1 DEF Listed, ToSet
<1> QED BY <1>3, <1>7, <1>8

-----------------------------------------------------------------------------
(* The steps, as the promise sees them *)

\* A step that unlinks the handles of S, each in the list, and calls them back.
Resolves(S, why) ==
  /\ S \subseteq Listed
  /\ Call(S, why) /\ ack_handlers' = Unlink(S)

\* The visit of the checker is such a step, for some that expired.
LEMMA CheckerResolves ==
  ASSUME IInv, jingle_ack_timeout_checker
  PROVE  \E S \in SUBSET (Listed \cap Timed) : Resolves(S, "timeout")
<1>1. Expired \subseteq Listed \cap Timed
  BY DEF Expired
<1>2. \E T : T \subseteq Expired /\ Call(T, "timeout") /\ ack_handlers' = Unlink(T)
  <2> DEFINE head == {Head(ack_handlers)}
  <2>1. \/ Call(Expired, "timeout") /\ ack_handlers' = Unlink(Expired)
        \/ head \subseteq Expired /\ Call(head, "timeout") /\ ack_handlers' = Unlink(head)
        \/ FirstTwo \subseteq Expired /\ Call(FirstTwo, "timeout") /\ ack_handlers' = Unlink(FirstTwo)
    BY Zenon DEF jingle_ack_timeout_checker
  <2> HIDE DEF head
  <2> QED BY <2>1
<1> QED BY <1>1, <1>2 DEF Resolves

\* What the handles' list and calls are after such a step.
LEMMA Resolved1 ==
  ASSUME IInv, NEW S \in SUBSET Listed, NEW why \in {"response", "timeout"}, Resolves(S, why)
  PROVE  /\ ack_handlers' \in Seq(Requests) /\ IsInjective(ack_handlers')
         /\ Listed' = Listed \ S
         /\ calls' \in [Requests -> Seq({"response", "timeout"})]
         /\ \A r \in Requests : calls'[r] = IF r \in S THEN <<why>> ELSE calls[r]
<1>1. /\ ack_handlers' \in Seq(Requests) /\ IsInjective(ack_handlers')
      /\ ToSet(ack_handlers') = Listed \ S
  BY Unlinking DEF IInv, TypeOK, Resolves
<1>2. \A r \in S : calls[r] = <<>>
  BY DEF IInv, CalledIsUnlisted
<1>3. calls' = [r \in Requests |-> IF r \in S THEN Append(calls[r], why) ELSE calls[r]]
  BY DEF Resolves, Call
<1>4. \A r \in Requests : calls[r] \in Seq({"response", "timeout"})
  BY DEF IInv, TypeOK
<1>5. \A r \in Requests : calls'[r] = IF r \in S THEN <<why>> ELSE calls[r]
  <2>1. Append(<<>>, why) = <<why>>
    OBVIOUS
  <2> QED BY <1>2, <1>3, <2>1, Zenon
<1>6. <<why>> \in Seq({"response", "timeout"})
  OBVIOUS
<1>7. calls' \in [Requests -> Seq({"response", "timeout"})]
  BY <1>3, <1>4
<1> QED BY <1>1, <1>5, <1>7 DEF Listed

-----------------------------------------------------------------------------
(* The invariant *)

LEMMA Initially == ASSUME Init PROVE IInv
<1>1. PatienceAssumption => 0 \in 0 .. Patience
  BY DEF PatienceAssumption
<1>2. Listed = {}
  BY DEF Init, Listed, ToSet
<1> QED BY <1>1, <1>2, PatienceAssumption DEF Init, IInv, TypeOK, CalledIsUnlisted, IsInjective

\* Every step keeps the invariant.
LEMMA Inductive == ASSUME IInv, [Next]_vars PROVE IInv'
<1>1. ASSUME NEW r \in Requests, jingle_new_ack_handler(r) PROVE IInv'
  <2>1. r \notin Listed /\ calls[r] = <<>> /\ UNCHANGED <<age, calls, running>>
    BY <1>1 DEF jingle_new_ack_handler, Sent
  <2>2. /\ ack_handlers' \in Seq(Requests) /\ IsInjective(ack_handlers')
        /\ ToSet(ack_handlers') = Listed \cup {r}
    BY <1>1, <2>1, Entering DEF jingle_new_ack_handler, IInv, TypeOK, Listed
  <2>3. table' \in {table, table \cup {r}}
    BY <1>1 DEF jingle_new_ack_handler
  <2> QED BY <2>1, <2>2, <2>3 DEF IInv, TypeOK, CalledIsUnlisted, Listed
<1>2. ASSUME NEW r \in Requests, jingle_handle_ack_iq(r) PROVE IInv'
  <2>1. r \in Listed /\ Resolves({r}, "response") /\ table' = table \ {r} /\ UNCHANGED <<age, running>>
    BY <1>2 DEF jingle_handle_ack_iq, Resolves
  <2>2. /\ ack_handlers' \in Seq(Requests) /\ IsInjective(ack_handlers')
        /\ Listed' = Listed \ {r}
        /\ calls' \in [Requests -> Seq({"response", "timeout"})]
        /\ \A q \in Requests : calls'[q] = IF q \in {r} THEN <<"response">> ELSE calls[q]
    <3> DEFINE S == {r}
    <3>1. S \in SUBSET Listed /\ Resolves(S, "response")
      BY <2>1
    <3> HIDE DEF S
    <3>2. /\ ack_handlers' \in Seq(Requests) /\ IsInjective(ack_handlers')
          /\ Listed' = Listed \ S
          /\ calls' \in [Requests -> Seq({"response", "timeout"})]
          /\ \A q \in Requests : calls'[q] = IF q \in S THEN <<"response">> ELSE calls[q]
      BY <3>1, Resolved1
    <3> QED BY <3>2 DEF S
  <2>3. Listed \subseteq Requests
    BY DEF IInv, TypeOK, Listed, ToSet
  <2>4. TypeOK'
    BY <2>1, <2>2 DEF IInv, TypeOK
  <2>5. CalledIsUnlisted'
    BY <2>2, <2>3 DEF IInv, CalledIsUnlisted
  <2>6. \A q \in table' \ Listed' : q # r /\ q \in table \ Listed
    BY <2>1, <2>2
  <2>7. \A q \in table' \ Listed' : calls'[q] = <<"timeout">>
    BY <2>2, <2>6 DEF IInv, TypeOK
  <2> QED BY <2>4, <2>5, <2>7 DEF IInv
<1>3. ASSUME NEW r \in Requests, LateReply(r) PROVE IInv'
  <2>1. /\ r \in table \ Listed /\ UNCHANGED <<ack_handlers, age>>
        /\ table' = table \ {r} /\ running' \in BOOLEAN
        /\ Call({r}, "response") \/ UNCHANGED calls
    BY <1>3 DEF LateReply
  <2>2. /\ calls' \in [Requests -> Seq({"response", "timeout"})]
        /\ \A q \in Requests : q # r => calls'[q] = calls[q]
    <3>1. CASE UNCHANGED calls
      BY <3>1 DEF IInv, TypeOK
    <3>2. CASE Call({r}, "response")
      BY <3>2 DEF IInv, TypeOK, Call
    <3> QED BY <2>1, <3>1, <3>2
  <2>3. Listed' = Listed /\ Listed \subseteq Requests
    BY <2>1 DEF IInv, TypeOK, Listed, ToSet
  <2>4. TypeOK'
    BY <2>1, <2>2 DEF IInv, TypeOK
  <2>5. CalledIsUnlisted'
    BY <2>1, <2>2, <2>3 DEF IInv, CalledIsUnlisted
  <2>6. \A q \in table' \ Listed' : q # r /\ q \in table \ Listed /\ q \in Requests
    BY <2>1, <2>3 DEF IInv, TypeOK
  <2> QED BY <2>2, <2>4, <2>5, <2>6 DEF IInv
<1>4. CASE Disconnect
  BY <1>4 DEF Disconnect, IInv, TypeOK, CalledIsUnlisted, Listed
<1>5. CASE jingle_ack_timeout_checker
  <2>1. PICK S \in SUBSET (Listed \cap Timed) : Resolves(S, "timeout")
    BY <1>5, CheckerResolves
  <2>2. /\ ack_handlers' \in Seq(Requests) /\ IsInjective(ack_handlers')
        /\ Listed' = Listed \ S
        /\ calls' \in [Requests -> Seq({"response", "timeout"})]
        /\ \A q \in Requests : calls'[q] = IF q \in S THEN <<"timeout">> ELSE calls[q]
    BY <2>1, Resolved1
  <2>3. Listed \subseteq Requests
    BY DEF IInv, TypeOK, Listed, ToSet
  <2>4. age' \in [Requests -> 0 .. Patience]
    BY <1>5, PatienceAssumption DEF jingle_ack_timeout_checker, IInv, TypeOK
  <2>5. table' = table /\ running' \in BOOLEAN
    BY <1>5 DEF jingle_ack_timeout_checker, Walked, IInv, TypeOK
  <2>6. TypeOK'
    BY <2>2, <2>4, <2>5 DEF IInv, TypeOK
  <2>7. CalledIsUnlisted'
    BY <2>2, <2>3 DEF IInv, CalledIsUnlisted
  <2>8. \A q \in table' \ Listed' : calls'[q] = <<"timeout">>
    <3>1. \A q \in table' \ Listed' : q \in Requests /\ (q \in S \/ calls[q] = <<"timeout">>)
      BY <2>2, <2>5 DEF IInv, TypeOK
    <3> QED BY <2>2, <3>1
  <2> QED BY <2>6, <2>7, <2>8 DEF IInv
<1>6. CASE UNCHANGED vars
  BY <1>6 DEF vars, IInv, TypeOK, CalledIsUnlisted, Listed
<1> QED BY <1>1, <1>2, <1>3, <1>4, <1>5, <1>6 DEF Next

LEMMA Invariant == Spec => []IInv
<1>1. Init => IInv
  BY Initially
<1>2. IInv /\ [Next]_vars => IInv'
  BY Inductive
<1> QED BY <1>1, <1>2, PTL DEF Spec

\* The list names every handle once and no more than those of our requests, whatever
\* is entered, answered, and expires together (jingle_new_ack_handler,
\* jingle_ack_handler_free).
THEOREM TypesKept == Spec => []TypeOK
<1>1. IInv => TypeOK
  BY DEF IInv
<1> QED BY <1>1, Invariant, PTL

\* A handle that was called back, by a reply or by the timer, is out of the list
\* (jingle_handle_ack_iq, jingle_ack_timeout_checker).
THEOREM CalledOnceFromTheList == Spec => []CalledIsUnlisted
<1>1. IInv => CalledIsUnlisted
  BY DEF IInv
<1> QED BY <1>1, Invariant, PTL

-----------------------------------------------------------------------------
(* The promise *)

\* What is waiting, as AckPromise sees it, is what the list holds.
LEMMA WaitingListed == ASSUME IInv PROVE Promise!Waiting = Listed
<1>1. \A r \in Listed : calls[r] = <<>>
  BY DEF IInv, CalledIsUnlisted
<1> QED BY <1>1 DEF Promise!Waiting

\* What is taken off the list and called back was asked before, and no other.
LEMMA ResolvedCalls ==
  ASSUME IInv, NEW S \in SUBSET Listed, NEW why \in {"response", "timeout"}, Resolves(S, why)
  PROVE  Promise!CallBack(S, why)
<1>1. /\ Listed' = Listed \ S
      /\ \A r \in Requests : calls'[r] = IF r \in S THEN <<why>> ELSE calls[r]
  BY Resolved1
<1>2. <<why>> # <<>> /\ Listed \subseteq Requests
  BY DEF IInv, TypeOK, Listed, ToSet
<1>3. {r \in Requests : calls'[r] # <<>>} = {r \in Requests : calls[r] # <<>>} \cup S
  BY <1>1, <1>2
<1>4. UNCHANGED (Listed \cup {r \in Requests : calls[r] # <<>>})
  BY <1>1, <1>3
<1> QED BY <1>4 DEF Promise!CallBack, Resolves, Call

\* Every step of the list and the table is a step of the promise or leaves it alone.
LEMMA StepsPromised == ASSUME IInv, Next PROVE Promise!Next \/ UNCHANGED Promise!vars
<1>0. running /\ running = TRUE
  BY DEF Next, IInv, TypeOK
<1>1. ASSUME NEW r \in Requests, jingle_new_ack_handler(r) PROVE Promise!Next
  <2>1. r \notin Listed /\ calls[r] = <<>> /\ UNCHANGED <<age, calls, running>>
    BY <1>1 DEF jingle_new_ack_handler, Sent
  <2>2. Listed' = Listed \cup {r}
    <3>1. ToSet(ack_handlers') = Listed \cup {r}
      BY <1>1, <2>1, Entering DEF jingle_new_ack_handler, IInv, TypeOK, Listed
    <3> QED BY <3>1 DEF Listed
  <2>3. Promise!Ask(r)
    BY <2>1, <2>2 DEF Promise!Ask
  <2> QED BY <1>0, <2>3 DEF Promise!Next
<1>2. ASSUME NEW r \in Requests, jingle_handle_ack_iq(r) PROVE Promise!Next
  <2> DEFINE S == {r}
  <2>1. S \in SUBSET Listed /\ Resolves(S, "response") /\ running' = running
    BY <1>2 DEF jingle_handle_ack_iq, Resolves
  <2> HIDE DEF S
  <2>2. Promise!CallBack(S, "response")
    BY <2>1, ResolvedCalls
  <2>3. Promise!Answer(r)
    BY <2>1, <2>2, WaitingListed DEF S, Promise!Answer
  <2> QED BY <1>0, <2>3 DEF Promise!Next
<1>3. ASSUME NEW r \in Requests, LateReply(r) PROVE Promise!Next
  <2>1. /\ r \in table \ Listed /\ UNCHANGED <<ack_handlers, age>> /\ running' \in BOOLEAN
        /\ Call({r}, "response") \/ UNCHANGED calls
    BY <1>3 DEF LateReply
  <2>2. calls[r] = <<"timeout">> /\ calls[r] # <<>> /\ Listed' = Listed
    BY <2>1 DEF IInv, Listed
  <2>3. CASE UNCHANGED calls
    <3>1. Promise!AnswerAgain(r)
      BY <2>1, <2>2, <2>3 DEF Promise!AnswerAgain
    <3> QED BY <1>0, <3>1 DEF Promise!Next
  <2>4. CASE Call({r}, "response")
    <3>1. \A q \in Requests : calls'[q] = IF q = r THEN Append(calls[r], "response") ELSE calls[q]
      BY <2>4 DEF Call
    <3>2. Append(calls[r], "response") # <<>>
      BY <2>2
    <3>3. {q \in Requests : calls'[q] # <<>>} = {q \in Requests : calls[q] # <<>>}
      BY <2>2, <3>1, <3>2
    <3>4. Promise!AnswerAgain(r)
      BY <2>1, <2>2, <2>4, <3>3 DEF Promise!AnswerAgain, Promise!CallBack, Call
    <3> QED BY <1>0, <3>4 DEF Promise!Next
  <2> QED BY <2>1, <2>3, <2>4
<1>4. CASE Disconnect
  BY <1>4 DEF Disconnect, Promise!vars, Listed
<1>5. CASE jingle_ack_timeout_checker
  <2>1. PICK S \in SUBSET (Listed \cap Timed) : Resolves(S, "timeout")
    BY <1>5, CheckerResolves
  <2>2. Promise!CallBack(S, "timeout")
    BY <2>1, ResolvedCalls
  <2>3. running' \in BOOLEAN
    BY <1>0, <1>5 DEF jingle_ack_timeout_checker, Walked
  <2>4. Promise!Expire
    BY <2>2, <2>3, WaitingListed DEF Promise!Expire
  <2> QED BY <1>0, <2>4 DEF Promise!Next
<1>6. Next => \/ Disconnect \/ jingle_ack_timeout_checker
              \/ \E r \in Requests : jingle_new_ack_handler(r) \/ jingle_handle_ack_iq(r) \/ LateReply(r)
  BY DEF Next
<1> QED BY <1>1, <1>2, <1>3, <1>4, <1>5, <1>6

\* The list and the table of pending replies keep the promise, with every callback
\* that is made: a request waits until a response or, for one with a timeout, a
\* timeout, also when several expire in one visit of the checker; nothing but a
\* reply that comes after the timeout calls back a second time, and nothing a third
\* (jingle_new_ack_handler, jingle_handle_ack_iq, jingle_ack_timeout_checker).
THEOREM PromiseKept == Spec => KeepsPromise
<1>1. Init => Promise!Init
  BY DEF Init, Listed, ToSet, Promise!Init
<1>2. IInv /\ [Next]_vars => [Promise!Next]_(Promise!vars)
  <2>1. ASSUME UNCHANGED vars PROVE UNCHANGED Promise!vars
    BY <2>1 DEF vars, Promise!vars, Listed
  <2> QED BY <2>1, StepsPromised
<1> QED BY <1>1, <1>2, Invariant, PTL DEF Spec, KeepsPromise, Promise!Spec
=============================================================================
