----------------------------- MODULE S5bProofs -----------------------------
(***************************************************************************)
(* Theorems about S5bConnect, for any number of candidates: one attempt at *)
(* a time, timers that cannot reach another attempt, the reference count   *)
(* of the arguments both callbacks share, and candidates that are tried    *)
(* from the best down.                                                     *)
(***************************************************************************)
EXTENDS S5bConnect, FiniteSetTheorems, TLAPS

\* An attempt, without a bound on its place.
AnyAttempt == [cand : Int, refs : Int, timer : {"set", "fired", "destroyed"},
               cancelled : BOOLEAN,
               outcome : {"none", "connected", "refused", "cancelled", "handled"},
               late : BOOLEAN]

\* The part of the invariant that concerns one attempt alone.
Sound(a) ==
  /\ a \in AnyAttempt
  /\ a.timer = "set" => a.outcome # "handled"
  /\ a.cancelled => a.timer = "fired"
  /\ a.outcome = "cancelled" => a.cancelled
  /\ a.outcome # "handled" => a.timer # "destroyed" /\ ~a.late
  /\ ~a.late => a.refs = (IF a.outcome # "handled" THEN 1 ELSE 0)
                         + (IF a.timer = "set" THEN 1 ELSE 0)

IInv ==
  /\ attempts \in Seq(AnyAttempt)
  /\ \A k \in DOMAIN attempts : Sound(attempts[k])
  /\ OneAttempt

USE DEF UnderWay

Timers == {"set", "fired", "destroyed"}
Outcomes == {"none", "connected", "refused", "cancelled", "handled"}

\* Two of the ways an attempt is changed keep its type.
LEMMA Changed ==
  ASSUME NEW a \in AnyAttempt, NEW r \in Int, NEW t \in Timers, NEW o \in Outcomes,
         NEW b \in BOOLEAN
  PROVE  /\ [a EXCEPT !.refs = r, !.timer = t, !.cancelled = b] \in AnyAttempt
         /\ [a EXCEPT !.refs = r, !.outcome = o] \in AnyAttempt
BY DEF AnyAttempt, Timers, Outcomes

\* What Append makes.
LEMMA Appended ==
  ASSUME NEW S, NEW s \in Seq(S), NEW n \in S
  PROVE  /\ Append(s, n) \in Seq(S) /\ Len(Append(s, n)) = Len(s) + 1
         /\ \A j \in 1 .. Len(s) + 1 :
              Append(s, n)[j] = IF j = Len(s) + 1 THEN n ELSE s[j]
OBVIOUS

\* A new attempt is sound.
LEMMA SoundNew == ASSUME NEW c \in Int PROVE Sound(NewAttempt(c))
BY DEF NewAttempt, Sound, AnyAttempt

\* GIO ends an attempt that was not cancelled, or was, in a way open to it.
LEMMA SoundOutcome ==
  ASSUME NEW a, Sound(a), a.outcome = "none",
         NEW o \in {"connected", "refused"} \cup (IF a.cancelled THEN {"cancelled"} ELSE {})
  PROVE  Sound([a EXCEPT !.outcome = o])
BY DEF Sound, AnyAttempt

\* The timer of an attempt fires.
LEMMA SoundCancelled ==
  ASSUME NEW a, Sound(a), a.timer = "set", NEW b \in BOOLEAN, b = TRUE
  PROVE  Sound([a EXCEPT !.refs = @ - 1, !.timer = "fired", !.cancelled = b])
<1> DEFINE r == a.refs - 1
<1> DEFINE c == [a EXCEPT !.refs = r, !.timer = "fired", !.cancelled = b]
<1>1. a \in AnyAttempt /\ a.outcome # "handled" /\ ~a.late /\ r = 1
  BY DEF Sound, AnyAttempt
<1> HIDE DEF r
<1>2. c \in AnyAttempt
  <2>1. "fired" \in Timers /\ r \in Int
    BY <1>1 DEF Timers
  <2> QED BY <1>1, <2>1, Changed DEF Outcomes
<1>3. c.refs = 1 /\ c.timer = "fired" /\ c.outcome = a.outcome /\ c.late = a.late
  BY <1>1 DEF AnyAttempt
<1>4. Sound(c)
  BY <1>1, <1>2, <1>3 DEF Sound
<1> QED BY <1>4 DEF r

\* The callback goes through with an attempt, whatever it is told.
LEMMA SoundHandled ==
  ASSUME NEW k \in DOMAIN attempts, Sound(attempts[k]), UnderWay(k),
         NEW o \in {"connected", "refused", "cancelled"},
         o = "cancelled" => attempts[k].cancelled
  PROVE  Sound(Handled(k, o)) /\ Handled(k, o).outcome = "handled"
<1> DEFINE a == attempts[k]
<1> DEFINE c == Handled(k, o)
<1>0. a \in AnyAttempt /\ ~a.late /\ a.timer \in {"set", "fired"}
  BY DEF Sound, AnyAttempt
<1>1. CASE o = "cancelled"
  <2>1. a.timer = "fired" /\ a.refs = 1
    BY <1>0, <1>1 DEF Sound, AnyAttempt
  <2> DEFINE r == a.refs - 1
  <2>2. c = [a EXCEPT !.refs = r, !.outcome = "handled"] /\ r = 0
    BY <1>1, <2>1 DEF Handled
  <2> HIDE DEF a, c, r
  <2>3. "handled" \in Outcomes /\ r \in Int
    BY SMTT(30), <2>2 DEF Outcomes
  <2>4. c \in AnyAttempt
    BY <1>0, <2>2, <2>3, Changed DEF Timers
  <2>5. c.refs = 0 /\ c.timer = "fired" /\ c.outcome = "handled"
    BY <1>0, <2>1, <2>2, <2>3 DEF AnyAttempt
  <2> QED BY <2>4, <2>5 DEF Sound, c
<1>2. CASE o # "cancelled"
  <2> DEFINE b == (a.timer = "fired")
  <2> DEFINE t == TimerAfter(k)
  <2>0. b \in BOOLEAN
    OBVIOUS
  <2>1. t \in {"fired", "destroyed"} /\ (t = "fired" <=> b)
    BY <1>0 DEF TimerAfter
  <2> DEFINE r == a.refs - 2
  <2>2. c = [a EXCEPT !.refs = r, !.outcome = "handled", !.timer = t, !.late = b] /\ r \in Int
    BY <1>0, <1>2 DEF Handled, AnyAttempt
  <2>3. ~b => r = 0 /\ ~a.cancelled
    BY <1>0 DEF Sound, AnyAttempt
  <2> HIDE DEF a, b, c, t, r
  <2>4. c \in AnyAttempt
    <3>1. t \in Timers
      BY <2>1 DEF Timers
    <3>2. a \in AnyAttempt /\ r \in Int
      BY <1>0, <2>2
    <3>3. [a EXCEPT !.refs = r, !.outcome = "handled", !.timer = t, !.late = b] \in AnyAttempt
      BY ONLY <2>0, <3>1, <3>2 DEF AnyAttempt, Timers
    <3> QED BY <2>2, <3>3, Zenon
  <2>5. c.late = b /\ c.cancelled = a.cancelled /\ c.refs = r /\ c.timer = t
        /\ c.outcome = "handled"
    BY <1>0, <2>0, <2>2 DEF AnyAttempt
  <2>6. Sound(c)
    <3>1. CASE b
      BY ONLY <2>1, <2>4, <2>5, <3>1 DEF Sound
    <3>2. CASE ~b
      BY ONLY <2>1, <2>3, <2>4, <2>5, <3>2 DEF Sound
    <3> QED BY <3>1, <3>2
  <2> QED BY <2>5, <2>6 DEF c
<1> QED BY <1>1, <1>2

\* One attempt is replaced by a sound one that is under way only if it was.
LEMMA Replaced ==
  ASSUME IInv, NEW k \in DOMAIN attempts, NEW a, Sound(a),
         a.outcome # "handled" => UnderWay(k),
         attempts' = [attempts EXCEPT ![k] = a]
  PROVE  IInv'
<1>1. a \in AnyAttempt
  BY DEF Sound
<1>2. attempts' \in Seq(AnyAttempt) /\ DOMAIN attempts' = DOMAIN attempts /\ Len(attempts') = Len(attempts)
  BY <1>1 DEF IInv
<1>3. \A j \in DOMAIN attempts : attempts'[j] = IF j = k THEN a ELSE attempts[j]
  BY DEF IInv
<1>4. \A j \in DOMAIN attempts' : Sound(attempts'[j])
  BY <1>2, <1>3 DEF IInv
<1>5. OneAttempt'
  BY <1>2, <1>3 DEF IInv, OneAttempt
<1> QED BY <1>2, <1>4, <1>5 DEF IInv

\* An attempt that is handled is followed by a new one.
LEMMA Followed ==
  ASSUME IInv, NEW k \in DOMAIN attempts, UnderWay(k), NEW a, Sound(a), a.outcome = "handled",
         NEW c \in Int,
         attempts' = Append([attempts EXCEPT ![k] = a], NewAttempt(c))
  PROVE  IInv'
<1> DEFINE n == NewAttempt(c)
<1> DEFINE s == [attempts EXCEPT ![k] = a]
<1>1. a \in AnyAttempt /\ Sound(n) /\ n \in AnyAttempt
  BY SoundNew DEF Sound
<1>2. s \in Seq(AnyAttempt) /\ Len(s) = Len(attempts) /\ DOMAIN s = DOMAIN attempts
      /\ Len(s) \in Nat
  BY <1>1 DEF IInv
<1>3. \A j \in DOMAIN attempts : s[j] = IF j = k THEN a ELSE attempts[j]
  BY DEF IInv
<1> HIDE DEF n, s
<1>4. attempts' = Append(s, n)
  BY DEF n, s
<1>5. attempts' \in Seq(AnyAttempt) /\ Len(attempts') = Len(attempts) + 1
  BY ONLY <1>1, <1>2, <1>4, Appended
<1>6. \A j \in DOMAIN attempts' :
        attempts'[j] = IF j = Len(attempts) + 1 THEN n ELSE s[j]
  BY ONLY <1>1, <1>2, <1>4, <1>5, Appended
<1>7. \A j \in DOMAIN attempts' : j = Len(attempts) + 1 \/ j \in DOMAIN attempts
  BY <1>5 DEF IInv
<1>8. \A j \in DOMAIN attempts' : Sound(attempts'[j])
  BY <1>1, <1>3, <1>6, <1>7 DEF IInv
<1>9. k = Len(attempts)
  BY DEF IInv, OneAttempt
<1>10. \A j \in DOMAIN attempts : s[j].outcome = "handled"
  BY <1>3, <1>9 DEF IInv, OneAttempt
<1>11. OneAttempt'
  BY <1>5, <1>6, <1>7, <1>10 DEF OneAttempt
<1> QED BY <1>5, <1>8, <1>11 DEF IInv

LEMMA Initially == ASSUME Init PROVE IInv
BY DEF Init, IInv, OneAttempt

\* Every step keeps the invariant.
LEMMA Inductive == ASSUME IInv, [Next]_vars PROVE IInv'
<1>1. CASE init /\ candidates = <<>>
  BY <1>1 DEF init, IInv, OneAttempt
<1>2. CASE init /\ candidates # <<>>
  <2>1. attempts' = <<NewAttempt(1)>> /\ Sound(NewAttempt(1))
    BY <1>2, SoundNew DEF init
  <2> DEFINE n == NewAttempt(1)
  <2> HIDE DEF n
  <2>2. attempts' = <<n>> /\ Sound(n) /\ n \in AnyAttempt
    BY <2>1 DEF n, Sound
  <2> QED BY <2>2 DEF IInv, OneAttempt
<1>3. CASE handle_listener_accept
  BY <1>3 DEF handle_listener_accept, IInv, OneAttempt
<1>4. ASSUME NEW k \in DOMAIN attempts, Outcome(k) PROVE IInv'
  <2>1. PICK o \in {"connected", "refused"} \cup (IF attempts[k].cancelled THEN {"cancelled"} ELSE {}) :
          attempts' = [attempts EXCEPT ![k].outcome = o]
    BY <1>4 DEF Outcome
  <2> DEFINE a == [attempts[k] EXCEPT !.outcome = o]
  <2>2. Sound(attempts[k]) /\ attempts[k].outcome = "none"
    BY <1>4 DEF IInv, Outcome
  <2>3. Sound(a)
    BY <2>2, SoundOutcome
  <2>4. attempts' = [attempts EXCEPT ![k] = a]
    BY <2>1
  <2>5. UnderWay(k)
    BY <2>2
  <2> HIDE DEF a
  <2> QED BY <2>3, <2>4, <2>5, Replaced
<1>5. ASSUME NEW k \in DOMAIN attempts, connect_cancel_timeout(k) PROVE IInv'
  <2>1. attempts[k].timer = "set" /\ attempts' = Cancel(k) /\ Sound(attempts[k])
    BY <1>5 DEF connect_cancel_timeout, IInv
  <2>2. UnderWay(k)
    BY <2>1 DEF Sound
  <2>3. k = Len(attempts)
    BY <2>2 DEF IInv, OneAttempt
  <2> DEFINE b == TRUE
  <2>4. b \in BOOLEAN /\ b = TRUE
    OBVIOUS
  <2>5. Cancel(k) = [attempts EXCEPT ![k].refs = @ - 1, ![k].timer = "fired", ![k].cancelled = b]
    BY <2>3, Zenon DEF Cancel
  <2> DEFINE a == [attempts[k] EXCEPT !.refs = @ - 1, !.timer = "fired", !.cancelled = b]
  <2> HIDE DEF b
  <2>6. Sound(a)
    BY <2>1, <2>4, SoundCancelled
  <2>7. attempts' = [attempts EXCEPT ![k] = a]
    BY <2>1, <2>5
  <2> HIDE DEF a
  <2> QED BY <2>2, <2>6, <2>7, Replaced
<1>6. ASSUME NEW k \in DOMAIN attempts, handle_client_connect(k) PROVE IInv'
  <2>1. attempts[k].outcome \in {"connected", "refused", "cancelled"}
    BY <1>6 DEF handle_client_connect
  <2>2. PICK o \in {attempts[k].outcome} \cup (IF attempts[k].cancelled THEN {"cancelled"} ELSE {}) :
          connect_next_candidate(k, o)
    BY <1>6 DEF handle_client_connect
  <2>3. Sound(attempts[k]) /\ UnderWay(k)
    BY <2>1 DEF IInv
  <2>4. o \in {"connected", "refused", "cancelled"} /\ (o = "cancelled" => attempts[k].cancelled)
    BY <2>1, <2>3 DEF Sound
  <2> DEFINE a == Handled(k, o)
  <2>5. Sound(a) /\ a.outcome = "handled"
    BY <2>3, <2>4, SoundHandled
  <2>6. attempts[k].cand + 1 \in Int
    BY <2>3 DEF Sound, AnyAttempt
  <2>7. \/ attempts' = [attempts EXCEPT ![k] = a]
        \/ attempts' = Append([attempts EXCEPT ![k] = a], NewAttempt(attempts[k].cand + 1))
    BY <2>2 DEF connect_next_candidate
  <2> HIDE DEF a
  <2>8. CASE attempts' = [attempts EXCEPT ![k] = a]
    BY <2>5, <2>8, Replaced
  <2>9. CASE attempts' = Append([attempts EXCEPT ![k] = a], NewAttempt(attempts[k].cand + 1))
    BY <2>3, <2>5, <2>6, <2>9, Followed
  <2> QED BY <2>7, <2>8, <2>9
<1>7. CASE UNCHANGED vars
  BY <1>7 DEF vars, IInv, OneAttempt
<1> QED BY <1>1, <1>2, <1>3, <1>4, <1>5, <1>6, <1>7 DEF Next

LEMMA Invariant == Spec => []IInv
<1>1. Init => IInv
  BY Initially
<1>2. IInv /\ [Next]_vars => IInv'
  BY Inductive
<1> QED BY <1>1, <1>2, PTL DEF Spec

\* One attempt is under way at a time, however timers, outcomes and callbacks
\* interleave (connect_next_candidate, handle_client_connect).
THEOREM OneAtATime == Spec => []OneAttempt
<1>1. IInv => OneAttempt
  BY DEF IInv
<1> QED BY <1>1, Invariant, PTL

\* A timer that can still fire belongs to the attempt under way, and an attempt is
\* cancelled by its own timer only (connect_cancel_timeout).
THEOREM TimersKeepToTheirs == Spec => []TimerOfAttempt
<1>1. IInv => TimerOfAttempt
  BY DEF IInv, TimerOfAttempt, Sound
<1> QED BY <1>1, Invariant, PTL

\* The args of an attempt are held by as many as their count says, unless the
\* attempt ended by itself after its timer (g_ptr_array_unref in both callbacks).
THEOREM ArgsAreCounted == Spec => []ArgsCounted
<1>1. IInv => ArgsCounted
  BY DEF IInv, ArgsCounted, Sound, Holders
<1> QED BY <1>1, Invariant, PTL

-----------------------------------------------------------------------------
(* The candidates *)

Usable == {i \in DOMAIN elements : elements[i].usable}

\* A list of all that can be used, by priority.
Sorts(list) ==
  /\ list \in [1 .. Cardinality(Usable) -> Usable]
  /\ \A i, j \in 1 .. Cardinality(Usable) : i < j => Before(list[i], list[j])

Parsed == elements \in Seq(Element) /\ Len(elements) <= MaxCandidates

LEMMA UsableFinite ==
  ASSUME Parsed
  PROVE  /\ IsFiniteSet(Usable) /\ Cardinality(Usable) \in Nat
         /\ Cardinality(Usable) <= MaxCandidates
         /\ Usable \subseteq 1 .. MaxCandidates
<1>1. IsFiniteSet(1 .. MaxCandidates) /\ Cardinality(1 .. MaxCandidates) = MaxCandidates
  BY FS_Interval, BoundAssumption DEF BoundAssumption
<1>2. Usable \in SUBSET (1 .. MaxCandidates)
  BY BoundAssumption DEF Parsed, Usable, BoundAssumption
<1> HIDE DEF Usable
<1>3. IsFiniteSet(Usable) /\ Cardinality(Usable) <= Cardinality(1 .. MaxCandidates)
  BY <1>1, <1>2, FS_Subset
<1>4. Cardinality(Usable) \in Nat
  BY <1>3, FS_CardinalityType
<1> QED BY <1>1, <1>2, <1>3, <1>4

\* prioritycmp with the place in the list orders the candidates strictly.
LEMMA BeforeOrders ==
  ASSUME Parsed
  PROVE  /\ \A i, j \in Usable : Before(i, j) => ~Before(j, i) /\ i # j
         /\ \A i, j \in Usable : i # j => Before(i, j) \/ Before(j, i)
         /\ \A i, j, k \in Usable : Before(i, j) /\ Before(j, k) => Before(i, k)
<1>1. \A i \in Usable : i \in Nat /\ elements[i].priority \in Nat
  <2>1. \A i \in DOMAIN elements : i \in Nat /\ elements[i] \in Element
    BY DEF Parsed
  <2>2. \A i \in DOMAIN elements : elements[i].priority \in Priorities
    BY <2>1 DEF Element
  <2> QED BY <2>1, <2>2, PrioritiesAssumption DEF Usable, PrioritiesAssumption
<1> QED BY <1>1 DEF Before

\* A sorted list can be made: each candidate has as its place the number of those
\* that come before it.
LEMMA Sortable == ASSUME Parsed PROVE \E list : Sorts(list)
<1> DEFINE n == Cardinality(Usable)
           Earlier(i) == {j \in Usable : Before(j, i)}
           place == [i \in Usable |-> Cardinality(Earlier(i)) + 1]
<1>1. IsFiniteSet(Usable) /\ n \in Nat
  BY UsableFinite
<1>2. ASSUME NEW i \in Usable
      PROVE  /\ IsFiniteSet(Earlier(i)) /\ Cardinality(Earlier(i)) \in Nat
             /\ Cardinality(Earlier(i)) + 1 \in 1 .. n
  <2>1. Earlier(i) \in SUBSET (Usable \ {i})
    BY BeforeOrders
  <2>2. IsFiniteSet(Usable \ {i}) /\ Cardinality(Usable \ {i}) = n - 1
    BY <1>1, FS_RemoveElement
  <2> DEFINE T == Earlier(i)
             others == Usable \ {i}
  <2>3. T \in SUBSET others /\ IsFiniteSet(others) /\ Cardinality(others) = n - 1
    BY <2>1, <2>2
  <2> HIDE DEF T, others
  <2>4. IsFiniteSet(T) /\ Cardinality(T) <= n - 1
    BY <2>3, FS_Subset
  <2>5. Cardinality(T) \in Nat
    BY <2>4, FS_CardinalityType
  <2>6. Cardinality(T) + 1 \in 1 .. n
    BY <1>1, <2>4, <2>5
  <2> QED BY <2>4, <2>5, <2>6 DEF T
<1>3. ASSUME NEW i \in Usable, NEW j \in Usable, Before(i, j) PROVE place[i] < place[j]
  <2> DEFINE S == Earlier(i)
             T == Earlier(j)
  <2>1. S \in SUBSET T /\ i \in T /\ i \notin S
    BY <1>3, BeforeOrders
  <2>2. IsFiniteSet(T) /\ Cardinality(T) \in Nat /\ Cardinality(S) \in Nat
    BY <1>2
  <2>3. place[i] = Cardinality(S) + 1 /\ place[j] = Cardinality(T) + 1
    OBVIOUS
  <2> HIDE DEF S, T, place
  <2>4. Cardinality(S) <= Cardinality(T) /\ (Cardinality(T) = Cardinality(S) => T = S)
    BY <2>1, <2>2, FS_Subset
  <2>5. Cardinality(S) # Cardinality(T)
    BY <2>1, <2>4
  <2> QED BY <2>2, <2>3, <2>4, <2>5
<1>4. place \in [Usable -> 1 .. n]
  BY <1>2
<1> HIDE DEF place
<1>5. ASSUME NEW i \in Usable, NEW j \in Usable, place[i] = place[j] PROVE i = j
  <2>1. place[i] \in Int
    BY <1>4
  <2>2. ~(place[i] < place[j]) /\ ~(place[j] < place[i])
    BY <1>5, <2>1
  <2> QED BY <1>3, <2>2, BeforeOrders
<1>6. place \in Surjection(Usable, 1 .. n)
  <2> DEFINE places == 1 .. n
  <2>1. IsFiniteSet(places) /\ Cardinality(places) = n
    BY <1>1, FS_Interval
  <2>2. place \in Injection(Usable, places)
    BY <1>4, <1>5 DEF Injection, IsInjective
  <2> HIDE DEF places
  <2>3. Cardinality(Usable) = Cardinality(places)
    BY <2>1
  <2>4. place \in Surjection(Usable, places)
    BY <2>1, <2>2, <2>3, FS_Injection
  <2> QED BY <2>4 DEF places
<1>7. \A p \in 1 .. n : \E i \in Usable : place[i] = p
  BY <1>6 DEF Surjection
<1> DEFINE list == [p \in 1 .. n |-> CHOOSE i \in Usable : place[i] = p]
<1>8. \A p \in 1 .. n : list[p] \in Usable /\ place[list[p]] = p
  BY <1>7
<1>9. list \in [1 .. n -> Usable]
  BY <1>7
<1> HIDE DEF list
<1>10. ASSUME NEW p \in 1 .. n, NEW q \in 1 .. n, p < q PROVE Before(list[p], list[q])
  <2>1. list[p] # list[q]
    BY <1>8, <1>10
  <2>2. ~Before(list[q], list[p])
    <3>1. ~(q < p)
      BY <1>10
    <3> QED BY <1>3, <1>8, <3>1
  <2> QED BY <1>8, <2>1, <2>2, BeforeOrders
<1>11. Sorts(list)
  BY <1>9, <1>10 DEF Sorts
<1> QED BY <1>11

\* It is a list of places in the message, no longer than the bound.
LEMMA SortedList ==
  ASSUME Parsed, NEW list, Sorts(list)
  PROVE  /\ list \in Seq(1 .. MaxCandidates) /\ Len(list) = Cardinality(Usable)
         /\ DOMAIN list = 1 .. Cardinality(Usable)
<1> DEFINE n == Cardinality(Usable)
           places == 1 .. MaxCandidates
<1>1. n \in Nat /\ Usable \subseteq places /\ list \in [1 .. n -> Usable]
  BY UsableFinite DEF Sorts
<1> HIDE DEF n, places
<1>2. list \in [1 .. n -> places]
  BY <1>1
<1>3. list \in Seq(places) /\ Len(list) = n /\ DOMAIN list = 1 .. n
  BY <1>1, <1>2
<1> QED BY <1>3 DEF n, places

\* A sorted list has every candidate that can be used.
LEMMA SortsAll ==
  ASSUME Parsed, NEW list, Sorts(list)
  PROVE  \A i \in Usable : \E p \in 1 .. Cardinality(Usable) : list[p] = i
<1> DEFINE n == Cardinality(Usable)
           places == 1 .. n
<1>1. IsFiniteSet(Usable) /\ n \in Nat
  BY UsableFinite
<1>2. \A p, q \in places : p < q => list[p] # list[q]
  <2>1. \A p, q \in places : p < q => Before(list[p], list[q]) /\ list[p] \in Usable /\ list[q] \in Usable
    BY DEF Sorts
  <2> QED BY <2>1, BeforeOrders
<1>3. \A p, q \in places : p < q \/ q < p \/ p = q
  OBVIOUS
<1>4. list \in [places -> Usable]
  BY DEF Sorts
<1>5. list \in Injection(places, Usable)
  BY <1>2, <1>3, <1>4 DEF Injection, IsInjective
<1>6. IsFiniteSet(places) /\ Cardinality(places) = n
  BY <1>1, FS_Interval
<1> HIDE DEF places
<1>7. list \in Surjection(places, Usable)
  BY <1>1, <1>5, <1>6, FS_Injection
<1> QED BY <1>7 DEF Surjection, places

-----------------------------------------------------------------------------
(* The order of the attempts *)

\* What parse_candidates made of the message, which nothing changes.
Prepared ==
  /\ Parsed
  /\ candidates \in Seq(1 .. MaxCandidates)
  /\ candidates = <<>> \/ Sorts(candidates)

\* Attempt k is to the candidate at place k.
InTurn ==
  /\ \A k \in DOMAIN attempts : attempts[k].cand = k
  /\ Len(attempts) <= Len(candidates)

OInv ==
  /\ IInv /\ Prepared /\ InTurn
  /\ started \in BOOLEAN /\ accepting \in BOOLEAN /\ aborted \in BOOLEAN

\* A message has as many children as the bound allows.
LEMMA Received ==
  ASSUME elements \in BoundedSeq(Element, MaxCandidates)
  PROVE  Parsed
<1>1. PICK m \in 0 .. MaxCandidates : elements \in [1 .. m -> Element]
  BY DEF BoundedSeq, SeqOf
<1> QED BY <1>1, BoundAssumption DEF Parsed, BoundAssumption

LEMMA OInitially == ASSUME Init PROVE OInv
<1>1. Parsed
  BY Received DEF Init
<1>2. PICK name \in NodeNames : candidates = parse_candidates(name)
  BY DEF Init
<1>3. candidates = <<>> \/ candidates = CHOOSE list : Sorts(list)
  <2>1. (CHOOSE list \in [1 .. Cardinality(Usable) -> Usable] :
           \A i, j \in 1 .. Cardinality(Usable) : i < j => Before(list[i], list[j]))
        = CHOOSE list : Sorts(list)
    BY DEF Sorts
  <2> QED BY <1>2, <2>1 DEF parse_candidates, Usable
<1>4. candidates = <<>> \/ Sorts(candidates)
  BY <1>1, <1>3, Sortable
<1>5. candidates \in Seq(1 .. MaxCandidates)
  <2>1. <<>> \in Seq(1 .. MaxCandidates)
    OBVIOUS
  <2> QED BY <1>1, <1>4, <2>1, SortedList
<1>6. IInv
  BY Initially
<1>7. InTurn
  BY <1>5 DEF Init, InTurn
<1> QED BY <1>1, <1>4, <1>5, <1>6, <1>7 DEF OInv, Prepared, Init

\* A step that leaves the places of the attempts as they were.
LEMMA SameTurns ==
  ASSUME InTurn, IInv, UNCHANGED candidates, attempts' \in Seq(AnyAttempt),
         Len(attempts') = Len(attempts),
         \A k \in DOMAIN attempts : attempts'[k].cand = attempts[k].cand
  PROVE  InTurn'
BY DEF InTurn, IInv

LEMMA OInductive == ASSUME OInv, [Next]_vars PROVE OInv'
<1>1. IInv /\ IInv'
  BY Inductive DEF OInv
<1>2. UNCHANGED <<elements, candidates>>
  BY DEF Next, vars, init, handle_listener_accept, Outcome, connect_cancel_timeout,
         handle_client_connect
<1>3. Prepared'
  BY <1>2 DEF OInv, Prepared, Parsed, Sorts, Usable, Before
<1>4. /\ started' \in BOOLEAN /\ accepting' \in BOOLEAN /\ aborted' \in BOOLEAN
  BY DEF OInv, Next, vars, init, handle_listener_accept, Outcome, connect_cancel_timeout,
         handle_client_connect, connect_next_candidate
<1>5. InTurn'
  <2>1. CASE init
    <3>1. candidates \in Seq(1 .. MaxCandidates)
      BY DEF OInv, Prepared
    <3>2. CASE candidates = <<>>
      BY <1>2, <2>1, <3>1, <3>2 DEF init, InTurn
    <3>3. CASE candidates # <<>>
      <4>1. attempts' = <<NewAttempt(1)>> /\ NewAttempt(1).cand = 1
        BY <2>1, <3>3 DEF init, NewAttempt
      <4>2. Len(candidates) >= 1
        BY <3>1, <3>3
      <4> DEFINE a == NewAttempt(1)
      <4>3. attempts' = <<a>> /\ a.cand = 1
        BY <4>1
      <4> HIDE DEF a
      <4> QED BY <1>2, <4>2, <4>3 DEF InTurn
    <3> QED BY <3>2, <3>3
  <2>2. CASE handle_listener_accept
    BY <1>2, <2>2 DEF handle_listener_accept, OInv, InTurn
  <2>3. ASSUME NEW k \in DOMAIN attempts, Outcome(k) PROVE InTurn'
    <3>1. PICK o \in Outcomes : attempts' = [attempts EXCEPT ![k].outcome = o]
      BY <2>3 DEF Outcome, Outcomes
    <3>2. \A j \in DOMAIN attempts : attempts[j] \in AnyAttempt
      BY <1>1 DEF IInv
    <3>3. \A j \in DOMAIN attempts : attempts'[j].cand = attempts[j].cand
      BY <3>1, <3>2 DEF AnyAttempt
    <3>4. DOMAIN attempts' = DOMAIN attempts
      BY <3>1
    <3> QED BY <1>1, <1>2, <3>3, <3>4, SameTurns DEF OInv, IInv
  <2>4. ASSUME NEW k \in DOMAIN attempts, connect_cancel_timeout(k) PROVE InTurn'
    <3>1. attempts' = Cancel(k) /\ Len(attempts) \in DOMAIN attempts
      BY <1>1, <2>4 DEF connect_cancel_timeout, IInv
    <3>2. \A j \in DOMAIN attempts : attempts[j] \in AnyAttempt
      BY <1>1 DEF IInv
    <3>3. \A j \in DOMAIN attempts : attempts'[j].cand = attempts[j].cand
      BY <3>1, <3>2 DEF AnyAttempt, Cancel
    <3>4. DOMAIN attempts' = DOMAIN attempts
      BY <3>1 DEF Cancel
    <3> QED BY <1>1, <1>2, <3>3, <3>4, SameTurns DEF OInv, IInv
  <2>5. ASSUME NEW k \in DOMAIN attempts, handle_client_connect(k) PROVE InTurn'
    <3>1. attempts[k].outcome \in {"connected", "refused", "cancelled"}
      BY <2>5 DEF handle_client_connect
    <3>2. PICK o : connect_next_candidate(k, o)
      BY <2>5 DEF handle_client_connect
    <3>3. k = Len(attempts) /\ attempts[k] \in AnyAttempt /\ attempts[k].cand = k
      BY <1>1, <3>1 DEF IInv, OneAttempt, OInv, InTurn
    <3> DEFINE a == Handled(k, o)
               s == [attempts EXCEPT ![k] = a]
    <3>4. a.cand = k
      BY <3>3 DEF Handled, AnyAttempt
    <3> HIDE DEF a
    <3>5. Len(s) = Len(attempts) /\ DOMAIN s = DOMAIN attempts /\ \A j \in DOMAIN attempts : s[j].cand = j
      BY <1>1, <3>4 DEF IInv, OInv, InTurn
    <3>6. CASE attempts' = s
      BY <1>2, <3>5, <3>6 DEF OInv, InTurn
    <3>7. CASE attempts' # s
      <4>1. attempts' = Append(s, NewAttempt(k + 1)) /\ k # Len(candidates)
        BY <3>2, <3>3, <3>7 DEF connect_next_candidate, a
      <4> DEFINE n == NewAttempt(k + 1)
      <4>2. n.cand = k + 1
        BY DEF NewAttempt
      <4> HIDE DEF n, s
      <4>3. DOMAIN attempts' = DOMAIN s \cup {k + 1} /\ Len(attempts') = k + 1
              /\ attempts'[k + 1] = n /\ \A j \in DOMAIN s : attempts'[j] = s[j]
        BY <1>1, <3>3, <3>5, <4>1 DEF n, IInv, s
      <4>4. \A j \in DOMAIN attempts' : attempts'[j].cand = j
        BY <3>5, <4>2, <4>3
      <4>5. Len(attempts') <= Len(candidates)
        BY <3>3, <4>1, <4>3 DEF OInv, InTurn, Prepared
      <4> QED BY <1>2, <4>4, <4>5 DEF InTurn
    <3> QED BY <3>6, <3>7
  <2>6. CASE UNCHANGED vars
    BY <2>6 DEF vars, OInv, InTurn
  <2> QED BY <2>1, <2>2, <2>3, <2>4, <2>5, <2>6 DEF Next
<1> QED BY <1>1, <1>3, <1>4, <1>5 DEF OInv

LEMMA OInvariant == Spec => []OInv
<1>1. Init => OInv
  BY OInitially
<1>2. OInv /\ [Next]_vars => OInv'
  BY OInductive
<1> QED BY <1>1, <1>2, PTL DEF Spec

\* No attempt is made to what is no candidate: not after the last one either
\* (connect_next_candidate).
THEOREM TypesKept == Spec => []TypeOK
<1>1. ASSUME OInv PROVE TypeOK
  <2>1. candidates \in Seq(1 .. MaxCandidates) /\ Len(candidates) <= MaxCandidates
    <3>1. Parsed /\ (candidates = <<>> \/ Sorts(candidates)) /\ candidates \in Seq(1 .. MaxCandidates)
      BY <1>1 DEF OInv, Prepared
    <3>2. Len(<<>>) = 0 /\ 0 <= MaxCandidates
      BY BoundAssumption DEF BoundAssumption
    <3> QED BY <3>1, <3>2, UsableFinite, SortedList
  <2>2. \A k \in DOMAIN attempts : /\ attempts[k] \in AnyAttempt /\ attempts[k].cand = k
                                   /\ k \in 1 .. Len(attempts)
    BY <1>1 DEF OInv, IInv, Sound, InTurn
  <2>3. Len(attempts) <= Len(candidates) /\ Len(attempts) \in Nat /\ Len(candidates) \in Nat
    BY <1>1, <2>1 DEF OInv, IInv, InTurn
  <2>4. \A k \in DOMAIN attempts : attempts[k].cand \in 1 .. MaxCandidates /\ attempts[k].cand <= Len(candidates)
    BY <2>1, <2>2, <2>3, BoundAssumption DEF BoundAssumption
  <2>5. \A k \in DOMAIN attempts : attempts[k] \in Attempt
    BY <2>2, <2>4 DEF Attempt, AnyAttempt
  <2>6. attempts \in Seq(Attempt)
    BY <1>1, <2>5 DEF OInv, IInv
  <2> QED BY <1>1, <2>1, <2>4, <2>6 DEF OInv, Prepared, Parsed, TypeOK
<1> QED BY <1>1, OInvariant, PTL

\* The candidates are tried by priority, none twice, and none before a better one
\* (prioritycmp, the sorted list, connect_next_candidate).
THEOREM BestAreFirst == Spec => []BestFirst
<1>1. ASSUME OInv PROVE BestFirst
  <2> DEFINE Place(k) == candidates[attempts[k].cand]
  <2>1. SUFFICES ASSUME NEW k \in DOMAIN attempts
                 PROVE  /\ elements[Place(k)].usable
                        /\ \A i \in DOMAIN elements :
                             elements[i].usable /\ elements[i].priority > elements[Place(k)].priority =>
                               \E j \in 1 .. k - 1 : Place(j) = i
                        /\ \A j \in 1 .. k - 1 : Place(j) # Place(k)
    BY DEF BestFirst
  <2> DEFINE n == Cardinality(Usable)
  <2>2. Parsed /\ Sorts(candidates) /\ n \in Nat /\ Len(candidates) = n
    <3>1. candidates # <<>> /\ Parsed
      BY <1>1 DEF OInv, IInv, InTurn, Prepared
    <3>2. Sorts(candidates)
      BY <1>1, <3>1 DEF OInv, Prepared
    <3> QED BY <3>1, <3>2, UsableFinite, SortedList
  <2>3. /\ \A j \in 1 .. k : Place(j) = candidates[j] /\ j \in 1 .. n
        /\ k \in Nat /\ k \in 1 .. k
    BY <1>1, <2>2 DEF OInv, IInv, InTurn
  <2>4. \A i, j \in 1 .. n : i < j => Before(candidates[i], candidates[j])
    BY <2>2 DEF Sorts
  <2>5. \A j \in 1 .. n : candidates[j] \in Usable
    BY <2>2 DEF Sorts
  <2>6. \A i \in Usable : i \in Nat /\ elements[i].priority \in Nat /\ elements[i].usable
    <3>1. \A i \in DOMAIN elements : i \in Nat /\ elements[i] \in Element
      BY <2>2 DEF Parsed
    <3>2. \A i \in DOMAIN elements : elements[i].priority \in Priorities
      BY <3>1 DEF Element
    <3> QED BY <3>1, <3>2, PrioritiesAssumption DEF Usable, PrioritiesAssumption
  <2>7. k \in 1 .. n /\ Place(k) = candidates[k] /\ candidates[k] \in Usable /\ elements[Place(k)].usable
    BY <2>3, <2>5, <2>6, Zenon
  <2>8. ASSUME NEW i \in Usable, elements[i].priority > elements[Place(k)].priority
        PROVE  \E j \in 1 .. k - 1 : Place(j) = i
    <3>1. PICK p \in 1 .. n : candidates[p] = i
      BY <2>2, SortsAll
    <3>2. k # p
      <4>1. elements[i].priority \in Nat
        BY <2>6
      <4> QED BY <2>7, <2>8, <3>1, <4>1
    <3>3. ~(k < p)
      <4> DEFINE c == candidates[k]
      <4>1. c \in Usable /\ elements[i].priority > elements[c].priority
        BY <2>7, <2>8
      <4>2. elements[c].priority \in Nat /\ elements[i].priority \in Nat
        BY <2>6, <4>1
      <4>3. k < p => Before(c, i)
        BY <2>4, <2>7, <3>1
      <4> HIDE DEF c
      <4>4. ~Before(c, i)
        BY <4>1, <4>2 DEF Before
      <4> QED BY <4>3, <4>4
    <3>4. p \in 1 .. k - 1 /\ p \in 1 .. k
      BY <2>2, <2>3, <2>7, <3>2, <3>3
    <3> QED BY <2>3, <3>1, <3>4, Zenon
  <2>9. ASSUME NEW j \in 1 .. k - 1 PROVE Place(j) # Place(k)
    <3>1. Before(candidates[j], candidates[k])
      BY <2>3, <2>4
    <3> QED BY <2>2, <2>3, <2>5, <3>1, BeforeOrders
  <2> QED BY <2>7, <2>8, <2>9 DEF Usable
<1> QED BY <1>1, OInvariant, PTL
=============================================================================
