----------------------------- MODULE S5bConnect -----------------------------
(***************************************************************************)
(* The connections of a SOCKS5 bytestream (s5b.c): the candidates of the   *)
(* peer are sorted by priority and tried one after the other.  An attempt  *)
(* is shared by two callbacks that hold the same reference-counted args:   *)
(* the one GIO calls with the outcome, and a timer of five seconds that    *)
(* cancels the attempt.                                                    *)
(*                                                                         *)
(* The candidates and their attempts are numbered: a candidate by the      *)
(* place of its element in the message, an attempt by the order in which   *)
(* it was made.  js5b->cancelconnect always belongs to the last attempt.   *)
(***************************************************************************)
EXTENDS Integers, Sequences, FiniteSets, SequencesExt

CONSTANTS
  NodeNames,       \* names of the element parse_candidates is called with
  Priorities,
  MaxCandidates    \* bound: children of that element

ASSUME PrioritiesAssumption == Priorities \subseteq Nat
ASSUME BoundAssumption      == MaxCandidates \in Nat

VARIABLES
  elements,        \* the children: a candidate that can be used, or not
  candidates,      \* js5b->candidates
  started,         \* init was called
  accepting,       \* we listen, and an incoming connection is waited for
  attempts,        \* the connection attempts, each with its args and its timer
  aborted          \* undefined behaviour has stopped the process

vars == <<elements, candidates, started, accepting, attempts, aborted>>

Element == [priority : Priorities, usable : BOOLEAN]
Attempt == [cand : 1 .. MaxCandidates,     \* its place in the list
            refs : Int,                    \* the reference count of args
            timer : {"set", "fired", "destroyed"},
            cancelled : BOOLEAN,
            outcome : {"none", "connected", "refused", "cancelled", "handled"},
            late : BOOLEAN]                \* history: an outcome of its own after the timer

-----------------------------------------------------------------------------
(* Candidates *)

\* Faulty: ascending.
Before_Ascending(i, j) ==
  \/ elements[i].priority < elements[j].priority
  \/ elements[i].priority = elements[j].priority /\ i > j

\* prioritycmp, and what a stable sort makes of a list built by prepending.
Before(i, j) ==
  \/ elements[i].priority > elements[j].priority
  \/ elements[i].priority = elements[j].priority /\ i > j

\* The loop asks for the name of the parent, which is not "candidate" when the
\* parent is the transport element.
parse_candidates(name) ==
  LET usable == {i \in DOMAIN elements : elements[i].usable}
      n == Cardinality(usable)
  IN IF name # "candidate" THEN <<>>
     ELSE CHOOSE list \in [1 .. n -> usable] :
            \A i, j \in 1 .. n : i < j => Before(list[i], list[j])

Init ==
  /\ elements \in BoundedSeq(Element, MaxCandidates)
  /\ \E name \in NodeNames : candidates = parse_candidates(name)
  /\ started = FALSE /\ accepting = FALSE
  /\ attempts = <<>>
  /\ aborted = FALSE

-----------------------------------------------------------------------------
(* Attempts *)

\* Faulty: the timer is given args without a reference of its own.
NewAttempt_Unshared(c) ==
  [cand |-> c, refs |-> 1, timer |-> "set", cancelled |-> FALSE, outcome |-> "none",
   late |-> FALSE]

\* connect_candidate: args are held by the outcome's callback and by the timer.
NewAttempt(c) ==
  [cand |-> c, refs |-> 2, timer |-> "set", cancelled |-> FALSE, outcome |-> "none",
   late |-> FALSE]

\* Each of our addresses gets a socket in the listener, or not; without any there is
\* nothing to accept from.  Then the first candidate is tried, if there is one.
init ==
  /\ ~started /\ started' = TRUE
  /\ accepting' \in BOOLEAN
  /\ attempts' = IF candidates # <<>> THEN <<NewAttempt(1)>> ELSE <<>>
  /\ UNCHANGED <<elements, candidates, aborted>>

\* The connection that comes in is not looked at, and no other waited for.
handle_listener_accept ==
  /\ accepting /\ accepting' = FALSE
  /\ UNCHANGED <<elements, candidates, started, attempts, aborted>>

\* GIO ends an attempt.  One that was cancelled may still have an outcome of its own.
Outcome(k) ==
  /\ attempts[k].outcome = "none"
  /\ \E o \in {"connected", "refused"} \cup (IF attempts[k].cancelled THEN {"cancelled"} ELSE {}) :
       attempts' = [attempts EXCEPT ![k].outcome = o]
  /\ UNCHANGED <<elements, candidates, started, accepting, aborted>>

\* Faulty: nothing is cancelled.
Cancel_Not(k) == [attempts EXCEPT ![k].refs = @ - 1, ![k].timer = "fired"]

\* Faulty: goes on to the next candidate without waiting for the outcome.
Cancel_Next(k) ==
  Append([attempts EXCEPT ![k].refs = @ - 1, ![k].timer = "fired", ![k].cancelled = TRUE],
         NewAttempt(Len(candidates)))

\* g_ptr_array_unref, and g_cancellable_cancel of the last attempt.
Cancel(k) ==
  [attempts EXCEPT ![k].refs = @ - 1, ![k].timer = "fired",
                   ![Len(attempts)].cancelled = TRUE]

\* The timer of attempt k.
connect_cancel_timeout(k) ==
  /\ attempts[k].timer = "set"
  /\ attempts' = Cancel(k)
  /\ UNCHANGED <<elements, candidates, started, accepting, aborted>>

\* Faulty: the timer is left to fire.
TimerAfter_Left(k) == attempts[k].timer

\* g_source_destroy, of a source that may be gone.
TimerAfter(k) == IF attempts[k].timer = "set" THEN "destroyed" ELSE attempts[k].timer

\* Attempt k once its callback is through with it.  An error other than CANCELLED,
\* and no error as well, is taken to mean that the timer still holds args.
Handled(k, o) ==
  IF o = "cancelled"
  THEN [attempts[k] EXCEPT !.refs = @ - 1, !.outcome = "handled"]
  ELSE [attempts[k] EXCEPT !.refs = @ - 2, !.outcome = "handled",
                           !.timer = TimerAfter(k), !.late = (attempts[k].timer = "fired")]

\* Faulty: does not ask whether there is a next one.
connect_next_candidate_Any(k, o) ==
  /\ attempts' = Append([attempts EXCEPT ![k] = Handled(k, o)], NewAttempt(attempts[k].cand + 1))
  /\ UNCHANGED aborted

\* connect_next_candidate: after the last one NULL is dereferenced.
connect_next_candidate(k, o) ==
  IF attempts[k].cand = Len(candidates)
  THEN attempts' = [attempts EXCEPT ![k] = Handled(k, o)] /\ aborted' = TRUE
  ELSE /\ attempts' = Append([attempts EXCEPT ![k] = Handled(k, o)],
                             NewAttempt(attempts[k].cand + 1))
       /\ aborted' \in IF Handled(k, o).late THEN BOOLEAN ELSE {FALSE}   \* args are used when freed

\* What g_socket_client_connect_finish reports once the attempt was cancelled may
\* be CANCELLED in place of its outcome.
handle_client_connect(k) ==
  /\ attempts[k].outcome \in {"connected", "refused", "cancelled"}
  /\ \E o \in {attempts[k].outcome} \cup (IF attempts[k].cancelled THEN {"cancelled"} ELSE {}) :
       connect_next_candidate(k, o)
  /\ UNCHANGED <<elements, candidates, started, accepting>>

Next ==
  /\ ~aborted
  /\ \/ init \/ handle_listener_accept
     \/ \E k \in DOMAIN attempts :
          Outcome(k) \/ connect_cancel_timeout(k) \/ handle_client_connect(k)

Spec == Init /\ [][Next]_vars

\* The main loop runs timers and callbacks, and GIO ends what was cancelled; the
\* network need not answer at all.
FairSpec ==
  /\ Spec
  /\ \A k \in 1 .. MaxCandidates :
       /\ WF_vars(~aborted /\ k \in DOMAIN attempts /\ connect_cancel_timeout(k))
       /\ WF_vars(~aborted /\ k \in DOMAIN attempts /\ attempts[k].cancelled /\ Outcome(k))
       /\ WF_vars(~aborted /\ k \in DOMAIN attempts /\ handle_client_connect(k))

-----------------------------------------------------------------------------
(* Properties *)

TypeOK ==
  /\ elements \in Seq(Element) /\ Len(elements) <= MaxCandidates
  /\ candidates \in Seq(1 .. MaxCandidates)
  /\ started \in BOOLEAN /\ accepting \in BOOLEAN /\ aborted \in BOOLEAN
  /\ attempts \in Seq(Attempt)
  /\ \A k \in DOMAIN attempts : attempts[k].cand <= Len(candidates)

UnderWay(k) == attempts[k].outcome # "handled"

\* One attempt is under way at a time: the next is made when the last was given
\* up, whatever became of it.
OneAttempt == \A k \in DOMAIN attempts : UnderWay(k) => k = Len(attempts)

\* A timer that can still fire belongs to the attempt that is under way: it cannot
\* cancel the attempt to another candidate.  So an attempt that was cancelled was
\* cancelled by its own timer.
TimerOfAttempt ==
  \A k \in DOMAIN attempts :
    /\ attempts[k].timer = "set" => UnderWay(k)
    /\ attempts[k].cancelled => attempts[k].timer = "fired"

\* The reference count of args is the number of callbacks still to come, so that
\* they are freed, once, by the last; unless an attempt ended by itself after its
\* timer had fired, when the callback takes the timer for pending.
Holders(k) == (IF UnderWay(k) THEN 1 ELSE 0) + (IF attempts[k].timer = "set" THEN 1 ELSE 0)
ArgsCounted ==
  \A k \in DOMAIN attempts : ~attempts[k].late => attempts[k].refs = Holders(k)

\* Candidates are tried in the order of their priority, none twice, and none is
\* tried before a better one that can be used.
BestFirst ==
  LET Place(k) == candidates[attempts[k].cand] IN
  \A k \in DOMAIN attempts :
    /\ elements[Place(k)].usable
    /\ \A i \in DOMAIN elements :
         elements[i].usable /\ elements[i].priority > elements[Place(k)].priority =>
           \E j \in 1 .. k - 1 : Place(j) = i
    /\ \A j \in 1 .. k - 1 : Place(j) # Place(k)

\* No attempt waits for the network: the timer ends it.
AttemptEnds ==
  \A k \in 1 .. MaxCandidates :
    k \in DOMAIN attempts ~> aborted \/ (k \in DOMAIN attempts /\ ~UnderWay(k))

=============================================================================
