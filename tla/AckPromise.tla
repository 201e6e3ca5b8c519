----------------------------- MODULE AckPromise -----------------------------
(***************************************************************************)
(* The callbacks of the requests we send, whatever keeps track of them: a  *)
(* request waits until a response comes or, if it has a timeout, none came *)
(* in time.  jingle.h says no more than this one callback, AtMostOnce.     *)
(* AnswerAgain is what it does not say: the answer that comes after the    *)
(* timeout calls back once more, or ends the process.                      *)
(***************************************************************************)
EXTENDS Naturals, Sequences

CONSTANTS
  Requests,      \* the requests ever sent
  Timed          \* those given a timeout

VARIABLES
  asked,         \* the requests made so far
  calls,         \* the callbacks made for each, in order
  running        \* the program has not crashed

vars == <<asked, calls, running>>

Init == asked = {} /\ calls = [r \in Requests |-> <<>>] /\ running = TRUE

Waiting == {r \in asked : calls[r] = <<>>}

CallBack(S, why) ==
  /\ calls' = [r \in Requests |-> IF r \in S THEN Append(calls[r], why) ELSE calls[r]]
  /\ UNCHANGED asked

Ask(r) == r \notin asked /\ asked' = asked \cup {r} /\ UNCHANGED <<calls, running>>

Answer(r) == r \in Waiting /\ CallBack({r}, "response") /\ UNCHANGED running

\* Several may expire in one visit of the checker, which may be its last.
Expire ==
  /\ \E S \in SUBSET (Waiting \cap Timed) : CallBack(S, "timeout")
  /\ running' \in BOOLEAN

AnswerAgain(r) ==
  /\ calls[r] = <<"timeout">> /\ running' \in BOOLEAN
  /\ \/ CallBack({r}, "response")
     \/ UNCHANGED <<asked, calls>>

Next == running /\ (Expire \/ \E r \in Requests : Ask(r) \/ Answer(r) \/ AnswerAgain(r))

Spec == Init /\ [][Next]_vars

\* A request with a timeout does not wait for ever.
Resolved == \A r \in Timed : r \in Waiting ~> r \notin Waiting \/ ~running

\* A request is called back once, with a response or because none came.
AtMostOnce == \A r \in Requests : Len(calls[r]) <= 1
=============================================================================
