---------------------------- MODULE AckHandlers ----------------------------
(***************************************************************************)
(* The list ack_handlers of jingle.c beside the table of pending replies   *)
(* that loudmouth keeps: jingle_new_ack_handler enters a handle in both,   *)
(* jingle_handle_ack_iq takes it out of both, jingle_ack_timeout_checker   *)
(* takes it out of the list only.                                          *)
(***************************************************************************)
EXTENDS Naturals, Sequences, SequencesExt

CONSTANTS
  Requests,      \* handles ever made
  Timed,         \* those with a timeout: session-initiate and session-accept
  Patience       \* the timeout, in visits of the checker

ASSUME TimedAssumption    == Timed \subseteq Requests
ASSUME PatienceAssumption == Patience \in Nat \ {0}

VARIABLES
  ack_handlers,  \* the list, oldest first
  table,         \* what loudmouth would call on a reply
  age,           \* how long ago each handle was inserted, up to Patience
  calls,         \* the callbacks made for each handle, in order
  running        \* no undefined behaviour has stopped the process

vars == <<ack_handlers, table, age, calls, running>>

\* Faulty: the handle is freed and stays in the list.
Unlink_Not(S) == ack_handlers

\* jingle_ack_handler_free, of a set of handles.
Unlink(S) ==
  LET kept[i \in 0 .. Len(ack_handlers)] ==
        IF i = 0 THEN <<>>
        ELSE IF ack_handlers[i] \in S THEN kept[i - 1]
        ELSE Append(kept[i - 1], ack_handlers[i])
  IN kept[Len(ack_handlers)]

Init ==
  /\ ack_handlers = <<>> /\ table = {}
  /\ age = [r \in Requests |-> 0]
  /\ calls = [r \in Requests |-> <<>>]
  /\ running = TRUE

Listed == ToSet(ack_handlers)
Sent   == Listed \cup table \cup {r \in Requests : calls[r] # <<>>}

Call(S, why) == calls' = [r \in Requests |-> IF r \in S THEN Append(calls[r], why) ELSE calls[r]]

\* Faulty: entered by jingle_new_ack_handler and once more by its caller.
jingle_new_ack_handler_Twice(r) ==
  /\ r \notin Sent
  /\ ack_handlers' = ack_handlers \o <<r, r>>
  /\ table' = table \cup {r}
  /\ UNCHANGED <<age, calls, running>>

\* jingle_new_ack_handler and lm_connection_send_with_reply, which may fail.
jingle_new_ack_handler(r) ==
  /\ r \notin Sent
  /\ ack_handlers' = Append(ack_handlers, r)
  /\ table' \in {table, table \cup {r}}
  /\ UNCHANGED <<age, calls, running>>

\* The reply to a request whose handle is still in the list.
jingle_handle_ack_iq(r) ==
  /\ r \in table \cap Listed
  /\ Call({r}, "response")
  /\ ack_handlers' = Unlink({r}) /\ table' = table \ {r}
  /\ UNCHANGED <<age, running>>

\* The reply to a request whose handle was freed by the checker: the callback may
\* be read from the freed struct and run, the struct is freed again.
LateReply(r) ==
  /\ r \in table \ Listed
  /\ \/ Call({r}, "response") \/ UNCHANGED calls
  /\ table' = table \ {r} /\ running' \in BOOLEAN
  /\ UNCHANGED <<ack_handlers, age>>

\* The connection goes and loudmouth's table with it.
Disconnect ==
  /\ table # {} /\ table' = {}
  /\ UNCHANGED <<ack_handlers, age, calls, running>>

\* Faulty: only a handle loudmouth still knows can expire.
Expired_InTable == {r \in Listed \cap table : r \in Timed /\ age[r] = Patience}

\* Faulty: a handle without a timeout expires as well.
Expired_Untimed == {r \in Listed : age[r] = Patience}

\* The handles the checker finds overdue.
Expired == {r \in Listed : r \in Timed /\ age[r] = Patience}

\* The first of the list and its successor.
FirstTwo == {ack_handlers[i] : i \in {1, 2} \cap DOMAIN ack_handlers}

\* The walk stops when the list is empty; otherwise it reads the link it freed last,
\* and finds an end there or ends the process.
Walked(S) == running' \in IF Listed \subseteq S THEN {TRUE} ELSE BOOLEAN

\* jingle_ack_timeout_checker.  "prev" is the element before "el", except at the
\* head where it is "el" itself: when the head expires and the list does not
\* become empty the walk reads the successor of a freed link.  If that is still the
\* second element and it has expired too, the same link is read once more;
\* if it has not, the walk has a good "prev" again.
jingle_ack_timeout_checker ==
  LET head == Head(ack_handlers)
      Walk(S) == Call(S, "timeout") /\ ack_handlers' = Unlink(S)
  IN
  /\ ack_handlers # <<>>
  /\ age' = [r \in Requests |-> IF r \in Listed /\ age[r] < Patience THEN age[r] + 1 ELSE age[r]]
  /\ \/ head \notin Expired /\ Walk(Expired) /\ UNCHANGED running
     \/ head \in Expired /\ Walk({head}) /\ Walked({head})
     \/ /\ head \in Expired
        /\ \/ FirstTwo \subseteq Expired /\ Walk(FirstTwo) /\ Walked(FirstTwo)
           \/ ~(FirstTwo \subseteq Expired) /\ Walk(Expired) /\ UNCHANGED running
  /\ UNCHANGED table

Next ==
  /\ running
  /\ \/ \E r \in Requests : jingle_new_ack_handler(r) \/ jingle_handle_ack_iq(r) \/ LateReply(r)
     \/ Disconnect \/ jingle_ack_timeout_checker

Spec == Init /\ [][Next]_vars

\* The checker is a glib timer, set up with the first handle and never removed.
FairSpec == Spec /\ WF_vars(running /\ jingle_ack_timeout_checker)

-----------------------------------------------------------------------------
(* Properties *)

TypeOK ==
  /\ ack_handlers \in Seq(Requests) /\ IsInjective(ack_handlers)
  /\ table \subseteq Requests
  /\ age \in [Requests -> 0 .. Patience]
  /\ calls \in [Requests -> Seq({"response", "timeout"})]
  /\ running \in BOOLEAN

\* A handle that was called back is out of the list: the checker cannot call it
\* again.
CalledIsUnlisted == \A r \in Listed : calls[r] = <<>>

\* The list and the table implement the promise, with every callback that is made.
Promise == INSTANCE AckPromise WITH asked <- Listed \cup {r \in Requests : calls[r] # <<>>}

\* Every step is a step of the promise: a request waits from the moment it is made
\* until its callback, a response or, for those with a timeout, a timeout; and only
\* a reply that comes after the timeout can call back a second time.
KeepsPromise == Promise!Spec

\* A request with a timeout is called back, whatever is in the list before it.
PromiseResolved == Promise!Resolved

\* jingle.h: the callback is for the response or, when none came in time, for
\* JINGLE_ACK_TIMEOUT.  A late response calls it again, from a freed handle.
CalledOnce == Promise!AtMostOnce
=============================================================================
