-------------------------- MODULE TwoClientsProofs --------------------------
(***************************************************************************)
(* Theorems about two clients of this program that talk to each other, for *)
(* every file name, set of addresses and bound.                            *)
(***************************************************************************)
EXTENDS TwoClients, FiniteSetTheorems, TLAPS

\* What JingleProofs shows of a client, for Alice's and for Bob's.
PA == INSTANCE JingleProofs WITH
  Me <- Alice, Peers <- {Bob}, Roster <- {Bob}, Other <- Bob, MaxOffers <- MaxOffersA,
  Names <- {FileName}, Disorder <- Any,
  live <- liveA, sess <- sessA, cstate <- cstateA, cfile <- cfileA, created <- createdA,
  files <- filesA, nfiles <- nfilesA, acks <- acksA, nacks <- nacksA, events <- eventsA,
  connected <- connectedA, aborted <- abortedA, obs <- obsA, inbox <- toA, outbox <- toB
PB == INSTANCE JingleProofs WITH
  Me <- Bob, Peers <- {Alice}, Roster <- {Alice}, Other <- Alice, MaxOffers <- MaxOffersB,
  Names <- {FileName}, Disorder <- Any,
  live <- liveB, sess <- sessB, cstate <- cstateB, cfile <- cfileB, created <- createdB,
  files <- filesB, nfiles <- nfilesB, acks <- acksB, nacks <- nacksB, events <- eventsB,
  connected <- connectedB, aborted <- abortedB, obs <- obsB, inbox <- toB, outbox <- toA

USE ClientsAssumption, LimitsAssumption

-----------------------------------------------------------------------------
(* The clients are instances of JingleProofs *)

\* What JingleProofs assumes of the constants.
LEMMA Fits ==
  /\ Alice \notin {Bob} /\ Bob \notin {Alice}
  /\ FileName \in {FileName} /\ PA!IsFiniteSet({FileName}) /\ PB!IsFiniteSet({FileName})
  /\ Any \subseteq PA!DisorderKinds /\ Any \subseteq PB!DisorderKinds
<1>1. IsFiniteSet({FileName})
  BY FS_Singleton
<1>2. PA!IsFiniteSet({FileName}) /\ PB!IsFiniteSet({FileName})
  BY <1>1 DEF IsFiniteSet, PA!IsFiniteSet, PB!IsFiniteSet
<1> QED BY <1>2 DEF Any, PA!DisorderKinds, PB!DisorderKinds

\* Each is a client with one peer, whom nothing stops from ending sessions or answering late.
LEMMA BothAlone == PA!Alone /\ PB!Alone
BY DEF PA!Alone, PB!Alone, Any

\* The two instances mean the same by the operators that name no variable.
LEMMA SameStanzas ==
  /\ PA!Message = PB!Message
  /\ \A out, in : PA!Pending(out, in) = PB!Pending(out, in)
<1>1. PA!Message = PB!Message
  BY DEF PA!Message, PB!Message, PA!Kinds, PB!Kinds
<1>2. \A out, in : PA!Pending(out, in) = PB!Pending(out, in)
  BY DEF PA!Pending, PB!Pending, PA!Requests, PB!Requests, PA!ToSet, PB!ToSet
<1> QED BY <1>1, <1>2

LEMMA SameKnown ==
  \A me, L, S, n, PL, PS, out, in :
    PA!Known(me, L, S, n, PL, PS, out, in) <=> PB!Known(me, L, S, n, PL, PS, out, in)
BY DEF PA!Known, PB!Known, PA!About, PB!About, PA!Told, PB!Told, PA!SidsOf, PB!SidsOf,
       PA!FirstTime, PB!FirstTime, PA!ToSet, PB!ToSet

LEMMA SameLossless ==
  \A conn, K, L, S, C, PL, PS, out, in :
    PA!Lossless(conn, K, L, S, C, PL, PS, out, in) <=> PB!Lossless(conn, K, L, S, C, PL, PS, out, in)
BY SMTT(30) DEF PA!Lossless, PB!Lossless, PA!About, PB!About, PA!SidsOf, PB!SidsOf, PA!ToSet, PB!ToSet,
                PA!Pending, PB!Pending, PA!Requests, PB!Requests

\* A step of a client is one of the client JingleProofs is about.
LEMMA AliceMoves == A(Any)!ClientNext => PA!ClientNext
BY ZenonT(60) DEF A!ClientNext, PA!ClientNext, A!Offer, PA!Offer, A!AnswerEvent, PA!AnswerEvent, A!Deliver,
       PA!Deliver, A!Undelivered, PA!Undelivered, A!Expire, PA!Expire, A!Lose, PA!Lose, A!Reconnect,
       PA!Reconnect, A!Requested, PA!Requested, A!Answered, PA!Answered, A!Send, PA!Send, A!Sent,
       PA!Sent, A!Carried, PA!Carried, A!NoEmptyFile, PA!NoEmptyFile, A!OwnOffers, PA!OwnOffers,
       A!NewSid, PA!NewSid, A!UnderWay, PA!UnderWay, A!Requests, PA!Requests, A!wires, PA!wires, A!vars,
       PA!vars, A!jft_send, PA!jft_send, A!JftFails, PA!JftFails, A!JftOffer, PA!JftOffer,
       A!SessionOffered, PA!SessionOffered, A!session_find_by_app, PA!session_find_by_app, A!FilesOf,
       PA!FilesOf, A!Contents, PA!Contents, A!Recipient, PA!Recipient, A!NewOutgoing, PA!NewOutgoing,
       A!Offered, PA!Offered, A!Msg, PA!Msg, A!jingle_send_session_initiate,
       PA!jingle_send_session_initiate, A!NewAck, PA!NewAck, A!NoBody, PA!NoBody, A!NoCond, PA!NoCond,
       A!FileIndex, PA!FileIndex, A!Saw, PA!Saw, A!evscallback_jingle, PA!evscallback_jingle,
       A!jingle_send_session_accept, PA!jingle_send_session_accept, A!Terminate, PA!Terminate,
       A!handle_session_initiate, PA!handle_session_initiate, A!Offers, PA!Offers, A!InitiateRefused,
       PA!InitiateRefused, A!InitiateAccepted, PA!InitiateAccepted, A!Entries, PA!Entries,
       A!SessionReceived, PA!SessionReceived, A!Unsupported, PA!Unsupported, A!RefusedContents,
       PA!RefusedContents, A!UnknownSession, PA!UnknownSession, A!Find, PA!Find, A!IqError, PA!IqError,
       A!AckIq, PA!AckIq, A!handle_session_accept, PA!handle_session_accept, A!handle_session_terminate,
       PA!handle_session_terminate, A!Unfinished, PA!Unfinished, A!Stop, PA!Stop, A!StopContents,
       PA!StopContents, A!session_free, PA!session_free, A!Removed, PA!Removed, A!Reply, PA!Reply,
       A!AckCallback, PA!AckCallback, A!session_delete, PA!session_delete, A!Consumed, PA!Consumed,
       A!Timeout, PA!Timeout, A!Expires, PA!Expires, A!LateReply, PA!LateReply, A!Disconnect,
       PA!Disconnect, A!Connect, PA!Connect, A!sessionVars, PA!sessionVars, A!fileVars, PA!fileVars,
       A!ackVars, PA!ackVars, A!Cardinality, PA!Cardinality

LEMMA BobMoves == B(Any)!ClientNext => PB!ClientNext
BY ZenonT(60) DEF B!ClientNext, PB!ClientNext, B!Offer, PB!Offer, B!AnswerEvent, PB!AnswerEvent, B!Deliver,
       PB!Deliver, B!Undelivered, PB!Undelivered, B!Expire, PB!Expire, B!Lose, PB!Lose, B!Reconnect,
       PB!Reconnect, B!Requested, PB!Requested, B!Answered, PB!Answered, B!Send, PB!Send, B!Sent,
       PB!Sent, B!Carried, PB!Carried, B!NoEmptyFile, PB!NoEmptyFile, B!OwnOffers, PB!OwnOffers,
       B!NewSid, PB!NewSid, B!UnderWay, PB!UnderWay, B!Requests, PB!Requests, B!wires, PB!wires, B!vars,
       PB!vars, B!jft_send, PB!jft_send, B!JftFails, PB!JftFails, B!JftOffer, PB!JftOffer,
       B!SessionOffered, PB!SessionOffered, B!session_find_by_app, PB!session_find_by_app, B!FilesOf,
       PB!FilesOf, B!Contents, PB!Contents, B!Recipient, PB!Recipient, B!NewOutgoing, PB!NewOutgoing,
       B!Offered, PB!Offered, B!Msg, PB!Msg, B!jingle_send_session_initiate,
       PB!jingle_send_session_initiate, B!NewAck, PB!NewAck, B!NoBody, PB!NoBody, B!NoCond, PB!NoCond,
       B!FileIndex, PB!FileIndex, B!Saw, PB!Saw, B!evscallback_jingle, PB!evscallback_jingle,
       B!jingle_send_session_accept, PB!jingle_send_session_accept, B!Terminate, PB!Terminate,
       B!handle_session_initiate, PB!handle_session_initiate, B!Offers, PB!Offers, B!InitiateRefused,
       PB!InitiateRefused, B!InitiateAccepted, PB!InitiateAccepted, B!Entries, PB!Entries,
       B!SessionReceived, PB!SessionReceived, B!Unsupported, PB!Unsupported, B!RefusedContents,
       PB!RefusedContents, B!UnknownSession, PB!UnknownSession, B!Find, PB!Find, B!IqError, PB!IqError,
       B!AckIq, PB!AckIq, B!handle_session_accept, PB!handle_session_accept, B!handle_session_terminate,
       PB!handle_session_terminate, B!Unfinished, PB!Unfinished, B!Stop, PB!Stop, B!StopContents,
       PB!StopContents, B!session_free, PB!session_free, B!Removed, PB!Removed, B!Reply, PB!Reply,
       B!AckCallback, PB!AckCallback, B!session_delete, PB!session_delete, B!Consumed, PB!Consumed,
       B!Timeout, PB!Timeout, B!Expires, PB!Expires, B!LateReply, PB!LateReply, B!Disconnect,
       PB!Disconnect, B!Connect, PB!Connect, B!sessionVars, PB!sessionVars, B!fileVars, PB!fileVars,
       B!ackVars, PB!ackVars, B!Cardinality, PB!Cardinality

-----------------------------------------------------------------------------
(* The inductive invariant *)

\* Each client is in order, and knows of the other's sessions what was said.
IInv ==
  /\ PA!ClientOK /\ PB!ClientOK
  /\ PA!Ours(liveB, sessB) /\ PB!Ours(liveA, sessA)

\* Nothing was lost, or ended behind the back of the other.
AllKept == PA!OursLossless(liveB, sessB) /\ PB!OursLossless(liveA, sessA)

\* Losses are counted, and until the first one nothing is lost.
Counted == losses \in Nat /\ (losses = 0 => AllKept)

-----------------------------------------------------------------------------
(* The first state *)

\* So is its first state.
LEMMA AliceStarts == A(Any)!Init => PA!Init
BY DEF A!Init, PA!Init, A!FileIndex, PA!FileIndex, A!NoBody, PA!NoBody

LEMMA BobStarts == B(Any)!Init => PB!Init
BY DEF B!Init, PB!Init, B!FileIndex, PB!FileIndex, B!NoBody, PB!NoBody

\* The invariants hold before the first step.
LEMMA Starts == Init => IInv /\ Counted /\ PA!Calm!Init /\ PB!Calm!Init
<1> SUFFICES ASSUME Init PROVE IInv /\ Counted /\ PA!Calm!Init /\ PB!Calm!Init
  OBVIOUS
<1>1. PA!ClientOK /\ liveA = {} /\ acksA = {} /\ connectedA /\ PA!Calm!Init
  BY AliceStarts, BothAlone, Fits, PA!ClientStarts DEF Init
<1>2. PB!ClientOK /\ liveB = {} /\ acksB = {} /\ connectedB /\ PB!Calm!Init
  BY BobStarts, BothAlone, Fits, PB!ClientStarts DEF Init
<1>3. PICK SA, SB : SA = sessA /\ SB = sessB
  OBVIOUS
<1>4. PA!Ours({}, SB) /\ PA!OursLossless({}, SB)
  BY <1>1, Fits, PA!KnownStarts DEF Init
<1>5. PB!Ours({}, SA) /\ PB!OursLossless({}, SA)
  BY <1>2, Fits, PB!KnownStarts DEF Init
<1> QED BY <1>1, <1>2, <1>3, <1>4, <1>5 DEF Init, IInv, Counted, AllKept

-----------------------------------------------------------------------------
(* The session core with nothing in disorder *)

\* What JingleProofs shows a client to do is what InOrder asks of it.
LEMMA AliceInOrder == (PA!Calm!Init => A({})!Init) /\ (PA!Calm!Next => A({})!Next)
<1>1. PA!Calm!Init => A({})!Init
  BY DEF PA!Calm!Init, A!Init, PA!Calm!FileIndex, A!FileIndex, PA!Calm!NoBody, A!NoBody
<1>2. PA!Calm!Next => A({})!Next
  BY ZenonT(60) DEF PA!Calm!Next, A!Next, PA!Calm!Peer, A!Peer, PA!Calm!User, A!User, PA!Calm!Network, A!Network,
         PA!Calm!Timer, A!Timer, PA!Calm!jingle_handle_iq, A!jingle_handle_iq, PA!Calm!CanName,
         A!CanName, PA!Calm!WrongNamespace, A!WrongNamespace, PA!Calm!RefusedIq, A!RefusedIq,
         PA!Calm!handle_session_info, A!handle_session_info, PA!Calm!handle_transport_info,
         A!handle_transport_info, PA!Calm!handle_trans_data, A!handle_trans_data, PA!Calm!handle_data,
         A!handle_data, PA!Calm!jft_retry, A!jft_retry, PA!Calm!jft_flush, A!jft_flush, PA!Calm!InfoList,
         A!InfoList, PA!Calm!Finished, A!Finished, PA!Calm!jft_send, A!jft_send, PA!Calm!JftFails,
         A!JftFails, PA!Calm!JftOffer, A!JftOffer, PA!Calm!SessionOffered, A!SessionOffered,
         PA!Calm!session_find_by_app, A!session_find_by_app, PA!Calm!FilesOf, A!FilesOf,
         PA!Calm!Contents, A!Contents, PA!Calm!Recipient, A!Recipient, PA!Calm!NewOutgoing,
         A!NewOutgoing, PA!Calm!Offered, A!Offered, PA!Calm!Msg, A!Msg,
         PA!Calm!jingle_send_session_initiate, A!jingle_send_session_initiate, PA!Calm!NewAck, A!NewAck,
         PA!Calm!NoBody, A!NoBody, PA!Calm!NoCond, A!NoCond, PA!Calm!FileIndex, A!FileIndex, PA!Calm!Saw,
         A!Saw, PA!Calm!evscallback_jingle, A!evscallback_jingle, PA!Calm!jingle_send_session_accept,
         A!jingle_send_session_accept, PA!Calm!Terminate, A!Terminate, PA!Calm!handle_session_initiate,
         A!handle_session_initiate, PA!Calm!Offers, A!Offers, PA!Calm!InitiateRefused, A!InitiateRefused,
         PA!Calm!InitiateAccepted, A!InitiateAccepted, PA!Calm!Entries, A!Entries,
         PA!Calm!SessionReceived, A!SessionReceived, PA!Calm!Unsupported, A!Unsupported,
         PA!Calm!RefusedContents, A!RefusedContents, PA!Calm!UnknownSession, A!UnknownSession,
         PA!Calm!Find, A!Find, PA!Calm!IqError, A!IqError, PA!Calm!AckIq, A!AckIq,
         PA!Calm!handle_session_accept, A!handle_session_accept, PA!Calm!handle_session_terminate,
         A!handle_session_terminate, PA!Calm!Unfinished, A!Unfinished, PA!Calm!Stop, A!Stop,
         PA!Calm!StopContents, A!StopContents, PA!Calm!session_free, A!session_free, PA!Calm!Removed,
         A!Removed, PA!Calm!Reply, A!Reply, PA!Calm!AckCallback, A!AckCallback, PA!Calm!session_delete,
         A!session_delete, PA!Calm!Consumed, A!Consumed, PA!Calm!Timeout, A!Timeout, PA!Calm!Expires,
         A!Expires, PA!Calm!LateReply, A!LateReply, PA!Calm!Disconnect, A!Disconnect, PA!Calm!Connect,
         A!Connect, PA!Calm!sessionVars, A!sessionVars, PA!Calm!fileVars, A!fileVars, PA!Calm!ackVars,
         A!ackVars, PA!Calm!Cardinality, A!Cardinality
<1> QED BY <1>1, <1>2

LEMMA BobInOrder == (PB!Calm!Init => B({})!Init) /\ (PB!Calm!Next => B({})!Next)
<1>1. PB!Calm!Init => B({})!Init
  BY DEF PB!Calm!Init, B!Init, PB!Calm!FileIndex, B!FileIndex, PB!Calm!NoBody, B!NoBody
<1>2. PB!Calm!Next => B({})!Next
  BY ZenonT(60) DEF PB!Calm!Next, B!Next, PB!Calm!Peer, B!Peer, PB!Calm!User, B!User, PB!Calm!Network, B!Network,
         PB!Calm!Timer, B!Timer, PB!Calm!jingle_handle_iq, B!jingle_handle_iq, PB!Calm!CanName,
         B!CanName, PB!Calm!WrongNamespace, B!WrongNamespace, PB!Calm!RefusedIq, B!RefusedIq,
         PB!Calm!handle_session_info, B!handle_session_info, PB!Calm!handle_transport_info,
         B!handle_transport_info, PB!Calm!handle_trans_data, B!handle_trans_data, PB!Calm!handle_data,
         B!handle_data, PB!Calm!jft_retry, B!jft_retry, PB!Calm!jft_flush, B!jft_flush, PB!Calm!InfoList,
         B!InfoList, PB!Calm!Finished, B!Finished, PB!Calm!jft_send, B!jft_send, PB!Calm!JftFails,
         B!JftFails, PB!Calm!JftOffer, B!JftOffer, PB!Calm!SessionOffered, B!SessionOffered,
         PB!Calm!session_find_by_app, B!session_find_by_app, PB!Calm!FilesOf, B!FilesOf,
         PB!Calm!Contents, B!Contents, PB!Calm!Recipient, B!Recipient, PB!Calm!NewOutgoing,
         B!NewOutgoing, PB!Calm!Offered, B!Offered, PB!Calm!Msg, B!Msg,
         PB!Calm!jingle_send_session_initiate, B!jingle_send_session_initiate, PB!Calm!NewAck, B!NewAck,
         PB!Calm!NoBody, B!NoBody, PB!Calm!NoCond, B!NoCond, PB!Calm!FileIndex, B!FileIndex, PB!Calm!Saw,
         B!Saw, PB!Calm!evscallback_jingle, B!evscallback_jingle, PB!Calm!jingle_send_session_accept,
         B!jingle_send_session_accept, PB!Calm!Terminate, B!Terminate, PB!Calm!handle_session_initiate,
         B!handle_session_initiate, PB!Calm!Offers, B!Offers, PB!Calm!InitiateRefused, B!InitiateRefused,
         PB!Calm!InitiateAccepted, B!InitiateAccepted, PB!Calm!Entries, B!Entries,
         PB!Calm!SessionReceived, B!SessionReceived, PB!Calm!Unsupported, B!Unsupported,
         PB!Calm!RefusedContents, B!RefusedContents, PB!Calm!UnknownSession, B!UnknownSession,
         PB!Calm!Find, B!Find, PB!Calm!IqError, B!IqError, PB!Calm!AckIq, B!AckIq,
         PB!Calm!handle_session_accept, B!handle_session_accept, PB!Calm!handle_session_terminate,
         B!handle_session_terminate, PB!Calm!Unfinished, B!Unfinished, PB!Calm!Stop, B!Stop,
         PB!Calm!StopContents, B!StopContents, PB!Calm!session_free, B!session_free, PB!Calm!Removed,
         B!Removed, PB!Calm!Reply, B!Reply, PB!Calm!AckCallback, B!AckCallback, PB!Calm!session_delete,
         B!session_delete, PB!Calm!Consumed, B!Consumed, PB!Calm!Timeout, B!Timeout, PB!Calm!Expires,
         B!Expires, PB!Calm!LateReply, B!LateReply, PB!Calm!Disconnect, B!Disconnect, PB!Calm!Connect,
         B!Connect, PB!Calm!sessionVars, B!sessionVars, PB!Calm!fileVars, B!fileVars, PB!Calm!ackVars,
         B!ackVars, PB!Calm!Cardinality, B!Cardinality
<1> QED BY <1>1, <1>2

-----------------------------------------------------------------------------
(* A step of Alice *)

\* It changes the streams, and nothing else of Bob.
LEMMA AliceStep ==
  ASSUME IInv, A(Any)!ClientNext, UNCHANGED clientB
  PROVE  /\ PA!ClientOK' /\ PB!ClientOK'
         /\ PA!Ours(liveB, sessB)' /\ PB!Ours(liveA, sessA)'
<1>1. PA!ClientNext /\ PA!Alone /\ PA!ClientOK /\ PB!ClientOK
  BY AliceMoves, BothAlone DEF IInv
<1>2. UNCHANGED PB!vars /\ UNCHANGED <<liveB, sessB>>
  BY DEF clientB, PB!vars
<1>3. PICK PL, PS, PN : PL = liveB /\ PS = sessB /\ PN = PB!OwnOffers
  OBVIOUS
<1>4. PA!Ours(PL, PS) /\ PA!Theirs(PL, PS, PN)
  BY <1>3, SameKnown DEF IInv, PA!Ours, PB!Ours, PA!Theirs
<1>5. PA!ClientOK'
  BY <1>1, <1>4, Fits, PA!ClientKept
<1>6. PA!Ours(PL, PS)' /\ PA!Theirs(PL, PS, PN)'
  BY <1>1, <1>4, Fits, PA!ClientKnown
<1>7. PA!Numbers
  BY <1>1, Fits, PA!ClientNumbers
<1>8. PB!ClientOK' /\ PB!OwnOffers' = PB!OwnOffers
  <2>1. toA' \in Seq(PB!Message) /\ toB' \in Seq(PB!Message)
    BY <1>7, SameStanzas DEF PA!Numbers, PA!Streams
  <2>2. PB!Pending(toA', toB') \subseteq PB!Pending(toA, toB)
    BY <1>7, SameStanzas DEF PA!Numbers
  <2> QED BY <1>1, <1>2, <2>1, <2>2, Fits, PB!PeerKeeps
<1>9. PA!Ours(liveB, sessB)'
  BY <1>2, <1>3, <1>6 DEF PA!Ours
<1>10. PB!Ours(liveA, sessA)'
  BY <1>2, <1>3, <1>6, <1>8, SameKnown DEF PA!Theirs, PB!Ours
<1> QED BY <1>5, <1>8, <1>9, <1>10

\* If it loses no connection, nothing gets lost in it.
LEMMA AliceLossless ==
  ASSUME IInv, AllKept, A(Any)!ClientNext, UNCHANGED clientB, connectedA'
  PROVE  AllKept'
<1>1. PA!ClientNext /\ PA!Alone /\ PA!ClientOK
  BY AliceMoves, BothAlone DEF IInv
<1>2. UNCHANGED <<connectedB, acksB, liveB, sessB, cstateB>>
  BY DEF clientB
<1>3. PICK conn, K, PL, PS, PN, PC :
        /\ conn = connectedB /\ K = acksB /\ PL = liveB /\ PS = sessB
        /\ PN = PB!OwnOffers /\ PC = cstateB
  OBVIOUS
<1>4. PA!Ours(PL, PS) /\ PA!Theirs(PL, PS, PN)
  BY <1>3, SameKnown DEF IInv, PA!Ours, PB!Ours, PA!Theirs
<1>5. PA!OursLossless(PL, PS) /\ PA!TheirsLossless(conn, K, PL, PS, PC)
  BY <1>3, SameLossless DEF AllKept, PA!OursLossless, PB!OursLossless, PA!TheirsLossless
<1>6. PA!OursLossless(PL, PS)' /\ PA!TheirsLossless(conn, K, PL, PS, PC)'
  BY <1>1, <1>4, <1>5, Fits, PA!ClientLossless
<1> QED BY <1>2, <1>3, <1>6, SameLossless DEF AllKept, PA!OursLossless, PB!OursLossless, PA!TheirsLossless

\* Bob does nothing wrong around Alice.
LEMMA AliceCalm ==
  ASSUME IInv, A(Any)!ClientNext
  PROVE  [PA!Calm!Next]_clientA
<1>1. PA!ClientNext /\ PA!Alone /\ PA!ClientOK
  BY AliceMoves, BothAlone DEF IInv
<1>2. PICK PL, PS, PN : PL = liveB /\ PS = sessB /\ PN = PB!OwnOffers
  OBVIOUS
<1>3. PA!Ours(PL, PS) /\ PA!Theirs(PL, PS, PN)
  BY <1>2, SameKnown DEF IInv, PA!Ours, PB!Ours, PA!Theirs
<1>4. [PA!Calm!Next]_PA!vars
  BY <1>1, <1>3, Fits, PA!CalmStep
<1> QED BY <1>4 DEF clientA, PA!vars

-----------------------------------------------------------------------------
(* A step of Bob *)

\* It changes the streams, and nothing else of Alice.
LEMMA BobStep ==
  ASSUME IInv, B(Any)!ClientNext, UNCHANGED clientA
  PROVE  /\ PB!ClientOK' /\ PA!ClientOK'
         /\ PB!Ours(liveA, sessA)' /\ PA!Ours(liveB, sessB)'
<1>1. PB!ClientNext /\ PB!Alone /\ PB!ClientOK /\ PA!ClientOK
  BY BobMoves, BothAlone DEF IInv
<1>2. UNCHANGED PA!vars /\ UNCHANGED <<liveA, sessA>>
  BY DEF clientA, PA!vars
<1>3. PICK PL, PS, PN : PL = liveA /\ PS = sessA /\ PN = PA!OwnOffers
  OBVIOUS
<1>4. PB!Ours(PL, PS) /\ PB!Theirs(PL, PS, PN)
  BY <1>3, SameKnown DEF IInv, PB!Ours, PA!Ours, PB!Theirs
<1>5. PB!ClientOK'
  BY <1>1, <1>4, Fits, PB!ClientKept
<1>6. PB!Ours(PL, PS)' /\ PB!Theirs(PL, PS, PN)'
  BY <1>1, <1>4, Fits, PB!ClientKnown
<1>7. PB!Numbers
  BY <1>1, Fits, PB!ClientNumbers
<1>8. PA!ClientOK' /\ PA!OwnOffers' = PA!OwnOffers
  <2>1. toA' \in Seq(PA!Message) /\ toB' \in Seq(PA!Message)
    BY <1>7, SameStanzas DEF PB!Numbers, PB!Streams
  <2>2. PA!Pending(toB', toA') \subseteq PA!Pending(toB, toA)
    BY <1>7, SameStanzas DEF PB!Numbers
  <2> QED BY <1>1, <1>2, <2>1, <2>2, Fits, PA!PeerKeeps
<1>9. PB!Ours(liveA, sessA)'
  BY <1>2, <1>3, <1>6 DEF PB!Ours
<1>10. PA!Ours(liveB, sessB)'
  BY <1>2, <1>3, <1>6, <1>8, SameKnown DEF PB!Theirs, PA!Ours
<1> QED BY <1>5, <1>8, <1>9, <1>10

\* If it loses no connection, nothing gets lost in it.
LEMMA BobLossless ==
  ASSUME IInv, AllKept, B(Any)!ClientNext, UNCHANGED clientA, connectedB'
  PROVE  AllKept'
<1>1. PB!ClientNext /\ PB!Alone /\ PB!ClientOK
  BY BobMoves, BothAlone DEF IInv
<1>2. UNCHANGED <<connectedA, acksA, liveA, sessA, cstateA>>
  BY DEF clientA
<1>3. PICK conn, K, PL, PS, PN, PC :
        /\ conn = connectedA /\ K = acksA /\ PL = liveA /\ PS = sessA
        /\ PN = PA!OwnOffers /\ PC = cstateA
  OBVIOUS
<1>4. PB!Ours(PL, PS) /\ PB!Theirs(PL, PS, PN)
  BY <1>3, SameKnown DEF IInv, PB!Ours, PA!Ours, PB!Theirs
<1>5. PB!OursLossless(PL, PS) /\ PB!TheirsLossless(conn, K, PL, PS, PC)
  BY <1>3, SameLossless DEF AllKept, PB!OursLossless, PA!OursLossless, PB!TheirsLossless
<1>6. PB!OursLossless(PL, PS)' /\ PB!TheirsLossless(conn, K, PL, PS, PC)'
  BY <1>1, <1>4, <1>5, Fits, PB!ClientLossless
<1> QED BY <1>2, <1>3, <1>6, SameLossless DEF AllKept, PB!OursLossless, PA!OursLossless, PB!TheirsLossless

\* Alice does nothing wrong around Bob.
LEMMA BobCalm ==
  ASSUME IInv, B(Any)!ClientNext
  PROVE  [PB!Calm!Next]_clientB
<1>1. PB!ClientNext /\ PB!Alone /\ PB!ClientOK
  BY BobMoves, BothAlone DEF IInv
<1>2. PICK PL, PS, PN : PL = liveA /\ PS = sessA /\ PN = PA!OwnOffers
  OBVIOUS
<1>3. PB!Ours(PL, PS) /\ PB!Theirs(PL, PS, PN)
  BY <1>2, SameKnown DEF IInv, PB!Ours, PA!Ours, PB!Theirs
<1>4. [PB!Calm!Next]_PB!vars
  BY <1>1, <1>3, Fits, PB!CalmStep
<1> QED BY <1>4 DEF clientB, PB!vars

-----------------------------------------------------------------------------
(* The invariants are inductive *)

\* When nobody moves, nothing is taken from a stream either.
LEMMA Still ==
  ASSUME IInv, UNCHANGED vars
  PROVE  IInv' /\ (AllKept => AllKept')
<1>1. UNCHANGED <<clientA, clientB>> /\ UNCHANGED wires
  BY DEF vars
<1>2. UNCHANGED PA!vars /\ UNCHANGED PB!vars
  BY <1>1 DEF clientA, clientB, PA!vars, PB!vars
<1>3. toA' = toA /\ toB' = toB
  BY <1>1 DEF wires
<1>4. PA!ClientOK' /\ PA!OwnOffers' = PA!OwnOffers
  <2>1. toA \in Seq(PA!Message) /\ toB \in Seq(PA!Message)
    BY DEF IInv, PA!ClientOK, PA!Streams
  <2> QED BY <1>2, <1>3, <2>1, Fits, PA!PeerKeeps DEF IInv
<1>5. PB!ClientOK' /\ PB!OwnOffers' = PB!OwnOffers
  <2>1. toA \in Seq(PB!Message) /\ toB \in Seq(PB!Message)
    BY DEF IInv, PB!ClientOK, PB!Streams
  <2> QED BY <1>2, <1>3, <2>1, Fits, PB!PeerKeeps DEF IInv
<1>6. PA!Ours(liveB, sessB)' /\ PB!Ours(liveA, sessA)'
  BY <1>1, <1>3, <1>4, <1>5 DEF IInv, PA!Ours, PB!Ours, clientA, clientB
<1>7. AllKept => AllKept'
  BY <1>1, <1>3 DEF AllKept, PA!OursLossless, PB!OursLossless, clientA, clientB
<1> QED BY <1>4, <1>5, <1>6, <1>7 DEF IInv

\* IInv is inductive.
LEMMA Inductive ==
  ASSUME IInv, [Next]_vars
  PROVE  IInv'
<1>1. StepA => IInv'
  BY AliceStep DEF StepA, IInv
<1>2. StepB => IInv'
  BY BobStep DEF StepB, IInv
<1> QED BY <1>1, <1>2, Still DEF Next

\* So is Counted: a step that loses a connection is counted.
LEMMA CountedInductive ==
  ASSUME IInv, Counted, [Next]_vars
  PROVE  Counted'
<1>1. CASE StepA
  <2>1. losses' \in Nat /\ (losses' = 0 => losses = 0 /\ (connectedA => connectedA'))
    BY <1>1 DEF StepA, Counted
  <2>2. losses' = 0 => AllKept /\ connectedA
    BY <2>1 DEF Counted, AllKept, PA!OursLossless, PA!Lossless
  <2> QED BY <1>1, <2>1, <2>2, AliceLossless DEF Counted, StepA
<1>2. CASE StepB
  <2>1. losses' \in Nat /\ (losses' = 0 => losses = 0 /\ (connectedB => connectedB'))
    BY <1>2 DEF StepB, Counted
  <2>2. losses' = 0 => AllKept /\ connectedB
    BY <2>1 DEF Counted, AllKept, PB!OursLossless, PB!Lossless
  <2> QED BY <1>2, <2>1, <2>2, BobLossless DEF Counted, StepB
<1>3. CASE UNCHANGED vars
  BY <1>3, Still DEF Counted, vars
<1> QED BY <1>1, <1>2, <1>3 DEF Next

-----------------------------------------------------------------------------
(* Theorems *)

\* Until a connection is lost, a session somebody was invited to is one the other knows,
\* and one that is active where it was offered exists where it was accepted: the
\* session-initiates and session-accepts of send.c, jingle.c and action-handlers.c keep
\* the two lists of sessions together, and no timeout takes a session from one of them.
THEOREM SessionsAccompanied == Spec => []Accompanied
<1>1. Init => IInv /\ Counted
  BY Starts
<1>2. IInv /\ Counted /\ [Next]_vars => IInv' /\ Counted'
  BY Inductive, CountedInductive
<1>3. Counted => Accompanied
  <2>1. \A L, S, origin : /\ PA!SidsOf(L, S, origin) = SidsOf(L, S, origin)
                          /\ PB!SidsOf(L, S, origin) = SidsOf(L, S, origin)
    BY DEF PA!SidsOf, PB!SidsOf, SidsOf
  <2> QED BY <2>1 DEF Counted, AllKept, Accompanied, PA!OursLossless, PB!OursLossless,
                      PA!Lossless, PB!Lossless
<1> QED BY <1>1, <1>2, <1>3, PTL DEF Spec

\* Two clients of this program keep to the order of the protocol with each other, also
\* when connections are lost: every step of one is a step of the session core around
\* which nothing is in disorder.
THEOREM PeersInOrder == Spec => InOrder
<1>1. Init => IInv
  BY Starts
<1>2. IInv /\ [Next]_vars => IInv'
  BY Inductive
<1>3. Init => A({})!Init /\ B({})!Init
  BY Starts, AliceInOrder, BobInOrder
<1>4. ASSUME IInv, [Next]_vars
      PROVE  [A({})!Next]_clientA /\ [B({})!Next]_clientB
  <2>1. CASE StepA
    <3>1. [PA!Calm!Next]_clientA /\ UNCHANGED clientB
      BY <1>4, <2>1, AliceCalm DEF StepA
    <3> QED BY <3>1, AliceInOrder
  <2>2. CASE StepB
    <3>1. [PB!Calm!Next]_clientB /\ UNCHANGED clientA
      BY <1>4, <2>2, BobCalm DEF StepB
    <3> QED BY <3>1, BobInOrder
  <2>3. CASE UNCHANGED vars
    BY <2>3 DEF vars
  <2> QED BY <1>4, <2>1, <2>2, <2>3 DEF Next
<1> QED BY <1>1, <1>2, <1>3, <1>4, PTL DEF Spec, InOrder

\* So the callback of every event, reply and timeout finds the session it was made for
\* (evscallback_jingle, jingle_handle_ack_iq, jingle_ack_timeout_checker): between two
\* clients of this program the addresses they keep are good, although nobody checks them.
THEOREM AddressesGoodTogether == Spec => [](A({})!LiveRefs /\ B({})!LiveRefs)
<1>1. Init => IInv
  BY Starts
<1>2. IInv /\ [Next]_vars => IInv'
  BY Inductive
<1>3. IInv => A({})!LiveRefs /\ B({})!LiveRefs
  BY DEF IInv, PA!ClientOK, PA!CoreOK, PA!Refs, PA!LiveRefs, A!LiveRefs,
         PB!ClientOK, PB!CoreOK, PB!Refs, PB!LiveRefs, B!LiveRefs
<1> QED BY <1>1, <1>2, <1>3, PTL DEF Spec
=============================================================================
