---------------------------- MODULE JingleProofs ----------------------------
(***************************************************************************)
(* Theorems about the session core, for every set of peers, sids, names    *)
(* and addresses, every bound and every kind of disorder.  After them come *)
(* the lemmas about a core whose peer is another one (Client), which       *)
(* TwoClientsProofs puts together.                                         *)
(***************************************************************************)
EXTENDS Client, Integers, SequencesExt, SequenceTheorems, FiniteSetTheorems, WellFoundedInduction, TLAPS

-----------------------------------------------------------------------------
(* Sets of numbers *)

\* A nonempty set of natural numbers has a least element.
LEMMA LeastNat ==
  ASSUME NEW T \in SUBSET Nat, T # {}
  PROVE  \E x \in T : \A y \in T : x <= y
<1>1. PICK x \in T : \A y \in T : <<y, x>> \notin OpToRel(<, Nat)
  BY NatLessThanWellFounded, WFMin
<1>2. ASSUME NEW y \in T PROVE x <= y
  <2>1. ~(y < x)
    BY <1>1 DEF OpToRel
  <2> QED BY <2>1
<1> QED BY <1>2

USE PeersAssumption, NamesAssumption, BoundsAssumption DEF Jids, NoBody, NoCond

-----------------------------------------------------------------------------
(* The oldest session and the first entry exist *)

\* session_find_by_app returns the session at a or one of the list.
LEMMA FoundByApp ==
  ASSUME TypeOK, NEW f, NEW a \in Addr
  PROVE  session_find_by_app(f, a) \in live \cup {a}
<1> DEFINE holders == {b \in live : f \in FilesOf(b)}
<1>1. CASE holders = {}
  BY <1>1 DEF session_find_by_app
<1>2. CASE holders # {}
  <2> DEFINE births == {sess[b].born : b \in holders}
  <2>1. births \in SUBSET Nat /\ births # {}
    BY <1>2 DEF TypeOK, Session
  <2>2. PICK x \in births : \A y \in births : x <= y
    BY <2>1, LeastNat
  <2>3. \E b \in holders : \A c \in holders : sess[b].born <= sess[c].born
    BY <2>2
  <2> QED BY <1>2, <2>3 DEF session_find_by_app
<1> QED BY <1>1, <1>2

\* /jft retry takes an entry of info_list.
LEMMA FirstEntry ==
  ASSUME TypeOK, InfoList # {}
  PROVE  (CHOOSE g \in InfoList : \A h \in InfoList : g <= h) \in InfoList
<1>1. InfoList \in SUBSET Nat
  BY DEF InfoList, FileIndex
<1>2. \E g \in InfoList : \A h \in InfoList : g <= h
  BY <1>1, LeastNat
<1> QED BY <1>2

-----------------------------------------------------------------------------
(* What a callback shows is well typed *)

Observation == [cause : Cause, from : Jids \cup {NoBody}, out : Seq(Stanza)]

LEMMA SawType ==
  ASSUME NEW cause \in Cause, NEW from \in Jids \cup {NoBody}, NEW out \in Seq(Stanza),
         Saw(cause, from, out)
  PROVE  obs' \in Observation
BY DEF Saw, Observation

LEMMA MsgType ==
  ASSUME NEW kind \in {"result", "error", "session-initiate", "session-accept",
                       "session-terminate"},
         NEW to \in Jids, NEW about \in Jids, NEW cond \in Condition
  PROVE  Msg(kind, to, about, cond) \in Stanza
BY DEF Msg, Stanza, Condition

LEMMA AnswerType ==
  ASSUME NEW p \in Jids
  PROVE  /\ AckIq(p) \in Seq(Stanza)
         /\ \A cond \in Condition : IqError(p, cond) \in Seq(Stanza)
<1>1. AckIq(p) \in Seq(Stanza)
  <2>1. Msg("result", p, p, NoCond) \in Stanza
    BY DEF Msg, Stanza, Condition
  <2> QED BY <2>1 DEF AckIq
<1>2. ASSUME NEW cond \in Condition PROVE IqError(p, cond) \in Seq(Stanza)
  <2>1. Msg("error", p, p, cond) \in Stanza
    BY MsgType
  <2> QED BY <2>1 DEF IqError
<1> QED BY <1>1, <1>2

LEMMA RecipientType ==
  ASSUME TypeOK, NEW a \in Addr
  PROVE  Recipient(a) \in Jids /\ sess[a].to \in Jids
BY DEF TypeOK, Session, Recipient

LEMMA FindType ==
  ASSUME TypeOK, NEW s, NEW p
  PROVE  Find(s, p) \subseteq live /\ Find(s, p) \subseteq Addr
BY DEF TypeOK, Find

\* The actions that only show something.
LEMMA ShowOnly ==
  ASSUME TypeOK, obs' \in Observation, aborted' \in BOOLEAN,
         UNCHANGED <<sessionVars, fileVars, ackVars, events, connected>>
  PROVE  TypeOK'
BY DEF TypeOK, Observation, sessionVars, fileVars, ackVars

\* session_free and session_delete, also on a stale address.
LEMMA FreeType ==
  ASSUME TypeOK, NEW a \in Addr, live' \subseteq live, session_free(a)
  PROVE  /\ live' \subseteq Addr /\ sess' \in [Addr -> Session]
         /\ cstate' \in [Addr -> [Names -> SessionState]]
         /\ cfile' \in [Addr -> [Names -> 0 .. MaxFiles]]
         /\ created' \in Nat
BY DEF TypeOK, session_free, SessionState

LEMMA DeleteType ==
  ASSUME TypeOK, NEW a \in Addr, session_delete(a)
  PROVE  /\ live' \subseteq Addr /\ sess' \in [Addr -> Session]
         /\ cstate' \in [Addr -> [Names -> SessionState]]
         /\ cfile' \in [Addr -> [Names -> 0 .. MaxFiles]]
         /\ created' \in Nat /\ aborted' \in BOOLEAN
BY FreeType DEF session_delete, Removed

\* A session-initiate that is accepted.
LEMMA ReceivedType ==
  ASSUME TypeOK, NEW a \in Addr, NEW p \in Peers, NEW s \in Sids, NEW kept \in SUBSET Names,
         NEW entries \in SUBSET FileIndex, NEW index, NEW empty \in SUBSET entries,
         \A n \in kept : index[n] \in entries,
         SessionReceived(a, p, s, kept, entries, index, empty)
  PROVE  /\ live' \subseteq Addr /\ sess' \in [Addr -> Session]
         /\ cstate' \in [Addr -> [Names -> SessionState]]
         /\ cfile' \in [Addr -> [Names -> 0 .. MaxFiles]]
         /\ files' \in [FileIndex -> JingleFT]
         /\ events' \subseteq Event /\ obs' \in Observation
<1>1. files' \in [FileIndex -> JingleFT]
  BY DEF SessionReceived, TypeOK, JingleFT, FileState
<1>2. sess' \in [Addr -> Session]
  <2>1. [sid |-> s, from |-> p, to |-> Me, origin |-> "INCOMING", born |-> created + 1,
         announced |-> TRUE, inbound |-> kept] \in Session
    BY DEF Session, TypeOK
  <2> QED BY <2>1 DEF SessionReceived, TypeOK
<1>3. cstate' \in [Addr -> [Names -> SessionState]]
  BY DEF SessionReceived, TypeOK, SessionState
<1>4. cfile' \in [Addr -> [Names -> 0 .. MaxFiles]]
  <2> DEFINE row == [n \in Names |-> IF n \in kept THEN index[n] ELSE 0]
  <2>1. \A n \in kept : index[n] \in 1 .. MaxFiles
    BY DEF FileIndex
  <2>2. row \in [Names -> 0 .. MaxFiles]
    BY <2>1
  <2>3. cfile' = [cfile EXCEPT ![a] = row]
    BY DEF SessionReceived
  <2> HIDE DEF row
  <2> QED BY <2>2, <2>3 DEF TypeOK
<1>5. live' \subseteq Addr /\ events' \subseteq Event
  BY DEF SessionReceived, TypeOK, Event
<1>6. obs' \in Observation
  <2> DEFINE terminate == <<Msg("session-terminate", Me, p, "unsupported-applications")>>
  <2>1. Msg("session-terminate", Me, p, "unsupported-applications") \in Stanza
    BY DEF Msg, Stanza, Condition
  <2>2. AckIq(p) \in Seq(Stanza)
    BY AnswerType
  <2>3. AckIq(p) \o terminate \in Seq(Stanza)
    BY <2>1, <2>2
  <2>4. \/ Saw("session-initiate", p, AckIq(p))
        \/ Saw("session-initiate", p, AckIq(p) \o terminate)
    BY DEF SessionReceived
  <2> QED BY <2>2, <2>3, <2>4 DEF Saw, Observation, Cause
<1> QED BY <1>1, <1>2, <1>3, <1>4, <1>5, <1>6

LEMMA InitiateType ==
  ASSUME TypeOK, NEW p \in Peers, NEW s \in Sids, NEW offer \in [Names -> Offers],
         InitiateAccepted(p, s, offer)
  PROVE  TypeOK'
<1> DEFINE kept    == {n \in Names : offer[n] = "good"}
           opened  == {n \in Names : offer[n] \in {"good", "badTransport"}}
           entries == Entries(Cardinality(opened))
<1>1. Cardinality(opened) \in Nat
  BY FS_Subset, FS_CardinalityType
<1>2. nfiles' \in 0 .. MaxFiles /\ created' \in Nat
  BY <1>1 DEF TypeOK, InitiateAccepted
<1>3. entries \subseteq FileIndex
  <2> DEFINE k == Cardinality(opened)
  <2>1. nfiles + k <= MaxFiles
    BY DEF InitiateAccepted
  <2>2. nfiles \in Nat
    BY DEF TypeOK
  <2>3. k \in Nat /\ entries = Entries(k)
    BY <1>1
  <2> HIDE DEF k, entries
  <2> QED BY <2>1, <2>2, <2>3 DEF Entries, FileIndex
<1>4. PICK a \in Addr \ live, index \in [opened -> entries], empty \in SUBSET entries :
        /\ \A m, n \in opened : index[m] = index[n] => m = n
        /\ SessionReceived(a, p, s, kept, entries, index, empty)
  BY DEF InitiateAccepted
<1>5. \A n \in kept : index[n] \in entries
  <2>1. kept \subseteq opened
    OBVIOUS
  <2> QED BY <2>1
<1>6. aborted' \in BOOLEAN /\ UNCHANGED <<ackVars, connected>>
  BY DEF InitiateAccepted
<1> HIDE DEF entries
<1>7. /\ live' \subseteq Addr /\ sess' \in [Addr -> Session]
      /\ cstate' \in [Addr -> [Names -> SessionState]]
      /\ cfile' \in [Addr -> [Names -> 0 .. MaxFiles]]
      /\ files' \in [FileIndex -> JingleFT]
      /\ events' \subseteq Event /\ obs' \in Observation
  BY ZenonT(30), <1>3, <1>4, <1>5, ReceivedType
<1> QED BY <1>2, <1>6, <1>7 DEF TypeOK, Observation, ackVars

LEMMA SessionInitiateType ==
  ASSUME TypeOK, NEW p \in Peers, NEW s \in Sids, handle_session_initiate(p, s)
  PROVE  TypeOK'
<1>1. PICK offer \in [Names -> Offers] :
        InitiateRefused(p, s, offer) \/ InitiateAccepted(p, s, offer)
  BY DEF handle_session_initiate
<1>2. CASE InitiateRefused(p, s, offer)
  <2>1. obs' \in Observation
    <3>1. PICK cond \in Condition : Saw("session-initiate", p, IqError(p, cond))
      BY <1>2 DEF InitiateRefused, RefusedContents, Condition
    <3>2. IqError(p, cond) \in Seq(Stanza)
      BY AnswerType
    <3> QED BY <3>1, <3>2 DEF Saw, Observation, Cause
  <2>2. aborted' \in BOOLEAN
    BY <1>2 DEF InitiateRefused, RefusedContents, TypeOK
  <2>3. UNCHANGED <<sessionVars, fileVars, ackVars, events, connected>>
    BY <1>2 DEF InitiateRefused, RefusedContents
  <2> QED BY <2>1, <2>2, <2>3, ShowOnly
<1> QED BY <1>1, <1>2, InitiateType
-----------------------------------------------------------------------------
(* The other handlers of incoming IQs *)

LEMMA AnswerSaw ==
  ASSUME NEW p \in Peers, NEW cause \in Cause, NEW cond \in Condition,
         \/ Saw(cause, p, AckIq(p)) \/ Saw(cause, p, IqError(p, cond))
         \/ Saw(cause, p, <<>>)
  PROVE  obs' \in Observation
<1>1. AckIq(p) \in Seq(Stanza) /\ IqError(p, cond) \in Seq(Stanza) /\ <<>> \in Seq(Stanza)
  BY AnswerType
<1>2. PICK out \in Seq(Stanza) : Saw(cause, p, out)
  BY <1>1
<1> QED BY <1>2 DEF Saw, Observation

LEMMA UnknownType ==
  ASSUME TypeOK, NEW p \in Peers, NEW s, NEW cause \in Cause,
         UnknownSession(p, s, cause)
  PROVE  TypeOK'
<1>1. obs' \in Observation
  <2>1. "item-not-found" \in Condition
    BY DEF Condition
  <2> QED BY <2>1, AnswerSaw DEF UnknownSession
<1>2. aborted' \in BOOLEAN /\ UNCHANGED <<sessionVars, fileVars, ackVars, events, connected>>
  BY DEF UnknownSession, TypeOK
<1> QED BY <1>1, <1>2, ShowOnly

LEMMA RefusedType ==
  ASSUME TypeOK, NEW p \in Peers, NEW cause \in Cause, RefusedContents(p, cause)
  PROVE  TypeOK'
<1>1. obs' \in Observation
  <2>1. "bad-request" \in Condition
    BY DEF Condition
  <2> QED BY <2>1, AnswerSaw DEF RefusedContents
<1>2. aborted' \in BOOLEAN /\ UNCHANGED <<sessionVars, fileVars, ackVars, events, connected>>
  BY DEF RefusedContents
<1> QED BY <1>1, <1>2, ShowOnly

\* The handlers that answer and change nothing else.
LEMMA AnswerOnlyType ==
  ASSUME TypeOK, NEW p \in Peers, NEW s,
         \/ WrongNamespace(p) \/ RefusedIq(p)
         \/ handle_session_info(p, s) \/ handle_transport_info(p, s)
  PROVE  TypeOK'
<1> USE DEF Cause, Condition
<1>1. CASE WrongNamespace(p)
  <2>1. obs' \in Observation
    BY <1>1 DEF WrongNamespace, Saw, Observation
  <2>2. aborted' \in BOOLEAN /\ UNCHANGED <<sessionVars, fileVars, ackVars, events, connected>>
    BY <1>1 DEF WrongNamespace, TypeOK
  <2> QED BY <2>1, <2>2, ShowOnly
<1>2. CASE RefusedIq(p)
  <2>1. obs' \in Observation
    BY <1>2, AnswerSaw DEF RefusedIq
  <2>2. aborted' \in BOOLEAN /\ UNCHANGED <<sessionVars, fileVars, ackVars, events, connected>>
    BY <1>2 DEF RefusedIq, TypeOK
  <2> QED BY <2>1, <2>2, ShowOnly
<1>3. CASE handle_session_info(p, s)
  <2>1. CASE UnknownSession(p, s, "session-info")
    BY <2>1, UnknownType
  <2>2. CASE /\ \/ Saw("info-ping", p, AckIq(p))
                \/ Saw("info-hash", p, IqError(p, "unsupported-info"))
                \/ Saw("info-other", p, AckIq(p))
             /\ UNCHANGED <<sessionVars, fileVars, ackVars, events, connected, aborted>>
    <3>1. obs' \in Observation
      BY <2>2, AnswerSaw
    <3>2. aborted' \in BOOLEAN
      BY <2>2 DEF TypeOK
    <3> QED BY <2>2, <3>1, <3>2, ShowOnly
  <2> QED BY <1>3, <2>1, <2>2 DEF handle_session_info
<1>4. CASE handle_transport_info(p, s)
  <2>1. CASE UnknownSession(p, s, "transport-info")
    BY <2>1, UnknownType
  <2>2. CASE /\ Saw("transport-info", p, IqError(p, "bad-request"))
             /\ UNCHANGED <<sessionVars, fileVars, ackVars, events, connected, aborted>>
    <3>1. obs' \in Observation
      BY <2>2, AnswerSaw
    <3>2. aborted' \in BOOLEAN
      BY <2>2 DEF TypeOK
    <3> QED BY <2>2, <3>1, <3>2, ShowOnly
  <2> QED BY <1>4, <2>1, <2>2 DEF handle_transport_info
<1> QED BY <1>1, <1>2, <1>3, <1>4

LEMMA AcceptType ==
  ASSUME TypeOK, NEW p \in Peers, NEW s \in Sids, handle_session_accept(p, s)
  PROVE  TypeOK'
<1>1. CASE UnknownSession(p, s, "session-accept")
  BY <1>1, UnknownType DEF Cause
<1>2. CASE RefusedContents(p, "session-accept")
  BY <1>2, RefusedType DEF Cause
<1>3. ASSUME NEW a \in Find(s, p), NEW named \in SUBSET Names,
             cstate' = [cstate EXCEPT ![a] =
                          [n \in Names |-> IF n \in named \cap Contents(a)
                                           THEN "ACTIVE" ELSE cstate[a][n]]],
             Saw("session-accept", p, AckIq(p)),
             UNCHANGED <<live, sess, cfile, created, fileVars, ackVars, events, connected,
                         aborted>>
      PROVE  TypeOK'
  <2>1. a \in Addr
    BY FindType
  <2>2. cstate' \in [Addr -> [Names -> SessionState]]
    BY <1>3, <2>1 DEF TypeOK, SessionState
  <2>3. obs' \in Observation
    BY <1>3, AnswerSaw DEF Cause, Condition
  <2> QED BY <1>3, <2>2, <2>3 DEF TypeOK, Observation, fileVars, ackVars
<1> QED BY <1>1, <1>2, <1>3 DEF handle_session_accept

\* stop of the file transfer module.
LEMMA StopType ==
  ASSUME TypeOK, NEW S
  PROVE  Stop(S) \in [FileIndex -> JingleFT]
BY ZenonT(30) DEF TypeOK, Stop, JingleFT, FileState

LEMMA TerminateType ==
  ASSUME TypeOK, NEW p \in Peers, NEW s \in Sids, handle_session_terminate(p, s)
  PROVE  TypeOK'
<1>1. CASE UnknownSession(p, s, "session-terminate")
  BY <1>1, UnknownType DEF Cause
<1>2. CASE \E a \in Find(s, p) :
             /\ StopContents(a) /\ live' = Removed(a) /\ session_free(a)
             /\ Saw("session-terminate", p, AckIq(p))
             /\ UNCHANGED <<nfiles, ackVars, events, connected, aborted>>
  <2>1. PICK a \in Find(s, p) :
             /\ StopContents(a) /\ live' = Removed(a) /\ session_free(a)
             /\ Saw("session-terminate", p, AckIq(p))
             /\ UNCHANGED <<nfiles, ackVars, events, connected, aborted>>
    BY <1>2
  <2>3. files' \in [FileIndex -> JingleFT]
    BY <2>1, StopType DEF StopContents
  <2>4. a \in Addr
    BY FindType
  <2>5. /\ live' \subseteq Addr /\ sess' \in [Addr -> Session]
        /\ cstate' \in [Addr -> [Names -> SessionState]]
        /\ cfile' \in [Addr -> [Names -> 0 .. MaxFiles]]
        /\ created' \in Nat
    BY <2>1, <2>4, FreeType DEF Removed
  <2>6. obs' \in Observation
    BY <2>1, AnswerSaw DEF Cause, Condition
  <2> QED BY <2>1, <2>3, <2>5, <2>6 DEF TypeOK, Observation, ackVars
<1>3. CASE /\ aborted' = TRUE /\ Saw("session-terminate", p, <<>>)
           /\ UNCHANGED <<sessionVars, fileVars, ackVars, events, connected>>
  <2>1. obs' \in Observation
    BY <1>3 DEF Saw, Observation, Cause, Jids
  <2> QED BY <1>3, <2>1 DEF TypeOK, Observation, sessionVars, fileVars, ackVars
<1>4. \/ UnknownSession(p, s, "session-terminate")
      \/ \E a \in Find(s, p) :
           \/ /\ StopContents(a) /\ live' = Removed(a) /\ session_free(a)
              /\ Saw("session-terminate", p, AckIq(p))
              /\ UNCHANGED <<nfiles, ackVars, events, connected, aborted>>
           \/ /\ aborted' = TRUE /\ Saw("session-terminate", p, <<>>)
              /\ UNCHANGED <<sessionVars, fileVars, ackVars, events, connected>>
  BY Zenon DEF handle_session_terminate
<1> QED BY <1>1, <1>2, <1>3, <1>4

LEMMA PeerType ==
  ASSUME TypeOK, NEW p \in Peers, Peer(p)
  PROVE  TypeOK'
<1>1. \/ WrongNamespace(p) \/ RefusedIq(p)
      \/ \E s \in Sids :
           \/ handle_session_initiate(p, s) \/ handle_session_info(p, s)
           \/ handle_session_accept(p, s) \/ handle_session_terminate(p, s)
           \/ handle_transport_info(p, s)
  BY DEF Peer, jingle_handle_iq
<1>2. CASE WrongNamespace(p) \/ RefusedIq(p)
  BY <1>2, AnswerOnlyType
<1>3. ASSUME NEW s \in Sids,
             \/ handle_session_initiate(p, s) \/ handle_session_info(p, s)
             \/ handle_session_accept(p, s) \/ handle_session_terminate(p, s)
             \/ handle_transport_info(p, s)
      PROVE  TypeOK'
  BY <1>3, AnswerOnlyType, SessionInitiateType, AcceptType, TerminateType
<1> QED BY <1>1, <1>2, <1>3

-----------------------------------------------------------------------------
(* The user *)

LEMMA SilentSaw ==
  ASSUME NEW cause \in Cause, Saw(cause, NoBody, <<>>)
  PROVE  obs' \in Observation
BY DEF Saw, Observation

LEMMA OfferedSession ==
  ASSUME NEW r \in Session, NEW ok \in BOOLEAN
  PROVE  Offered(r, ok) \in Session
BY DEF Session, Offered

\* The session of a new offer, and the one jingle_handle_app finds.
LEMMA OfferedType ==
  ASSUME TypeOK, NEW f \in FileIndex, NEW p \in Peers, NEW cause \in Cause,
         NEW a \in Addr, NEW s \in Sids, NEW trans \in BOOLEAN, NEW ok \in BOOLEAN,
         SessionOffered(f, p, cause, a, s, trans, ok)
  PROVE  /\ live' \subseteq Addr /\ sess' \in [Addr -> Session]
         /\ cstate' \in [Addr -> [Names -> SessionState]]
         /\ cfile' \in [Addr -> [Names -> 0 .. MaxFiles]]
         /\ acks' \subseteq AckHandle /\ nacks' \in Nat
         /\ aborted' \in BOOLEAN /\ obs' \in Observation
<1> DEFINE target  == session_find_by_app(f, a)
           lost    == target # a /\ cstate[target][FileName] = "absent"
           sends   == trans /\ ~lost
           deleted == IF sends /\ ~ok THEN {target} ELSE {}
           both    == [sess EXCEPT ![a] = NewOutgoing(s, p)]
           peer    == IF target = a THEN p ELSE Recipient(target)
<1>1. target \in Addr
  BY FoundByApp DEF TypeOK
<1>2. NewOutgoing(s, p) \in Session
  BY DEF TypeOK, NewOutgoing, Session
<1>3. both \in [Addr -> Session]
  BY <1>2 DEF TypeOK
<1>4. peer \in Jids
  BY <1>1, RecipientType
<1>5. live' \subseteq Addr
  BY DEF SessionOffered, TypeOK
<1>6. cstate' \in [Addr -> [Names -> SessionState]]
  <2>1. cstate' = [b \in Addr |-> [n \in Names |->
                     IF b \in deleted THEN "absent"
                     ELSE IF b # a THEN cstate[b][n]
                     ELSE IF n = FileName THEN "PENDING" ELSE "absent"]]
    BY DEF SessionOffered
  <2> HIDE DEF deleted
  <2> QED BY <2>1 DEF TypeOK, SessionState
<1>7. cfile' \in [Addr -> [Names -> 0 .. MaxFiles]]
  <2>1. cfile' = [b \in Addr |-> [n \in Names |->
                    IF b \in deleted THEN 0
                    ELSE IF b # a THEN cfile[b][n]
                    ELSE IF n = FileName THEN f ELSE 0]]
    BY DEF SessionOffered
  <2>2. f \in 0 .. MaxFiles
    BY DEF FileIndex
  <2> HIDE DEF deleted
  <2> QED BY <2>1, <2>2 DEF TypeOK
<1>8. CASE sends
  <2>1. /\ jingle_send_session_initiate(target, both[target], ok)
        /\ sess' = [both EXCEPT ![target] = Offered(both[target], ok)]
        /\ Saw(cause, NoBody,
               IF ok THEN <<Msg("session-initiate", peer, peer, NoCond)>> ELSE <<>>)
        /\ UNCHANGED aborted
    BY <1>8 DEF SessionOffered
  <2> HIDE DEF target, sends, both, peer
  <2>2. sess' \in [Addr -> Session]
    <3>1. both[target] \in Session
      BY <1>1, <1>3
    <3>2. Offered(both[target], ok) \in Session
      BY <3>1, OfferedSession
    <3> QED BY <1>3, <2>1, <3>2
  <2>3. acks' \subseteq AckHandle /\ nacks' \in Nat
    <3>1. both[target].born \in Nat
      BY <1>1, <1>3 DEF Session
    <3> DEFINE k == NewAck("si", target, both[target].born, ok)
    <3>2. nacks + 1 \in Nat
      BY DEF TypeOK
    <3>3. k \in AckHandle
      BY <1>1, <3>1, <3>2 DEF NewAck, AckHandle
    <3>4. acks' = acks \cup {k} /\ nacks' = nacks + 1
      BY <2>1 DEF jingle_send_session_initiate
    <3> HIDE DEF k
    <3> QED BY <3>2, <3>3, <3>4 DEF TypeOK
  <2>4. obs' \in Observation
    <3>1. Msg("session-initiate", peer, peer, NoCond) \in Stanza
      BY <1>4 DEF Msg, Stanza, Condition
    <3>2. (IF ok THEN <<Msg("session-initiate", peer, peer, NoCond)>> ELSE <<>>) \in Seq(Stanza)
      BY <3>1
    <3> QED BY <2>1, <3>2 DEF Saw, Observation
  <2> QED BY <1>5, <1>6, <1>7, <2>1, <2>2, <2>3, <2>4 DEF TypeOK
<1>9. CASE ~sends
  <2>1. /\ sess' = both
        /\ aborted' = trans
        /\ Saw(cause, NoBody, <<>>)
        /\ UNCHANGED ackVars
    BY <1>9 DEF SessionOffered
  <2> QED BY <1>3, <1>5, <1>6, <1>7, <2>1, SilentSaw DEF TypeOK, ackVars
<1> QED BY <1>8, <1>9

LEMMA JftOfferType ==
  ASSUME TypeOK, NEW f \in FileIndex, NEW p \in Peers, NEW cause \in Cause,
         NEW fs \in [FileIndex -> JingleFT], JftOffer(f, p, cause, fs),
         nfiles' \in 0 .. MaxFiles
  PROVE  TypeOK'
<1>1. PICK a \in Addr \ live, s \in Sids \ {sess[b].sid : b \in live}, trans \in BOOLEAN,
           ok \in IF "linkfail" \in Disorder THEN BOOLEAN ELSE {TRUE} :
        SessionOffered(f, p, cause, a, s, trans, ok)
  BY DEF JftOffer
<1>2. ok \in BOOLEAN
  BY <1>1
<1>3. /\ live' \subseteq Addr /\ sess' \in [Addr -> Session]
      /\ cstate' \in [Addr -> [Names -> SessionState]]
      /\ cfile' \in [Addr -> [Names -> 0 .. MaxFiles]]
      /\ acks' \subseteq AckHandle /\ nacks' \in Nat
      /\ aborted' \in BOOLEAN /\ obs' \in Observation
  BY <1>1, <1>2, OfferedType
<1>4. files' = fs /\ created' = created + 1 /\ UNCHANGED <<events, connected>>
  BY DEF JftOffer
<1> QED BY <1>3, <1>4 DEF TypeOK, Observation

LEMMA JftFailsType ==
  ASSUME TypeOK, NEW cause \in Cause, NEW fs \in [FileIndex -> JingleFT], JftFails(cause, fs),
         nfiles' \in 0 .. MaxFiles
  PROVE  TypeOK'
<1>1. obs' \in Observation
  BY SilentSaw DEF JftFails
<1> QED BY <1>1 DEF JftFails, TypeOK, Observation, sessionVars, ackVars

LEMMA JftSendType ==
  ASSUME TypeOK, NEW p \in Peers, jft_send(p)
  PROVE  TypeOK'
<1>1. PICK empty \in BOOLEAN :
        LET File(st) == [files EXCEPT ![nfiles + 1] =
                           [state |-> st, dir |-> "OUTGOING", full |-> empty]] IN
        \/ JftFails("send", File("ERROR"))
        \/ connected /\ JftOffer(nfiles + 1, p, "send", File("PENDING"))
  BY DEF jft_send
<1> DEFINE File(st) == [files EXCEPT ![nfiles + 1] =
                          [state |-> st, dir |-> "OUTGOING", full |-> empty]]
<1>2. nfiles + 1 \in FileIndex /\ nfiles' \in 0 .. MaxFiles
  BY DEF jft_send, TypeOK, FileIndex
<1>3. File("ERROR") \in [FileIndex -> JingleFT] /\ File("PENDING") \in [FileIndex -> JingleFT]
  BY <1>2 DEF TypeOK, JingleFT, FileState
<1>4. \/ JftFails("send", File("ERROR"))
      \/ JftOffer(nfiles + 1, p, "send", File("PENDING"))
  BY <1>1
<1>5. "send" \in Cause
  BY DEF Cause
<1> HIDE DEF File
<1> QED BY <1>2, <1>3, <1>4, <1>5, JftFailsType, JftOfferType

LEMMA ChangedFile ==
  ASSUME NEW r \in JingleFT, NEW st \in FileState, NEW full \in BOOLEAN
  PROVE  [r EXCEPT !.state = st, !.full = full] \in JingleFT
BY DEF JingleFT

LEMMA JftRetryType ==
  ASSUME TypeOK, NEW p \in Peers, jft_retry(p)
  PROVE  TypeOK'
<1> DEFINE f == CHOOSE g \in InfoList : \A h \in InfoList : g <= h
           File(st) == [files EXCEPT ![f] = [@ EXCEPT !.state = st, !.full = TRUE]]
<1>1. f \in FileIndex
  BY FirstEntry DEF jft_retry, InfoList
<1>2. \/ JftFails("retry", File("ERROR"))
      \/ connected /\ JftOffer(f, p, "retry", File("PENDING"))
  BY DEF jft_retry
<1> HIDE DEF f
<1>3. File("ERROR") \in [FileIndex -> JingleFT] /\ File("PENDING") \in [FileIndex -> JingleFT]
  <2>1. ASSUME NEW st \in FileState PROVE File(st) \in [FileIndex -> JingleFT]
    <3> DEFINE r == [files[f] EXCEPT !.state = st, !.full = TRUE]
    <3>1. r \in JingleFT
      <4>1. files[f] \in JingleFT
        BY <1>1 DEF TypeOK
      <4> QED BY <4>1, ChangedFile
    <3>2. File(st) = [files EXCEPT ![f] = r]
      OBVIOUS
    <3> HIDE DEF r, File
    <3> QED BY <1>1, <3>1, <3>2 DEF TypeOK
  <2> QED BY <2>1 DEF FileState
<1>4. "retry" \in Cause /\ nfiles' \in 0 .. MaxFiles
  BY DEF Cause, jft_retry, TypeOK
<1> HIDE DEF File
<1> QED BY <1>1, <1>2, <1>3, <1>4, JftFailsType, JftOfferType

LEMMA JftFlushType ==
  ASSUME TypeOK, jft_flush
  PROVE  TypeOK'
<1> DEFINE Freed(S) == [g \in FileIndex |->
                          IF g \in S THEN [files[g] EXCEPT !.state = "freed", !.full = FALSE]
                          ELSE files[g]]
<1>1. \E S : files' = Freed(S)
  BY DEF jft_flush
<1>2. ASSUME NEW S PROVE Freed(S) \in [FileIndex -> JingleFT]
  <2>1. ASSUME NEW g \in FileIndex
        PROVE  [files[g] EXCEPT !.state = "freed", !.full = FALSE] \in JingleFT
    BY ChangedFile DEF TypeOK, FileState
  <2> QED BY <2>1 DEF TypeOK
<1>3. files' \in [FileIndex -> JingleFT]
  BY ZenonT(30), <1>1, <1>2
<1>4. aborted' \in BOOLEAN /\ UNCHANGED <<sessionVars, nfiles, ackVars, events, connected>>
  BY DEF jft_flush
<1>5. obs' \in Observation
  BY SilentSaw DEF jft_flush, Cause
<1> QED BY <1>3, <1>4, <1>5 DEF TypeOK, Observation, sessionVars, ackVars

\* jingle_send_session_accept, also for a stale address.
LEMMA SendAcceptType ==
  ASSUME TypeOK, NEW a \in Addr, jingle_send_session_accept(a)
  PROVE  acks' \subseteq AckHandle /\ nacks' \in Nat /\ obs' \in Observation
<1> DEFINE k == NewAck("sa", a, sess[a].born, connected)
<1>1. k \in AckHandle
  <2>1. sess[a].born \in Nat /\ connected \in BOOLEAN /\ nacks + 1 \in Nat
    BY DEF TypeOK, Session
  <2> QED BY <2>1 DEF NewAck, AckHandle
<1>2. acks' = acks \cup {k} /\ nacks' = nacks + 1
  BY DEF jingle_send_session_accept
<1>3. obs' \in Observation
  <2> DEFINE m == Msg("session-accept", Recipient(a), Recipient(a), NoCond)
  <2>1. m \in Stanza
    BY RecipientType DEF Msg, Stanza, Condition
  <2>2. Saw("event-accept", NoBody, IF connected THEN <<m>> ELSE <<>>)
    BY DEF jingle_send_session_accept
  <2>3. (IF connected THEN <<m>> ELSE <<>>) \in Seq(Stanza)
    BY <2>1
  <2> QED BY <2>2, <2>3 DEF Saw, Observation, Cause
<1> HIDE DEF k
<1> QED BY <1>1, <1>2, <1>3 DEF TypeOK

LEMMA EventType ==
  ASSUME TypeOK, NEW e \in events, evscallback_jingle(e)
  PROVE  TypeOK'
<1>1. e.ptr \in Addr
  BY DEF TypeOK, Event
<1>2. /\ events' \subseteq Event /\ aborted' \in BOOLEAN
      /\ UNCHANGED <<sessionVars, fileVars, connected>>
  BY DEF evscallback_jingle, TypeOK
<1>3. acks' \subseteq AckHandle /\ nacks' \in Nat /\ obs' \in Observation
  <2>1. CASE Saw("event-cancel", NoBody, <<>>) /\ UNCHANGED ackVars
    BY <2>1, SilentSaw DEF Cause, TypeOK, ackVars
  <2>2. CASE jingle_send_session_accept(e.ptr)
    BY <1>1, <2>2, SendAcceptType
  <2>3. CASE /\ Saw("event-reject", NoBody,
                    IF connected THEN <<Terminate(e.ptr, "decline")>> ELSE <<>>)
             /\ UNCHANGED ackVars
    <3>1. Terminate(e.ptr, "decline") \in Stanza
      BY <1>1, RecipientType DEF Terminate, Msg, Stanza, Condition
    <3>2. (IF connected THEN <<Terminate(e.ptr, "decline")>> ELSE <<>>) \in Seq(Stanza)
      BY <3>1
    <3> QED BY <2>3, <3>2 DEF Saw, Observation, Cause, TypeOK, ackVars
  <2> QED BY <2>1, <2>2, <2>3 DEF evscallback_jingle
<1> QED BY <1>2, <1>3 DEF TypeOK, Observation, sessionVars, fileVars

LEMMA UserType ==
  ASSUME TypeOK, User
  PROVE  TypeOK'
BY JftSendType, JftRetryType, JftFlushType, EventType, PeersAssumption DEF User

-----------------------------------------------------------------------------
(* Replies, timeouts and the connection *)

\* The callbacks of a session-initiate or session-accept, also on a stale address.
LEMMA CallbackType ==
  ASSUME TypeOK, NEW k \in acks, NEW answer, AckCallback(k, answer)
  PROVE  /\ live' \subseteq Addr /\ sess' \in [Addr -> Session]
         /\ cstate' \in [Addr -> [Names -> SessionState]]
         /\ cfile' \in [Addr -> [Names -> 0 .. MaxFiles]]
         /\ created' \in Nat /\ aborted' \in BOOLEAN
<1>1. k.ptr \in Addr
  BY DEF TypeOK, AckHandle
<1>2. CASE UNCHANGED <<sessionVars, aborted>>
  BY <1>2 DEF TypeOK, sessionVars
<1>3. CASE session_delete(k.ptr)
  BY <1>1, <1>3, DeleteType
<1> QED BY <1>2, <1>3 DEF AckCallback

LEMMA ReplyType ==
  ASSUME TypeOK, NEW k \in acks, Reply(k)
  PROVE  TypeOK'
<1>1. PICK answer \in {"result", "iq-error"} :
        Saw(answer, Recipient(k.ptr), <<>>) /\ AckCallback(k, answer)
  BY DEF Reply
<1>2. obs' \in Observation
  <2>1. Recipient(k.ptr) \in Jids
    BY RecipientType DEF TypeOK, AckHandle
  <2> QED BY <1>1, <2>1 DEF Saw, Observation, Cause
<1>3. acks' \subseteq AckHandle /\ UNCHANGED <<fileVars, nacks, events, connected>>
  BY DEF Reply, Consumed, TypeOK
<1> QED BY <1>1, <1>2, <1>3, CallbackType DEF TypeOK, Observation, fileVars

\* A handle that is freed, or that loudmouth forgot.
LEMMA FlaggedAck ==
  ASSUME TypeOK, NEW k \in acks
  PROVE  [k EXCEPT !.freed = TRUE] \in AckHandle /\ [k EXCEPT !.registered = FALSE] \in AckHandle
<1>1. ASSUME NEW b \in BOOLEAN
      PROVE  [k EXCEPT !.freed = b] \in AckHandle /\ [k EXCEPT !.registered = b] \in AckHandle
  BY ZenonT(30) DEF TypeOK, AckHandle
<1> QED BY <1>1

LEMMA TimeoutType ==
  ASSUME TypeOK, NEW k \in acks, Timeout(k)
  PROVE  TypeOK'
<1>1. [k EXCEPT !.freed = TRUE] \in AckHandle
  BY FlaggedAck
<1>2. acks' \subseteq AckHandle
  BY <1>1 DEF Timeout, TypeOK
<1>3. obs' \in Observation
  BY SilentSaw DEF Timeout, Cause
<1>4. AckCallback(k, "timeout") /\ UNCHANGED <<fileVars, nacks, events, connected>>
  BY DEF Timeout
<1> QED BY <1>2, <1>3, <1>4, CallbackType DEF TypeOK, Observation, fileVars

LEMMA LateReplyType ==
  ASSUME TypeOK, NEW k \in acks, LateReply(k)
  PROVE  TypeOK'
<1>1. \/ aborted' \in BOOLEAN /\ UNCHANGED sessionVars
      \/ \E answer : AckCallback(k, answer)
  BY DEF LateReply
<1>2. obs' \in Observation
  BY SilentSaw DEF LateReply, Cause
<1>3. acks' \subseteq AckHandle /\ UNCHANGED <<fileVars, nacks, events, connected>>
  BY DEF LateReply, TypeOK
<1>4. CASE aborted' \in BOOLEAN /\ UNCHANGED sessionVars
  BY <1>2, <1>3, <1>4 DEF TypeOK, Observation, sessionVars, fileVars
<1>5. CASE \E answer : AckCallback(k, answer)
  BY <1>2, <1>3, <1>5, CallbackType DEF TypeOK, Observation, fileVars
<1> QED BY <1>1, <1>4, <1>5

LEMMA DataType ==
  ASSUME TypeOK, NEW a \in live, NEW n \in Names, handle_trans_data(a, n)
  PROVE  TypeOK'
<1> DEFINE f == cfile[a][n]
<1>1. files' \in [FileIndex -> JingleFT] /\ aborted' \in BOOLEAN
  <2>1. CASE \E full \in BOOLEAN :
               files' = [files EXCEPT ![f] = [@ EXCEPT !.state = "STARTING", !.full = full]]
    <3>1. PICK full \in BOOLEAN :
            files' = [files EXCEPT ![f] = [@ EXCEPT !.state = "STARTING", !.full = full]]
      BY <2>1
    <3> DEFINE r == [files[f] EXCEPT !.state = "STARTING", !.full = full]
    <3>2. f \in FileIndex => r \in JingleFT
      BY ChangedFile DEF TypeOK, FileState
    <3>3. files' = [files EXCEPT ![f] = r]
      BY SMTT(30), <3>1
    <3>4. aborted' \in BOOLEAN
      BY ZenonT(30) DEF handle_trans_data, handle_data, TypeOK
    <3> HIDE DEF f, r
    <3> QED BY <3>2, <3>3, <3>4 DEF TypeOK
  <2>2. CASE UNCHANGED files
    BY <2>2 DEF handle_trans_data, handle_data, TypeOK
  <2> QED BY <2>1, <2>2 DEF handle_trans_data, handle_data
<1>2. obs' \in Observation
  <2>1. Recipient(a) \in Jids
    BY RecipientType DEF TypeOK
  <2>2. AckIq(Recipient(a)) \in Seq(Stanza)
    BY <2>1, AnswerType
  <2> QED BY <2>1, <2>2 DEF handle_trans_data, Saw, Observation, Cause
<1> QED BY SMTT(30), <1>1, <1>2 DEF handle_trans_data, TypeOK, Observation, sessionVars, ackVars

LEMMA ConnectionType ==
  ASSUME TypeOK, Connect \/ Disconnect
  PROVE  TypeOK'
<1>1. obs' \in Observation
  BY SilentSaw DEF Connect, Disconnect, Cause
<1>2. connected' \in BOOLEAN
  BY DEF Connect, Disconnect
<1>3. acks' \subseteq AckHandle /\ nacks' \in Nat
  <2>1. \A k \in acks : [k EXCEPT !.registered = FALSE] \in AckHandle
    BY FlaggedAck
  <2> QED BY <2>1 DEF Connect, Disconnect, TypeOK, ackVars
<1>4. UNCHANGED <<sessionVars, fileVars, events, aborted>>
  BY DEF Connect, Disconnect
<1> QED BY <1>1, <1>2, <1>3, <1>4 DEF TypeOK, Observation, sessionVars, fileVars

-----------------------------------------------------------------------------
(* Type correctness *)

LEMMA InitType == Init => TypeOK
<1> SUFFICES ASSUME Init PROVE TypeOK
  OBVIOUS
<1>1. sess \in [Addr -> Session]
  BY DEF Init, Session
<1>2. cstate \in [Addr -> [Names -> SessionState]] /\ cfile \in [Addr -> [Names -> 0 .. MaxFiles]]
  BY DEF Init, SessionState
<1>3. files \in [FileIndex -> JingleFT]
  BY DEF Init, JingleFT, FileState
<1>4. obs \in [cause : Cause, from : Jids \cup {NoBody}, out : Seq(Stanza)]
  BY DEF Init, Cause
<1>5. /\ live = {} /\ acks = {} /\ events = {}
      /\ created = 0 /\ nfiles = 0 /\ nacks = 0
      /\ connected = TRUE /\ aborted = FALSE
  BY DEF Init
<1>6. nfiles \in 0 .. MaxFiles /\ created \in Nat /\ nacks \in Nat
  BY <1>5
<1> QED BY <1>1, <1>2, <1>3, <1>4, <1>5, <1>6 DEF TypeOK

LEMMA NextType == TypeOK /\ [Next]_vars => TypeOK'
<1> SUFFICES ASSUME TypeOK, [Next]_vars PROVE TypeOK'
  OBVIOUS
<1>1. CASE Next
  <2>1. ASSUME NEW k \in acks, Reply(k) \/ LateReply(k) \/ Timeout(k)
        PROVE  TypeOK'
    BY <2>1, ReplyType, LateReplyType, TimeoutType
  <2>2. CASE Network
    BY <2>1, <2>2, ConnectionType, DataType DEF Network
  <2>3. CASE Timer
    BY <2>1, <2>3 DEF Timer
  <2> QED BY <1>1, <2>2, <2>3, PeerType, UserType DEF Next
<1>2. CASE UNCHANGED vars
  BY <1>2 DEF vars, TypeOK
<1> QED BY <1>1, <1>2

\* Type correctness, for every instance: among other things the handles and the
\* events always hold addresses of session structs, and every stanza sent is
\* addressed to a peer or, wrongly, to ourselves, never to nobody.
THEOREM TypeCorrect == Spec => []TypeOK
<1>1. Init => TypeOK
  BY InitType
<1>2. TypeOK /\ [Next]_vars => TypeOK'
  BY NextType
<1> QED BY <1>1, <1>2, PTL DEF Spec

-----------------------------------------------------------------------------
(* One reply to each IQ *)

\* What is sent is one answer to the sender, alone or before a session-terminate.
LEMMA AnswersOnce ==
  ASSUME NEW cause, NEW p,
         \/ Saw(cause, p, AckIq(p))
         \/ \E cond : Saw(cause, p, IqError(p, cond))
         \/ \E to, about, cond :
              Saw(cause, p, AckIq(p) \o <<Msg("session-terminate", to, about, cond)>>)
  PROVE  RepliedOnce'
<1>1. CASE Saw(cause, p, AckIq(p))
  BY <1>1 DEF Saw, AckIq, Msg, RepliedOnce
<1>2. CASE \E cond : Saw(cause, p, IqError(p, cond))
  BY <1>2 DEF Saw, IqError, Msg, RepliedOnce
<1>3. ASSUME NEW to, NEW about, NEW cond,
             Saw(cause, p, AckIq(p) \o <<Msg("session-terminate", to, about, cond)>>)
      PROVE  RepliedOnce'
  <2> DEFINE ack  == Msg("result", p, p, NoCond)
             bye  == Msg("session-terminate", to, about, cond)
             both == {ack, bye}
             out  == <<ack>> \o <<bye>>
  <2>1. ack.kind = "result" /\ ack.to = p /\ bye.kind = "session-terminate"
    BY DEF Msg
  <2>2. obs' = [cause |-> cause, from |-> p, out |-> out]
    BY <1>3, Zenon DEF Saw, AckIq
  <2>3. ack \in both /\ bye \in both
    OBVIOUS
  <2> HIDE DEF ack, bye, both
  <2>4. out \in Seq(both) /\ Len(out) = 2 /\ out[1] = ack /\ out[2] = bye
    BY <2>3
  <2> HIDE DEF out
  <2>5. DOMAIN out = {1, 2}
    BY <2>4
  <2>6. {j \in DOMAIN out : out[j].kind \in {"result", "error"}} = {1}
    BY <2>1, <2>4, <2>5
  <2> QED BY <2>1, <2>2, <2>4, <2>5, <2>6 DEF RepliedOnce
<1> QED BY <1>1, <1>2, <1>3

\* Nothing is owed to what is not an IQ of ours.
LEMMA NoneOwed ==
  ASSUME NEW cause, NEW p, NEW out, Saw(cause, p, out), cause \notin Iqs
  PROVE  RepliedOnce'
BY DEF Saw, RepliedOnce

\* Every path through check_jingle and the handlers answers.
LEMMA PeerReplies ==
  ASSUME NEW p \in Peers, Peer(p)
  PROVE  RepliedOnce'
<1>1. CASE WrongNamespace(p)
  BY <1>1, NoneOwed DEF WrongNamespace, Iqs
<1>2. CASE RefusedIq(p)
  BY <1>2, AnswersOnce DEF RefusedIq
<1>3. ASSUME NEW s \in Sids, handle_session_initiate(p, s)
      PROVE  RepliedOnce'
  <2>1. PICK offer \in [Names -> Offers] : InitiateRefused(p, s, offer) \/ InitiateAccepted(p, s, offer)
    BY <1>3 DEF handle_session_initiate
  <2>2. CASE InitiateRefused(p, s, offer)
    BY <2>2, AnswersOnce DEF InitiateRefused, RefusedContents
  <2>3. CASE InitiateAccepted(p, s, offer)
    <3>1. \E a, kept, entries, index, empty : SessionReceived(a, p, s, kept, entries, index, empty)
      BY <2>3, Zenon DEF InitiateAccepted
    <3>2. \/ Saw("session-initiate", p, AckIq(p))
          \/ Saw("session-initiate", p,
                 AckIq(p) \o <<Msg("session-terminate", Me, p, "unsupported-applications")>>)
      BY <3>1 DEF SessionReceived
    <3> QED BY <3>2, AnswersOnce
  <2> QED BY <2>1, <2>2, <2>3
<1>4. ASSUME NEW s \in Sids, NEW cause, UnknownSession(p, s, cause)
      PROVE  RepliedOnce'
  BY <1>4, AnswersOnce DEF UnknownSession
<1>5. ASSUME NEW s \in Sids, handle_session_info(p, s)
      PROVE  RepliedOnce'
  BY <1>4, <1>5, AnswersOnce DEF handle_session_info
<1>6. ASSUME NEW s \in Sids, handle_session_accept(p, s)
      PROVE  RepliedOnce'
  BY <1>4, <1>6, AnswersOnce DEF handle_session_accept, RefusedContents
<1>7. ASSUME NEW s \in Sids, handle_session_terminate(p, s)
      PROVE  RepliedOnce'
  <2>1. \/ UnknownSession(p, s, "session-terminate")
        \/ Saw("session-terminate", p, AckIq(p))
        \/ aborted' = TRUE /\ Saw("session-terminate", p, <<>>)
    BY <1>7, Zenon DEF handle_session_terminate
  <2>2. CASE aborted' = TRUE /\ Saw("session-terminate", p, <<>>)
    BY <2>2 DEF Saw, RepliedOnce
  <2> QED BY <1>4, <2>1, <2>2, AnswersOnce
<1>8. ASSUME NEW s \in Sids, handle_transport_info(p, s)
      PROVE  RepliedOnce'
  BY <1>4, <1>8, AnswersOnce DEF handle_transport_info
<1> QED BY <1>1, <1>2, <1>3, <1>5, <1>6, <1>7, <1>8 DEF Peer, jingle_handle_iq

\* What the user, the network and the timer do shows as something else.
LEMMA OthersShow ==
  ASSUME User \/ Network \/ Timer
  PROVE  RepliedOnce'
<1>1. ASSUME NEW f, NEW p, NEW cause \in {"send", "retry"}, NEW fs,
             JftFails(cause, fs) \/ JftOffer(f, p, cause, fs)
      PROVE  RepliedOnce'
  <2>1. CASE JftFails(cause, fs)
    BY <2>1, NoneOwed DEF JftFails, Iqs
  <2>2. CASE JftOffer(f, p, cause, fs)
    <3>1. PICK a, s, trans, ok : SessionOffered(f, p, cause, a, s, trans, ok)
      BY <2>2, Zenon DEF JftOffer
    <3>2. \E out : Saw(cause, NoBody, out)
      BY <3>1, Zenon DEF SessionOffered
    <3> QED BY <3>2, NoneOwed DEF Iqs
  <2> QED BY <1>1, <2>1, <2>2
<1>2. ASSUME NEW p, jft_send(p) PROVE RepliedOnce'
  BY <1>1, <1>2 DEF jft_send
<1>3. ASSUME NEW p, jft_retry(p) PROVE RepliedOnce'
  BY <1>1, <1>3 DEF jft_retry
<1>4. CASE jft_flush
  BY <1>4, NoneOwed DEF jft_flush, Iqs
<1>5. ASSUME NEW e, evscallback_jingle(e) PROVE RepliedOnce'
  BY <1>5, NoneOwed DEF evscallback_jingle, jingle_send_session_accept, Iqs
<1>6. ASSUME NEW k, Reply(k) \/ LateReply(k) \/ Timeout(k) PROVE RepliedOnce'
  BY <1>6, NoneOwed DEF Reply, LateReply, Timeout, Iqs
<1>7. ASSUME NEW a, NEW n, handle_trans_data(a, n) PROVE RepliedOnce'
  BY <1>7, NoneOwed DEF handle_trans_data, Iqs
<1>8. CASE Connect \/ Disconnect
  BY <1>8, NoneOwed DEF Connect, Disconnect, Iqs
<1> QED BY <1>2, <1>3, <1>4, <1>5, <1>6, <1>7, <1>8 DEF User, Network, Timer

\* Every IQ in our namespaces is answered exactly once and to its sender, whatever
\* state it finds us in (jingle_handle_iq and the handlers it calls), unless the
\* process ends before the answer (the walk of handle_session_terminate).
THEOREM EveryIqAnswered == Spec => OneReply
<1>1. Init => RepliedOnce
  BY DEF Init, RepliedOnce, Iqs
<1>2. RepliedOnce /\ [Next]_vars => RepliedOnce'
  BY PeerReplies, OthersShow DEF Next, vars, RepliedOnce
<1> QED BY <1>1, <1>2, PTL DEF Spec, OneReply

-----------------------------------------------------------------------------
(***************************************************************************)
(* What the list of sessions promises, for every instance: a sid and an    *)
(* entity name one session, and a session in the list has a content.       *)
(* Only the two ways of making a session can disturb either.               *)
(***************************************************************************)

-----------------------------------------------------------------------------
(* The three kinds of steps *)

\* The step makes no session: those that stay keep their names and contents.
Kept ==
  /\ live' \subseteq live /\ UNCHANGED sess
  /\ \A b \in live', n \in Names :
       /\ cfile'[b][n] = cfile[b][n]
       /\ (cstate'[b][n] = "absent") <=> (cstate[b][n] = "absent")

\* A callback that leaves the sessions alone.
LEMMA UnchangedKept ==
  ASSUME UNCHANGED sessionVars
  PROVE  Kept
BY DEF Kept, sessionVars

\* session_free on an address that leaves the list.
LEMMA FreeKept ==
  ASSUME TypeOK, NEW a, live' = Removed(a), session_free(a)
  PROVE  Kept
<1>1. live' \subseteq live /\ UNCHANGED sess
  BY DEF Removed, session_free
<1>2. ASSUME NEW b \in live', NEW n \in Names
      PROVE  cstate'[b][n] = cstate[b][n] /\ cfile'[b][n] = cfile[b][n]
  <2>1. b # a /\ b \in Addr
    BY DEF Removed, TypeOK
  <2> QED BY <2>1 DEF session_free, TypeOK
<1> QED BY <1>1, <1>2 DEF Kept

\* session_accept activates contents, it takes none away.
LEMMA AcceptKept ==
  ASSUME TypeOK, NEW p \in Peers, NEW s \in Sids, handle_session_accept(p, s)
  PROVE  Kept
<1>1. CASE UNCHANGED sessionVars
  BY <1>1, UnchangedKept
<1>2. ASSUME NEW a \in Find(s, p), NEW named \in SUBSET Names,
             cstate' = [cstate EXCEPT ![a] =
                          [n \in Names |-> IF n \in named \cap Contents(a)
                                           THEN "ACTIVE" ELSE cstate[a][n]]],
             UNCHANGED <<live, sess, cfile>>
      PROVE  Kept
  <2>1. a \in Addr
    BY FindType
  <2>2. ASSUME NEW b \in live', NEW n \in Names
        PROVE  (cstate'[b][n] = "absent") <=> (cstate[b][n] = "absent")
    <3>1. b \in Addr
      BY <1>2 DEF TypeOK
    <3>2. CASE b = a
      <4>1. cstate'[b][n] = IF n \in named \cap Contents(a) THEN "ACTIVE" ELSE cstate[a][n]
        BY <1>2, <2>1, <3>2 DEF TypeOK
      <4> QED BY <3>2, <4>1 DEF Contents
    <3>3. CASE b # a
      BY <1>2, <3>1, <3>3 DEF TypeOK
    <3> QED BY <3>2, <3>3
  <2> QED BY <1>2, <2>2 DEF Kept
<1> QED BY <1>1, <1>2 DEF handle_session_accept, UnknownSession, RefusedContents

LEMMA CallbackKept ==
  ASSUME TypeOK, NEW k, NEW answer, AckCallback(k, answer)
  PROVE  Kept
<1>1. CASE UNCHANGED sessionVars
  BY <1>1, UnchangedKept
<1>2. CASE session_delete(k.ptr)
  BY <1>2, FreeKept DEF session_delete
<1> QED BY <1>1, <1>2 DEF AckCallback

LEMMA PeerKept ==
  ASSUME TypeOK, NEW p \in Peers, Peer(p)
  PROVE  \/ Kept
         \/ \E s \in Sids, offer \in [Names -> Offers] : InitiateAccepted(p, s, offer)
<1>1. CASE UNCHANGED sessionVars
  BY <1>1, UnchangedKept
<1>2. ASSUME NEW s \in Sids, handle_session_initiate(p, s)
      PROVE  \/ UNCHANGED sessionVars
             \/ \E offer \in [Names -> Offers] : InitiateAccepted(p, s, offer)
  BY <1>2 DEF handle_session_initiate, InitiateRefused, RefusedContents
<1>3. ASSUME NEW s \in Sids, handle_session_terminate(p, s)
      PROVE  Kept
  <2>1. CASE UnknownSession(p, s, "session-terminate")
    <3>1. UNCHANGED sessionVars
      BY <2>1 DEF UnknownSession
    <3> QED BY <3>1, UnchangedKept
  <2>2. CASE \E a \in Find(s, p) : live' = Removed(a) /\ session_free(a)
    BY <2>2, FreeKept
  <2>3. CASE UNCHANGED sessionVars
    BY <2>3, UnchangedKept
  <2> QED BY <1>3, <2>1, <2>2, <2>3 DEF handle_session_terminate
<1>4. ASSUME NEW s \in Sids, handle_session_info(p, s) \/ handle_transport_info(p, s)
      PROVE  UNCHANGED sessionVars
  <2>1. CASE handle_session_info(p, s)
    BY <2>1 DEF handle_session_info, UnknownSession
  <2>2. CASE handle_transport_info(p, s)
    BY <2>2 DEF handle_transport_info, UnknownSession
  <2> QED BY <1>4, <2>1, <2>2
<1>5. WrongNamespace(p) \/ RefusedIq(p) => UNCHANGED sessionVars
  BY DEF WrongNamespace, RefusedIq
<1>6. \/ WrongNamespace(p) \/ RefusedIq(p)
      \/ \E s \in Sids :
           \/ handle_session_initiate(p, s) \/ handle_session_info(p, s)
           \/ handle_session_accept(p, s) \/ handle_session_terminate(p, s)
           \/ handle_transport_info(p, s)
  BY DEF Peer, jingle_handle_iq
<1> QED BY <1>1, <1>2, <1>3, <1>4, <1>5, <1>6, AcceptKept

\* /jft send offers a new entry of info_list, /jft retry one that is there.
OfferStep ==
  \E f \in FileIndex, p \in Peers, cause \in Cause :
    /\ JftOffer(f, p, cause, files')
    /\ \/ cause = "send" /\ f = nfiles + 1 /\ nfiles' = f /\ files'[f].state = "PENDING"
       \/ cause = "retry" /\ "retry" \in Disorder /\ f \in 1 .. nfiles

LEMMA SendOffers ==
  ASSUME TypeOK, NEW p \in Roster, jft_send(p)
  PROVE  (\E fs : JftFails("send", fs)) \/ OfferStep
<1>1. nfiles + 1 \in FileIndex /\ p \in Peers /\ "send" \in Cause
  <2>1. nfiles < MaxFiles
    BY DEF jft_send
  <2>2. nfiles \in 0 .. MaxFiles
    BY DEF TypeOK
  <2>3. nfiles + 1 \in FileIndex
    BY <2>1, <2>2 DEF FileIndex
  <2> QED BY <2>3, PeersAssumption DEF Cause
<1>2. PICK empty \in BOOLEAN :
        LET File(st) == [files EXCEPT ![nfiles + 1] =
                           [state |-> st, dir |-> "OUTGOING", full |-> empty]] IN
        \/ JftFails("send", File("ERROR"))
        \/ connected /\ JftOffer(nfiles + 1, p, "send", File("PENDING"))
  BY DEF jft_send
<1> DEFINE fs == [files EXCEPT ![nfiles + 1] =
                    [state |-> "PENDING", dir |-> "OUTGOING", full |-> empty]]
<1>3. (\E gs : JftFails("send", gs)) \/ JftOffer(nfiles + 1, p, "send", fs)
  BY <1>2
<1>4. nfiles' = nfiles + 1
  BY DEF jft_send
<1>5. fs[nfiles + 1].state = "PENDING"
  BY <1>1 DEF TypeOK
<1> HIDE DEF fs
<1>6. JftOffer(nfiles + 1, p, "send", fs)
      => JftOffer(nfiles + 1, p, "send", files') /\ files' = fs
  BY DEF JftOffer
<1> QED BY <1>1, <1>3, <1>4, <1>5, <1>6 DEF OfferStep

LEMMA RetryOffers ==
  ASSUME TypeOK, NEW p \in Roster, jft_retry(p)
  PROVE  (\E fs : JftFails("retry", fs)) \/ OfferStep
<1> DEFINE f == CHOOSE g \in InfoList : \A h \in InfoList : g <= h
<1>1. f \in FileIndex /\ f \in 1 .. nfiles
  BY FirstEntry DEF jft_retry, InfoList, FileIndex
<1>2. p \in Peers /\ "retry" \in Cause /\ "retry" \in Disorder
  BY PeersAssumption DEF Cause, jft_retry
<1>3. \E fs : JftFails("retry", fs) \/ JftOffer(f, p, "retry", fs)
  BY <1>2 DEF jft_retry
<1> HIDE DEF f
<1>4. \A fs : JftOffer(f, p, "retry", fs) => JftOffer(f, p, "retry", files')
  BY DEF JftOffer
<1> QED BY <1>1, <1>2, <1>3, <1>4 DEF OfferStep, JftFails

LEMMA UserKept ==
  ASSUME TypeOK, User
  PROVE  Kept \/ OfferStep
<1>1. ASSUME NEW p \in Roster, jft_send(p)
      PROVE  UNCHANGED sessionVars \/ OfferStep
  BY <1>1, SendOffers DEF JftFails
<1>2. ASSUME NEW p \in Roster, jft_retry(p)
      PROVE  UNCHANGED sessionVars \/ OfferStep
  BY <1>2, RetryOffers DEF JftFails
<1>3. jft_flush \/ (\E e \in events : evscallback_jingle(e)) => UNCHANGED sessionVars
  BY DEF jft_flush, evscallback_jingle
<1> QED BY <1>1, <1>2, <1>3, UnchangedKept DEF User

\* The three kinds of steps.
LEMMA StepKinds ==
  ASSUME TypeOK, [Next]_vars
  PROVE  \/ Kept
         \/ \E p \in Peers, s \in Sids, offer \in [Names -> Offers] :
              InitiateAccepted(p, s, offer)
         \/ OfferStep
<1>1. ASSUME Network \/ Timer PROVE Kept
  <2>1. CASE \E k \in acks : Reply(k) \/ LateReply(k) \/ Timeout(k)
    BY <2>1, CallbackKept, UnchangedKept DEF Reply, LateReply, Timeout
  <2>2. CASE \/ Connect \/ Disconnect
             \/ \E a \in live, n \in Names : handle_trans_data(a, n)
    BY <2>2, UnchangedKept DEF Connect, Disconnect, handle_trans_data
  <2> QED BY <1>1, <2>1, <2>2 DEF Network, Timer
<1>2. CASE UNCHANGED vars
  BY <1>2, UnchangedKept DEF vars, sessionVars
<1>3. CASE \E p \in Peers : Peer(p)
  BY <1>3, PeerKept
<1>4. CASE User
  BY <1>4, UserKept
<1> QED BY <1>1, <1>2, <1>3, <1>4 DEF Next

-----------------------------------------------------------------------------
(* A sid and an entity name one session *)

\* A session-initiate makes a session only when no session of the list has its
\* sid and its sender.
LEMMA InitiateUnique ==
  ASSUME TypeOK, UniqueSession, NEW p \in Peers, NEW s \in Sids,
         NEW offer \in [Names -> Offers], InitiateAccepted(p, s, offer)
  PROVE  UniqueSession'
<1> DEFINE kept    == {n \in Names : offer[n] = "good"}
           opened  == {n \in Names : offer[n] \in {"good", "badTransport"}}
           entries == Entries(Cardinality(opened))
<1>1. PICK a \in Addr \ live, index \in [opened -> entries], empty \in SUBSET entries :
        /\ \A m, n \in opened : index[m] = index[n] => m = n
        /\ SessionReceived(a, p, s, kept, entries, index, empty)
  BY DEF InitiateAccepted
<1> DEFINE r == [sid |-> s, from |-> p, to |-> Me, origin |-> "INCOMING", born |-> created + 1,
                 announced |-> TRUE, inbound |-> kept]
<1>2. sess' = [sess EXCEPT ![a] = r] /\ live' \subseteq live \cup {a}
  BY <1>1 DEF SessionReceived
<1>3. \A b \in live : ~(sess[b].sid = s /\ Recipient(b) = p)
  BY DEF InitiateAccepted, Find
<1>4. r.sid = s /\ r.origin = "INCOMING" /\ r.from = p
  OBVIOUS
<1> HIDE DEF r
<1>5. ASSUME NEW b \in live
      PROVE  sess'[b] = sess[b] /\ Recipient(b)' = Recipient(b)
  BY <1>1, <1>2 DEF TypeOK, Recipient
<1>6. sess'[a] = r /\ Recipient(a)' = p
  BY <1>1, <1>2, <1>4 DEF TypeOK, Recipient
<1>7. ASSUME NEW b \in live', NEW c \in live',
             sess'[b].sid = sess'[c].sid, Recipient(b)' = Recipient(c)'
      PROVE  b = c
  <2>1. CASE b \in live /\ c \in live
    BY <1>5, <1>7, <2>1 DEF UniqueSession
  <2>2. CASE b = a \/ c = a
    BY <1>2, <1>3, <1>4, <1>5, <1>6, <1>7, <2>2
  <2> QED BY <1>2, <2>1, <2>2
<1> QED BY <1>7 DEF UniqueSession

\* The sid of a new session of ours differs from those of the list; offering a
\* JingleFT again changes no name.
LEMMA OfferUnique ==
  ASSUME TypeOK, UniqueSession, OfferStep
  PROVE  UniqueSession'
<1>1. PICK f \in FileIndex, p \in Peers, cause \in Cause : JftOffer(f, p, cause, files')
  BY DEF OfferStep
<1>2. PICK a \in Addr \ live, s \in Sids \ {sess[b].sid : b \in live}, trans \in BOOLEAN,
           ok \in IF "linkfail" \in Disorder THEN BOOLEAN ELSE {TRUE} :
        SessionOffered(f, p, cause, a, s, trans, ok)
  BY <1>1 DEF JftOffer
<1> DEFINE both   == [sess EXCEPT ![a] = NewOutgoing(s, p)]
           target == session_find_by_app(f, a)
<1>3. live' \subseteq live \cup {a} /\ target \in Addr /\ ok \in BOOLEAN
  BY <1>2, FoundByApp DEF SessionOffered, TypeOK
<1>4. sess' = both \/ sess' = [both EXCEPT ![target] = Offered(both[target], ok)]
  BY <1>2 DEF SessionOffered
<1>5. both \in [Addr -> Session]
  BY <1>2 DEF TypeOK, NewOutgoing, Session
<1>6. both[a].sid = s /\ \A b \in live : both[b] = sess[b]
  BY <1>2 DEF TypeOK, NewOutgoing
<1> HIDE DEF both, target
<1>7. ASSUME NEW b \in Addr
      PROVE  sess'[b].sid = both[b].sid /\ sess'[b].origin = both[b].origin
             /\ sess'[b].from = both[b].from /\ sess'[b].to = both[b].to
  <2>1. CASE sess' = both
    BY <2>1
  <2>2. CASE sess' = [both EXCEPT ![target] = Offered(both[target], ok)]
    <3>1. \A r \in Session : /\ Offered(r, ok).sid = r.sid /\ Offered(r, ok).origin = r.origin
                             /\ Offered(r, ok).from = r.from /\ Offered(r, ok).to = r.to
      BY DEF Offered, Session
    <3>2. both[b] \in Session
      BY <1>5
    <3> QED BY <1>5, <2>2, <3>1, <3>2
  <2> QED BY <1>4, <2>1, <2>2
<1>8. ASSUME NEW b \in live
      PROVE  sess'[b].sid = sess[b].sid /\ Recipient(b)' = Recipient(b)
             /\ sess[b].sid # s
  <2>1. b \in Addr
    BY DEF TypeOK
  <2> QED BY <1>2, <1>6, <1>7, <2>1 DEF Recipient
<1>9. sess'[a].sid = s
  BY <1>2, <1>6, <1>7
<1>10. ASSUME NEW b \in live', NEW c \in live',
              sess'[b].sid = sess'[c].sid, Recipient(b)' = Recipient(c)'
       PROVE  b = c
  <2>1. CASE b \in live /\ c \in live
    BY <1>8, <1>10, <2>1 DEF UniqueSession
  <2>2. CASE b = a \/ c = a
    BY <1>3, <1>8, <1>9, <1>10, <2>2
  <2> QED BY <1>3, <2>1, <2>2
<1> QED BY <1>10 DEF UniqueSession

\* Every handler acts on the first session that matches the sid and the sender:
\* there is never a second one, whatever peers, users and timers do.
THEOREM OneSessionPerName == Spec => []UniqueSession
<1>1. Init => TypeOK /\ UniqueSession
  BY InitType DEF Init, UniqueSession
<1>2. TypeOK /\ UniqueSession /\ [Next]_vars => TypeOK' /\ UniqueSession'
  <2> SUFFICES ASSUME TypeOK, UniqueSession, [Next]_vars
               PROVE  UniqueSession'
    BY NextType
  <2>1. CASE Kept
    BY <2>1 DEF Kept, UniqueSession, Recipient
  <2> QED BY <2>1, StepKinds, InitiateUnique, OfferUnique
<1> QED BY <1>1, <1>2, PTL DEF Spec

-----------------------------------------------------------------------------
(* A session in the list has a content *)

LEMMA InitiateNotEmpty ==
  ASSUME TypeOK, NoEmptySession, NEW p \in Peers, NEW s \in Sids,
         NEW offer \in [Names -> Offers], InitiateAccepted(p, s, offer)
  PROVE  NoEmptySession'
<1> DEFINE kept    == {n \in Names : offer[n] = "good"}
           opened  == {n \in Names : offer[n] \in {"good", "badTransport"}}
           entries == Entries(Cardinality(opened))
<1>1. PICK a \in Addr \ live, index \in [opened -> entries], empty \in SUBSET entries :
        /\ \A m, n \in opened : index[m] = index[n] => m = n
        /\ SessionReceived(a, p, s, kept, entries, index, empty)
  BY DEF InitiateAccepted
<1> DEFINE row == [n \in Names |-> IF n \in kept THEN "PENDING" ELSE "absent"]
<1>2. cstate' = [cstate EXCEPT ![a] = row]
  BY <1>1 DEF SessionReceived
<1>3. live' = live \/ (live' = live \cup {a} /\ kept # {})
  BY <1>1 DEF SessionReceived, Unsupported
<1>4. ASSUME NEW b \in live' PROVE \E n \in Names : cstate'[b][n] # "absent"
  <2>1. CASE b \in live
    <3>1. cstate'[b] = cstate[b]
      BY <1>1, <1>2, <2>1 DEF TypeOK
    <3> QED BY <2>1, <3>1 DEF NoEmptySession, Contents
  <2>2. CASE b = a /\ kept # {}
    <3>1. cstate'[a] = row
      BY <1>1, <1>2 DEF TypeOK
    <3>2. PICK n \in Names : n \in kept
      BY <2>2
    <3>3. row[n] = "PENDING"
      BY <3>2
    <3> QED BY <2>2, <3>1, <3>3
  <2> QED BY <1>3, <2>1, <2>2
<1> QED BY <1>4 DEF NoEmptySession, Contents

\* What an offer does to the list and to the contents: at most the session it is
\* about is deleted again.
OfferEffect(f, a, deleted) ==
  /\ live' = (live \cup {a}) \ deleted
  /\ cstate' = [b \in Addr |-> [n \in Names |->
                  IF b \in deleted THEN "absent"
                  ELSE IF b # a THEN cstate[b][n]
                  ELSE IF n = FileName THEN "PENDING" ELSE "absent"]]
  /\ cfile' = [b \in Addr |-> [n \in Names |->
                 IF b \in deleted THEN 0
                 ELSE IF b # a THEN cfile[b][n]
                 ELSE IF n = FileName THEN f ELSE 0]]

LEMMA OfferShape ==
  ASSUME NEW f, NEW p, NEW cause, NEW a, NEW s, NEW trans, NEW ok,
         SessionOffered(f, p, cause, a, s, trans, ok)
  PROVE  \E deleted : OfferEffect(f, a, deleted)
<1> DEFINE target == session_find_by_app(f, a)
           lost   == target # a /\ cstate[target][FileName] = "absent"
           gone   == IF (trans /\ ~lost) /\ ~ok THEN {target} ELSE {}
<1>1. OfferEffect(f, a, gone)
  BY DEF SessionOffered, OfferEffect
<1> QED BY <1>1

LEMMA OfferNotEmpty ==
  ASSUME TypeOK, NoEmptySession, OfferStep
  PROVE  NoEmptySession'
<1>1. PICK f \in FileIndex, p \in Peers, cause \in Cause : JftOffer(f, p, cause, files')
  BY DEF OfferStep
<1>2. PICK a \in Addr \ live, s \in Sids \ {sess[b].sid : b \in live}, trans \in BOOLEAN,
           ok \in IF "linkfail" \in Disorder THEN BOOLEAN ELSE {TRUE} :
        SessionOffered(f, p, cause, a, s, trans, ok)
  BY <1>1 DEF JftOffer
<1>3. PICK deleted : OfferEffect(f, a, deleted)
  BY <1>2, OfferShape
<1>4. ASSUME NEW b \in live' PROVE \E n \in Names : cstate'[b][n] # "absent"
  <2>1. b \in Addr /\ b \notin deleted
    BY <1>2, <1>3 DEF TypeOK, OfferEffect
  <2>2. CASE b = a
    <3>1. FileName \in Names /\ cstate'[b][FileName] = "PENDING"
      BY <1>3, <2>1, <2>2 DEF OfferEffect
    <3> QED BY <3>1
  <2>3. CASE b # a
    <3>1. PICK n \in Names : cstate[b][n] # "absent"
      BY <1>3, <2>3 DEF NoEmptySession, Contents, OfferEffect
    <3> QED BY <1>3, <2>1, <2>3, <3>1 DEF OfferEffect
  <2> QED BY <2>2, <2>3
<1> QED BY <1>4 DEF NoEmptySession, Contents

\* No handler, message or prompt ever meets a session without contents: contents
\* leave a session only when the session leaves the list.
THEOREM NoSessionEmpty == Spec => []NoEmptySession
<1>1. Init => TypeOK /\ NoEmptySession
  BY InitType DEF Init, NoEmptySession
<1>2. TypeOK /\ NoEmptySession /\ [Next]_vars => TypeOK' /\ NoEmptySession'
  <2> SUFFICES ASSUME TypeOK, NoEmptySession, [Next]_vars
               PROVE  NoEmptySession'
    BY NextType
  <2>1. CASE Kept
    <3>1. ASSUME NEW b \in live' PROVE \E n \in Names : cstate'[b][n] # "absent"
      <4>1. PICK n \in Names : cstate[b][n] # "absent"
        BY <2>1 DEF Kept, NoEmptySession, Contents
      <4>2. (cstate'[b][n] = "absent") <=> (cstate[b][n] = "absent")
        BY <2>1 DEF Kept
      <4> QED BY <4>1, <4>2
    <3> QED BY <3>1 DEF NoEmptySession, Contents
  <2> QED BY <2>1, StepKinds, InitiateNotEmpty, OfferNotEmpty
<1> QED BY <1>1, <1>2, PTL DEF Spec

-----------------------------------------------------------------------------
(***************************************************************************)
(* No content of a session in the list points to a transfer that is over,  *)
(* for every instance in which nobody runs /jft retry.  The contents point *)
(* to JingleFTs that were made, and each has its own: a session-terminate  *)
(* stops the transfers of no other session.                                *)
(***************************************************************************)

\* The strengthening: no content points beyond the counter, so that the next
\* entries are nobody's.
Entered == \A a \in live, n \in Names : cstate[a][n] # "absent" => cfile[a][n] \in 1 .. nfiles

LEMMA EntriesGrow ==
  ASSUME TypeOK, [Next]_vars
  PROVE  nfiles \in Nat /\ nfiles' \in Nat /\ nfiles <= nfiles'
<1>1. nfiles \in Nat /\ nfiles' \in Nat
  BY NextType DEF TypeOK
<1>2. ASSUME NEW p \in Peers, NEW s \in Sids, NEW offer \in [Names -> Offers],
             InitiateAccepted(p, s, offer)
      PROVE  nfiles <= nfiles'
  <2> DEFINE k == Cardinality({n \in Names : offer[n] \in {"good", "badTransport"}})
  <2>1. k \in Nat
    BY FS_Subset, FS_CardinalityType
  <2>2. nfiles' = nfiles + k
    BY <1>2 DEF InitiateAccepted
  <2> HIDE DEF k
  <2> QED BY <1>1, <2>1, <2>2
<1>3. CASE nfiles' = nfiles
  BY <1>1, <1>3
<1>4. ASSUME NEW p \in Peers, Peer(p)
      PROVE  nfiles <= nfiles'
  <2>1. ASSUME NEW s \in Sids, handle_session_initiate(p, s)
        PROVE  nfiles <= nfiles'
    BY <1>2, <1>3, <2>1 DEF handle_session_initiate, InitiateRefused, RefusedContents, fileVars
  <2>2. ASSUME NEW s \in Sids, handle_session_accept(p, s)
        PROVE  nfiles' = nfiles
    BY <2>2 DEF handle_session_accept, UnknownSession, RefusedContents, fileVars
  <2>3. ASSUME NEW s \in Sids, handle_session_terminate(p, s)
        PROVE  nfiles' = nfiles
    BY <2>3 DEF handle_session_terminate, UnknownSession, fileVars
  <2>4. ASSUME NEW s \in Sids, handle_session_info(p, s)
        PROVE  nfiles' = nfiles
    BY <2>4 DEF handle_session_info, UnknownSession, fileVars
  <2>5. ASSUME NEW s \in Sids, handle_transport_info(p, s)
        PROVE  nfiles' = nfiles
    BY <2>5 DEF handle_transport_info, UnknownSession, fileVars
  <2>6. WrongNamespace(p) \/ RefusedIq(p) => nfiles' = nfiles
    BY DEF WrongNamespace, RefusedIq, fileVars
  <2> QED BY <1>3, <1>4, <2>1, <2>2, <2>3, <2>4, <2>5, <2>6 DEF Peer, jingle_handle_iq
<1>5. CASE User
  <2>1. ASSUME NEW p \in Roster, jft_send(p)
        PROVE  nfiles' = nfiles + 1
    BY <2>1 DEF jft_send
  <2>2. ASSUME NEW p \in Roster, jft_retry(p)
        PROVE  nfiles' = nfiles
    BY <2>2 DEF jft_retry
  <2>3. jft_flush => nfiles' = nfiles
    BY DEF jft_flush
  <2>4. ASSUME NEW e \in events, evscallback_jingle(e)
        PROVE  nfiles' = nfiles
    BY <2>4 DEF evscallback_jingle, fileVars
  <2> QED BY <1>1, <1>5, <2>1, <2>2, <2>3, <2>4 DEF User
<1>6. CASE Network \/ Timer
  BY <1>3, <1>6 DEF Network, Timer, Reply, LateReply, Timeout, Connect, Disconnect,
                    handle_trans_data, fileVars
<1>7. CASE UNCHANGED vars
  BY <1>3, <1>7 DEF vars
<1> QED BY <1>1, <1>4, <1>5, <1>6, <1>7 DEF Next

-----------------------------------------------------------------------------
(* No two contents share a JingleFT *)

\* A JingleFT is made for one content, where nobody runs /jft retry.
OwnFile ==
  \A a, b \in live : \A m \in Contents(a), n \in Contents(b) :
     cfile[a][m] = cfile[b][n] => a = b /\ m = n

\* A step that makes at most one session, whose contents have new entries.
LEMMA FreshOwn ==
  ASSUME TypeOK, Entered, NEW a \in Addr \ live, live' \subseteq live \cup {a},
         nfiles \in Nat, nfiles' \in Nat, nfiles <= nfiles',
         \A b \in live', n \in Names :
           b # a => /\ cfile'[b][n] = cfile[b][n]
                    /\ cstate'[b][n] # "absent" => cstate[b][n] # "absent",
         \A n \in Names : cstate'[a][n] # "absent" => cfile'[a][n] \in nfiles + 1 .. nfiles',
         \A m, n \in Names :
           cstate'[a][m] # "absent" /\ cstate'[a][n] # "absent" /\ cfile'[a][m] = cfile'[a][n]
           => m = n
  PROVE  Entered' /\ (OwnFile => OwnFile')
<1>1. ASSUME NEW b \in live', NEW n \in Names, cstate'[b][n] # "absent", b # a
      PROVE  b \in live /\ n \in Contents(b) /\ cfile'[b][n] = cfile[b][n]
             /\ cfile[b][n] \in 1 .. nfiles
  BY <1>1 DEF Entered, Contents
<1>2. Entered'
  <2>1. ASSUME NEW b \in live', NEW n \in Names, cstate'[b][n] # "absent"
        PROVE  cfile'[b][n] \in 1 .. nfiles'
    <3>1. CASE b = a
      BY <2>1, <3>1
    <3>2. CASE b # a
      BY <1>1, <2>1, <3>2
    <3> QED BY <3>1, <3>2
  <2> QED BY <2>1 DEF Entered
<1>3. ASSUME OwnFile, NEW b \in live', NEW c \in live', NEW m \in Names, NEW n \in Names,
             cstate'[b][m] # "absent", cstate'[c][n] # "absent", cfile'[b][m] = cfile'[c][n]
      PROVE  b = c /\ m = n
  <2>1. CASE b = a /\ c = a
    BY <1>3, <2>1
  <2>2. CASE b # a /\ c # a
    BY <1>1, <1>3, <2>2 DEF OwnFile
  <2>3. CASE b = a /\ c # a
    BY <1>1, <1>3, <2>3
  <2>4. CASE b # a /\ c = a
    BY <1>1, <1>3, <2>4
  <2> QED BY <2>1, <2>2, <2>3, <2>4
<1> QED BY <1>2, <1>3 DEF OwnFile, Contents

\* The entries of a session-initiate's contents are new and differ.
LEMMA InitiateOwn ==
  ASSUME TypeOK, Entered, NEW p \in Peers, NEW s \in Sids,
         NEW offer \in [Names -> Offers], InitiateAccepted(p, s, offer)
  PROVE  Entered' /\ (OwnFile => OwnFile')
<1> DEFINE kept    == {n \in Names : offer[n] = "good"}
           opened  == {n \in Names : offer[n] \in {"good", "badTransport"}}
           k       == Cardinality(opened)
           entries == Entries(k)
<1>1. PICK a \in Addr \ live, index \in [opened -> entries], empty \in SUBSET entries :
        /\ \A m, n \in opened : index[m] = index[n] => m = n
        /\ SessionReceived(a, p, s, kept, entries, index, empty)
  BY DEF InitiateAccepted
<1>2. k \in Nat /\ nfiles \in Nat
  BY FS_Subset, FS_CardinalityType DEF TypeOK
<1>3. nfiles' = nfiles + k
  BY DEF InitiateAccepted
<1>4. kept \subseteq opened /\ opened \subseteq Names
  OBVIOUS
<1> DEFINE states == [n \in Names |-> IF n \in kept THEN "PENDING" ELSE "absent"]
           row    == [n \in Names |-> IF n \in kept THEN index[n] ELSE 0]
<1>5. /\ cstate' = [cstate EXCEPT ![a] = states] /\ cfile' = [cfile EXCEPT ![a] = row]
      /\ live' \subseteq live \cup {a}
  BY <1>1 DEF SessionReceived
<1>6. \A n \in Names : states[n] # "absent" => n \in kept /\ row[n] = index[n]
  OBVIOUS
<1> HIDE DEF kept, opened, k, states, row
<1>7. cstate'[a] = states /\ cfile'[a] = row
  BY <1>1, <1>5 DEF TypeOK
<1>8. ASSUME NEW b \in live', NEW n \in Names, b # a
      PROVE  cfile'[b][n] = cfile[b][n] /\ cstate'[b][n] = cstate[b][n]
  BY <1>1, <1>5, <1>8 DEF TypeOK
<1>9. ASSUME NEW n \in Names, cstate'[a][n] # "absent"
      PROVE  n \in opened /\ cfile'[a][n] = index[n] /\ index[n] \in nfiles + 1 .. nfiles'
  <2>1. n \in opened /\ cfile'[a][n] = index[n]
    BY <1>4, <1>6, <1>7, <1>9
  <2>2. index[n] \in Entries(k)
    BY <1>1, <2>1
  <2> QED BY <1>3, <2>1, <2>2 DEF Entries
<1>10. nfiles' \in Nat /\ nfiles <= nfiles'
  BY <1>2, <1>3
<1> QED BY <1>1, <1>2, <1>5, <1>8, <1>9, <1>10, FreshOwn

\* The content of a new offer has a new entry.
LEMMA OfferOwn ==
  ASSUME TypeOK, Entered, OfferStep, [Next]_vars
  PROVE  Entered' /\ ("retry" \notin Disorder /\ OwnFile => OwnFile')
<1>1. PICK f \in FileIndex, p \in Peers, cause \in Cause :
        /\ JftOffer(f, p, cause, files')
        /\ \/ f = nfiles + 1 /\ nfiles' = f
           \/ "retry" \in Disorder /\ f \in 1 .. nfiles
  BY DEF OfferStep
<1>2. PICK a \in Addr \ live, s \in Sids \ {sess[b].sid : b \in live}, trans \in BOOLEAN,
           ok \in IF "linkfail" \in Disorder THEN BOOLEAN ELSE {TRUE} :
        SessionOffered(f, p, cause, a, s, trans, ok)
  BY <1>1 DEF JftOffer
<1>3. PICK deleted : OfferEffect(f, a, deleted)
  BY <1>2, OfferShape
<1>4. ASSUME NEW b \in live', NEW n \in Names, b # a
      PROVE  cfile'[b][n] = cfile[b][n] /\ cstate'[b][n] = cstate[b][n]
  BY <1>3, <1>4 DEF TypeOK, OfferEffect
<1>5. ASSUME NEW n \in Names, cstate'[a][n] # "absent"
      PROVE  n = FileName /\ cfile'[a][n] = f
  BY <1>2, <1>3, <1>5 DEF OfferEffect
<1>6. live' \subseteq live \cup {a}
  BY <1>3 DEF OfferEffect
<1>7. nfiles \in Nat /\ nfiles' \in Nat /\ nfiles <= nfiles'
  BY EntriesGrow
<1>8. CASE f = nfiles + 1 /\ nfiles' = f
  <2>1. f \in nfiles + 1 .. nfiles'
    BY <1>7, <1>8
  <2> QED BY <1>2, <1>4, <1>5, <1>6, <1>7, <2>1, FreshOwn
<1>9. CASE "retry" \in Disorder /\ f \in 1 .. nfiles
  <2>1. ASSUME NEW b \in live', NEW n \in Names, cstate'[b][n] # "absent"
        PROVE  cfile'[b][n] \in 1 .. nfiles'
    <3>1. CASE b = a
      BY <1>5, <1>7, <1>9, <2>1, <3>1
    <3>2. CASE b # a
      <4>1. b \in live /\ cfile'[b][n] \in 1 .. nfiles
        BY <1>4, <1>6, <2>1, <3>2 DEF Entered
      <4> QED BY <1>7, <4>1
    <3> QED BY <3>1, <3>2
  <2> QED BY <1>9, <2>1 DEF Entered
<1> QED BY <1>1, <1>8, <1>9

LEMMA KeptOwn ==
  ASSUME TypeOK, Entered, [Next]_vars, Kept
  PROVE  Entered' /\ (OwnFile => OwnFile')
<1>1. ASSUME NEW b \in live', NEW n \in Names, cstate'[b][n] # "absent"
      PROVE  b \in live /\ n \in Contents(b) /\ cfile'[b][n] = cfile[b][n]
             /\ cfile[b][n] \in 1 .. nfiles
  BY <1>1 DEF Kept, Entered, Contents
<1>2. Entered'
  BY <1>1, EntriesGrow DEF Entered
<1>3. ASSUME OwnFile, NEW b \in live', NEW c \in live', NEW m \in Names, NEW n \in Names,
             cstate'[b][m] # "absent", cstate'[c][n] # "absent", cfile'[b][m] = cfile'[c][n]
      PROVE  b = c /\ m = n
  BY <1>1, <1>3 DEF OwnFile
<1> QED BY <1>2, <1>3 DEF OwnFile, Contents

\* Contents point to entries that were made, whatever the disorder.
LEMMA EnteredInductive ==
  /\ Init => TypeOK /\ Entered
  /\ TypeOK /\ Entered /\ [Next]_vars => TypeOK' /\ Entered'
<1>1. Init => TypeOK /\ Entered
  BY InitType DEF Init, Entered
<1>2. ASSUME TypeOK, Entered, [Next]_vars
      PROVE  TypeOK' /\ Entered'
  BY <1>2, NextType, StepKinds, KeptOwn, InitiateOwn, OfferOwn
<1> QED BY <1>1, <1>2

LEMMA OwnInductive ==
  ASSUME "retry" \notin Disorder
  PROVE  /\ Init => TypeOK /\ Entered /\ OwnFile
         /\ TypeOK /\ Entered /\ OwnFile /\ [Next]_vars => TypeOK' /\ Entered' /\ OwnFile'
<1>1. Init => TypeOK /\ Entered /\ OwnFile
  BY InitType DEF Init, Entered, OwnFile
<1>2. ASSUME TypeOK, Entered, OwnFile, [Next]_vars
      PROVE  TypeOK' /\ Entered' /\ OwnFile'
  BY <1>2, NextType, StepKinds, KeptOwn, InitiateOwn, OfferOwn
<1> QED BY <1>1, <1>2

-----------------------------------------------------------------------------
(* No content points to a finished or freed transfer *)

Running    == {"PENDING", "STARTING"}
AllRunning == \A a \in live, n \in Names : cstate[a][n] # "absent"
                                           => files[cfile[a][n]].state \in Running

LEMMA RunningUnfinished ==
  ASSUME AllRunning
  PROVE  ContentsUnfinished
BY DEF AllRunning, Running, ContentsUnfinished, FilesOf, Contents

\* A session that stays in the list keeps its contents and their entries.
LEMMA OldContents ==
  ASSUME TypeOK, [Next]_vars, NEW b \in live, b \in live', NEW n \in Names
  PROVE  cfile'[b][n] = cfile[b][n] /\ (cstate'[b][n] # "absent" => cstate[b][n] # "absent")
<1>1. CASE Kept
  BY <1>1 DEF Kept
<1>2. ASSUME NEW p \in Peers, NEW s \in Sids, NEW offer \in [Names -> Offers],
             InitiateAccepted(p, s, offer)
      PROVE  cfile'[b] = cfile[b] /\ cstate'[b] = cstate[b]
  <2> DEFINE kept    == {m \in Names : offer[m] = "good"}
             opened  == {m \in Names : offer[m] \in {"good", "badTransport"}}
             entries == Entries(Cardinality(opened))
  <2>1. PICK a \in Addr \ live, index \in [opened -> entries], empty \in SUBSET entries :
          /\ \A i, j \in opened : index[i] = index[j] => i = j
          /\ SessionReceived(a, p, s, kept, entries, index, empty)
    BY <1>2 DEF InitiateAccepted
  <2>2. \E states, row : cstate' = [cstate EXCEPT ![a] = states] /\ cfile' = [cfile EXCEPT ![a] = row]
    BY <2>1 DEF SessionReceived
  <2> QED BY <2>1, <2>2 DEF TypeOK
<1>3. CASE OfferStep
  <2>1. PICK f \in FileIndex, p \in Peers, cause \in Cause : JftOffer(f, p, cause, files')
    BY <1>3 DEF OfferStep
  <2>2. PICK a \in Addr \ live, s \in Sids \ {sess[c].sid : c \in live}, trans \in BOOLEAN,
             ok \in IF "linkfail" \in Disorder THEN BOOLEAN ELSE {TRUE} :
          SessionOffered(f, p, cause, a, s, trans, ok)
    BY <2>1 DEF JftOffer
  <2>3. PICK deleted : OfferEffect(f, a, deleted)
    BY <2>2, OfferShape
  <2> QED BY <2>2, <2>3 DEF TypeOK, OfferEffect
<1> QED BY <1>1, <1>2, <1>3, StepKinds

\* A session that joins the list has transfers that are pending.
LEMMA NewContents ==
  ASSUME TypeOK, [Next]_vars, "retry" \notin Disorder,
         NEW b \in live', b \notin live, NEW n \in Names, cstate'[b][n] # "absent"
  PROVE  files'[cfile'[b][n]].state = "PENDING"
<1>1. CASE Kept
  BY <1>1 DEF Kept
<1>2. ASSUME NEW p \in Peers, NEW s \in Sids, NEW offer \in [Names -> Offers],
             InitiateAccepted(p, s, offer)
      PROVE  files'[cfile'[b][n]].state = "PENDING"
  <2> DEFINE kept    == {m \in Names : offer[m] = "good"}
             opened  == {m \in Names : offer[m] \in {"good", "badTransport"}}
             k       == Cardinality(opened)
             entries == Entries(k)
  <2>1. PICK a \in Addr \ live, index \in [opened -> entries], empty \in SUBSET entries :
          /\ \A i, j \in opened : index[i] = index[j] => i = j
          /\ SessionReceived(a, p, s, kept, entries, index, empty)
    BY <1>2 DEF InitiateAccepted
  <2>2. k \in Nat /\ nfiles + k <= MaxFiles /\ nfiles \in Nat
    <3>1. k \in Nat
      BY FS_Subset, FS_CardinalityType
    <3>2. nfiles + k <= MaxFiles
      BY <1>2 DEF InitiateAccepted
    <3> QED BY <3>1, <3>2 DEF TypeOK
  <2> DEFINE states == [m \in Names |-> IF m \in kept THEN "PENDING" ELSE "absent"]
             row    == [m \in Names |-> IF m \in kept THEN index[m] ELSE 0]
  <2>3. /\ cstate' = [cstate EXCEPT ![a] = states] /\ cfile' = [cfile EXCEPT ![a] = row]
        /\ live' \subseteq live \cup {a}
        /\ files' = [f \in FileIndex |->
                       IF f \in entries
                       THEN [state |-> "PENDING", dir |-> "INCOMING", full |-> f \in empty]
                       ELSE files[f]]
    BY <2>1 DEF SessionReceived
  <2>4. states[n] # "absent" => n \in opened /\ row[n] = index[n]
    OBVIOUS
  <2> HIDE DEF kept, opened, k, states, row
  <2>5. b = a /\ cstate'[a] = states /\ cfile'[a] = row
    BY <2>1, <2>3 DEF TypeOK
  <2>6. n \in opened /\ cfile'[b][n] = index[n]
    BY <2>4, <2>5
  <2>7. index[n] \in entries /\ index[n] \in FileIndex
    BY <2>1, <2>2, <2>6 DEF Entries, FileIndex
  <2> HIDE DEF entries
  <2> QED BY <2>3, <2>6, <2>7
<1>3. CASE OfferStep
  <2>1. PICK f \in FileIndex, p \in Peers, cause \in Cause :
          JftOffer(f, p, cause, files') /\ files'[f].state = "PENDING"
    BY <1>3 DEF OfferStep
  <2>2. PICK a \in Addr \ live, s \in Sids \ {sess[c].sid : c \in live}, trans \in BOOLEAN,
             ok \in IF "linkfail" \in Disorder THEN BOOLEAN ELSE {TRUE} :
          SessionOffered(f, p, cause, a, s, trans, ok)
    BY <2>1 DEF JftOffer
  <2>3. PICK deleted : OfferEffect(f, a, deleted)
    BY <2>2, OfferShape
  <2>4. b = a /\ cfile'[b][n] = f
    BY <2>2, <2>3 DEF OfferEffect
  <2> QED BY <2>1, <2>4
<1> QED BY <1>1, <1>2, <1>3, StepKinds

\* No step but its own session's end finishes a running transfer of a session.
StillRunning == \A b \in live \cap live', n \in Names :
                  cstate[b][n] # "absent" => files'[cfile[b][n]].state \in Running

LEMMA SameFiles ==
  ASSUME AllRunning, UNCHANGED files
  PROVE  StillRunning
BY DEF AllRunning, StillRunning

LEMMA InitiateRunning ==
  ASSUME TypeOK, Entered, AllRunning, NEW p \in Peers, NEW s \in Sids,
         NEW offer \in [Names -> Offers], InitiateAccepted(p, s, offer)
  PROVE  StillRunning
<1> DEFINE k == Cardinality({n \in Names : offer[n] \in {"good", "badTransport"}})
<1>1. k \in Nat /\ nfiles \in 0 .. MaxFiles
  BY FS_Subset, FS_CardinalityType DEF TypeOK
<1>2. \E empty : files' = [f \in FileIndex |->
                            IF f \in Entries(k)
                            THEN [state |-> "PENDING", dir |-> "INCOMING", full |-> f \in empty]
                            ELSE files[f]]
  BY DEF InitiateAccepted, SessionReceived
<1> HIDE DEF k
<1>3. ASSUME NEW f \in 1 .. nfiles PROVE files'[f] = files[f]
  <2>1. f \in FileIndex /\ f \notin Entries(k)
    BY <1>1 DEF FileIndex, Entries
  <2> QED BY <1>2, <2>1
<1> QED BY <1>3 DEF Entered, AllRunning, StillRunning

\* The transfers a session-terminate stops are those of the session that goes.
LEMMA TerminateRunning ==
  ASSUME TypeOK, Entered, OwnFile, AllRunning, NEW p \in Peers, NEW s \in Sids,
         handle_session_terminate(p, s)
  PROVE  StillRunning
<1>1. CASE UnknownSession(p, s, "session-terminate")
  BY <1>1, SameFiles DEF UnknownSession, fileVars
<1>2. CASE \E a \in Find(s, p) : StopContents(a) /\ live' = Removed(a)
  <2>0. PICK a \in Find(s, p) : StopContents(a) /\ live' = Removed(a)
    BY <1>2
  <2>1. live' = Removed(a)
    BY <2>0
  <2>2. a \in live
    BY FindType
  <2>3. PICK reached \in SUBSET Contents(a), spelled \in BOOLEAN :
          files' = Stop({f \in IF spelled THEN {cfile[a][n] : n \in reached} \ {0} ELSE {} :
                           files[f].state # "freed"})
    BY <2>0, Zenon DEF StopContents
  <2> DEFINE stopped == {f \in IF spelled THEN {cfile[a][n] : n \in reached} \ {0} ELSE {} :
                           files[f].state # "freed"}
  <2>5. files' = Stop(stopped)
    BY <2>3
  <2>4. ASSUME NEW b \in live \cap live', NEW n \in Names, cstate[b][n] # "absent"
        PROVE  files'[cfile[b][n]] = files[cfile[b][n]]
    <3>1. b # a
      BY <2>1 DEF Removed
    <3>2. \A m \in reached : cfile[a][m] # cfile[b][n]
      BY <2>2, <2>3, <2>4, <3>1 DEF OwnFile, Contents
    <3>3. cfile[b][n] \notin stopped
      BY <3>2
    <3>4. cfile[b][n] \in FileIndex
      BY <2>4 DEF Entered, TypeOK, FileIndex
    <3> HIDE DEF stopped
    <3> QED BY <2>5, <3>3, <3>4 DEF Stop
  <2> QED BY <2>4 DEF AllRunning, StillRunning
<1>3. CASE UNCHANGED fileVars
  BY <1>3, SameFiles DEF fileVars
<1> QED BY <1>1, <1>2, <1>3 DEF handle_session_terminate

LEMMA PeerRunning ==
  ASSUME TypeOK, Entered, OwnFile, AllRunning, NEW p \in Peers, Peer(p)
  PROVE  StillRunning
<1>1. ASSUME NEW s \in Sids, handle_session_initiate(p, s)
      PROVE  StillRunning
  BY <1>1, InitiateRunning, SameFiles
     DEF handle_session_initiate, InitiateRefused, RefusedContents, fileVars
<1>2. ASSUME NEW s \in Sids, handle_session_accept(p, s)
      PROVE  UNCHANGED files
  BY <1>2 DEF handle_session_accept, UnknownSession, RefusedContents, fileVars
<1>3. ASSUME NEW s \in Sids, handle_session_info(p, s)
      PROVE  UNCHANGED files
  BY <1>3 DEF handle_session_info, UnknownSession, fileVars
<1>4. ASSUME NEW s \in Sids, handle_transport_info(p, s)
      PROVE  UNCHANGED files
  BY <1>4 DEF handle_transport_info, UnknownSession, fileVars
<1>5. WrongNamespace(p) \/ RefusedIq(p) => UNCHANGED files
  BY DEF WrongNamespace, RefusedIq, fileVars
<1> QED BY <1>1, <1>2, <1>3, <1>4, <1>5, SameFiles, TerminateRunning DEF Peer, jingle_handle_iq

\* A new entry is beyond those of the contents.
LEMMA SendRunning ==
  ASSUME TypeOK, Entered, AllRunning, NEW p, jft_send(p)
  PROVE  StillRunning
<1>1. \E r : files' = [files EXCEPT ![nfiles + 1] = r]
  BY DEF jft_send, JftFails, JftOffer
<1>2. nfiles \in 0 .. MaxFiles
  BY DEF TypeOK
<1>3. ASSUME NEW f \in 1 .. nfiles PROVE files'[f] = files[f]
  <2>1. f \in FileIndex /\ f # nfiles + 1
    BY <1>2 DEF FileIndex
  <2> QED BY <1>1, <2>1 DEF TypeOK
<1> QED BY <1>3 DEF Entered, AllRunning, StillRunning

\* /jft flush frees finished transfers only.
LEMMA FlushRunning ==
  ASSUME TypeOK, Entered, AllRunning, jft_flush
  PROVE  StillRunning
<1> DEFINE done == {f \in InfoList : files[f].state \in Finished}
<1>1. \E S \in SUBSET done : files' = [f \in FileIndex |->
                     IF f \in S THEN [files[f] EXCEPT !.state = "freed", !.full = FALSE]
                     ELSE files[f]]
  BY ZenonT(30) DEF jft_flush
<1>2. ASSUME NEW b \in live, NEW n \in Names, cstate[b][n] # "absent"
      PROVE  files'[cfile[b][n]] = files[cfile[b][n]]
  <2>1. cfile[b][n] \notin done
    BY <1>2 DEF AllRunning, Running, Finished
  <2>2. cfile[b][n] \in FileIndex
    BY <1>2 DEF Entered, TypeOK, FileIndex
  <2> HIDE DEF done
  <2> QED BY <1>1, <2>1, <2>2
<1> QED BY <1>2 DEF AllRunning, StillRunning

\* A block of data starts a transfer.
LEMMA DataRunning ==
  ASSUME TypeOK, Entered, AllRunning, NEW a \in live, NEW m \in Names, handle_trans_data(a, m)
  PROVE  StillRunning
<1> DEFINE f == cfile[a][m]
<1>1. CASE UNCHANGED files
  BY <1>1, SameFiles
<1>2. ASSUME NEW full \in BOOLEAN,
             files' = [files EXCEPT ![f] = [@ EXCEPT !.state = "STARTING", !.full = full]]
      PROVE  StillRunning
  <2> DEFINE r == [files[f] EXCEPT !.state = "STARTING", !.full = full]
  <2>1. files' = [files EXCEPT ![f] = r]
    BY <1>2
  <2>2. f \in FileIndex => r.state = "STARTING"
    BY DEF TypeOK, JingleFT
  <2> HIDE DEF r, f
  <2>3. ASSUME NEW g \in FileIndex, files[g].state \in Running
        PROVE  files'[g].state \in Running
    BY <2>1, <2>2, <2>3 DEF TypeOK, Running
  <2>4. \A b \in live, n \in Names : cstate[b][n] # "absent" => cfile[b][n] \in FileIndex
    BY DEF Entered, TypeOK, FileIndex
  <2> QED BY <2>3, <2>4 DEF AllRunning, StillRunning
<1> QED BY <1>1, <1>2 DEF handle_trans_data, handle_data

LEMMA FilesStep ==
  ASSUME TypeOK, Entered, OwnFile, AllRunning, [Next]_vars, "retry" \notin Disorder
  PROVE  StillRunning
<1>1. CASE User
  <2>1. ASSUME NEW e \in events, evscallback_jingle(e)
        PROVE  StillRunning
    BY <2>1, SameFiles DEF evscallback_jingle, fileVars
  <2> QED BY <1>1, <2>1, SendRunning, FlushRunning DEF User, jft_retry
<1>2. CASE Network \/ Timer
  <2>1. ASSUME NEW k \in acks, Reply(k) \/ LateReply(k) \/ Timeout(k)
        PROVE  UNCHANGED files
    BY <2>1 DEF Reply, LateReply, Timeout, fileVars
  <2>2. Connect \/ Disconnect => UNCHANGED files
    BY DEF Connect, Disconnect, fileVars
  <2> QED BY <1>2, <2>1, <2>2, SameFiles, DataRunning DEF Network, Timer
<1>3. CASE UNCHANGED vars
  BY <1>3, SameFiles DEF vars
<1> QED BY SMTT(30), <1>1, <1>2, <1>3, PeerRunning DEF Next

\* Unless the user runs /jft retry, a content in the list points to a transfer that
\* is pending or under way: /jft flush frees nothing a later stanza could reach.
THEOREM ContentsRun == ASSUME "retry" \notin Disorder PROVE Spec => []ContentsUnfinished
<1> DEFINE Inv == TypeOK /\ Entered /\ OwnFile /\ AllRunning
<1>1. Init => Inv
  BY OwnInductive DEF Init, AllRunning
<1>2. Inv /\ [Next]_vars => Inv'
  <2> SUFFICES ASSUME Inv, [Next]_vars PROVE AllRunning'
    BY OwnInductive
  <2>1. ASSUME NEW b \in live', NEW n \in Names, cstate'[b][n] # "absent"
        PROVE  files'[cfile'[b][n]].state \in Running
    <3>1. CASE b \in live
      BY <2>1, <3>1, OldContents, FilesStep DEF StillRunning
    <3>2. CASE b \notin live
      BY <2>1, <3>2, NewContents DEF Running
    <3> QED BY <3>1, <3>2
  <2> QED BY <2>1 DEF AllRunning
<1>3. Inv => ContentsUnfinished
  BY RunningUnfinished
<1> QED BY <1>1, <1>2, <1>3, PTL DEF Spec

-----------------------------------------------------------------------------
(***************************************************************************)
(* The steps after which an event or a handle keeps the address of a freed *)
(* or of another session, for every instance and every disorder.  As long  *)
(* as the addresses are good a session has one piece of unfinished         *)
(* business at most, so whoever deletes it leaves no address behind; only  *)
(* who deletes a session that another is unfinished with does.             *)
(***************************************************************************)

\* A step that makes no session and no address, and takes no session away that an
\* address leads to.
LEMMA FewerRefs ==
  ASSUME Refs, UNCHANGED sess, events' \subseteq events,
         \A k \in acks' : ~k.freed => k \in acks,
         \A e \in events' : e.ptr \in live => e.ptr \in live',
         \A k \in acks' : ~k.freed /\ k.ptr \in live => k.ptr \in live'
  PROVE  Refs'
<1>1. LiveRefs'
  BY DEF Refs, LiveRefs
<1>2. OneRef'
  BY DEF Refs, OneRef
<1> QED BY <1>1, <1>2 DEF Refs

LEMMA SameRefs ==
  ASSUME Refs, UNCHANGED <<live, sess, events, acks>>
  PROVE  Refs'
BY FewerRefs

\* A new session that one event leads to.
LEMMA InitiateRefs ==
  ASSUME TypeOK, Refs, NEW p \in Peers, NEW s \in Sids, NEW offer \in [Names -> Offers],
         InitiateAccepted(p, s, offer)
  PROVE  Refs'
<1> DEFINE kept    == {n \in Names : offer[n] = "good"}
           opened  == {n \in Names : offer[n] \in {"good", "badTransport"}}
           entries == Entries(Cardinality(opened))
<1>1. PICK a \in Addr \ live, index \in [opened -> entries], empty \in SUBSET entries :
        /\ \A m, n \in opened : index[m] = index[n] => m = n
        /\ SessionReceived(a, p, s, kept, entries, index, empty)
  BY DEF InitiateAccepted
<1> DEFINE new == [ptr |-> a, born |-> created + 1]
<1>2. \/ live' = live /\ events' = events
      \/ live' = live \cup {a} /\ events' = events \cup {new}
  BY <1>1 DEF SessionReceived
<1>3. \A b \in live : sess'[b] = sess[b]
  BY <1>1 DEF SessionReceived, TypeOK
<1>4. sess'[a].born = created + 1
  BY <1>1 DEF SessionReceived, TypeOK
<1>5. acks' = acks
  BY DEF InitiateAccepted, ackVars
<1>6. (\A e \in events : e.ptr # a) /\ (\A k \in acks : ~k.freed => k.ptr # a)
  BY <1>1 DEF Refs, LiveRefs
<1>7. new.ptr = a /\ new.born = created + 1
  OBVIOUS
<1> HIDE DEF new
<1>8. LiveRefs'
  <2>1. ASSUME NEW e \in events' PROVE e.ptr \in live' /\ sess'[e.ptr].born = e.born
    <3>1. CASE e \in events
      BY <1>2, <1>3, <3>1 DEF Refs, LiveRefs
    <3>2. CASE e = new /\ live' = live \cup {a}
      BY <1>4, <1>7, <3>2
    <3> QED BY <1>2, <3>1, <3>2
  <2>2. ASSUME NEW k \in acks', ~k.freed PROVE k.ptr \in live' /\ sess'[k.ptr].born = k.born
    BY <1>2, <1>3, <1>5, <2>2 DEF Refs, LiveRefs
  <2> QED BY <2>1, <2>2 DEF LiveRefs
<1>9. OneRef'
  BY <1>2, <1>5, <1>6, <1>7 DEF Refs, OneRef
<1> QED BY <1>8, <1>9 DEF Refs

\* A new session that at most one handle leads to.
LEMMA OfferRefs ==
  ASSUME TypeOK, Entered, Refs, OfferStep, "retry" \in Disorder => obs'.cause # "retry",
         "linkfail" \in Disorder => obs'.out # <<>>
  PROVE  Refs'
<1>0. PICK f \in FileIndex, p \in Peers, cause \in Cause :
        /\ JftOffer(f, p, cause, files')
        /\ \/ f = nfiles + 1
           \/ cause = "retry" /\ "retry" \in Disorder
  BY DEF OfferStep
<1>2. PICK a \in Addr \ live, s \in Sids \ {sess[b].sid : b \in live}, trans \in BOOLEAN,
           ok \in IF "linkfail" \in Disorder THEN BOOLEAN ELSE {TRUE} :
        SessionOffered(f, p, cause, a, s, trans, ok)
  BY <1>0 DEF JftOffer
<1>1. JftOffer(f, p, cause, files') /\ f = nfiles + 1
  <2>1. obs'.cause = cause
    BY <1>2 DEF SessionOffered, Saw
  <2> QED BY <1>0, <2>1
<1>4. session_find_by_app(f, a) = a
  <2>1. nfiles \in Nat
    BY DEF TypeOK
  <2>2. \A b \in live : f \notin FilesOf(b)
    BY <1>1, <2>1 DEF Entered, FilesOf, Contents
  <2> QED BY <2>2 DEF session_find_by_app
<1> DEFINE both == [sess EXCEPT ![a] = NewOutgoing(s, p)]
           k    == NewAck("si", a, both[a].born, ok)
<1>3. ok \/ ~trans
  <2>1. ~ok /\ trans => obs'.out = <<>>
    BY <1>2, <1>4 DEF SessionOffered, Saw
  <2> QED BY <1>2, <2>1
<1>5. live' = live \cup {a}
  BY <1>3, <1>4, <1>2 DEF SessionOffered
<1>6. sess' = both \/ sess' = [both EXCEPT ![a] = Offered(both[a], ok)]
  BY <1>2, <1>4 DEF SessionOffered
<1>7. acks' = acks \/ acks' = acks \cup {k}
  BY <1>2, <1>4 DEF SessionOffered, jingle_send_session_initiate, ackVars
<1>8. both[a] \in Session /\ \A b \in live : both[b] = sess[b]
  BY <1>2 DEF TypeOK, NewOutgoing, Session
<1>9. k.ptr = a /\ k.born = both[a].born
  BY DEF NewAck
<1>10. both \in [Addr -> Session]
  BY <1>2 DEF TypeOK, NewOutgoing, Session
<1> HIDE DEF both, k
<1>11. \A b \in live : sess'[b] = sess[b]
  BY <1>2, <1>6, <1>8, <1>10 DEF TypeOK
<1>12. sess'[a].born = both[a].born
  <2>1. Offered(both[a], ok).born = both[a].born
    BY <1>8 DEF Offered, Session
  <2> QED BY <1>2, <1>6, <1>10, <2>1
<1>13. events' = events
  BY <1>1 DEF JftOffer
<1>14. (\A e \in events : e.ptr # a) /\ (\A j \in acks : ~j.freed => j.ptr # a)
  BY <1>2 DEF Refs, LiveRefs
<1>15. LiveRefs'
  <2>1. ASSUME NEW e \in events' PROVE e.ptr \in live' /\ sess'[e.ptr].born = e.born
    BY <1>5, <1>11, <1>13 DEF Refs, LiveRefs
  <2>2. ASSUME NEW j \in acks', ~j.freed PROVE j.ptr \in live' /\ sess'[j.ptr].born = j.born
    <3>1. CASE j \in acks
      BY <1>5, <1>11, <2>2, <3>1 DEF Refs, LiveRefs
    <3>2. CASE j = k
      BY <1>5, <1>9, <1>12, <3>2
    <3> QED BY <1>7, <3>1, <3>2
  <2> QED BY <2>1, <2>2 DEF LiveRefs
<1>16. OneRef'
  BY <1>7, <1>9, <1>13, <1>14 DEF Refs, OneRef
<1> QED BY <1>15, <1>16 DEF Refs

\* A session that is deleted and that no remaining address leads to.
LEMMA DeletedRefs ==
  ASSUME Refs, NEW a, live' = Removed(a), UNCHANGED <<sess, events>>,
         \A k \in acks' : ~k.freed => k \in acks /\ k.ptr # a,
         \A e \in events : e.ptr # a
  PROVE  Refs'
BY FewerRefs DEF Removed

\* Where it severs nothing, a session-terminate or a late reply deletes a session
\* that no event and no handle leads to.
LEMMA NotSevered ==
  ASSUME Refs, ~Severs, obs'.cause \in {"session-terminate", "late-reply"},
         NEW a \in live, a \notin live'
  PROVE  (\A e \in events : e.ptr # a) /\ (\A k \in acks : ~k.freed => k.ptr # a)
<1>1. ~Unfinished(a)
  BY DEF Severs
<1> QED BY <1>1 DEF Unfinished, Refs, LiveRefs

LEMMA TerminateRefs ==
  ASSUME Refs, ~Severs, NEW p \in Peers, NEW s \in Sids, handle_session_terminate(p, s)
  PROVE  Refs'
<1>1. CASE UNCHANGED <<live, sess, events, acks>>
  BY <1>1, SameRefs
<1>2. CASE \E a \in Find(s, p) :
             /\ live' = Removed(a) /\ UNCHANGED <<sess, events, acks>>
             /\ obs'.cause = "session-terminate"
  <2>1. PICK a \in Find(s, p) :
             /\ live' = Removed(a) /\ UNCHANGED <<sess, events, acks>>
             /\ obs'.cause = "session-terminate"
    BY <1>2
  <2>2. a \in live /\ a \notin live'
    BY <2>1 DEF Find, Removed
  <2>3. (\A e \in events : e.ptr # a) /\ (\A k \in acks : ~k.freed => k.ptr # a)
    BY <2>1, <2>2, NotSevered
  <2> QED BY <2>1, <2>3, DeletedRefs
<1>3. \A a : Saw("session-terminate", p, a) => obs'.cause = "session-terminate"
  BY DEF Saw
<1> QED BY <1>1, <1>2, <1>3
        DEF handle_session_terminate, UnknownSession, sessionVars, session_free, ackVars

LEMMA PeerRefs ==
  ASSUME TypeOK, Refs, ~Severs, NEW p \in Peers, Peer(p)
  PROVE  Refs'
<1>1. ASSUME NEW s \in Sids, handle_session_initiate(p, s)
      PROVE  Refs'
  BY <1>1, InitiateRefs, SameRefs
     DEF handle_session_initiate, InitiateRefused, RefusedContents, sessionVars, ackVars
<1>2. ASSUME NEW s \in Sids, handle_session_accept(p, s)
      PROVE  UNCHANGED <<live, sess, events, acks>>
  BY <1>2 DEF handle_session_accept, UnknownSession, RefusedContents, sessionVars, ackVars
<1>3. ASSUME NEW s \in Sids, handle_session_info(p, s) \/ handle_transport_info(p, s)
      PROVE  UNCHANGED <<live, sess, events, acks>>
  BY <1>3 DEF handle_session_info, handle_transport_info, UnknownSession, sessionVars, ackVars
<1>4. WrongNamespace(p) \/ RefusedIq(p) => UNCHANGED <<live, sess, events, acks>>
  BY DEF WrongNamespace, RefusedIq, sessionVars, ackVars
<1> QED BY <1>1, <1>2, <1>3, <1>4, SameRefs, TerminateRefs DEF Peer, jingle_handle_iq

\* The answer to an event: the address of the event becomes that of a handle.
LEMMA EventRefs ==
  ASSUME Refs, NEW e \in events, evscallback_jingle(e)
  PROVE  Refs'
<1> DEFINE k == NewAck("sa", e.ptr, sess[e.ptr].born, connected)
<1>1. UNCHANGED <<live, sess>> /\ events' = events \ {e}
  BY DEF evscallback_jingle, sessionVars
<1>2. acks' = acks \/ acks' = acks \cup {k}
  BY DEF evscallback_jingle, jingle_send_session_accept, ackVars
<1>3. k.ptr = e.ptr /\ k.born = sess[e.ptr].born
  BY DEF NewAck
<1> HIDE DEF k
<1>4. LiveRefs'
  BY <1>1, <1>2, <1>3 DEF Refs, LiveRefs
<1>5. \A d \in events' : d.ptr # e.ptr
  BY <1>1 DEF Refs, OneRef
<1>6. \A j \in acks : ~j.freed => j.ptr # e.ptr
  BY DEF Refs, OneRef
<1>7. OneRef'
  BY <1>1, <1>2, <1>3, <1>5, <1>6 DEF Refs, OneRef
<1> QED BY <1>4, <1>7 DEF Refs

\* A reply or a timeout uses the only address of the session it may delete.
LEMMA AnswerRefs ==
  ASSUME TypeOK, Refs, NEW k \in acks, Reply(k) \/ Timeout(k)
  PROVE  Refs'
<1>0. ~k.freed
  BY DEF Reply, Timeout, Expires
<1>1. \A j \in acks' : ~j.freed => j \in acks \ {k}
  <2>1. ASSUME NEW b \in BOOLEAN PROVE [k EXCEPT !.freed = b].freed = b
    BY DEF TypeOK, AckHandle
  <2>2. [k EXCEPT !.freed = TRUE].freed
    BY <2>1
  <2> QED BY <2>2 DEF Reply, Timeout, Consumed
<1>2. UNCHANGED events
  BY DEF Reply, Timeout
<1>3. UNCHANGED sessionVars \/ session_delete(k.ptr)
  BY DEF Reply, Timeout, AckCallback
<1>4. CASE UNCHANGED sessionVars
  BY <1>1, <1>2, <1>4, FewerRefs DEF sessionVars
<1>5. CASE session_delete(k.ptr)
  <2>1. \A j \in acks' : ~j.freed => j.ptr # k.ptr
    BY <1>0, <1>1 DEF Refs, OneRef
  <2>2. \A e \in events : e.ptr # k.ptr
    BY <1>0 DEF Refs, OneRef
  <2> QED BY <1>1, <1>2, <1>5, <2>1, <2>2, DeletedRefs DEF session_delete, session_free
<1> QED BY <1>3, <1>4, <1>5

\* Losing the connection clears flags of the handles and keeps their addresses.
LEMMA DisconnectRefs ==
  ASSUME TypeOK, Refs, Disconnect
  PROVE  Refs'
<1> DEFINE Cleared(k) == [k EXCEPT !.registered = FALSE]
<1>1. /\ acks' = {Cleared(k) : k \in {j \in acks : ~j.freed}}
      /\ UNCHANGED <<live, sess, events>>
  BY DEF Disconnect, sessionVars
<1>2. ASSUME NEW k \in acks
      PROVE  /\ Cleared(k).ptr = k.ptr /\ Cleared(k).born = k.born
             /\ Cleared(k).freed = k.freed
  <2>1. ASSUME NEW b \in BOOLEAN
        PROVE  LET c == [k EXCEPT !.registered = b]
               IN  c.ptr = k.ptr /\ c.born = k.born /\ c.freed = k.freed
    BY DEF TypeOK, AckHandle
  <2> QED BY <2>1
<1> HIDE DEF Cleared
<1>3. ASSUME NEW c \in acks'
      PROVE  \E k \in acks : c = Cleared(k) /\ ~k.freed
  BY <1>1
<1>4. LiveRefs'
  BY <1>1, <1>2, <1>3 DEF Refs, LiveRefs
<1>5. OneRef'
  <2>1. ASSUME NEW c \in acks', NEW d \in acks', c.ptr = d.ptr
        PROVE  c = d
    BY <1>2, <1>3, <2>1 DEF Refs, OneRef
  <2>2. ASSUME NEW e \in events, NEW c \in acks'
        PROVE  e.ptr # c.ptr
    BY <1>2, <1>3 DEF Refs, OneRef
  <2> QED BY <1>1, <2>1, <2>2 DEF Refs, OneRef
<1> QED BY <1>4, <1>5 DEF Refs

\* The reply to a request that timed out deletes a session nobody else is
\* unfinished with.
LEMMA LateReplyRefs ==
  ASSUME TypeOK, Refs, ~Severs, NEW k \in acks, LateReply(k)
  PROVE  Refs'
<1>1. /\ UNCHANGED events /\ acks' = acks \ {k} /\ obs'.cause = "late-reply"
      /\ UNCHANGED sessionVars \/ session_delete(k.ptr)
  BY DEF LateReply, Saw, AckCallback
<1>2. CASE UNCHANGED sessionVars \/ k.ptr \notin live
  BY <1>1, <1>2, FewerRefs DEF sessionVars, session_delete, session_free, Removed
<1>3. CASE session_delete(k.ptr) /\ k.ptr \in live
  <2>1. k.ptr \notin live'
    BY <1>3 DEF session_delete, Removed
  <2>2. (\A e \in events : e.ptr # k.ptr) /\ (\A j \in acks : ~j.freed => j.ptr # k.ptr)
    BY <1>1, <1>3, <2>1, NotSevered
  <2> QED BY <1>1, <1>3, <2>2, DeletedRefs DEF session_delete, session_free
<1> QED BY <1>1, <1>2, <1>3

LEMMA UserRefs ==
  ASSUME TypeOK, Entered, Refs, ~Severs, User
  PROVE  Refs'
<1>1. CASE \E e \in events : evscallback_jingle(e)
  BY <1>1, EventRefs
<1>2. CASE jft_flush
  BY <1>2, SameRefs DEF jft_flush, sessionVars, ackVars
<1>3. CASE UNCHANGED <<live, sess, events, acks>>
  BY <1>3, SameRefs
<1>4. CASE OfferStep
  <2>1. PICK f \in FileIndex, p \in Peers, cause \in {"send", "retry"} :
          JftOffer(f, p, cause, files')
    BY <1>4 DEF OfferStep
  <2>2. obs'.cause \in {"send", "retry"}
    BY <2>1 DEF JftOffer, SessionOffered, Saw
  <2>3. obs'.cause # "retry" /\ obs'.out # <<>>
    BY <2>2 DEF Severs
  <2> QED BY <1>4, <2>3, OfferRefs
<1>5. ASSUME NEW p \in Roster, jft_send(p) \/ jft_retry(p)
      PROVE  UNCHANGED <<live, sess, events, acks>> \/ OfferStep
  BY <1>5, SendOffers, RetryOffers DEF JftFails, sessionVars, ackVars
<1> QED BY <1>1, <1>2, <1>3, <1>4, <1>5 DEF User

\* Whatever the disorder, as long as the addresses that events and handles keep are
\* those of the sessions they were made for, only a session-terminate or a late reply
\* about a session we are unfinished with, a session-initiate that cannot be sent and
\* a retry put an end to that: evscallback_jingle and the two reply callbacks, which
\* never ask, read and free what they mean to until then.
THEOREM SeversOnlyThere == Spec => OnlyTheseSever
<1>1. Init => TypeOK /\ Entered
  BY EnteredInductive
<1>2. TypeOK /\ Entered /\ [Next]_vars => TypeOK' /\ Entered'
  BY EnteredInductive
<1>3. TypeOK /\ Entered /\ [Next]_vars => [Refs /\ ~Severs => Refs']_vars
  <2> SUFFICES ASSUME TypeOK, Entered, Next, Refs, ~Severs
               PROVE  Refs'
    OBVIOUS
  <2>1. ASSUME NEW k \in acks, Reply(k) \/ LateReply(k) \/ Timeout(k)
        PROVE  Refs'
    BY <2>1, AnswerRefs, LateReplyRefs
  <2>2. ASSUME NEW a \in live, NEW n \in Names, handle_trans_data(a, n)
        PROVE  Refs'
    BY <2>2, SameRefs DEF handle_trans_data, sessionVars, ackVars
  <2>3. Connect => Refs'
    BY SameRefs DEF Connect, sessionVars, ackVars
  <2>4. CASE Network \/ Timer
    BY <2>1, <2>2, <2>3, <2>4, DisconnectRefs DEF Network, Timer
  <2> QED BY <2>4, PeerRefs, UserRefs DEF Next
<1> QED BY <1>1, <1>2, <1>3, PTL DEF Spec, OnlyTheseSever

-----------------------------------------------------------------------------
(* Streams *)

\* The stanzas that are sent: no session-terminate reaches the peer.
Kinds   == {"session-initiate", "session-accept", "result", "error"}
Replies == {"result", "error"}
Message == [kind : Kinds, sid : Sids, n : Nat]

\* The sids of the stanzas of one kind.
About(W, kind) == {m.sid : m \in {x \in ToSet(W) : x.kind = kind}}

\* No sid is in two of the session-initiates on their way.
FirstTime(W) ==
  \A i, j \in DOMAIN W :
    W[i].kind = "session-initiate" /\ W[j].kind = "session-initiate" /\ W[i].sid = W[j].sid
    => i = j

\* What is in a stream of stanzas is a stanza.
LEMMA Stanzas == ASSUME NEW W \in Seq(Message) PROVE ToSet(W) \subseteq Message
<1>1. \A i \in DOMAIN W : W[i] \in Message
  OBVIOUS
<1> QED BY <1>1 DEF ToSet

\* A stanza is sent.
LEMMA Appending ==
  ASSUME NEW W \in Seq(Message), NEW m \in Message
  PROVE  /\ Append(W, m) \in Seq(Message)
         /\ ToSet(Append(W, m)) = ToSet(W) \cup {m}
<1>1. /\ Append(W, m) \in Seq(Message)
      /\ DOMAIN W = 1 .. Len(W) /\ Len(W) \in Nat
      /\ DOMAIN Append(W, m) = 1 .. Len(W) + 1
      /\ \A j \in 1 .. Len(W) : Append(W, m)[j] = W[j]
      /\ Append(W, m)[Len(W) + 1] = m
  OBVIOUS
<1>2. DOMAIN Append(W, m) = DOMAIN W \cup {Len(W) + 1}
  BY <1>1
<1> QED BY <1>1, <1>2, ZenonT(30) DEF ToSet

\* A session-initiate for a sid that is in none on its way.
LEMMA AppendingFirst ==
  ASSUME NEW W \in Seq(Message), NEW m \in Message, FirstTime(W),
         m.kind = "session-initiate" => m.sid \notin About(W, "session-initiate")
  PROVE  FirstTime(Append(W, m))
<1>1. /\ DOMAIN W = 1 .. Len(W) /\ Len(W) \in Nat
      /\ DOMAIN Append(W, m) = 1 .. Len(W) + 1
      /\ \A j \in 1 .. Len(W) : Append(W, m)[j] = W[j]
      /\ Append(W, m)[Len(W) + 1] = m
  OBVIOUS
<1>2. DOMAIN Append(W, m) = DOMAIN W \cup {Len(W) + 1}
  BY <1>1
<1>3. m.kind = "session-initiate"
      => \A j \in DOMAIN W : W[j].kind = "session-initiate" => W[j].sid # m.sid
  BY DEF About, ToSet
<1> QED BY <1>1, <1>2, <1>3 DEF FirstTime

\* A stanza arrives.
LEMMA Taking ==
  ASSUME NEW W \in Seq(Message), W # <<>>
  PROVE  /\ Tail(W) \in Seq(Message) /\ Head(W) \in Message
         /\ ToSet(W) = ToSet(Tail(W)) \cup {Head(W)}
<1> DEFINE T == Tail(W)
<1>1. /\ T \in Seq(Message) /\ Head(W) = W[1] /\ Len(W) \in Nat /\ Len(W) > 0
      /\ DOMAIN W = 1 .. Len(W) /\ DOMAIN T = 1 .. Len(W) - 1
      /\ \A j \in 1 .. Len(W) - 1 : T[j] = W[j + 1]
      /\ W[1] \in Message
  OBVIOUS
<1> HIDE DEF T
<1>2. \A i \in 1 .. Len(W) : i = 1 \/ \E j \in 1 .. Len(W) - 1 : j + 1 = i
  <2> TAKE i \in 1 .. Len(W)
  <2>1. i = 1 \/ (i - 1 \in 1 .. Len(W) - 1 /\ i - 1 + 1 = i)
    BY <1>1
  <2> QED BY <2>1
<1>3. ToSet(W) \subseteq ToSet(T) \cup {Head(W)}
  <2>1. ASSUME NEW i \in 1 .. Len(W), i # 1
        PROVE  \E j \in DOMAIN T : T[j] = W[i]
    <3>1. PICK j \in 1 .. Len(W) - 1 : j + 1 = i
      BY <1>2, <2>1
    <3> QED BY <1>1, <3>1
  <2> QED BY <1>1, <2>1 DEF ToSet
<1>4. ToSet(T) \cup {Head(W)} \subseteq ToSet(W)
  <2>1. \A j \in 1 .. Len(W) - 1 : j + 1 \in 1 .. Len(W)
    BY <1>1
  <2>2. 1 \in 1 .. Len(W)
    BY <1>1
  <2> QED BY <1>1, <2>1, <2>2 DEF ToSet
<1> QED BY <1>1, <1>3, <1>4 DEF T

\* The session-initiate that arrives is the only one of its sid.
LEMMA TakingFirst ==
  ASSUME NEW W \in Seq(Message), W # <<>>, FirstTime(W)
  PROVE  /\ FirstTime(Tail(W))
         /\ Head(W).kind = "session-initiate" => Head(W).sid \notin About(Tail(W), "session-initiate")
<1>1. /\ Head(W) = W[1] /\ Len(W) \in Nat /\ Len(W) > 0
      /\ DOMAIN W = 1 .. Len(W) /\ DOMAIN Tail(W) = 1 .. Len(W) - 1
      /\ \A j \in 1 .. Len(W) - 1 : Tail(W)[j] = W[j + 1]
  OBVIOUS
<1>2. \A j \in 1 .. Len(W) - 1 : j + 1 \in 1 .. Len(W) /\ j + 1 # 1
  BY <1>1
<1>3. 1 \in 1 .. Len(W) /\ \A i, j \in 1 .. Len(W) - 1 : i + 1 = j + 1 => i = j
  BY <1>1
<1>4. FirstTime(Tail(W))
  BY <1>1, <1>2, <1>3 DEF FirstTime
<1>5. ASSUME NEW j \in DOMAIN Tail(W), Tail(W)[j].kind = "session-initiate",
             Head(W).kind = "session-initiate"
      PROVE  Tail(W)[j].sid # Head(W).sid
  BY <1>1, <1>2, <1>3, <1>5 DEF FirstTime
<1> QED BY <1>4, <1>5 DEF About, ToSet

\* What was sent last is lost.
LEMMA Losing ==
  ASSUME NEW W \in Seq(Message), NEW i \in 0 .. Len(W)
  PROVE  /\ SubSeq(W, 1, i) \in Seq(Message)
         /\ ToSet(SubSeq(W, 1, i)) \subseteq ToSet(W)
         /\ FirstTime(W) => FirstTime(SubSeq(W, 1, i))
<1>1. /\ SubSeq(W, 1, i) \in Seq(Message)
      /\ DOMAIN W = 1 .. Len(W)
      /\ DOMAIN SubSeq(W, 1, i) = 1 .. i
      /\ \A j \in 1 .. i : SubSeq(W, 1, i)[j] = W[j]
  OBVIOUS
<1>2. \A j \in 1 .. i : j \in 1 .. Len(W)
  OBVIOUS
<1> QED BY <1>1, <1>2 DEF ToSet, FirstTime

-----------------------------------------------------------------------------
(* What a callback sends the peer *)

\* A client whose only peer is the other one.
Alone ==
  /\ Peers = {Other} /\ Roster = {Other} /\ Names = {FileName}
  /\ "linkfail" \notin Disorder /\ "retry" \notin Disorder

\* Two empty lists add nothing to a stream.
LEMMA Nothing ==
  ASSUME NEW W \in Seq(Message)
  PROVE  W \o (<<>> \o <<>>) = W
OBVIOUS

\* One stanza and an empty list add the stanza.
LEMMA One ==
  ASSUME NEW W \in Seq(Message), NEW m \in Message
  PROVE  W \o (<<m>> \o <<>>) = Append(W, m)
<1>1. <<m>> \o <<>> = <<m>>
  <2>1. <<m>> \in Seq(Message)
    OBVIOUS
  <2> QED BY <2>1
<1> QED BY <1>1

\* A callback that shows no stanza, or one that is not for the peer, sends none.
LEMMA SendsNothing ==
  ASSUME outbox \in Seq(Message), NEW sid, NEW n, Send(sid, n),
         \/ obs'.out = <<>>
         \/ \E x : obs'.out = <<x>> /\ x.to # Other
  PROVE  outbox' = outbox
<1>1. Carried(1, sid, n) = <<>> /\ Carried(2, sid, n) = <<>>
  BY DEF Carried
<1>2. outbox' = outbox \o (<<>> \o <<>>)
  BY <1>1 DEF Send, Sent
<1> QED BY <1>2, Nothing

\* A callback that shows one stanza for the peer sends it.
LEMMA SendsOne ==
  ASSUME outbox \in Seq(Message), NEW sid \in Sids, NEW n \in Nat, Send(sid, n),
         NEW x, x.to = Other, x.kind \in Kinds,
         \/ obs'.out = <<x>>
         \/ \E y : obs'.out = <<x, y>> /\ y.to # Other
  PROVE  outbox' = Append(outbox, [kind |-> x.kind, sid |-> sid, n |-> n])
<1> DEFINE r == [kind |-> x.kind, sid |-> sid, n |-> n]
<1>1. x.kind # "session-terminate"
  BY DEF Kinds
<1>2. Carried(1, sid, n) = <<r>>
  BY <1>1 DEF Carried
<1>3. Carried(2, sid, n) = <<>>
  BY DEF Carried
<1>4. r \in Message
  BY DEF Message
<1> HIDE DEF r
<1>5. outbox' = outbox \o (<<r>> \o <<>>)
  BY <1>2, <1>3 DEF Send, Sent
<1>6. outbox' = Append(outbox, r)
  BY <1>4, <1>5, One
<1> QED BY <1>6 DEF r

-----------------------------------------------------------------------------
(* The invariant of one client *)

\* The sids we may have told the peer: no session of that sid waits to be announced.
Told(me, L, S, n) == {s \in {me} \X (1 .. n) : \A a \in L : S[a].sid = s => S[a].announced}
SidsOf(L, S, origin) == {S[a].sid : a \in {b \in L : S[b].origin = origin}}

\* The numbers of the requests the peer has not answered yet, or whose answer is on
\* its way.
Pending(out, in) == {m.n : m \in {x \in ToSet(out) : x.kind \in Requests}}
                    \cup {m.n : m \in {x \in ToSet(in) : x.kind \notin Requests}}

\* A session of ours, or one the peer invited us to.
Party(r, n) ==
  \/ r.origin = "OUTGOING" /\ r.to = Other /\ r.sid \in {Me} \X (1 .. n)
  \/ r.origin = "INCOMING" /\ r.from = Other /\ r.to = Me /\ r.announced

Parties == \A a \in live : Party(sess[a], OwnOffers)
Invited == \A e \in events : sess[e.ptr].origin = "INCOMING"
Unused  == \A f \in FileIndex : f > nfiles => files[f].dir = "INCOMING"
Numbered ==
  /\ \A k \in acks : k.n <= nacks
  /\ \A j, k \in acks : j.n = k.n => j = k
  /\ \A n \in Pending(outbox, inbox) : n <= nacks
  /\ \A k \in acks : k.freed => k.n \notin Pending(outbox, inbox)
Streams == inbox \in Seq(Message) /\ outbox \in Seq(Message)

CoreOK   == TypeOK /\ Entered /\ OwnFile /\ Refs
ClientOK == CoreOK /\ Streams /\ Parties /\ Invited /\ Unused /\ Numbered

-----------------------------------------------------------------------------
(* What each action does *)

\* The struct that is made, at a.
Made(a, r) ==
  /\ a \in Addr \ live /\ r \in Session
  /\ \A b \in live : sess'[b] = sess[b] /\ cstate'[b][FileName] = cstate[b][FileName]
  /\ sess'[a] = r

\* /jft send made a session, and its request is on its way if it was announced.
OfferMade ==
  \E a \in Addr, r \in Session, k \in AckHandle :
    /\ Made(a, r) /\ live' = live \cup {a} /\ cstate'[a][FileName] = "PENDING"
    /\ r.sid = NewSid /\ r.origin = "OUTGOING" /\ r.to = Other
    /\ \/ ~r.announced /\ UNCHANGED <<acks, nacks, outbox>>
       \/ /\ r.announced /\ nacks' = nacks + 1
          /\ acks' = acks \cup {k} /\ k.n = nacks + 1 /\ k.registered /\ ~k.freed
          /\ outbox' = Append(outbox, [kind |-> "session-initiate", sid |-> NewSid, n |-> nacks + 1])

\* The entry /jft send puts in info_list is one more transfer of our own.
LEMMA OneMoreOffer ==
  ASSUME TypeOK, Unused, NEW r, r.dir = "OUTGOING", nfiles < MaxFiles,
         files' = [files EXCEPT ![nfiles + 1] = r]
  PROVE  OwnOffers \in Nat /\ OwnOffers' = OwnOffers + 1
<1> DEFINE D == {f \in FileIndex : files[f].dir = "OUTGOING"}
<1>1. nfiles \in Nat /\ nfiles + 1 \in FileIndex /\ nfiles + 1 > nfiles
  BY DEF TypeOK, FileIndex
<1>2. nfiles + 1 \notin D
  BY <1>1 DEF Unused
<1>3. {f \in FileIndex : files'[f].dir = "OUTGOING"} = D \cup {nfiles + 1}
  <2>1. \A f \in FileIndex : files'[f] = IF f = nfiles + 1 THEN r ELSE files[f]
    BY DEF TypeOK
  <2> QED BY <1>1, <2>1
<1>4. IsFiniteSet(D)
  <2>1. IsFiniteSet(FileIndex)
    BY FS_Interval DEF FileIndex
  <2>2. D \in SUBSET FileIndex
    OBVIOUS
  <2> QED BY <2>1, <2>2, FS_Subset
<1> HIDE DEF D
<1>5. Cardinality(D) \in Nat /\ Cardinality(D \cup {nfiles + 1}) = Cardinality(D) + 1
  BY <1>2, <1>4, FS_CardinalityType, FS_AddElement
<1> QED BY <1>3, <1>5 DEF OwnOffers, D

\* Our own transfers are counted by the direction of the entries.
LEMMA SameOffers ==
  ASSUME \A f \in FileIndex : files'[f].dir = files[f].dir
  PROVE  OwnOffers' = OwnOffers
<1>1. {f \in FileIndex : files'[f].dir = "OUTGOING"} = {f \in FileIndex : files[f].dir = "OUTGOING"}
  OBVIOUS
<1> QED BY <1>1 DEF OwnOffers

\* /jft send makes no session, or one with the next sid, announced if a stanza went out.
LEMMA OfferDoes ==
  ASSUME Alone, ClientOK, Offer
  PROVE  /\ OwnOffers \in Nat /\ OwnOffers' = OwnOffers + 1 /\ Unused'
         /\ UNCHANGED <<inbox, events, connected>>
         /\ UNCHANGED <<live, sess, cstate, acks, nacks, outbox>> \/ OfferMade
<1>0. TypeOK /\ Unused /\ Entered /\ outbox \in Seq(Message)
  BY DEF ClientOK, CoreOK, Streams
<1> DEFINE f == nfiles + 1
           File(st, e) == [files EXCEPT ![f] = [state |-> st, dir |-> "OUTGOING", full |-> e]]
<1>1. PICK empty \in BOOLEAN :
        \/ JftFails("send", File("ERROR", empty))
        \/ connected /\ JftOffer(f, Other, "send", File("PENDING", empty))
  BY DEF Offer, jft_send
<1>2. nfiles < MaxFiles /\ nfiles' = f /\ nfiles \in Nat /\ f \in FileIndex
  BY <1>0 DEF Offer, jft_send, TypeOK, FileIndex
<1>3. /\ OwnOffers \in Nat /\ OwnOffers' = OwnOffers + 1 /\ Unused'
      /\ UNCHANGED <<events, connected>>
  <2>1. ASSUME NEW st, files' = File(st, empty)
        PROVE  OwnOffers \in Nat /\ OwnOffers' = OwnOffers + 1 /\ Unused'
    <3> DEFINE r == [state |-> st, dir |-> "OUTGOING", full |-> empty]
    <3>1. r.dir = "OUTGOING" /\ files' = [files EXCEPT ![nfiles + 1] = r]
      BY <2>1
    <3> HIDE DEF r
    <3>2. \A g \in FileIndex : g > nfiles + 1 => g > nfiles /\ files'[g] = files[g]
      BY <1>0, <1>2, <3>1 DEF TypeOK, FileIndex
    <3> QED BY <1>0, <1>2, <3>1, <3>2, OneMoreOffer DEF Unused
  <2> HIDE DEF File
  <2> QED BY <1>1, <2>1 DEF JftFails, JftOffer
<1>4. CASE JftFails("send", File("ERROR", empty))
  <2>1. obs'.out = <<>> /\ UNCHANGED <<live, sess, cstate, acks, nacks>>
    BY <1>4 DEF JftFails, Saw, sessionVars, ackVars
  <2>2. outbox' = outbox /\ UNCHANGED inbox
    BY <1>0, <2>1, SendsNothing DEF Offer
  <2> QED BY <1>3, <2>1, <2>2
<1>5. CASE connected /\ JftOffer(f, Other, "send", File("PENDING", empty))
  <2>1. PICK a \in Addr \ live, s \in Sids \ {sess[b].sid : b \in live}, trans \in BOOLEAN :
          SessionOffered(f, Other, "send", a, s, trans, TRUE)
    BY <1>5 DEF JftOffer, Alone
  <2>2. session_find_by_app(f, a) = a
    <3>1. \A b \in live : f \notin FilesOf(b)
      BY <1>0, <1>2 DEF Entered, FilesOf, Contents
    <3> QED BY <3>1 DEF session_find_by_app
  <2> DEFINE new  == NewOutgoing(s, Other)
             both == [sess EXCEPT ![a] = new]
             r    == IF trans THEN Offered(new, TRUE) ELSE new
             k    == NewAck("si", a, new.born, TRUE)
  <2>3. both[a] = new /\ both \in [Addr -> Session] /\ new \in Session
    <3>1. new \in Session
      BY <1>0 DEF NewOutgoing, Session, TypeOK, Alone
    <3> QED BY <1>0, <3>1 DEF TypeOK
  <2>4. live' = live \cup {a} /\ \A b \in Addr : cstate'[b][FileName] =
                                   IF b = a THEN "PENDING" ELSE cstate[b][FileName]
    BY <2>1, <2>2 DEF SessionOffered
  <2>5. /\ ~trans => sess' = both /\ UNCHANGED <<acks, nacks>> /\ obs'.out = <<>>
        /\ trans => /\ sess' = [both EXCEPT ![a] = Offered(both[a], TRUE)]
                    /\ acks' = acks \cup {NewAck("si", a, both[a].born, TRUE)} /\ nacks' = nacks + 1
                    /\ obs'.out = <<Msg("session-initiate", Other, Other, NoCond)>>
    <3>1. \/ /\ trans
             /\ jingle_send_session_initiate(a, both[a], TRUE)
             /\ sess' = [both EXCEPT ![a] = Offered(both[a], TRUE)]
             /\ Saw("send", NoBody, <<Msg("session-initiate", Other, Other, NoCond)>>)
          \/ /\ ~trans /\ sess' = both
             /\ Saw("send", NoBody, <<>>)
             /\ UNCHANGED ackVars
      BY Zenon, <2>1, <2>2 DEF SessionOffered
    <3>2. \A out : Saw("send", NoBody, out) => obs'.out = out
      BY DEF Saw
    <3> QED BY Zenon, <3>1, <3>2 DEF jingle_send_session_initiate, ackVars
  <2>6. /\ r \in Session /\ r.sid = s /\ r.origin = "OUTGOING" /\ r.to = Other
        /\ r.announced = trans
    BY <1>0, <2>1, <2>3 DEF NewOutgoing, Offered, Session, TypeOK, Alone
  <2>7. k \in AckHandle /\ k.n = nacks + 1 /\ k.registered /\ ~k.freed
    BY <1>0, <2>1, <2>3 DEF NewAck, AckHandle, TypeOK, Session
  <2>8. sess' = [sess EXCEPT ![a] = r]
    <3>1. CASE trans
      BY <1>0, <2>1, <2>3, <2>5, <3>1 DEF TypeOK
    <3>2. CASE ~trans
      BY <2>3, <2>5, <3>2
    <3> QED BY <3>1, <3>2
  <2>9. trans => acks' = acks \cup {k} /\ nacks' = nacks + 1
    BY <2>3, <2>5
  <2> HIDE DEF new, both, r, k
  <2>10. Made(a, r)
    BY <1>0, <2>1, <2>4, <2>6, <2>8 DEF Made, TypeOK
  <2>11. s = NewSid /\ cstate'[a][FileName] = "PENDING"
    <3>1. a \in live' \ live /\ sess'[a].sid = s
      BY <2>1, <2>4, <2>6, <2>10 DEF Made
    <3> QED BY <2>1, <2>4, <3>1 DEF Offer
  <2>12. ~trans => outbox' = outbox
    BY <1>0, <2>5, SendsNothing DEF Offer
  <2>13. trans => outbox' = Append(outbox, [kind |-> "session-initiate", sid |-> NewSid, n |-> nacks + 1])
    <3>1. Other \in Jids
      BY DEF Alone
    <3> DEFINE x == Msg("session-initiate", Other, Other, NoCond)
    <3>2. x.to = Other /\ x.kind = "session-initiate" /\ x.kind \in Kinds
      BY DEF Msg, Kinds
    <3> HIDE DEF x
    <3>3. ASSUME trans PROVE obs'.out = <<x>> /\ Send(NewSid, nacks + 1) /\ NewSid \in Sids /\ nacks + 1 \in Nat
      BY <1>0, <2>1, <2>5, <2>9, <2>11, <3>3 DEF x, Offer, TypeOK
    <3> QED BY <1>0, <3>2, <3>3, SendsOne
  <2>14. OfferMade
    BY <2>1, <2>4, <2>5, <2>6, <2>7, <2>9, <2>10, <2>11, <2>12, <2>13 DEF OfferMade
  <2> QED BY <1>3, <2>14 DEF Offer
<1> QED BY <1>1, <1>4, <1>5

\* A session-accept was sent for s, or could not be; its handle is k.
AcceptSent(s, k) ==
  /\ s \in SidsOf(live, sess, "INCOMING")
  /\ acks' = acks \cup {k} /\ k.n = nacks + 1 /\ ~k.freed /\ k.registered = connected
  /\ nacks' = nacks + 1
  /\ \/ ~connected /\ UNCHANGED outbox
     \/ /\ connected
        /\ outbox' = Append(outbox, [kind |-> "session-accept", sid |-> s, n |-> nacks + 1])

\* An answered event sends a session-accept for an incoming session, or nothing to the peer.
LEMMA EventDoes ==
  ASSUME Alone, ClientOK, AnswerEvent
  PROVE  /\ UNCHANGED <<live, sess, cstate, files, nfiles, connected, inbox>> /\ events' \subseteq events
         /\ \/ UNCHANGED <<acks, nacks, outbox>>
            \/ \E s \in Sids, k \in AckHandle : AcceptSent(s, k)
<1>0. TypeOK /\ Refs /\ Parties /\ Invited /\ outbox \in Seq(Message)
  BY DEF ClientOK, CoreOK, Streams
<1>1. PICK e \in events : /\ evscallback_jingle(e)
                          /\ Send(sess[e.ptr].sid, nacks') /\ UNCHANGED inbox
  BY DEF AnswerEvent
<1> DEFINE a == e.ptr
           s == sess[a].sid
<1>2. /\ a \in live /\ a \in Addr /\ sess[a] \in Session /\ s \in Sids
      /\ sess[a].origin = "INCOMING" /\ sess[a].from = Other /\ sess[a].to = Me
  BY <1>0 DEF Refs, LiveRefs, Invited, Parties, Party, TypeOK, Session
<1>3. Recipient(a) = Other /\ Me # Other
  BY <1>2 DEF Recipient, Alone
<1>4. /\ UNCHANGED <<live, sess, cstate, files, nfiles, connected, inbox>> /\ events' \subseteq events
  BY <1>1 DEF evscallback_jingle, sessionVars, fileVars
<1>5. CASE obs'.out = <<>> /\ UNCHANGED ackVars
  <2>1. outbox' = outbox
    BY <1>0, <1>1, <1>5, SendsNothing
  <2> QED BY <1>4, <1>5, <2>1 DEF ackVars
<1>6. CASE obs'.out = <<Terminate(a, "decline")>> /\ UNCHANGED ackVars
  <2>1. Terminate(a, "decline").to # Other
    BY <1>2, <1>3 DEF Terminate, Msg
  <2>2. outbox' = outbox
    BY <1>0, <1>1, <1>6, <2>1, SendsNothing
  <2> QED BY <1>4, <1>6, <2>2 DEF ackVars
<1>7. CASE jingle_send_session_accept(a)
  <2> DEFINE k == NewAck("sa", a, sess[a].born, connected)
             x == Msg("session-accept", Recipient(a), Recipient(a), NoCond)
  <2>1. k \in AckHandle /\ k.n = nacks + 1 /\ ~k.freed /\ k.registered = connected
    BY <1>0, <1>2 DEF NewAck, AckHandle, TypeOK, Session
  <2>2. acks' = acks \cup {k} /\ nacks' = nacks + 1
    BY <1>7 DEF jingle_send_session_accept
  <2>3. s \in SidsOf(live, sess, "INCOMING")
    BY <1>2 DEF SidsOf
  <2>4. x.to = Other /\ x.kind = "session-accept" /\ x.kind \in Kinds
    BY <1>3 DEF Msg, Kinds
  <2>5. obs'.out = IF connected THEN <<x>> ELSE <<>>
    BY <1>7 DEF jingle_send_session_accept, Saw
  <2>6. nacks + 1 \in Nat /\ connected \in BOOLEAN
    BY <1>0 DEF TypeOK
  <2> HIDE DEF k, x
  <2>7. CASE ~connected
    <3>1. outbox' = outbox
      BY <1>0, <1>1, <2>5, <2>7, SendsNothing
    <3> QED BY <1>2, <1>4, <2>1, <2>2, <2>3, <2>7, <3>1 DEF AcceptSent
  <2>8. CASE connected
    <3>1. Send(s, nacks + 1)
      BY <1>1, <2>2
    <3>2. outbox' = Append(outbox, [kind |-> "session-accept", sid |-> s, n |-> nacks + 1])
      BY <1>0, <1>2, <2>4, <2>5, <2>6, <2>8, <3>1, SendsOne
    <3> QED BY <1>2, <1>4, <2>1, <2>2, <2>3, <2>8, <3>2 DEF AcceptSent
  <2> QED BY <2>7, <2>8
<1>8. \/ obs'.out = <<>> /\ UNCHANGED ackVars
      \/ obs'.out = <<Terminate(a, "decline")>> /\ UNCHANGED ackVars
      \/ jingle_send_session_accept(a)
  <2>1. \A cause, out : Saw(cause, NoBody, out) => obs'.out = out
    BY DEF Saw
  <2> QED BY <1>1, <2>1 DEF evscallback_jingle
<1> QED BY <1>5, <1>6, <1>7, <1>8

\* What the handlers of requests do to the stream and the sessions.
Replied(m, kind) == outbox' = Append(outbox, [kind |-> kind, sid |-> m.sid, n |-> m.n])
ListKept ==
  /\ UNCHANGED <<live, events>>
  /\ \A b \in live : sess'[b] = sess[b] /\ cstate'[b][FileName] = cstate[b][FileName]
SessionJoined(m) ==
  \E a \in Addr, r \in Session, e \in Event :
    /\ Made(a, r) /\ live' = live \cup {a} /\ cstate'[a][FileName] # "ACTIVE"
    /\ r.sid = m.sid /\ r.origin = "INCOMING" /\ r.from = Other /\ r.to = Me /\ r.announced
    /\ events' = events \cup {e} /\ e.ptr = a
DirsKept == nfiles' \in Nat /\ nfiles' >= nfiles /\ \A f \in FileIndex : files'[f].dir = files[f].dir

\* A request of the peer is never refused for its contents.
LEMMA NotRefused ==
  ASSUME NEW p, NEW cause, Saw(cause, p, IqError(p, "bad-request")),
         \A i \in DOMAIN obs'.out : obs'.out[i].cond # "bad-request"
  PROVE  FALSE
<1>1. obs'.out = <<Msg("error", p, p, "bad-request")>>
  BY DEF Saw, IqError
<1>2. Msg("error", p, p, "bad-request").cond = "bad-request"
  BY DEF Msg
<1> QED BY <1>1, <1>2

\* Two lists of one element.
LEMMA Two == ASSUME NEW x, NEW y PROVE <<x>> \o <<y>> = <<x, y>>
<1> DEFINE S == {x, y}
           u == <<x>> \o <<y>>
           v == <<x, y>>
<1>1. x \in S /\ y \in S
  OBVIOUS
<1> HIDE DEF S
<1>2. u \in Seq(S) /\ v \in Seq(S) /\ Len(u) = 2 /\ Len(v) = 2
      /\ u[1] = x /\ u[2] = y /\ v[1] = x /\ v[2] = y
  BY <1>1
<1> HIDE DEF u, v
<1>3. \A i \in 1 .. 2 : u[i] = v[i]
  BY <1>2
<1>4. u = v
  BY <1>2, <1>3, SeqEqual
<1> QED BY <1>4 DEF u, v

\* The handlers of requests answer with one stanza for the peer.
LEMMA Replying ==
  ASSUME outbox \in Seq(Message), NEW m \in Message, Send(m.sid, m.n), NEW cause, NEW out,
         Saw(cause, Other, out)
  PROVE  /\ out = AckIq(Other) => Replied(m, "result")
         /\ \A cond : out = IqError(Other, cond) => Replied(m, "error")
         /\ \A t : out = AckIq(Other) \o <<t>> /\ t.to # Other => Replied(m, "result")
<1>1. obs'.out = out
  BY DEF Saw
<1>2. m.sid \in Sids /\ m.n \in Nat
  BY DEF Message
<1>3. \A kind, cond : LET x == Msg(kind, Other, Other, cond) IN x.to = Other /\ x.kind = kind
  BY DEF Msg
<1>4. "result" \in Kinds /\ "error" \in Kinds
  BY DEF Kinds
<1>5. ASSUME out = AckIq(Other) PROVE Replied(m, "result")
  BY <1>1, <1>2, <1>3, <1>4, <1>5, SendsOne DEF AckIq, Replied
<1>6. ASSUME NEW cond, out = IqError(Other, cond) PROVE Replied(m, "error")
  BY <1>1, <1>2, <1>3, <1>4, <1>6, SendsOne DEF IqError, Replied
<1>7. ASSUME NEW t, out = AckIq(Other) \o <<t>>, t.to # Other PROVE Replied(m, "result")
  <2> DEFINE x == Msg("result", Other, Other, NoCond)
  <2>1. x.to = Other /\ x.kind = "result"
    BY <1>3
  <2>2. out = <<x, t>>
    BY <1>7, Two DEF AckIq
  <2> HIDE DEF x
  <2> QED BY <1>1, <1>2, <1>4, <1>7, <2>1, <2>2, SendsOne DEF Replied
<1> QED BY <1>5, <1>6, <1>7

\* An accepted session-initiate joins a session, or keeps the list when no content is supported.
LEMMA AcceptedDoes ==
  ASSUME Alone, ClientOK, NEW m \in Message, Send(m.sid, m.n), NEW offer \in [Names -> Offers],
         InitiateAccepted(Other, m.sid, offer)
  PROVE  /\ UNCHANGED <<acks, nacks, connected>> /\ DirsKept /\ Replied(m, "result")
         /\ Find(m.sid, Other) = {} /\ (ListKept \/ SessionJoined(m))
<1>0. TypeOK /\ Unused /\ outbox \in Seq(Message)
  BY DEF ClientOK, CoreOK, Streams
<1> DEFINE p       == Other
           s       == m.sid
           kept    == {n \in Names : offer[n] = "good"}
           opened  == {n \in Names : offer[n] \in {"good", "badTransport"}}
           entries == Entries(Cardinality(opened))
<1>1. PICK a \in Addr \ live, index \in [opened -> entries], empty \in SUBSET entries :
        SessionReceived(a, p, s, kept, entries, index, empty)
  BY DEF InitiateAccepted
<1>2. /\ UNCHANGED <<acks, nacks, connected>> /\ Find(s, p) = {}
      /\ created' = created + 1 /\ nfiles' = nfiles + Cardinality(opened)
  BY DEF InitiateAccepted, ackVars
<1>3. Cardinality(opened) \in Nat
  BY FS_Subset, FS_CardinalityType
<1>4. DirsKept
  <2>1. \A f \in entries : f > nfiles
    BY <1>0, <1>3 DEF Entries, TypeOK
  <2> HIDE DEF entries
  <2>2. \A f \in FileIndex : files'[f].dir = IF f \in entries THEN "INCOMING" ELSE files[f].dir
    BY <1>1 DEF SessionReceived
  <2>3. nfiles' \in Nat /\ nfiles' >= nfiles
    <3>1. nfiles \in Nat
      BY <1>0 DEF TypeOK
    <3> HIDE DEF opened
    <3> QED BY <1>2, <1>3, <3>1
  <2>4. \A f \in FileIndex : files'[f].dir = files[f].dir
    BY <1>0, <2>1, <2>2 DEF Unused
  <2> QED BY <2>3, <2>4 DEF DirsKept
<1> DEFINE r == [sid |-> s, from |-> p, to |-> Me, origin |-> "INCOMING", born |-> created + 1,
                 announced |-> TRUE, inbound |-> kept]
           e == [ptr |-> a, born |-> created + 1]
<1>5. sess' = [sess EXCEPT ![a] = r]
  BY <1>1 DEF SessionReceived
<1>6. /\ r \in Session /\ r.sid = s /\ r.origin = "INCOMING" /\ r.from = p /\ r.to = Me
      /\ r.announced
  BY <1>0 DEF Session, TypeOK, Alone, Message
<1>7. e \in Event /\ e.ptr = a
  BY <1>0, <1>1 DEF Event, TypeOK
<1>8. \A b \in Addr : cstate'[b][FileName] = IF b = a THEN IF FileName \in kept THEN "PENDING" ELSE "absent"
                                             ELSE cstate[b][FileName]
  BY <1>0, <1>1 DEF SessionReceived, TypeOK
<1>9. \/ /\ Saw("session-initiate", p,
                AckIq(p) \o <<Msg("session-terminate", Me, p, "unsupported-applications")>>)
         /\ UNCHANGED <<live, events>>
      \/ /\ Saw("session-initiate", p, AckIq(p))
         /\ live' = live \cup {a}
         /\ events' = events \cup {e}
  BY <1>1 DEF SessionReceived
<1> HIDE DEF r, e, kept
<1>10. \A b \in live : sess'[b] = sess[b] /\ cstate'[b][FileName] = cstate[b][FileName]
  BY <1>0, <1>1, <1>5, <1>8 DEF TypeOK
<1>11. Made(a, r) /\ cstate'[a][FileName] # "ACTIVE"
  BY <1>0, <1>1, <1>5, <1>6, <1>8, <1>10 DEF Made, TypeOK
<1>12. Replied(m, "result")
  <2>1. Msg("session-terminate", Me, p, "unsupported-applications").to # Other
    BY DEF Msg, Alone
  <2> QED BY <1>0, <1>9, <2>1, Replying
<1>13. ListKept \/ SessionJoined(m)
  BY <1>6, <1>7, <1>9, <1>10, <1>11 DEF ListKept, SessionJoined
<1> QED BY <1>2, <1>4, <1>12, <1>13

\* A session-initiate is refused when the session exists, and else accepted.
LEMMA InitiateDoes ==
  ASSUME Alone, ClientOK, NEW m \in Message, m.kind = "session-initiate", Requested(m)
  PROVE  /\ UNCHANGED <<acks, nacks, connected>> /\ DirsKept
         /\ \/ Replied(m, "error") /\ Find(m.sid, Other) # {} /\ UNCHANGED <<live, sess, cstate, events>>
            \/ Replied(m, "result") /\ Find(m.sid, Other) = {} /\ (ListKept \/ SessionJoined(m))
<1>0. outbox \in Seq(Message) /\ nfiles \in Nat
  BY DEF ClientOK, CoreOK, Streams, TypeOK
<1>1. /\ handle_session_initiate(Other, m.sid) /\ Send(m.sid, m.n)
      /\ \A i \in DOMAIN obs'.out : obs'.out[i].cond # "bad-request"
  BY DEF Requested
<1>2. PICK offer \in [Names -> Offers] :
        InitiateRefused(Other, m.sid, offer) \/ InitiateAccepted(Other, m.sid, offer)
  BY <1>1 DEF handle_session_initiate
<1>3. CASE InitiateAccepted(Other, m.sid, offer)
  BY <1>1, <1>3, AcceptedDoes
<1>4. CASE InitiateRefused(Other, m.sid, offer)
  <2>1. \/ Saw("session-initiate", Other, IqError(Other, "bad-request"))
        \/ /\ Find(m.sid, Other) # {}
           /\ Saw("session-initiate", Other, IqError(Other, "unexpected-request"))
    BY <1>4 DEF InitiateRefused, RefusedContents, Alone
  <2>2. /\ Find(m.sid, Other) # {}
        /\ Saw("session-initiate", Other, IqError(Other, "unexpected-request"))
    BY <1>1, <2>1, NotRefused
  <2>3. UNCHANGED <<live, sess, cstate, events, acks, nacks, connected, files, nfiles>>
    BY <1>4 DEF InitiateRefused, RefusedContents, sessionVars, ackVars, fileVars
  <2>4. Replied(m, "error")
    BY <1>0, <1>1, <2>2, Replying
  <2> QED BY <1>0, <2>2, <2>3, <2>4 DEF DirsKept
<1> QED BY <1>2, <1>3, <1>4

\* A session-accept changes the contents of the session it names, and no other.
LEMMA AcceptDoes ==
  ASSUME Alone, ClientOK, NEW m \in Message, m.kind = "session-accept", Requested(m)
  PROVE  /\ UNCHANGED <<live, sess, events, acks, nacks, connected, files, nfiles>>
         /\ \/ Replied(m, "error") /\ Find(m.sid, Other) = {} /\ UNCHANGED cstate
            \/ /\ Replied(m, "result")
               /\ \A b \in live : \/ cstate'[b][FileName] = cstate[b][FileName]
                                  \/ b \in Find(m.sid, Other)
<1>0. outbox \in Seq(Message) /\ TypeOK
  BY DEF ClientOK, CoreOK, Streams
<1>1. /\ handle_session_accept(Other, m.sid) /\ Send(m.sid, m.n)
      /\ \A i \in DOMAIN obs'.out : obs'.out[i].cond # "bad-request"
  BY DEF Requested
<1>2. UNCHANGED <<live, sess, events, acks, nacks, connected, files, nfiles>>
  BY <1>1 DEF handle_session_accept, UnknownSession, RefusedContents, sessionVars, fileVars, ackVars
<1>3. CASE UnknownSession(Other, m.sid, "session-accept")
  <2>1. Find(m.sid, Other) = {} /\ UNCHANGED cstate
        /\ Saw("session-accept", Other, IqError(Other, "item-not-found"))
    BY <1>3 DEF UnknownSession, sessionVars
  <2> QED BY <1>0, <1>1, <1>2, <2>1, Replying
<1>4. CASE RefusedContents(Other, "session-accept")
  <2>1. Saw("session-accept", Other, IqError(Other, "bad-request"))
    BY <1>4 DEF RefusedContents
  <2> QED BY <1>1, <2>1, NotRefused
<1>5. ASSUME NEW a \in Find(m.sid, Other), NEW named \in SUBSET Names,
             cstate' = [cstate EXCEPT ![a] =
                          [n \in Names |-> IF n \in named \cap Contents(a)
                                           THEN "ACTIVE" ELSE cstate[a][n]]],
             Saw("session-accept", Other, AckIq(Other))
      PROVE  /\ Replied(m, "result")
             /\ \A b \in live : \/ cstate'[b][FileName] = cstate[b][FileName]
                                \/ b \in Find(m.sid, Other)
  <2>1. Replied(m, "result")
    BY <1>0, <1>1, <1>5, Replying
  <2>2. \A b \in live : b # a => cstate'[b] = cstate[b]
    BY <1>0, <1>5 DEF TypeOK
  <2> QED BY <1>5, <2>1, <2>2
<1> QED BY <1>1, <1>2, <1>3, <1>4, <1>5 DEF handle_session_accept

\* The number of a reply that arrives is pending.
LEMMA HeadPending ==
  ASSUME Streams, inbox # <<>>
  PROVE  /\ Head(inbox) \in Message
         /\ Head(inbox).kind \notin Requests => Head(inbox).n \in Pending(outbox, inbox)
<1>1. Head(inbox) \in Message /\ Head(inbox) \in ToSet(inbox)
  BY Taking DEF Streams
<1> QED BY <1>1 DEF Pending

\* The list of sessions after at most one was deleted.
FewerSessions ==
  /\ live' \subseteq live
  /\ \A b \in live' : cstate'[b][FileName] = cstate[b][FileName]

\* A reply or a timeout takes at most a session away, a result none.
LEMMA CallbackDoes ==
  ASSUME TypeOK, NEW k, NEW answer, AckCallback(k, answer)
  PROVE  /\ UNCHANGED sess
         /\ answer = "result" => UNCHANGED <<live, cstate>>
         /\ FewerSessions
<1>1. CASE answer = "result" /\ UNCHANGED sessionVars
  BY <1>1 DEF sessionVars, FewerSessions
<1>2. CASE answer # "result" /\ session_delete(k.ptr)
  <2>1. /\ live' = live \ {k.ptr} /\ UNCHANGED sess
        /\ cstate' = [cstate EXCEPT ![k.ptr] = [n \in Names |-> "absent"]]
    BY <1>2 DEF session_delete, session_free, Removed
  <2>2. \A b \in live' : cstate'[b] = cstate[b]
    BY <2>1 DEF TypeOK
  <2> QED BY <1>2, <2>1, <2>2 DEF FewerSessions
<1> QED BY <1>1, <1>2 DEF AckCallback

\* The reply m was taken by the handle k.
ReplyTaken(m, k) ==
  /\ k.n = m.n /\ k.registered /\ ~k.freed
  /\ acks' = acks \ {k}
  /\ \/ m.kind = "result" /\ UNCHANGED <<live, cstate>>
     \/ m.kind = "error" /\ FewerSessions

\* The reply is to a request that still waits, or to none.
LEMMA AnsweredDoes ==
  ASSUME Alone, ClientOK, inbox # <<>>, NEW m, m = Head(inbox), Answered(m)
  PROVE  /\ UNCHANGED <<outbox, nacks, events, sess, connected, files, nfiles>>
         /\ m.kind \in Replies
         /\ \/ /\ \A k \in acks : k.n = m.n => ~k.registered
               /\ UNCHANGED vars
            \/ \E k \in acks : Reply(k) /\ ReplyTaken(m, k)
<1>0. TypeOK /\ Numbered /\ Streams
  BY DEF ClientOK, CoreOK
<1>1. m.kind \in Replies /\ UNCHANGED outbox
  BY DEF Answered, Replies
<1>2. \A k \in acks : k.n = m.n => ~k.freed
  <2>1. m.kind \notin Requests
    BY <1>1 DEF Replies, Requests
  <2> QED BY <1>0, <2>1, HeadPending DEF Numbered
<1>3. CASE UNCHANGED vars /\ {k \in acks : k.n = m.n /\ k.registered} = {}
  BY <1>1, <1>3 DEF vars
<1>4. ASSUME NEW k \in acks, k.n = m.n, k.registered, Reply(k),
             obs'.cause = IF m.kind = "result" THEN "result" ELSE "iq-error"
      PROVE  /\ ReplyTaken(m, k)
             /\ UNCHANGED <<outbox, nacks, events, sess, connected, files, nfiles>>
  <2>1. PICK answer \in {"result", "iq-error"} :
          Saw(answer, Recipient(k.ptr), <<>>) /\ AckCallback(k, answer)
    BY <1>4 DEF Reply
  <2>2. obs'.cause = answer
    BY <2>1 DEF Saw
  <2>3. \/ m.kind = "result" /\ answer = "result"
        \/ m.kind = "error" /\ answer = "iq-error"
    BY <1>1, <1>4, <2>2 DEF Replies
  <2>4. /\ acks' = acks \ {k} /\ ~k.freed
        /\ UNCHANGED <<outbox, nacks, events, connected, files, nfiles>>
    BY <1>1, <1>4 DEF Reply, Consumed, fileVars
  <2> QED BY <1>0, <1>4, <2>1, <2>3, <2>4, CallbackDoes DEF ReplyTaken
<1>5. \/ UNCHANGED vars /\ {k \in acks : k.n = m.n /\ k.registered} = {}
      \/ \E k \in acks : /\ k.n = m.n /\ k.registered /\ Reply(k)
                         /\ obs'.cause = IF m.kind = "result" THEN "result" ELSE "iq-error"
  BY <1>2 DEF Answered
<1> QED BY <1>1, <1>3, <1>4, <1>5

\* The handle k as the checker leaves it to loudmouth.
Expired(k) == [k EXCEPT !.freed = TRUE]

\* Only a handle whose number is not pending expires.
LEMMA ExpireDoes ==
  ASSUME Alone, ClientOK, Expire
  PROVE  /\ UNCHANGED <<inbox, outbox, nacks, events, sess, connected, files, nfiles>>
         /\ FewerSessions
         /\ \E k \in acks : /\ Timeout(k) /\ ~k.freed /\ k.n \notin Pending(outbox, inbox)
                            /\ acks' \subseteq (acks \ {k}) \cup {Expired(k)}
<1>0. TypeOK /\ Streams
  BY DEF ClientOK, CoreOK
<1>1. PICK k \in acks : ~UnderWay(k) /\ Timeout(k)
  BY DEF Expire
<1>2. UNCHANGED <<inbox, outbox, nacks, events, connected, files, nfiles>>
  BY <1>1 DEF Expire, wires, Timeout, fileVars
<1>3. UNCHANGED sess /\ FewerSessions
  BY <1>0, <1>1, CallbackDoes DEF Timeout
<1>4. k.n \notin Pending(outbox, inbox)
  BY <1>1 DEF UnderWay, Pending, ToSet
<1>5. ~k.freed /\ acks' \subseteq (acks \ {k}) \cup {Expired(k)}
  BY <1>1 DEF Timeout, Expires, Expired
<1> QED BY <1>1, <1>2, <1>3, <1>4, <1>5

\* A lost connection leaves the sessions and frees no handle.
LEMMA LoseDoes ==
  ASSUME Alone, ClientOK, Lose
  PROVE  /\ UNCHANGED <<inbox, nacks, events, live, sess, cstate, files, nfiles>>
         /\ connected /\ ~connected'
         /\ \A j \in acks' : \E k \in acks : j = [k EXCEPT !.registered = FALSE] /\ ~k.freed
         /\ \E i \in 0 .. Len(outbox) : outbox' = SubSeq(outbox, 1, i)
BY DEF Lose, Disconnect, sessionVars, fileVars

\* Connecting again changes nothing but that.
LEMMA ReconnectDoes ==
  ASSUME Reconnect
  PROVE  /\ UNCHANGED <<inbox, outbox, acks, nacks, events, live, sess, cstate, files, nfiles>>
         /\ ~connected
BY DEF Reconnect, Connect, wires, sessionVars, fileVars, ackVars

-----------------------------------------------------------------------------
(* The streams after a step *)

\* The first stanza of the inbox is taken.
Takes(m) == inbox # <<>> /\ m = Head(inbox) /\ inbox' = Tail(inbox)

\* The stream to us is shorter by its first stanza.
LEMMA TakesDoes ==
  ASSUME Streams, NEW m, Takes(m)
  PROVE  /\ inbox' \in Seq(Message) /\ m \in Message
         /\ ToSet(inbox) = ToSet(inbox') \cup {m}
         /\ FirstTime(inbox) => /\ FirstTime(inbox')
                                /\ m.kind = "session-initiate" => m.sid \notin About(inbox', "session-initiate")
BY Taking, TakingFirst DEF Streams, Takes

\* The stream to the peer is longer by one stanza.
LEMMA AddsDoes ==
  ASSUME Streams, NEW m \in Message, outbox' = Append(outbox, m)
  PROVE  outbox' \in Seq(Message) /\ ToSet(outbox') = ToSet(outbox) \cup {m}
BY Appending DEF Streams

\* The reply that is sent has the sid and the number of the request.
LEMMA RepliesDoes ==
  ASSUME Streams, NEW m \in Message, NEW kind \in Replies, Replied(m, kind)
  PROVE  LET r == [kind |-> kind, sid |-> m.sid, n |-> m.n]
         IN  /\ r \in Message /\ r.kind = kind /\ r.sid = m.sid /\ r.n = m.n
             /\ outbox' = Append(outbox, r)
             /\ outbox' \in Seq(Message) /\ ToSet(outbox') = ToSet(outbox) \cup {r}
<1> DEFINE r == [kind |-> kind, sid |-> m.sid, n |-> m.n]
<1>1. r \in Message /\ r.kind = kind /\ r.sid = m.sid /\ r.n = m.n
  BY DEF Message, Replies, Kinds
<1>2. outbox' = Append(outbox, r)
  BY DEF Replied
<1> HIDE DEF r
<1>3. outbox' \in Seq(Message) /\ ToSet(outbox') = ToSet(outbox) \cup {r}
  BY <1>1, <1>2, AddsDoes
<1> QED BY <1>1, <1>2, <1>3 DEF r

\* No number becomes pending without a stanza.
LEMMA FewerPending ==
  ASSUME NEW out, NEW in, NEW out2, NEW in2,
         \A x \in ToSet(out2) : x.kind \in Requests => x \in ToSet(out),
         \A x \in ToSet(in2) : x.kind \notin Requests => x \in ToSet(in)
  PROVE  Pending(out2, in2) \subseteq Pending(out, in)
BY DEF Pending

\* What a step does to the handles and the streams, as far as their numbers go.
Numbers ==
  /\ Numbered' /\ Streams'
  /\ Pending(inbox', outbox') \subseteq Pending(inbox, outbox)

\* A callback that makes no handle and whose stanzas are replies.
LEMMA SameNumbers ==
  ASSUME Numbered, nacks' = nacks, Streams',
         \A x \in ToSet(inbox') : x \in ToSet(inbox),
         \A x \in ToSet(outbox') : x.kind \in Requests => x \in ToSet(outbox),
         \A x \in ToSet(outbox') : \/ x \in ToSet(outbox)
                                   \/ x.kind \notin Requests /\ x.n \in Pending(inbox, outbox),
         \A k \in acks' : k \in acks
  PROVE  Numbers
<1>1. Pending(outbox', inbox') \subseteq Pending(outbox, inbox)
  BY FewerPending
<1>2. Numbered'
  BY <1>1 DEF Numbered
<1>3. Pending(inbox', outbox') \subseteq Pending(inbox, outbox)
  BY DEF Pending
<1> QED BY <1>2, <1>3 DEF Numbers

\* A callback that makes a handle, and may send its request.
LEMMA AskedNumbers ==
  ASSUME TypeOK, Numbered, Streams, UNCHANGED inbox, nacks' = nacks + 1,
         NEW k \in AckHandle, acks' = acks \cup {k}, k.n = nacks + 1, ~k.freed,
         NEW r \in Message, r.kind \in Requests, r.n = nacks + 1,
         outbox' = outbox \/ outbox' = Append(outbox, r)
  PROVE  Numbers
<1>1. Streams' /\ ToSet(outbox') \subseteq ToSet(outbox) \cup {r}
  BY AddsDoes DEF Streams
<1>2. Pending(outbox', inbox') \subseteq Pending(outbox, inbox) \cup {nacks + 1}
  BY <1>1 DEF Pending
<1>3. nacks \in Nat /\ (\A j \in acks : j.n \in Nat)
  BY DEF TypeOK, AckHandle
<1>4. \A n \in Pending(outbox, inbox) : n <= nacks /\ n \in Nat
  <2>1. \A x \in ToSet(outbox) \cup ToSet(inbox) : x.n \in Nat
    BY Stanzas DEF Streams, Message
  <2> QED BY <2>1 DEF Numbered, Pending
<1>5. \A j \in acks : j.n <= nacks /\ j.n # nacks + 1
  BY <1>3 DEF Numbered
<1>6. Numbered'
  <2>1. \A j \in acks' : j.n <= nacks + 1
    BY <1>3, <1>5
  <2>2. \A n \in Pending(outbox', inbox') : n <= nacks + 1
    BY <1>2, <1>3, <1>4
  <2>3. \A i, j \in acks : i.n = j.n => i = j
    BY DEF Numbered
  <2>5. \A i, j \in acks' : i.n = j.n => i = j
    BY <1>5, <2>3
  <2>4. \A j \in acks' : j.freed => j.n \notin Pending(outbox', inbox')
    BY <1>2, <1>5 DEF Numbered
  <2> QED BY <2>1, <2>2, <2>4, <2>5 DEF Numbered
<1>7. Pending(inbox', outbox') \subseteq Pending(inbox, outbox)
  BY <1>1 DEF Pending
<1> QED BY <1>1, <1>6, <1>7 DEF Numbers

\* A request or a reply is taken and answered, or dropped.
LEMMA TakenNumbers ==
  ASSUME Numbered, Streams, NEW m, Takes(m), UNCHANGED nacks, acks' \subseteq acks,
         \/ UNCHANGED outbox
         \/ m.kind \in Requests /\ \E kind \in Replies : Replied(m, kind)
  PROVE  Numbers
<1>1. inbox' \in Seq(Message) /\ m \in Message /\ ToSet(inbox) = ToSet(inbox') \cup {m}
  BY TakesDoes
<1>2. CASE UNCHANGED outbox
  <2>1. Streams'
    BY <1>1, <1>2 DEF Streams
  <2> QED BY <1>1, <1>2, <2>1, SameNumbers
<1>3. ASSUME NEW kind \in Replies, Replied(m, kind), m.kind \in Requests
      PROVE  Numbers
  <2> DEFINE r == [kind |-> kind, sid |-> m.sid, n |-> m.n]
  <2>1. /\ r.kind = kind /\ r.n = m.n
        /\ outbox' \in Seq(Message) /\ ToSet(outbox') = ToSet(outbox) \cup {r}
    BY <1>1, <1>3, RepliesDoes
  <2> HIDE DEF r
  <2>2. m.n \in Pending(inbox, outbox) /\ kind \notin Requests
    BY <1>1, <1>3 DEF Pending, Replies, Requests
  <2>3. Streams'
    BY <1>1, <2>1 DEF Streams
  <2> QED BY <1>1, <2>1, <2>2, <2>3, SameNumbers
<1> QED BY <1>2, <1>3

\* An expired handle that loudmouth keeps is of a number nobody will answer.
LEMMA ExpireNumbers ==
  ASSUME Alone, ClientOK, Expire
  PROVE  Numbers
<1>0. TypeOK /\ Numbered /\ Streams
  BY DEF ClientOK, CoreOK
<1>1. PICK k \in acks : /\ ~k.freed /\ k.n \notin Pending(outbox, inbox)
                        /\ acks' \subseteq (acks \ {k}) \cup {Expired(k)}
  BY ExpireDoes
<1>2. UNCHANGED <<inbox, outbox, nacks>>
  BY ExpireDoes
<1>3. Expired(k).n = k.n
  BY <1>0 DEF Expired, TypeOK, AckHandle
<1>4. /\ \A j \in acks' : j.n <= nacks
      /\ \A j \in acks' : j.freed => j.n \notin Pending(outbox, inbox)
  BY <1>0, <1>1, <1>3 DEF Numbered
<1>5. \A j \in acks : j # k => j.n # Expired(k).n
  BY <1>0, <1>3 DEF Numbered
<1>6. \A i, j \in acks' : i.n = j.n => i = j
  <2>1. \A i, j \in acks : i.n = j.n => i = j
    BY <1>0 DEF Numbered
  <2> QED BY <1>1, <1>5, <2>1
<1> QED BY <1>0, <1>2, <1>4, <1>6 DEF Numbers, Numbered, Streams, Pending

\* Losing stanzas makes no number pending.
LEMMA LoseNumbers ==
  ASSUME Alone, ClientOK, Lose
  PROVE  Numbers
<1>0. TypeOK /\ Numbered /\ Streams
  BY DEF ClientOK, CoreOK
<1>1. /\ UNCHANGED <<inbox, nacks>>
      /\ \A j \in acks' : \E k \in acks : j = [k EXCEPT !.registered = FALSE] /\ ~k.freed
  BY LoseDoes
<1>2. PICK i \in 0 .. Len(outbox) : outbox' = SubSeq(outbox, 1, i)
  BY LoseDoes
<1>3. Streams' /\ ToSet(outbox') \subseteq ToSet(outbox)
  BY <1>0, <1>1, <1>2, Losing DEF Streams
<1>4. ASSUME NEW j \in acks'
      PROVE  \E k \in acks : j.n = k.n /\ ~j.freed /\ j = [k EXCEPT !.registered = FALSE]
  <2>1. \A k \in acks : LET c == [k EXCEPT !.registered = FALSE] IN c.n = k.n /\ c.freed = k.freed
    BY <1>0 DEF TypeOK, AckHandle
  <2> QED BY <1>1, <2>1
<1>5. /\ Pending(outbox', inbox') \subseteq Pending(outbox, inbox)
      /\ Pending(inbox', outbox') \subseteq Pending(inbox, outbox)
  BY <1>1, <1>3 DEF Pending
<1>6. Numbered'
  <2>1. ASSUME NEW c \in acks', NEW d \in acks', c.n = d.n PROVE c = d
    <3>1. PICK j \in acks : c.n = j.n /\ c = [j EXCEPT !.registered = FALSE]
      BY <1>4
    <3>2. PICK k \in acks : d.n = k.n /\ d = [k EXCEPT !.registered = FALSE]
      BY <1>4
    <3>3. j = k
      BY <1>0, <2>1, <3>1, <3>2 DEF Numbered
    <3> QED BY <3>1, <3>2, <3>3
  <2>2. \A j \in acks' : j.n <= nacks
    BY <1>0, <1>4 DEF Numbered
  <2> QED BY <1>0, <1>1, <1>4, <1>5, <2>1, <2>2 DEF Numbered
<1> QED BY <1>3, <1>5, <1>6 DEF Numbers

\* The kinds of stanzas a client can find in its inbox, and what it does with them.
LEMMA DeliverDoes ==
  ASSUME Alone, ClientOK, Deliver
  PROVE  \E m \in Message :
           /\ Takes(m) /\ ~aborted /\ connected
           /\ \/ m.kind = "session-initiate" /\ Requested(m)
              \/ m.kind = "session-accept" /\ Requested(m)
              \/ m.kind \in Replies /\ Answered(m)
<1> DEFINE m == Head(inbox)
<1>1. inbox # <<>> /\ inbox' = Tail(inbox) /\ (Requested(m) \/ Answered(m)) /\ ~aborted /\ connected
  BY DEF Deliver
<1> HIDE DEF m
<1>2. m \in Message /\ Takes(m)
  BY <1>1, HeadPending DEF ClientOK, Takes, m
<1>3. Requested(m) => m.kind \in {"session-initiate", "session-accept"}
  BY <1>2 DEF Requested, Message, Kinds
<1>4. Answered(m) => m.kind \in Replies
  BY DEF Answered, Replies
<1> QED BY <1>1, <1>2, <1>3, <1>4

\* A delivered request is answered with its own number.
LEMMA DeliverNumbers ==
  ASSUME Alone, ClientOK, Deliver
  PROVE  Numbers
<1>0. TypeOK /\ Numbered /\ Streams
  BY DEF ClientOK, CoreOK
<1>1. PICK m \in Message :
           /\ Takes(m)
           /\ \/ m.kind = "session-initiate" /\ Requested(m)
              \/ m.kind = "session-accept" /\ Requested(m)
              \/ m.kind \in Replies /\ Answered(m)
  BY DeliverDoes
<1>2. "result" \in Replies /\ "error" \in Replies
  BY DEF Replies
<1>3. CASE m.kind = "session-initiate" /\ Requested(m)
  <2>1. UNCHANGED <<acks, nacks>> /\ \E kind \in Replies : Replied(m, kind)
    BY <1>2, <1>3, InitiateDoes
  <2> QED BY <1>0, <1>1, <1>3, <2>1, TakenNumbers DEF Requests
<1>4. CASE m.kind = "session-accept" /\ Requested(m)
  <2>1. UNCHANGED <<acks, nacks>> /\ \E kind \in Replies : Replied(m, kind)
    BY <1>2, <1>4, AcceptDoes
  <2> QED BY <1>0, <1>1, <1>4, <2>1, TakenNumbers DEF Requests
<1>5. CASE m.kind \in Replies /\ Answered(m)
  <2>1. UNCHANGED <<outbox, nacks>> /\ (UNCHANGED vars \/ \E k \in acks : ReplyTaken(m, k))
    BY <1>1, <1>5, AnsweredDoes DEF Takes
  <2>2. acks' \subseteq acks
    BY <2>1 DEF vars, ReplyTaken
  <2> QED BY <1>0, <1>1, <2>1, <2>2, TakenNumbers
<1> QED BY <1>1, <1>3, <1>4, <1>5

\* A stanza that finds nobody is dropped, or answered by the server with an error.
LEMMA UndeliveredDoes ==
  ASSUME ClientOK, Undelivered
  PROVE  \E m \in Message :
           /\ Takes(m) /\ ~connected /\ UNCHANGED vars
           /\ \/ UNCHANGED outbox
              \/ m.kind \in Requests /\ Replied(m, "error")
<1> DEFINE m == Head(inbox)
<1>1. /\ inbox # <<>> /\ inbox' = Tail(inbox) /\ UNCHANGED vars /\ ~connected
      /\ \/ UNCHANGED outbox
         \/ m.kind \in Requests /\ outbox' = Append(outbox, [m EXCEPT !.kind = "error"])
  BY DEF Undelivered
<1> HIDE DEF m
<1>2. m \in Message /\ Takes(m)
  BY <1>1, HeadPending DEF ClientOK, Takes, m
<1>3. [m EXCEPT !.kind = "error"] = [kind |-> "error", sid |-> m.sid, n |-> m.n]
  BY <1>2 DEF Message
<1> QED BY <1>1, <1>2, <1>3 DEF Replied

\* An offer has a new number, or none.
LEMMA OfferNumbers ==
  ASSUME Alone, ClientOK, Offer
  PROVE  Numbers
<1>0. TypeOK /\ Numbered /\ Streams
  BY DEF ClientOK, CoreOK
<1>1. CASE UNCHANGED <<acks, nacks, outbox, inbox>>
  BY <1>0, <1>1 DEF Numbers, Numbered, Streams
<1>2. CASE OfferMade /\ UNCHANGED inbox
  <2>1. PICK a \in Addr, r \in Session, k \in AckHandle :
          /\ a \notin live /\ live' = live \cup {a} /\ sess'[a] = r /\ r.sid = NewSid
          /\ \/ ~r.announced /\ UNCHANGED <<acks, nacks, outbox>>
             \/ /\ r.announced /\ nacks' = nacks + 1
                /\ acks' = acks \cup {k} /\ k.n = nacks + 1 /\ k.registered /\ ~k.freed
                /\ outbox' = Append(outbox, [kind |-> "session-initiate", sid |-> NewSid, n |-> nacks + 1])
    BY <1>2 DEF OfferMade, Made
  <2> DEFINE q == [kind |-> "session-initiate", sid |-> NewSid, n |-> nacks + 1]
  <2>2. q \in Message /\ q.kind \in Requests /\ q.n = nacks + 1
    BY <1>0, <2>1 DEF Message, Kinds, Requests, TypeOK, Session
  <2> HIDE DEF q
  <2>3. CASE r.announced
    <3>1. nacks' = nacks + 1 /\ acks' = acks \cup {k} /\ k.n = nacks + 1 /\ ~k.freed
          /\ outbox' = Append(outbox, q)
      BY <2>1, <2>3 DEF q
    <3> QED BY <1>0, <1>2, <2>2, <3>1, AskedNumbers
  <2> QED BY <1>1, <1>2, <2>1, <2>3
<1> QED BY <1>1, <1>2, OfferDoes

\* So has an accepted event.
LEMMA EventNumbers ==
  ASSUME Alone, ClientOK, AnswerEvent
  PROVE  Numbers
<1>0. TypeOK /\ Numbered /\ Streams
  BY DEF ClientOK, CoreOK
<1>1. CASE UNCHANGED <<acks, nacks, outbox, inbox>>
  BY <1>0, <1>1 DEF Numbers, Numbered, Streams
<1>2. ASSUME NEW s \in Sids, NEW k \in AckHandle, AcceptSent(s, k), UNCHANGED inbox
      PROVE  Numbers
  <2> DEFINE q == [kind |-> "session-accept", sid |-> s, n |-> nacks + 1]
  <2>1. q \in Message /\ q.kind \in Requests /\ q.n = nacks + 1
    BY <1>0 DEF Message, Kinds, Requests, TypeOK
  <2>2. nacks' = nacks + 1 /\ acks' = acks \cup {k} /\ k.n = nacks + 1 /\ ~k.freed
        /\ (outbox' = outbox \/ outbox' = Append(outbox, q))
    BY <1>2 DEF AcceptSent
  <2> HIDE DEF q
  <2> QED BY <1>0, <1>2, <2>1, <2>2, AskedNumbers
<1> QED BY <1>1, <1>2, EventDoes

\* Every step keeps the numbers in order, and makes none pending for the peer.
LEMMA ClientNumbers ==
  ASSUME Alone, ClientOK, ClientNext
  PROVE  Numbers
<1>0. Numbered /\ Streams
  BY DEF ClientOK
<1>1. Undelivered => Numbers
  <2>1. ASSUME Undelivered PROVE UNCHANGED <<acks, nacks>>
    BY <2>1 DEF Undelivered, vars
  <2>2. "error" \in Replies
    BY DEF Replies
  <2> QED BY <1>0, <2>1, <2>2, UndeliveredDoes, TakenNumbers
<1>2. Reconnect => Numbers
  BY <1>0, ReconnectDoes DEF Numbers, Numbered, Streams
<1> QED BY <1>1, <1>2, OfferNumbers, EventNumbers, DeliverNumbers, ExpireNumbers, LoseNumbers
        DEF ClientNext

-----------------------------------------------------------------------------
(* The sessions after a step *)

\* What a step does to the sessions, as far as their origin goes.
Origins ==
  /\ Parties' /\ Invited' /\ Unused'
  /\ OwnOffers \in Nat /\ OwnOffers' \in Nat /\ OwnOffers' >= OwnOffers

\* Our own transfers are finitely many.
LEMMA OffersType == OwnOffers \in Nat
<1>1. IsFiniteSet(FileIndex)
  BY FS_Interval DEF FileIndex
<1>2. {f \in FileIndex : files[f].dir = "OUTGOING"} \in SUBSET FileIndex
  OBVIOUS
<1> QED BY <1>1, <1>2, FS_Subset, FS_CardinalityType DEF OwnOffers

\* A step whose new sessions are ours or the peer's, and whose new event is of one of his.
LEMMA OriginsKept ==
  ASSUME ClientOK, Unused', OwnOffers' = OwnOffers \/ OwnOffers' = OwnOffers + 1,
         \A b \in live : sess'[b] = sess[b],
         \A b \in live' : b \in live \/ Party(sess'[b], OwnOffers'),
         \A e \in events' : e \in events \/ sess'[e.ptr].origin = "INCOMING"
  PROVE  Origins
<1>0. Refs /\ Parties /\ Invited
  BY DEF ClientOK, CoreOK
<1>1. OwnOffers \in Nat /\ OwnOffers' \in Nat /\ OwnOffers' >= OwnOffers
  BY OffersType
<1>2. \A r : Party(r, OwnOffers) => Party(r, OwnOffers')
  BY <1>1 DEF Party
<1>3. Parties'
  BY <1>0, <1>2 DEF Parties
<1>4. Invited'
  BY <1>0 DEF Invited, Refs, LiveRefs
<1> QED BY <1>1, <1>3, <1>4 DEF Origins

\* A step that changes the direction of no entry.
LEMMA SameDirs ==
  ASSUME ClientOK, DirsKept
  PROVE  OwnOffers' = OwnOffers /\ Unused'
<1>1. OwnOffers' = OwnOffers
  BY SameOffers DEF DirsKept
<1>2. nfiles \in Nat /\ nfiles' \in Nat /\ nfiles' >= nfiles /\ Unused
  BY DEF ClientOK, CoreOK, TypeOK, DirsKept
<1>3. \A f \in FileIndex : f > nfiles' => f > nfiles
  BY <1>2 DEF FileIndex
<1> QED BY <1>1, <1>2, <1>3 DEF Unused, DirsKept

\* An offered session is ours.
LEMMA OfferOrigins ==
  ASSUME Alone, ClientOK, Offer
  PROVE  Origins
<1>1. OwnOffers \in Nat /\ OwnOffers' = OwnOffers + 1 /\ Unused' /\ UNCHANGED events
  BY OfferDoes
<1>2. CASE UNCHANGED <<live, sess>>
  BY <1>1, <1>2, OriginsKept
<1>3. CASE OfferMade
  <2>1. PICK a \in Addr, r \in Session :
          /\ live' = live \cup {a} /\ sess'[a] = r /\ \A b \in live : sess'[b] = sess[b]
          /\ r.sid = NewSid /\ r.origin = "OUTGOING" /\ r.to = Other
    BY <1>3 DEF OfferMade, Made
  <2>2. Party(r, OwnOffers')
    BY <1>1, <2>1 DEF Party, NewSid
  <2> QED BY <1>1, <2>1, <2>2, OriginsKept
<1> QED BY <1>2, <1>3, OfferDoes

\* A session-initiate of the peer makes a session that is his.
LEMMA DeliverOrigins ==
  ASSUME Alone, ClientOK, Deliver
  PROVE  Origins
<1>1. PICK m \in Message :
           /\ Takes(m)
           /\ \/ m.kind = "session-initiate" /\ Requested(m)
              \/ m.kind = "session-accept" /\ Requested(m)
              \/ m.kind \in Replies /\ Answered(m)
  BY DeliverDoes
<1>2. CASE m.kind = "session-initiate" /\ Requested(m)
  <2>1. OwnOffers' = OwnOffers /\ Unused'
    BY <1>2, InitiateDoes, SameDirs
  <2>2. UNCHANGED <<live, sess, events>> \/ ListKept \/ SessionJoined(m)
    BY <1>2, InitiateDoes
  <2>3. CASE UNCHANGED <<live, sess, events>> \/ ListKept
    BY <2>1, <2>3, OriginsKept DEF ListKept
  <2>4. CASE SessionJoined(m)
    <3>1. PICK a \in Addr, r \in Session, e \in Event :
            /\ live' = live \cup {a} /\ sess'[a] = r /\ \A b \in live : sess'[b] = sess[b]
            /\ r.origin = "INCOMING" /\ r.from = Other /\ r.to = Me /\ r.announced
            /\ events' = events \cup {e} /\ e.ptr = a
      BY <2>4 DEF SessionJoined, Made
    <3>2. Party(r, OwnOffers')
      BY <3>1 DEF Party
    <3> QED BY <2>1, <3>1, <3>2, OriginsKept
  <2> QED BY <2>2, <2>3, <2>4
<1>3. CASE m.kind = "session-accept" /\ Requested(m)
  <2>1. UNCHANGED <<live, sess, events, files, nfiles>>
    BY <1>3, AcceptDoes
  <2> QED BY <2>1, SameOffers, OriginsKept DEF Unused, ClientOK
<1>4. CASE m.kind \in Replies /\ Answered(m)
  <2>1. UNCHANGED <<sess, events, files, nfiles>>
    BY <1>1, <1>4, AnsweredDoes DEF Takes
  <2>2. live' \subseteq live
    <3>1. UNCHANGED vars \/ \E k \in acks : ReplyTaken(m, k)
      BY <1>1, <1>4, AnsweredDoes DEF Takes
    <3> QED BY <3>1 DEF vars, ReplyTaken, FewerSessions
  <2> QED BY <2>1, <2>2, SameOffers, OriginsKept DEF Unused, ClientOK
<1> QED BY <1>1, <1>2, <1>3, <1>4

\* Every step keeps ours and the peer's sessions apart.
LEMMA ClientOrigins ==
  ASSUME Alone, ClientOK, ClientNext
  PROVE  Origins
<1>1. ASSUME UNCHANGED <<sess, files, nfiles>>, live' \subseteq live, events' \subseteq events
      PROVE  Origins
  BY <1>1, SameOffers, OriginsKept DEF Unused, ClientOK
<1>2. AnswerEvent => Origins
  BY <1>1, EventDoes
<1>3. Undelivered => Origins
  BY <1>1 DEF Undelivered, vars
<1>4. Expire => Origins
  BY <1>1, ExpireDoes DEF FewerSessions
<1>5. Lose \/ Reconnect => Origins
  BY <1>1, LoseDoes, ReconnectDoes
<1> QED BY <1>2, <1>3, <1>4, <1>5, OfferOrigins, DeliverOrigins DEF ClientNext

-----------------------------------------------------------------------------
(* What the two know of each other's sessions *)

\* me told the other, who has the sessions PL with the structs PS, the sids in the
\* stream out; the stream in comes from the other.
Known(me, L, S, n, PL, PS, out, in) ==
  /\ About(out, "session-initiate") \subseteq Told(me, L, S, n)
  /\ About(in, "session-accept") \subseteq Told(me, L, S, n)
  /\ SidsOf(PL, PS, "INCOMING") \subseteq Told(me, L, S, n)
  /\ About(out, "session-initiate") \cap SidsOf(PL, PS, "INCOMING") = {}
  /\ FirstTime(out)

\* What the peer knows of our sessions, and we of his.
Ours(PL, PS)       == Known(Me, live, sess, OwnOffers, PL, PS, outbox, inbox)
Theirs(PL, PS, PN) == Known(Other, PL, PS, PN, live, sess, inbox, outbox)

\* What is told stays told when no session is made whose sid was told.
LEMMA ToldGrows ==
  ASSUME NEW me, NEW n \in Nat, NEW n2 \in Nat, n <= n2, NEW L, NEW S, NEW L2, NEW S2,
         \A a \in L2 : \/ a \in L /\ S2[a] = S[a]
                       \/ S2[a].announced
                       \/ S2[a].sid \notin {me} \X (1 .. n)
  PROVE  Told(me, L, S, n) \subseteq Told(me, L2, S2, n2)
<1>1. {me} \X (1 .. n) \subseteq {me} \X (1 .. n2)
  OBVIOUS
<1> QED BY <1>1 DEF Told

\* A step that makes no session, and sends replies and accepts what it was invited to.
LEMMA KnownKept ==
  ASSUME NEW PL, NEW PS, NEW PN, Ours(PL, PS), Theirs(PL, PS, PN),
         OwnOffers \in Nat, OwnOffers' \in Nat, OwnOffers' >= OwnOffers,
         \A b \in live' : b \in live /\ sess'[b] = sess[b],
         FirstTime(outbox'), FirstTime(inbox'),
         \A x \in ToSet(outbox') : \/ x \in ToSet(outbox)
                                   \/ x.kind \in Replies
                                   \/ x.kind = "session-accept"
                                      /\ x.sid \in SidsOf(live, sess, "INCOMING"),
         \A x \in ToSet(inbox') : x \in ToSet(inbox)
  PROVE  Ours(PL, PS)' /\ Theirs(PL, PS, PN)'
<1>1. Told(Me, live, sess, OwnOffers) \subseteq Told(Me, live', sess', OwnOffers')
  <2> DEFINE n == OwnOffers
             n2 == OwnOffers'
  <2>1. n \in Nat /\ n2 \in Nat /\ n <= n2
    OBVIOUS
  <2> HIDE DEF n, n2
  <2>2. Told(Me, live, sess, n) \subseteq Told(Me, live', sess', n2)
    BY <2>1, ToldGrows
  <2> QED BY <2>2 DEF n, n2
<1>2. /\ About(outbox', "session-initiate") \subseteq About(outbox, "session-initiate")
      /\ About(inbox', "session-initiate") \subseteq About(inbox, "session-initiate")
      /\ About(inbox', "session-accept") \subseteq About(inbox, "session-accept")
      /\ About(outbox', "session-accept") \subseteq About(outbox, "session-accept")
                                                    \cup SidsOf(live, sess, "INCOMING")
  BY DEF About, Replies
<1>3. SidsOf(live', sess', "INCOMING") \subseteq SidsOf(live, sess, "INCOMING")
  BY DEF SidsOf
<1>4. Ours(PL, PS)'
  BY <1>1, <1>2 DEF Ours, Known
<1>5. Theirs(PL, PS, PN)'
  BY <1>2, <1>3 DEF Theirs, Known
<1> QED BY <1>4, <1>5

\* An offer sends a session-initiate for a sid the peer never heard of.
LEMMA OfferKnown ==
  ASSUME Alone, ClientOK, NEW PL, NEW PS, NEW PN, Ours(PL, PS), Theirs(PL, PS, PN), Offer
  PROVE  Ours(PL, PS)' /\ Theirs(PL, PS, PN)'
<1>0. TypeOK /\ Parties /\ Streams /\ FirstTime(outbox) /\ FirstTime(inbox)
  BY DEF ClientOK, CoreOK, Ours, Theirs, Known
<1>1. /\ OwnOffers \in Nat /\ OwnOffers' \in Nat /\ OwnOffers' >= OwnOffers
      /\ OwnOffers' = OwnOffers + 1 /\ UNCHANGED inbox
  BY OfferDoes, ClientOrigins DEF Origins
<1>2. CASE UNCHANGED <<live, sess, outbox>>
  BY <1>0, <1>1, <1>2, KnownKept
<1>3. CASE OfferMade
  <2>1. PICK a \in Addr, r \in Session :
          /\ a \notin live /\ live' = live \cup {a} /\ sess'[a] = r
          /\ \A b \in live : sess'[b] = sess[b]
          /\ r.sid = NewSid /\ r.origin = "OUTGOING"
          /\ \/ ~r.announced /\ UNCHANGED outbox
             \/ /\ r.announced
                /\ outbox' = Append(outbox, [kind |-> "session-initiate", sid |-> NewSid, n |-> nacks + 1])
    BY <1>3 DEF OfferMade, Made
  <2>2. /\ NewSid \notin {Me} \X (1 .. OwnOffers)
        /\ NewSid \in {Me} \X (1 .. OwnOffers')
    BY <1>1 DEF NewSid
  <2>3. Told(Me, live, sess, OwnOffers) \subseteq Told(Me, live', sess', OwnOffers')
    <3> DEFINE n == OwnOffers
               n2 == OwnOffers'
    <3>1. n \in Nat /\ n2 \in Nat /\ n <= n2
      BY <1>1
    <3>2. \A b \in live' : (b \in live /\ sess'[b] = sess[b]) \/ sess'[b].sid \notin {Me} \X (1 .. n)
      BY <2>1, <2>2
    <3> HIDE DEF n, n2
    <3>3. Told(Me, live, sess, n) \subseteq Told(Me, live', sess', n2)
      BY <3>1, <3>2, ToldGrows
    <3> QED BY <3>3 DEF n, n2
  <2>4. r.announced => NewSid \in Told(Me, live', sess', OwnOffers')
    <3>1. \A b \in live : sess[b].sid = NewSid => sess[b].announced
      BY <1>0, <2>2 DEF Parties, Party
    <3> QED BY <2>1, <2>2, <3>1 DEF Told
  <2>5. NewSid \notin Told(Me, live, sess, OwnOffers)
    BY <2>2 DEF Told
  <2>6. SidsOf(live', sess', "INCOMING") = SidsOf(live, sess, "INCOMING")
    BY <2>1 DEF SidsOf
  <2>7. /\ FirstTime(outbox')
        /\ About(outbox', "session-accept") = About(outbox, "session-accept")
        /\ About(outbox', "session-initiate") \subseteq
             About(outbox, "session-initiate") \cup (IF r.announced THEN {NewSid} ELSE {})
    <3>1. CASE ~r.announced
      BY <1>0, <2>1, <3>1
    <3>2. CASE r.announced
      <4> DEFINE q == [kind |-> "session-initiate", sid |-> NewSid, n |-> nacks + 1]
      <4>1. q \in Message /\ q.kind = "session-initiate" /\ q.sid = NewSid
        BY <1>0, <2>1 DEF Message, Kinds, TypeOK, Session
      <4>2. outbox' = Append(outbox, q)
        BY <2>1, <3>2
      <4> HIDE DEF q
      <4>3. NewSid \notin About(outbox, "session-initiate")
        BY <2>5 DEF Ours, Known
      <4>4. FirstTime(outbox')
        BY <1>0, <4>1, <4>2, <4>3, AppendingFirst DEF Streams
      <4>5. ToSet(outbox') = ToSet(outbox) \cup {q}
        BY <1>0, <4>1, <4>2, AddsDoes
      <4> QED BY <3>2, <4>1, <4>4, <4>5 DEF About
    <3> QED BY <3>1, <3>2
  <2>8. Ours(PL, PS)'
    <3>1. About(outbox', "session-initiate") \subseteq Told(Me, live', sess', OwnOffers')
      BY <2>3, <2>4, <2>7 DEF Ours, Known
    <3>2. About(outbox', "session-initiate") \cap SidsOf(PL, PS, "INCOMING") = {}
      BY <2>5, <2>7 DEF Ours, Known
    <3> QED BY <1>1, <2>3, <2>7, <3>1, <3>2 DEF Ours, Known
  <2>9. Theirs(PL, PS, PN)'
    BY <1>1, <2>6, <2>7 DEF Theirs, Known
  <2> QED BY <2>8, <2>9
<1> QED BY <1>2, <1>3, OfferDoes

\* A stanza that is no session-initiate keeps those on their way apart.
LEMMA RepliedFirst ==
  ASSUME Streams, FirstTime(outbox), NEW m \in Message, NEW kind \in Replies, Replied(m, kind)
  PROVE  /\ FirstTime(outbox')
         /\ \A x \in ToSet(outbox') : x \in ToSet(outbox) \/ x.kind \in Replies
<1> DEFINE r == [kind |-> kind, sid |-> m.sid, n |-> m.n]
<1>1. /\ r \in Message /\ r.kind = kind /\ outbox' = Append(outbox, r)
      /\ ToSet(outbox') = ToSet(outbox) \cup {r}
  BY RepliesDoes
<1> HIDE DEF r
<1>2. kind # "session-initiate"
  BY DEF Replies
<1>3. FirstTime(outbox')
  BY <1>1, <1>2, AppendingFirst DEF Streams
<1> QED BY <1>1, <1>3

\* A session-initiate that is received makes its sid one that is known, and takes it
\* out of the stream.
LEMMA JoinKnown ==
  ASSUME Alone, ClientOK, NEW PL, NEW PS, NEW PN, Ours(PL, PS), Theirs(PL, PS, PN), Origins,
         NEW m \in Message, Takes(m), m.kind = "session-initiate", Replied(m, "result"),
         SessionJoined(m)
  PROVE  Ours(PL, PS)' /\ Theirs(PL, PS, PN)'
<1>0. Parties /\ Streams /\ FirstTime(outbox) /\ FirstTime(inbox)
  BY DEF ClientOK, Ours, Theirs, Known
<1>1. PICK a \in Addr, r \in Session :
        /\ live' = live \cup {a} /\ sess'[a] = r /\ \A b \in live : sess'[b] = sess[b]
        /\ r.sid = m.sid /\ r.origin = "INCOMING" /\ r.announced
  BY DEF SessionJoined, Made
<1>2. Told(Me, live, sess, OwnOffers) \subseteq Told(Me, live', sess', OwnOffers')
  <2> DEFINE n == OwnOffers
             n2 == OwnOffers'
  <2>1. n \in Nat /\ n2 \in Nat /\ n <= n2
    BY DEF Origins
  <2>2. \A b \in live' : (b \in live /\ sess'[b] = sess[b]) \/ sess'[b].announced
    BY <1>1
  <2> HIDE DEF n, n2
  <2>3. Told(Me, live, sess, n) \subseteq Told(Me, live', sess', n2)
    BY <2>1, <2>2, ToldGrows
  <2> QED BY <2>3 DEF n, n2
<1>3. /\ FirstTime(inbox') /\ m.sid \notin About(inbox', "session-initiate")
      /\ ToSet(inbox) = ToSet(inbox') \cup {m}
  BY <1>0, TakesDoes
<1>4. FirstTime(outbox') /\ \A x \in ToSet(outbox') : x \in ToSet(outbox) \/ x.kind \in Replies
  <2>1. "result" \in Replies
    BY DEF Replies
  <2> QED BY <1>0, <2>1, RepliedFirst
<1>5. /\ About(outbox', "session-initiate") \subseteq About(outbox, "session-initiate")
      /\ About(outbox', "session-accept") \subseteq About(outbox, "session-accept")
      /\ About(inbox', "session-initiate") \subseteq About(inbox, "session-initiate")
      /\ About(inbox', "session-accept") \subseteq About(inbox, "session-accept")
      /\ m.sid \in About(inbox, "session-initiate")
  BY <1>3, <1>4 DEF About, Replies
<1>6. SidsOf(live', sess', "INCOMING") \subseteq SidsOf(live, sess, "INCOMING") \cup {m.sid}
  BY <1>1 DEF SidsOf
<1>7. Ours(PL, PS)'
  BY <1>2, <1>4, <1>5 DEF Ours, Known
<1>8. Theirs(PL, PS, PN)'
  BY <1>3, <1>5, <1>6 DEF Theirs, Known
<1> QED BY <1>7, <1>8

\* A delivered stanza moves its sid from the stream to the sessions.
LEMMA DeliverKnown ==
  ASSUME Alone, ClientOK, NEW PL, NEW PS, NEW PN, Ours(PL, PS), Theirs(PL, PS, PN), Deliver
  PROVE  Ours(PL, PS)' /\ Theirs(PL, PS, PN)'
<1>0. Parties /\ Streams /\ FirstTime(outbox) /\ FirstTime(inbox) /\ Origins
  BY ClientOrigins DEF ClientOK, Ours, Theirs, Known, ClientNext
<1>1. PICK m \in Message :
           /\ Takes(m)
           /\ \/ m.kind = "session-initiate" /\ Requested(m)
              \/ m.kind = "session-accept" /\ Requested(m)
              \/ m.kind \in Replies /\ Answered(m)
  BY DeliverDoes
<1>2. FirstTime(inbox') /\ \A x \in ToSet(inbox') : x \in ToSet(inbox)
  BY <1>0, <1>1, TakesDoes
<1>3. "result" \in Replies /\ "error" \in Replies
  BY DEF Replies
<1>4. ASSUME UNCHANGED outbox \/ (\E kind \in Replies : Replied(m, kind)),
             \A b \in live' : b \in live /\ sess'[b] = sess[b]
      PROVE  Ours(PL, PS)' /\ Theirs(PL, PS, PN)'
  <2>1. FirstTime(outbox') /\ \A x \in ToSet(outbox') : x \in ToSet(outbox) \/ x.kind \in Replies
    BY <1>0, <1>4, RepliedFirst
  <2> QED BY <1>0, <1>2, <1>4, <2>1, KnownKept DEF Origins
<1>5. CASE m.kind = "session-initiate" /\ Requested(m)
  <2>1. CASE ListKept \/ UNCHANGED <<live, sess>>
    BY <1>3, <1>4, <1>5, <2>1, InitiateDoes DEF ListKept
  <2>2. CASE SessionJoined(m) /\ Replied(m, "result")
    BY <1>0, <1>1, <1>5, <2>2, JoinKnown
  <2> QED BY <1>5, <2>1, <2>2, InitiateDoes
<1>6. CASE m.kind = "session-accept" /\ Requested(m)
  BY <1>3, <1>4, <1>6, AcceptDoes
<1>7. CASE m.kind \in Replies /\ Answered(m)
  <2>1. UNCHANGED <<outbox, sess>> /\ (UNCHANGED vars \/ \E k \in acks : ReplyTaken(m, k))
    BY <1>1, <1>7, AnsweredDoes DEF Takes
  <2>2. live' \subseteq live
    BY <2>1 DEF vars, ReplyTaken, FewerSessions
  <2> QED BY <1>4, <2>1, <2>2
<1> QED BY <1>1, <1>5, <1>6, <1>7

\* Every step keeps what the two know of each other.
LEMMA ClientKnown ==
  ASSUME Alone, ClientOK, NEW PL, NEW PS, NEW PN, Ours(PL, PS), Theirs(PL, PS, PN), ClientNext
  PROVE  Ours(PL, PS)' /\ Theirs(PL, PS, PN)'
<1>0. TypeOK /\ Parties /\ Streams /\ FirstTime(outbox) /\ FirstTime(inbox) /\ Origins
  BY ClientOrigins DEF ClientOK, CoreOK, Ours, Theirs, Known
<1>1. ASSUME UNCHANGED <<inbox, sess>>, live' \subseteq live, FirstTime(outbox'),
             ToSet(outbox') \subseteq ToSet(outbox)
      PROVE  Ours(PL, PS)' /\ Theirs(PL, PS, PN)'
  BY <1>0, <1>1, KnownKept DEF Origins
<1>2. CASE AnswerEvent
  <2>1. UNCHANGED <<inbox, sess, live>>
    BY <1>2, EventDoes
  <2>2. ASSUME NEW s \in Sids, NEW k \in AckHandle, AcceptSent(s, k), connected
        PROVE  Ours(PL, PS)' /\ Theirs(PL, PS, PN)'
    <3> DEFINE q == [kind |-> "session-accept", sid |-> s, n |-> nacks + 1]
    <3>1. q \in Message /\ q.kind = "session-accept" /\ q.sid = s
      BY <1>0 DEF Message, Kinds, TypeOK
    <3>2. outbox' = Append(outbox, q) /\ s \in SidsOf(live, sess, "INCOMING")
      BY <2>2 DEF AcceptSent
    <3> HIDE DEF q
    <3>3. FirstTime(outbox') /\ ToSet(outbox') = ToSet(outbox) \cup {q}
      BY <1>0, <3>1, <3>2, AppendingFirst, AddsDoes DEF Streams
    <3> QED BY <1>0, <2>1, <3>1, <3>2, <3>3, KnownKept DEF Origins
  <2>3. UNCHANGED outbox \/ \E s \in Sids, k \in AckHandle : AcceptSent(s, k) /\ connected
    BY <1>2, EventDoes DEF AcceptSent
  <2> QED BY <1>0, <1>1, <2>1, <2>2, <2>3
<1>3. CASE Undelivered
  <2>1. PICK m \in Message :
           Takes(m) /\ UNCHANGED vars /\ (UNCHANGED outbox \/ Replied(m, "error"))
    BY <1>3, UndeliveredDoes
  <2>2. FirstTime(inbox') /\ \A x \in ToSet(inbox') : x \in ToSet(inbox)
    BY <1>0, <2>1, TakesDoes
  <2>3. "error" \in Replies
    BY DEF Replies
  <2>4. FirstTime(outbox') /\ \A x \in ToSet(outbox') : x \in ToSet(outbox) \/ x.kind \in Replies
    BY <1>0, <2>1, <2>3, RepliedFirst
  <2>5. \A b \in live' : b \in live /\ sess'[b] = sess[b]
    BY <2>1 DEF vars
  <2> QED BY <1>0, <2>2, <2>4, <2>5, KnownKept DEF Origins
<1>4. CASE Expire
  BY <1>0, <1>1, <1>4, ExpireDoes DEF FewerSessions
<1>5. CASE Lose
  <2>1. PICK i \in 0 .. Len(outbox) : outbox' = SubSeq(outbox, 1, i)
    BY <1>5, LoseDoes
  <2>2. FirstTime(outbox') /\ ToSet(outbox') \subseteq ToSet(outbox)
    BY <1>0, <2>1, Losing DEF Streams
  <2> QED BY <1>1, <1>5, <2>2, LoseDoes
<1>6. CASE Reconnect
  BY <1>0, <1>1, <1>6, ReconnectDoes
<1> QED BY <1>2, <1>3, <1>4, <1>5, <1>6, OfferKnown, DeliverKnown DEF ClientNext

-----------------------------------------------------------------------------
(* Every step is one of the session core *)

\* A sid the peer names is one we told him, or one of his own.
LEMMA PeerNames ==
  ASSUME Alone, ClientOK, NEW PL, NEW PS, NEW PN, Ours(PL, PS), Theirs(PL, PS, PN),
         NEW m \in Message, Takes(m), m.kind \in {"session-initiate", "session-accept"}
  PROVE  CanName(m.sid, Other)
<1>0. Parties /\ Streams
  BY DEF ClientOK
<1>1. m \in ToSet(inbox)
  BY <1>0, TakesDoes
<1>2. CASE m.kind = "session-accept"
  <2>1. m.sid \in Told(Me, live, sess, OwnOffers)
    BY <1>1, <1>2 DEF Ours, Known, About
  <2> QED BY <2>1 DEF Told, CanName, Find
<1>3. CASE m.kind = "session-initiate"
  <2>1. m.sid \in {Other} \X (1 .. PN)
    BY <1>1, <1>3 DEF Theirs, Known, About, Told
  <2>2. Me # Other
    BY DEF Alone
  <2>3. m.sid \notin {Me} \X (1 .. OwnOffers)
    BY <2>1, <2>2
  <2> QED BY <1>0, <2>3 DEF Parties, Party, CanName, Find
<1> QED BY <1>2, <1>3

\* The peer names no session it was not told, so every step is one the core allows.
LEMMA ClientStep ==
  ASSUME Alone, ClientOK, NEW PL, NEW PS, NEW PN, Ours(PL, PS), Theirs(PL, PS, PN), ClientNext
  PROVE  [Next]_vars
<1>1. Other \in Roster /\ Other \in Peers
  BY DEF Alone
<1>2. CASE ~aborted /\ Offer
  BY <1>1, <1>2 DEF Offer, Next, User
<1>3. CASE ~aborted /\ AnswerEvent
  BY <1>3 DEF AnswerEvent, Next, User
<1>4. CASE Deliver
  <2>1. PICK m \in Message :
           /\ Takes(m) /\ ~aborted /\ connected
           /\ \/ m.kind = "session-initiate" /\ Requested(m)
              \/ m.kind = "session-accept" /\ Requested(m)
              \/ m.kind \in Replies /\ Answered(m)
    BY <1>4, DeliverDoes
  <2>2. m.sid \in Sids
    BY DEF Message
  <2>3. CASE m.kind \in {"session-initiate", "session-accept"} /\ Requested(m)
    <3>1. CanName(m.sid, Other)
      BY <2>1, <2>3, PeerNames
    <3>2. handle_session_initiate(Other, m.sid) \/ handle_session_accept(Other, m.sid)
      BY <2>3 DEF Requested
    <3>3. Peer(Other)
      BY <2>1, <2>2, <3>1, <3>2 DEF Peer, jingle_handle_iq
    <3> QED BY <1>1, <2>1, <3>3 DEF Next
  <2>4. CASE m.kind \in Replies /\ Answered(m)
    <3>1. UNCHANGED vars \/ \E k \in acks : Reply(k)
      BY <2>1, <2>4, AnsweredDoes DEF Takes
    <3> QED BY <2>1, <3>1 DEF Next, Network
  <2> QED BY <2>1, <2>3, <2>4
<1>5. CASE Undelivered
  BY <1>5 DEF Undelivered
<1>6. CASE Expire
  BY <1>6 DEF Expire, Next, Timer
<1>7. CASE Lose \/ Reconnect
  BY <1>7 DEF Lose, Reconnect, Next, Network
<1> QED BY <1>2, <1>3, <1>4, <1>5, <1>6, <1>7 DEF ClientNext

\* Events and handles keep their addresses.
LEMMA ClientRefs ==
  ASSUME Alone, ClientOK, ClientNext
  PROVE  Refs'
<1>0. TypeOK /\ Entered /\ Refs
  BY DEF ClientOK, CoreOK
<1>1. Other \in Roster /\ Other \in Peers /\ "linkfail" \notin Disorder /\ "retry" \notin Disorder
  BY DEF Alone
<1>2. CASE Offer
  <2>1. jft_send(Other)
    BY <1>2 DEF Offer
  <2>2. (\E fs : JftFails("send", fs)) \/ OfferStep
    BY <1>0, <1>1, <2>1, SendOffers
  <2>3. (\E fs : JftFails("send", fs)) => UNCHANGED <<live, sess, acks>>
    BY DEF JftFails, sessionVars, ackVars
  <2>4. UNCHANGED events
    BY <1>2, OfferDoes
  <2> QED BY <1>0, <1>1, <2>2, <2>3, <2>4, SameRefs, OfferRefs
<1>3. CASE AnswerEvent
  BY <1>0, <1>3, EventRefs DEF AnswerEvent
<1>4. CASE Deliver
  <2>1. PICK m \in Message :
           /\ Takes(m)
           /\ \/ m.kind = "session-initiate" /\ Requested(m)
              \/ m.kind = "session-accept" /\ Requested(m)
              \/ m.kind \in Replies /\ Answered(m)
    BY <1>4, DeliverDoes
  <2>2. CASE m.kind = "session-initiate" /\ Requested(m)
    <3>1. m.sid \in Sids /\ handle_session_initiate(Other, m.sid)
      BY <2>2 DEF Message, Requested
    <3>2. PICK offer \in [Names -> Offers] :
            InitiateRefused(Other, m.sid, offer) \/ InitiateAccepted(Other, m.sid, offer)
      BY <3>1 DEF handle_session_initiate
    <3>3. InitiateRefused(Other, m.sid, offer) => UNCHANGED <<live, sess, events, acks>>
      BY DEF InitiateRefused, RefusedContents, sessionVars, ackVars
    <3> QED BY <1>0, <1>1, <3>1, <3>2, <3>3, InitiateRefs, SameRefs
  <2>3. CASE m.kind = "session-accept" /\ Requested(m)
    BY <1>0, <2>3, AcceptDoes, SameRefs
  <2>4. CASE m.kind \in Replies /\ Answered(m)
    <3>1. UNCHANGED vars \/ \E k \in acks : Reply(k)
      BY <2>1, <2>4, AnsweredDoes DEF Takes
    <3> QED BY <1>0, <3>1, AnswerRefs, SameRefs DEF vars
  <2> QED BY <2>1, <2>2, <2>3, <2>4
<1>5. CASE Undelivered
  BY <1>0, <1>5, SameRefs DEF Undelivered, vars
<1>6. CASE Expire
  BY <1>0, <1>6, AnswerRefs DEF Expire
<1>7. CASE Lose
  BY <1>0, <1>7, DisconnectRefs DEF Lose
<1>8. CASE Reconnect
  BY <1>0, <1>8, ReconnectDoes, SameRefs
<1> QED BY <1>2, <1>3, <1>4, <1>5, <1>6, <1>7, <1>8 DEF ClientNext

\* Our invariant, in a step of ours.
LEMMA ClientKept ==
  ASSUME Alone, ClientOK, NEW PL, NEW PS, NEW PN, Ours(PL, PS), Theirs(PL, PS, PN), ClientNext
  PROVE  ClientOK'
<1>1. TypeOK' /\ Entered' /\ OwnFile'
  BY ClientStep, OwnInductive DEF ClientOK, CoreOK, Alone
<1>2. Refs' /\ Numbers /\ Origins
  BY ClientRefs, ClientNumbers, ClientOrigins
<1> QED BY <1>1, <1>2 DEF ClientOK, CoreOK, Numbers, Origins

\* A step of the peer: our variables stay, and at most numbers it took are pending.
LEMMA PeerKeeps ==
  ASSUME ClientOK, UNCHANGED vars, inbox' \in Seq(Message), outbox' \in Seq(Message),
         Pending(outbox', inbox') \subseteq Pending(outbox, inbox)
  PROVE  ClientOK' /\ OwnOffers' = OwnOffers
<1>1. /\ UNCHANGED <<live, sess, cstate, cfile, created, files, nfiles, acks, nacks>>
      /\ UNCHANGED <<events, connected, aborted, obs>>
  BY DEF vars
<1>2. OwnOffers' = OwnOffers
  BY <1>1 DEF OwnOffers
<1>3. TypeOK' = TypeOK /\ Entered' = Entered
  BY <1>1 DEF TypeOK, Entered
<1>4. OwnFile' = OwnFile
  BY <1>1 DEF OwnFile, Contents
<1>5. Refs' = Refs
  BY <1>1 DEF Refs, LiveRefs, OneRef
<1>6. Parties' = Parties
  BY <1>1, <1>2 DEF Parties
<1>7. Invited' = Invited /\ Unused' = Unused /\ Streams'
  BY <1>1 DEF Invited, Unused, Streams
<1>8. Numbered'
  BY SMTT(30), <1>1 DEF Numbered, ClientOK
<1> QED BY <1>2, <1>3, <1>4, <1>5, <1>6, <1>7, <1>8 DEF ClientOK, CoreOK

-----------------------------------------------------------------------------
(* Every step keeps to the order of the protocol *)

\* The session core whose surroundings do nothing wrong.
Calm == INSTANCE Jingle WITH Disorder <- {}

\* Nothing in a session being offered depends on the disorder but whether sending may fail.
LEMMA CalmOffer ==
  ASSUME NEW f, NEW p, NEW cause, NEW a, NEW s, NEW trans, NEW ok,
         SessionOffered(f, p, cause, a, s, trans, ok)
  PROVE  Calm!SessionOffered(f, p, cause, a, s, trans, ok)
BY DEF SessionOffered, Calm!SessionOffered, Saw, Calm!Saw,
       ackVars, Calm!ackVars, session_find_by_app, Calm!session_find_by_app,
       FilesOf, Calm!FilesOf, Contents, Calm!Contents, Recipient, Calm!Recipient,
       NewOutgoing, Calm!NewOutgoing, Offered, Calm!Offered, Msg, Calm!Msg,
       jingle_send_session_initiate, Calm!jingle_send_session_initiate,
       NewAck, Calm!NewAck, Calm!NoBody, Calm!NoCond

\* The same for /jft send,
LEMMA CalmSend ==
  ASSUME Alone, NEW p, jft_send(p)
  PROVE  Calm!jft_send(p)
<1>1. \A cause, fs : JftFails(cause, fs) => Calm!JftFails(cause, fs)
  BY DEF JftFails, Calm!JftFails, Saw, Calm!Saw, sessionVars, Calm!sessionVars,
         ackVars, Calm!ackVars, Calm!NoBody
<1>2. \A f, cause, fs : JftOffer(f, p, cause, fs) => Calm!JftOffer(f, p, cause, fs)
  <2>1. ASSUME NEW f, NEW cause, NEW fs, JftOffer(f, p, cause, fs)
        PROVE  Calm!JftOffer(f, p, cause, fs)
    <3>1. PICK a \in Addr \ live, s \in Sids \ {sess[b].sid : b \in live}, trans \in BOOLEAN :
            SessionOffered(f, p, cause, a, s, trans, TRUE)
      BY <2>1 DEF JftOffer, Alone
    <3>2. Calm!SessionOffered(f, p, cause, a, s, trans, TRUE)
      BY <3>1, CalmOffer
    <3> QED BY <2>1, <3>1, <3>2 DEF JftOffer, Calm!JftOffer
  <2> QED BY <2>1
<1> QED BY <1>1, <1>2 DEF jft_send, Calm!jft_send

\* for what is refused,
LEMMA CalmRefused ==
  ASSUME NEW p, NEW s, NEW cause
  PROVE  /\ UnknownSession(p, s, cause) => Calm!UnknownSession(p, s, cause)
         /\ RefusedContents(p, cause) => Calm!RefusedContents(p, cause)
         /\ Find(s, p) = Calm!Find(s, p)
<1>1. Find(s, p) = Calm!Find(s, p)
  BY DEF Find, Calm!Find, Recipient, Calm!Recipient
<1>2. UnknownSession(p, s, cause) => Calm!UnknownSession(p, s, cause)
  BY <1>1 DEF UnknownSession, Calm!UnknownSession, Saw, Calm!Saw, IqError, Calm!IqError, Msg, Calm!Msg,
       sessionVars, Calm!sessionVars, fileVars, Calm!fileVars, ackVars, Calm!ackVars
<1>3. RefusedContents(p, cause) => Calm!RefusedContents(p, cause)
  BY DEF RefusedContents, Calm!RefusedContents, Saw, Calm!Saw, IqError, Calm!IqError, Msg, Calm!Msg,
       sessionVars, Calm!sessionVars, fileVars, Calm!fileVars, ackVars, Calm!ackVars
<1> QED BY <1>1, <1>2, <1>3

\* for a session that is received,
LEMMA CalmReceived ==
  ASSUME NEW a, NEW p, NEW s, NEW kept, NEW entries, NEW index, NEW empty,
         SessionReceived(a, p, s, kept, entries, index, empty)
  PROVE  Calm!SessionReceived(a, p, s, kept, entries, index, empty)
BY DEF SessionReceived, Calm!SessionReceived, Unsupported, Calm!Unsupported, Saw, Calm!Saw,
       AckIq, Calm!AckIq, Msg, Calm!Msg, FileIndex, Calm!FileIndex, Calm!NoCond

\* for a session-initiate,
LEMMA CalmInitiate ==
  ASSUME NEW p, NEW s, handle_session_initiate(p, s)
  PROVE  Calm!handle_session_initiate(p, s)
<1>1. PICK offer \in [Names -> Offers] : InitiateRefused(p, s, offer) \/ InitiateAccepted(p, s, offer)
  BY DEF handle_session_initiate
<1>2. InitiateRefused(p, s, offer) => Calm!InitiateRefused(p, s, offer)
  <2>1. \A cond : Saw("session-initiate", p, IqError(p, cond))
                  = Calm!Saw("session-initiate", p, Calm!IqError(p, cond))
    BY DEF Saw, Calm!Saw, IqError, Calm!IqError, Msg, Calm!Msg
  <2> QED BY <2>1, CalmRefused DEF InitiateRefused, Calm!InitiateRefused,
       sessionVars, Calm!sessionVars, fileVars, Calm!fileVars, ackVars, Calm!ackVars
<1>3. InitiateAccepted(p, s, offer) => Calm!InitiateAccepted(p, s, offer)
  <2> DEFINE kept    == {n \in Names : offer[n] = "good"}
             opened  == {n \in Names : offer[n] \in {"good", "badTransport"}}
             entries == nfiles + 1 .. nfiles + Cardinality(opened)
  <2>1. ASSUME InitiateAccepted(p, s, offer)
        PROVE  \E a \in Addr \ live, index \in [opened -> entries], empty \in SUBSET entries :
                 /\ \A m, n \in opened : index[m] = index[n] => m = n
                 /\ Calm!SessionReceived(a, p, s, kept, entries, index, empty)
    <3>1. PICK a \in Addr \ live, index \in [opened -> entries], empty \in SUBSET entries :
             /\ \A m, n \in opened : index[m] = index[n] => m = n
             /\ SessionReceived(a, p, s, kept, entries, index, empty)
      BY Zenon, <2>1 DEF InitiateAccepted, Entries
    <3>2. Calm!SessionReceived(a, p, s, kept, entries, index, empty)
      BY <3>1, CalmReceived
    <3> QED BY <3>1, <3>2
  <2>2. Find(s, p) = Calm!Find(s, p) /\ (UNCHANGED ackVars => UNCHANGED Calm!ackVars)
    BY CalmRefused DEF ackVars, Calm!ackVars
  <2>3. InitiateAccepted(p, s, offer)
        => /\ p \in Roster /\ Find(s, p) = {} /\ \E n \in Names : offer[n] # "none"
           /\ created < MaxSessions /\ nfiles + Cardinality(opened) <= MaxFiles
           /\ created' = created + 1 /\ nfiles' = nfiles + Cardinality(opened)
           /\ aborted' \in IF Cardinality(opened \cup {n \in Names : offer[n] = "badApp"}) > 1
                            THEN BOOLEAN ELSE {FALSE}
           /\ UNCHANGED ackVars /\ UNCHANGED connected
    BY Zenon DEF InitiateAccepted
  <2> QED BY Zenon, <2>1, <2>2, <2>3 DEF Calm!InitiateAccepted, Calm!Entries, Cardinality, Calm!Cardinality
<1>4. Offers = Calm!Offers
  BY DEF Offers, Calm!Offers
<1> QED BY <1>1, <1>2, <1>3, <1>4 DEF Calm!handle_session_initiate

\* for a session-accept,
LEMMA CalmAccept ==
  ASSUME NEW p, NEW s, handle_session_accept(p, s)
  PROVE  Calm!handle_session_accept(p, s)
<1>1. \A a : Contents(a) = Calm!Contents(a)
  BY DEF Contents, Calm!Contents
<1>2. \A out : Saw("session-accept", p, out) = Calm!Saw("session-accept", p, out)
  BY DEF Saw, Calm!Saw
<1>3. AckIq(p) = Calm!AckIq(p)
  BY DEF AckIq, Calm!AckIq, Msg, Calm!Msg, Calm!NoCond
<1> QED BY <1>1, <1>2, <1>3, CalmRefused DEF handle_session_accept, Calm!handle_session_accept,
       fileVars, Calm!fileVars, ackVars, Calm!ackVars

\* for an event,
LEMMA CalmEvent ==
  ASSUME NEW e, evscallback_jingle(e)
  PROVE  Calm!evscallback_jingle(e)
BY DEF evscallback_jingle, Calm!evscallback_jingle, Saw, Calm!Saw, Terminate, Calm!Terminate,
       Recipient, Calm!Recipient, Msg, Calm!Msg, NewAck, Calm!NewAck,
       jingle_send_session_accept, Calm!jingle_send_session_accept,
       sessionVars, Calm!sessionVars, fileVars, Calm!fileVars, ackVars, Calm!ackVars,
       Calm!NoBody, Calm!NoCond

\* for the callbacks of a request,
LEMMA CalmCallback ==
  ASSUME NEW k, NEW answer, AckCallback(k, answer)
  PROVE  Calm!AckCallback(k, answer)
BY DEF AckCallback, Calm!AckCallback, session_delete, Calm!session_delete, Removed, Calm!Removed,
       session_free, Calm!session_free, sessionVars, Calm!sessionVars

\* for its reply and its timeout,
LEMMA CalmAnswer ==
  ASSUME NEW k
  PROVE  /\ Reply(k) => Calm!Reply(k)
         /\ Timeout(k) => Calm!Timeout(k)
<1>1. \A cause, from, out : Saw(cause, from, out) = Calm!Saw(cause, from, out)
  BY DEF Saw, Calm!Saw
<1>2. Recipient(k.ptr) = Calm!Recipient(k.ptr) /\ Consumed(k) = Calm!Consumed(k)
  BY DEF Recipient, Calm!Recipient, Consumed, Calm!Consumed
<1>3. Reply(k) => Calm!Reply(k)
  BY <1>1, <1>2, CalmCallback DEF Reply, Calm!Reply, fileVars, Calm!fileVars
<1>4. Timeout(k) => Calm!Timeout(k)
  BY <1>1, CalmCallback DEF Timeout, Calm!Timeout, Expires, Calm!Expires, fileVars, Calm!fileVars,
       Calm!NoBody
<1> QED BY <1>3, <1>4

\* and for the connection.
LEMMA CalmConnection ==
  /\ Disconnect => Calm!Disconnect
  /\ Connect => Calm!Connect
BY DEF Disconnect, Calm!Disconnect, Connect, Calm!Connect, Saw, Calm!Saw,
       sessionVars, Calm!sessionVars, fileVars, Calm!fileVars, ackVars, Calm!ackVars, Calm!NoBody

\* The peer of a client ends no session, and its replies come in time: of all that may
\* go wrong around a session core, nothing does.
LEMMA CalmStep ==
  ASSUME Alone, ClientOK, NEW PL, NEW PS, NEW PN, Ours(PL, PS), Theirs(PL, PS, PN), ClientNext
  PROVE  [Calm!Next]_vars
<1>1. Other \in Roster /\ Other \in Peers
  BY DEF Alone
<1>2. CASE ~aborted /\ Offer
  <2>1. Calm!jft_send(Other)
    BY <1>2, CalmSend DEF Offer
  <2> QED BY <1>1, <1>2, <2>1 DEF Calm!Next, Calm!User
<1>3. CASE ~aborted /\ AnswerEvent
  <2>1. \E e \in events : Calm!evscallback_jingle(e)
    BY <1>3, CalmEvent DEF AnswerEvent
  <2> QED BY <1>3, <2>1 DEF Calm!Next, Calm!User
<1>4. CASE Deliver
  <2>1. PICK m \in Message :
           /\ Takes(m) /\ ~aborted /\ connected
           /\ \/ m.kind = "session-initiate" /\ Requested(m)
              \/ m.kind = "session-accept" /\ Requested(m)
              \/ m.kind \in Replies /\ Answered(m)
    BY <1>4, DeliverDoes
  <2>2. m.sid \in Sids
    BY DEF Message
  <2>3. CASE m.kind \in {"session-initiate", "session-accept"} /\ Requested(m)
    <3>1. CanName(m.sid, Other)
      BY <2>1, <2>3, PeerNames
    <3>2. Calm!CanName(m.sid, Other)
      BY <3>1, CalmRefused DEF CanName, Calm!CanName
    <3>3. handle_session_initiate(Other, m.sid) \/ handle_session_accept(Other, m.sid)
      BY <2>3 DEF Requested
    <3>4. Calm!handle_session_initiate(Other, m.sid) \/ Calm!handle_session_accept(Other, m.sid)
      BY <3>3, CalmInitiate, CalmAccept
    <3>5. Calm!Peer(Other)
      BY <2>1, <2>2, <3>2, <3>4 DEF Calm!Peer, Calm!jingle_handle_iq
    <3> QED BY <1>1, <2>1, <3>5 DEF Calm!Next
  <2>4. CASE m.kind \in Replies /\ Answered(m)
    <3>1. UNCHANGED vars \/ \E k \in acks : Calm!Reply(k)
      BY <2>1, <2>4, AnsweredDoes, CalmAnswer DEF Takes
    <3> QED BY <2>1, <3>1 DEF Calm!Next, Calm!Network
  <2> QED BY <2>1, <2>3, <2>4
<1>5. CASE Undelivered
  BY <1>5 DEF Undelivered
<1>6. CASE Expire
  BY <1>6, CalmAnswer DEF Expire, Calm!Next, Calm!Timer
<1>7. CASE Lose \/ Reconnect
  BY <1>7, CalmConnection DEF Lose, Reconnect, Calm!Next, Calm!Network
<1> QED BY <1>2, <1>3, <1>4, <1>5, <1>6, <1>7 DEF ClientNext

-----------------------------------------------------------------------------
(* While no connection is lost *)

\* Every request has its stanza or its answer on its way, no answer is an error, what is
\* on its way is about sessions that are there, and so is what the peer knows.
Lossless(conn, K, L, S, C, PL, PS, out, in) ==
  /\ conn
  /\ \A k \in K : k.registered /\ ~k.freed /\ k.n \in Pending(out, in)
  /\ About(out, "error") = {}
  /\ About(out, "session-initiate") \subseteq SidsOf(L, S, "OUTGOING")
  /\ About(out, "session-accept") \subseteq SidsOf(L, S, "INCOMING")
  /\ SidsOf(PL, PS, "INCOMING") \subseteq SidsOf(L, S, "OUTGOING")
  /\ \A a \in L : C[a][FileName] = "ACTIVE" => S[a].sid \in SidsOf(PL, PS, "INCOMING")

OursLossless(PL, PS) ==
  Lossless(connected, acks, live, sess, cstate, PL, PS, outbox, inbox)
TheirsLossless(conn, K, PL, PS, PC) ==
  Lossless(conn, K, PL, PS, PC, live, sess, inbox, outbox)

\* A step that takes no session away.
LEMMA LosslessKept ==
  ASSUME NEW conn, NEW K, NEW PL, NEW PS, NEW PC,
         OursLossless(PL, PS), TheirsLossless(conn, K, PL, PS, PC), connected',
         \A b \in live : b \in live' /\ sess'[b] = sess[b],
         SidsOf(live', sess', "INCOMING") \subseteq SidsOf(PL, PS, "OUTGOING"),
         \A b \in live' : cstate'[b][FileName] = "ACTIVE" =>
           \/ b \in live /\ cstate[b][FileName] = "ACTIVE"
           \/ sess'[b].sid \in SidsOf(PL, PS, "INCOMING"),
         \A k \in acks' : k.registered /\ ~k.freed /\ k.n \in Pending(outbox', inbox'),
         \A x \in ToSet(inbox') : x \in ToSet(inbox),
         \A x \in ToSet(outbox') :
           \/ x \in ToSet(outbox)
           \/ x.kind = "result"
           \/ x.kind = "session-initiate" /\ x.sid \in SidsOf(live', sess', "OUTGOING")
           \/ x.kind = "session-accept" /\ x.sid \in SidsOf(live', sess', "INCOMING"),
         Pending(inbox, outbox) \subseteq Pending(inbox', outbox')
  PROVE  OursLossless(PL, PS)' /\ TheirsLossless(conn, K, PL, PS, PC)'
<1>1. \A origin : SidsOf(live, sess, origin) \subseteq SidsOf(live', sess', origin)
  BY DEF SidsOf
<1>2. \A kind : About(inbox', kind) \subseteq About(inbox, kind)
  BY DEF About
<1>3. /\ About(outbox', "error") \subseteq About(outbox, "error")
      /\ About(outbox', "session-initiate") \subseteq
           About(outbox, "session-initiate") \cup SidsOf(live', sess', "OUTGOING")
      /\ About(outbox', "session-accept") \subseteq
           About(outbox, "session-accept") \cup SidsOf(live', sess', "INCOMING")
  BY DEF About
<1>4. \A a \in live' : cstate'[a][FileName] = "ACTIVE" => sess'[a].sid \in SidsOf(PL, PS, "INCOMING")
  BY DEF OursLossless, Lossless
<1>5. OursLossless(PL, PS)'
  <2>1. About(outbox', "error") = {}
    BY <1>3 DEF OursLossless, Lossless
  <2>2. About(outbox', "session-initiate") \subseteq SidsOf(live', sess', "OUTGOING")
    BY <1>1, <1>3 DEF OursLossless, Lossless
  <2>3. About(outbox', "session-accept") \subseteq SidsOf(live', sess', "INCOMING")
    BY <1>1, <1>3 DEF OursLossless, Lossless
  <2>4. SidsOf(PL, PS, "INCOMING") \subseteq SidsOf(live', sess', "OUTGOING")
    BY <1>1 DEF OursLossless, Lossless
  <2> QED BY <1>4, <2>1, <2>2, <2>3, <2>4 DEF OursLossless, Lossless
<1>6. TheirsLossless(conn, K, PL, PS, PC)'
  BY <1>1, <1>2 DEF TheirsLossless, Lossless
<1> QED BY <1>5, <1>6

\* An offer: its request is on its way.
LEMMA OfferLossless ==
  ASSUME Alone, ClientOK, NEW conn, NEW K, NEW PL, NEW PS, NEW PC,
         OursLossless(PL, PS), TheirsLossless(conn, K, PL, PS, PC), Offer
  PROVE  OursLossless(PL, PS)' /\ TheirsLossless(conn, K, PL, PS, PC)'
<1>0. TypeOK /\ Streams /\ connected' /\ UNCHANGED inbox
  BY OfferDoes DEF ClientOK, CoreOK, OursLossless, Lossless
<1>1. CASE UNCHANGED <<live, sess, cstate, acks, nacks, outbox>>
  BY <1>0, <1>1 DEF OursLossless, TheirsLossless, Lossless
<1>2. CASE OfferMade
  <2>1. PICK a \in Addr, r \in Session, k \in AckHandle :
          /\ live' = live \cup {a} /\ sess'[a] = r /\ cstate'[a][FileName] = "PENDING"
          /\ \A b \in live : sess'[b] = sess[b] /\ cstate'[b][FileName] = cstate[b][FileName]
          /\ r.sid = NewSid /\ r.origin = "OUTGOING"
          /\ \/ ~r.announced /\ UNCHANGED <<acks, nacks, outbox>>
             \/ /\ r.announced /\ nacks' = nacks + 1
                /\ acks' = acks \cup {k} /\ k.n = nacks + 1 /\ k.registered /\ ~k.freed
                /\ outbox' = Append(outbox, [kind |-> "session-initiate", sid |-> NewSid, n |-> nacks + 1])
    BY <1>2 DEF OfferMade, Made
  <2>2. /\ SidsOf(live', sess', "INCOMING") \subseteq SidsOf(live, sess, "INCOMING")
        /\ NewSid \in SidsOf(live', sess', "OUTGOING")
    BY <2>1 DEF SidsOf
  <2>3. SidsOf(live', sess', "INCOMING") \subseteq SidsOf(PL, PS, "OUTGOING")
    BY <2>2 DEF TheirsLossless, Lossless
  <2>4. \A b \in live' : cstate'[b][FileName] = "ACTIVE" => b \in live /\ cstate[b][FileName] = "ACTIVE"
    BY <2>1
  <2>5. \A j \in acks : j.registered /\ ~j.freed /\ j.n \in Pending(outbox, inbox)
    BY DEF OursLossless, Lossless
  <2>6. CASE ~r.announced /\ UNCHANGED <<acks, nacks, outbox>>
    BY <1>0, <2>1, <2>3, <2>4, <2>5, <2>6, LosslessKept
  <2>7. CASE r.announced
    <3> DEFINE q == [kind |-> "session-initiate", sid |-> NewSid, n |-> nacks + 1]
    <3>1. q \in Message /\ q.kind = "session-initiate" /\ q.sid = NewSid /\ q.n = nacks + 1
      BY <1>0, <2>1 DEF Message, Kinds, TypeOK, Session
    <3>2. outbox' = Append(outbox, q)
      BY <2>1, <2>7
    <3> HIDE DEF q
    <3>3. ToSet(outbox') = ToSet(outbox) \cup {q}
      BY <1>0, <3>1, <3>2, AddsDoes
    <3>4. /\ Pending(outbox, inbox) \subseteq Pending(outbox', inbox')
          /\ Pending(inbox, outbox) \subseteq Pending(inbox', outbox')
          /\ nacks + 1 \in Pending(outbox', inbox')
      BY <1>0, <3>1, <3>3 DEF Pending, Requests
    <3>5. \A j \in acks' : j.registered /\ ~j.freed /\ j.n \in Pending(outbox', inbox')
      BY <2>1, <2>5, <2>7, <3>4
    <3> QED BY ZenonT(30), <1>0, <2>1, <2>2, <2>3, <2>4, <3>1, <3>3, <3>4, <3>5, LosslessKept
  <2> QED BY <2>1, <2>6, <2>7
<1> QED BY <1>1, <1>2, OfferDoes

\* An answered event: the session that is accepted is one of the list.
LEMMA EventLossless ==
  ASSUME Alone, ClientOK, NEW conn, NEW K, NEW PL, NEW PS, NEW PC,
         OursLossless(PL, PS), TheirsLossless(conn, K, PL, PS, PC), AnswerEvent
  PROVE  OursLossless(PL, PS)' /\ TheirsLossless(conn, K, PL, PS, PC)'
<1>0. TypeOK /\ Streams /\ connected /\ UNCHANGED <<live, sess, cstate, connected, inbox>>
  BY EventDoes DEF ClientOK, CoreOK, OursLossless, Lossless
<1>1. CASE UNCHANGED <<acks, nacks, outbox>>
  BY <1>0, <1>1 DEF OursLossless, TheirsLossless, Lossless
<1>2. ASSUME NEW s \in Sids, NEW k \in AckHandle, AcceptSent(s, k)
      PROVE  OursLossless(PL, PS)' /\ TheirsLossless(conn, K, PL, PS, PC)'
  <2> DEFINE q == [kind |-> "session-accept", sid |-> s, n |-> nacks + 1]
  <2>1. q \in Message /\ q.kind = "session-accept" /\ q.sid = s /\ q.n = nacks + 1
    BY <1>0 DEF Message, Kinds, TypeOK
  <2>2. /\ outbox' = Append(outbox, q) /\ acks' = acks \cup {k}
        /\ k.n = nacks + 1 /\ ~k.freed /\ k.registered
        /\ s \in SidsOf(live, sess, "INCOMING")
    BY <1>0, <1>2 DEF AcceptSent
  <2> HIDE DEF q
  <2>3. ToSet(outbox') = ToSet(outbox) \cup {q}
    BY <1>0, <2>1, <2>2, AddsDoes
  <2>4. /\ Pending(outbox, inbox) \subseteq Pending(outbox', inbox')
        /\ Pending(inbox, outbox) \subseteq Pending(inbox', outbox')
        /\ nacks + 1 \in Pending(outbox', inbox')
    BY <1>0, <2>1, <2>3 DEF Pending, Requests
  <2>5. \A j \in acks : j.registered /\ ~j.freed /\ j.n \in Pending(outbox, inbox)
    BY DEF OursLossless, Lossless
  <2>6. \A j \in acks' : j.registered /\ ~j.freed /\ j.n \in Pending(outbox', inbox')
    BY <2>2, <2>4, <2>5
  <2>7. SidsOf(live', sess', "INCOMING") \subseteq SidsOf(PL, PS, "OUTGOING")
    BY <1>0 DEF TheirsLossless, Lossless
  <2> QED BY <1>0, <2>1, <2>2, <2>3, <2>4, <2>6, <2>7, LosslessKept
<1> QED BY <1>1, <1>2, EventDoes

\* A request that is taken and answered leaves every number pending that was.
LEMMA RequestPending ==
  ASSUME Streams, NEW m \in Message, Takes(m), m.kind \in Requests, Replied(m, "result")
  PROVE  /\ Pending(outbox, inbox) \subseteq Pending(outbox', inbox')
         /\ Pending(inbox, outbox) \subseteq Pending(inbox', outbox')
         /\ \A x \in ToSet(inbox') : x \in ToSet(inbox)
         /\ \A x \in ToSet(outbox') : x \in ToSet(outbox) \/ x.kind = "result"
<1> DEFINE r == [kind |-> "result", sid |-> m.sid, n |-> m.n]
<1>1. "result" \in Replies /\ "result" \notin Requests
  BY DEF Replies, Requests
<1>2. /\ r.kind = "result" /\ r.n = m.n
      /\ ToSet(outbox') = ToSet(outbox) \cup {r}
  BY <1>1, RepliesDoes
<1> HIDE DEF r
<1>3. ToSet(inbox) = ToSet(inbox') \cup {m}
  BY TakesDoes
<1>4. Pending(outbox, inbox) \subseteq Pending(outbox', inbox')
  BY <1>2, <1>3 DEF Pending
<1>5. Pending(inbox, outbox) \subseteq Pending(inbox', outbox')
  <2>1. m.n \in Pending(inbox', outbox')
    BY <1>1, <1>2 DEF Pending
  <2>2. ASSUME NEW x \in ToSet(inbox), x.kind \in Requests PROVE x.n \in Pending(inbox', outbox')
    BY <1>3, <2>1, <2>2 DEF Pending
  <2>3. ASSUME NEW x \in ToSet(outbox), x.kind \notin Requests PROVE x.n \in Pending(inbox', outbox')
    BY <1>2, <2>3 DEF Pending
  <2> QED BY <2>2, <2>3 DEF Pending
<1> QED BY <1>2, <1>3, <1>4, <1>5

\* A delivered stanza: no session-accept finds its session gone, no reply is an error.
LEMMA DeliverLossless ==
  ASSUME Alone, ClientOK, NEW conn, NEW K, NEW PL, NEW PS, NEW PN, NEW PC,
         Ours(PL, PS), Theirs(PL, PS, PN),
         OursLossless(PL, PS), TheirsLossless(conn, K, PL, PS, PC), Deliver, connected'
  PROVE  OursLossless(PL, PS)' /\ TheirsLossless(conn, K, PL, PS, PC)'
<1>0. TypeOK /\ Streams /\ Parties /\ Numbered
  BY DEF ClientOK, CoreOK
<1>1. PICK m \in Message :
           /\ Takes(m)
           /\ \/ m.kind = "session-initiate" /\ Requested(m)
              \/ m.kind = "session-accept" /\ Requested(m)
              \/ m.kind \in Replies /\ Answered(m)
  BY DeliverDoes
<1>2. m \in ToSet(inbox) /\ ToSet(inbox) = ToSet(inbox') \cup {m}
  BY <1>0, <1>1, TakesDoes
<1>3. \A j \in acks : j.registered /\ ~j.freed /\ j.n \in Pending(outbox, inbox)
  BY DEF OursLossless, Lossless
<1>4. SidsOf(live, sess, "INCOMING") \subseteq SidsOf(PL, PS, "OUTGOING")
  BY DEF TheirsLossless, Lossless
<1>5. CASE m.kind = "session-initiate" /\ Requested(m)
  <2>1. /\ m.sid \in {Other} \X (1 .. PN) /\ m.sid \notin SidsOf(live, sess, "INCOMING")
        /\ m.sid \in SidsOf(PL, PS, "OUTGOING")
    BY <1>2, <1>5 DEF Theirs, Known, About, Told, TheirsLossless, Lossless
  <2>2. Find(m.sid, Other) = {}
    <3>1. m.sid \notin {Me} \X (1 .. OwnOffers)
      BY <2>1 DEF Alone
    <3>2. \A a \in live : sess[a].sid # m.sid
      BY <1>0, <2>1, <3>1 DEF Parties, Party, SidsOf
    <3> QED BY <3>2 DEF Find
  <2>3. Replied(m, "result") /\ UNCHANGED acks /\ (ListKept \/ SessionJoined(m))
    BY <1>5, <2>2, InitiateDoes
  <2>4. /\ Pending(outbox, inbox) \subseteq Pending(outbox', inbox')
        /\ Pending(inbox, outbox) \subseteq Pending(inbox', outbox')
        /\ \A x \in ToSet(inbox') : x \in ToSet(inbox)
        /\ \A x \in ToSet(outbox') : x \in ToSet(outbox) \/ x.kind = "result"
    BY <1>0, <1>1, <1>5, <2>3, RequestPending DEF Requests
  <2>5. \A j \in acks' : j.registered /\ ~j.freed /\ j.n \in Pending(outbox', inbox')
    BY <1>3, <2>3, <2>4
  <2>6. /\ \A b \in live : b \in live' /\ sess'[b] = sess[b]
        /\ SidsOf(live', sess', "INCOMING") \subseteq SidsOf(live, sess, "INCOMING") \cup {m.sid}
        /\ \A b \in live' : cstate'[b][FileName] = "ACTIVE" =>
             b \in live /\ cstate[b][FileName] = "ACTIVE"
    <3>1. CASE ListKept
      BY <3>1 DEF ListKept, SidsOf
    <3>2. CASE SessionJoined(m)
      <4>1. PICK a \in Addr, r \in Session :
              /\ live' = live \cup {a} /\ sess'[a] = r /\ cstate'[a][FileName] # "ACTIVE"
              /\ \A b \in live : sess'[b] = sess[b] /\ cstate'[b][FileName] = cstate[b][FileName]
              /\ r.sid = m.sid
        BY <3>2 DEF SessionJoined, Made
      <4> QED BY <4>1 DEF SidsOf
    <3> QED BY <2>3, <3>1, <3>2
  <2>7. SidsOf(live', sess', "INCOMING") \subseteq SidsOf(PL, PS, "OUTGOING")
    BY <1>4, <2>1, <2>6
  <2> QED BY <2>4, <2>5, <2>6, <2>7, LosslessKept
<1>6. CASE m.kind = "session-accept" /\ Requested(m)
  <2>1. /\ m.sid \in SidsOf(PL, PS, "INCOMING")
        /\ m.sid \in SidsOf(live, sess, "OUTGOING")
    BY <1>2, <1>6 DEF TheirsLossless, OursLossless, Lossless, About
  <2>2. Find(m.sid, Other) # {}
    <3>1. PICK a \in live : sess[a].origin = "OUTGOING" /\ sess[a].sid = m.sid
      BY <2>1 DEF SidsOf
    <3>2. Recipient(a) = Other
      BY <1>0, <3>1 DEF Parties, Party, Recipient
    <3> QED BY <3>1, <3>2 DEF Find
  <2>3. /\ Replied(m, "result") /\ UNCHANGED <<live, sess, acks>>
        /\ \A b \in live : \/ cstate'[b][FileName] = cstate[b][FileName]
                           \/ b \in Find(m.sid, Other)
    BY <1>6, <2>2, AcceptDoes
  <2>4. /\ Pending(outbox, inbox) \subseteq Pending(outbox', inbox')
        /\ Pending(inbox, outbox) \subseteq Pending(inbox', outbox')
        /\ \A x \in ToSet(inbox') : x \in ToSet(inbox)
        /\ \A x \in ToSet(outbox') : x \in ToSet(outbox) \/ x.kind = "result"
    BY <1>0, <1>1, <1>6, <2>3, RequestPending DEF Requests
  <2>5. \A j \in acks' : j.registered /\ ~j.freed /\ j.n \in Pending(outbox', inbox')
    BY <1>3, <2>3, <2>4
  <2>6. \A b \in Find(m.sid, Other) : sess[b].sid \in SidsOf(PL, PS, "INCOMING")
    BY <2>1 DEF Find
  <2>7. SidsOf(live', sess', "INCOMING") \subseteq SidsOf(PL, PS, "OUTGOING")
    BY <1>4, <2>3
  <2> QED BY <2>3, <2>4, <2>5, <2>6, <2>7, LosslessKept
<1>7. CASE m.kind \in Replies /\ Answered(m)
  <2>1. m.kind = "result"
    BY <1>2, <1>7 DEF TheirsLossless, Lossless, About, Replies
  <2>2. /\ UNCHANGED <<outbox, sess>>
        /\ \/ (\A k \in acks : k.n = m.n => ~k.registered) /\ UNCHANGED vars
           \/ \E k \in acks : ReplyTaken(m, k)
    BY <1>1, <1>7, AnsweredDoes DEF Takes
  <2>3. /\ \A j \in acks' : j \in acks /\ j.n # m.n
        /\ UNCHANGED <<live, sess, cstate>>
    <3>1. CASE (\A k \in acks : k.n = m.n => ~k.registered) /\ UNCHANGED vars
      BY <1>3, <3>1 DEF vars
    <3>2. CASE \E k \in acks : ReplyTaken(m, k)
      <4>1. PICK k \in acks : ReplyTaken(m, k)
        BY <3>2
      <4>2. \A j \in acks : j.n = k.n => j = k
        BY <1>0 DEF Numbered
      <4> QED BY <2>1, <2>2, <4>1, <4>2 DEF ReplyTaken
    <3> QED BY <2>2, <3>1, <3>2
  <2>4. \A j \in acks' : j.registered /\ ~j.freed /\ j.n \in Pending(outbox', inbox')
    <3>1. \A n \in Pending(outbox, inbox) : n # m.n => n \in Pending(outbox', inbox')
      BY <1>2, <2>2 DEF Pending
    <3> QED BY <1>3, <2>3, <3>1
  <2>5. Pending(inbox, outbox) \subseteq Pending(inbox', outbox')
    <3>1. m.kind \notin Requests
      BY <2>1 DEF Requests
    <3> QED BY <1>2, <2>2, <3>1 DEF Pending
  <2>6. SidsOf(live', sess', "INCOMING") \subseteq SidsOf(PL, PS, "OUTGOING")
    BY <1>4, <2>3
  <2> QED BY <1>2, <2>2, <2>3, <2>4, <2>5, <2>6, LosslessKept
<1> QED BY <1>1, <1>5, <1>6, <1>7

\* Unless the connection is lost in it, a step keeps all this: no timer expires, for
\* no request is without its stanza or its answer.
LEMMA ClientLossless ==
  ASSUME Alone, ClientOK, NEW conn, NEW K, NEW PL, NEW PS, NEW PN, NEW PC,
         Ours(PL, PS), Theirs(PL, PS, PN),
         OursLossless(PL, PS), TheirsLossless(conn, K, PL, PS, PC), ClientNext, connected'
  PROVE  OursLossless(PL, PS)' /\ TheirsLossless(conn, K, PL, PS, PC)'
<1>1. connected /\ \A k \in acks : k.n \in Pending(outbox, inbox)
  BY DEF OursLossless, Lossless
<1>2. ~Expire
  BY <1>1, ExpireDoes
<1>3. ~Undelivered /\ ~Reconnect /\ ~Lose
  BY <1>1, LoseDoes, ReconnectDoes DEF Undelivered
<1> QED BY <1>2, <1>3, OfferLossless, EventLossless, DeliverLossless DEF ClientNext

-----------------------------------------------------------------------------
(* Before the first step *)

\* The invariant holds before the first step.
LEMMA ClientStarts ==
  ASSUME Alone, Init, inbox = <<>>, outbox = <<>>
  PROVE  ClientOK /\ live = {} /\ acks = {} /\ connected /\ Calm!Init
<1>1. live = {} /\ acks = {} /\ events = {} /\ connected /\ nfiles = 0
      /\ files = [f \in FileIndex |-> [state |-> "unused", dir |-> "INCOMING", full |-> FALSE]]
  BY DEF Init
<1>2. TypeOK /\ Entered /\ OwnFile
  BY OwnInductive DEF Alone
<1>3. Refs /\ Parties /\ Invited
  BY <1>1 DEF Refs, LiveRefs, OneRef, Parties, Invited
<1>4. Unused
  BY <1>1 DEF Unused
<1>5. Streams /\ Pending(outbox, inbox) = {}
  BY DEF Streams, Pending, ToSet
<1>6. Numbered
  BY <1>1, <1>5 DEF Numbered
<1>7. Calm!Init
  BY DEF Init, Calm!Init, FileIndex, Calm!FileIndex, Calm!NoBody
<1> QED BY <1>1, <1>2, <1>3, <1>4, <1>5, <1>6, <1>7 DEF ClientOK, CoreOK

\* Nothing is known, and nothing lost, before the first step.
LEMMA KnownStarts ==
  ASSUME live = {}, acks = {}, connected, inbox = <<>>, outbox = <<>>, NEW PS
  PROVE  Ours({}, PS) /\ OursLossless({}, PS)
<1>1. \A kind : About(inbox, kind) = {} /\ About(outbox, kind) = {}
  BY DEF About, ToSet
<1>2. \A S, origin : SidsOf({}, S, origin) = {}
  BY DEF SidsOf
<1>3. FirstTime(outbox)
  BY DEF FirstTime
<1> QED BY <1>1, <1>2, <1>3 DEF Ours, Known, OursLossless, Lossless
=============================================================================
