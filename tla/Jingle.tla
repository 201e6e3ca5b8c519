------------------------------- MODULE Jingle -------------------------------
(***************************************************************************)
(* The session core of one mcabber-jingle client: the list of sessions     *)
(* (sessions.c), the handlers of incoming Jingle IQs (jingle.c,            *)
(* action-handlers.c), the requests we send and the callbacks of their     *)
(* replies (send.c), the /event callback (jingle.c) and the life of the    *)
(* file transfers hanging from the contents (filetransfer.c).              *)
(*                                                                         *)
(* The program is one glib main loop: every action below is one callback,  *)
(* run to completion.  A session is a struct at an ADDRESS.  Acknowledge-  *)
(* ment handles and events keep that address as their user data, so an     *)
(* address may be used after the struct is gone, or after another session  *)
(* was allocated there.                                                    *)
(***************************************************************************)
EXTENDS Naturals, FiniteSets, Sequences

CONSTANTS
  Me,            \* our full jid
  Peers,         \* the remote entities
  Roster,        \* those of them in our roster
  Sids,          \* session identifiers
  Names,         \* names of contents
  FileName,      \* the name /jft send gives its content ("file")
  Addr,          \* where session structs can be allocated
  MaxSessions,   \* bound: sessions created
  MaxFiles,      \* bound: JingleFTs ever made
  MaxAcks,       \* bound: handles ever made for session-initiate and -accept
  Disorder       \* what may go wrong around us, see DisorderKinds

\* cancel:   a peer ends a session we have unfinished business about
\* late:     a reply arrives after its handle timed out
\* linkfail: sending a session-initiate fails
\* retry:    the user runs /jft retry
DisorderKinds == {"cancel", "late", "linkfail", "retry"}

ASSUME PeersAssumption  == Me \notin Peers /\ Roster \subseteq Peers
ASSUME NamesAssumption  == FileName \in Names /\ IsFiniteSet(Names)
ASSUME BoundsAssumption == MaxSessions \in Nat /\ MaxFiles \in Nat /\ MaxAcks \in Nat
ASSUME DisorderAssumption == Disorder \subseteq DisorderKinds

VARIABLES
  live,       \* the addresses in the list "sessions"
  sess,       \* what the struct at each address holds (kept when freed)
  cstate,     \* the state of each content of the struct, or "absent"
  cfile,      \* the JingleFT its description points to, or 0
  created,    \* how many sessions were created; orders the list
  files,      \* the JingleFTs, numbered as they were put in info_list
  nfiles,     \* how many were made, each a g_new0 of its own
  acks,       \* the JingleAckHandles with a callback
  nacks,      \* how many were made; gives each its identity
  events,     \* the pending /event entries
  connected,  \* the IQ handlers are registered with a connection
  aborted,    \* undefined behaviour has stopped the process
  obs         \* the last callback: what caused it and what it sent

vars == <<live, sess, cstate, cfile, created, files, nfiles, acks, nacks,
          events, connected, aborted, obs>>

sessionVars == <<live, sess, cstate, cfile, created>>
fileVars    == <<files, nfiles>>
ackVars     == <<acks, nacks>>

-----------------------------------------------------------------------------
(* Types *)

Jids      == Peers \cup {Me}
NoBody    == "nobody"
NoCond    == "none"
FileIndex == 1 .. MaxFiles

SessionState == {"absent", "PENDING", "ACTIVE", "ENDED"}
FileState    == {"unused", "PENDING", "STARTING", "ENDING", "ERROR", "freed"}

Session == [sid : Sids, from : Jids, to : Jids,
            origin : {"INCOMING", "OUTGOING"}, born : Nat,
            announced : BOOLEAN,        \* the peer has been told the sid
            inbound : SUBSET Names]     \* contents whose transport the peer gave us
JingleFT == [state : FileState, dir : {"INCOMING", "OUTGOING"}, full : BOOLEAN]
AckHandle == [n : Nat, kind : {"si", "sa"}, ptr : Addr, born : Nat,
              registered : BOOLEAN, freed : BOOLEAN]
Event     == [ptr : Addr, born : Nat]
Condition == {NoCond, "bad-request", "service-unavailable", "unexpected-request",
              "item-not-found", "feature-not-implemented", "unsupported-info",
              "unsupported-applications", "decline"}
Stanza    == [kind : {"result", "error", "session-initiate", "session-accept",
                      "session-terminate"},
              to : Jids, about : Jids, cond : Condition]

\* What started the last callback.
Cause == {"init", "wrong-namespace", "refused", "session-initiate", "session-info",
          "info-ping", "info-hash", "info-other", "session-accept", "session-terminate",
          "transport-info", "data", "send", "retry", "flush", "event-cancel", "event-accept",
          "event-reject", "result", "iq-error", "timeout", "late-reply", "disconnect",
          "connect"}

\* Offers: what one content of a session-initiate turns out to be.
\*   unknown       no module for its application or its transport
\*   badApp        the application module refuses the description
\*   badTransport  the application takes it, the transport module does not
Offers == {"none", "good", "unknown", "badApp", "badTransport"}

\* The entity at the other end of the session at a.
Recipient(a) == IF sess[a].origin = "INCOMING" THEN sess[a].from ELSE sess[a].to

\* Faulty: compares the initiator, also in the sessions we initiated.
Find_ByInitiator(s, p) == {a \in live : sess[a].sid = s /\ sess[a].from = p}

\* session_find_by_sid, session_find: the sessions that match.
Find(s, p) == {a \in live : sess[a].sid = s /\ Recipient(a) = p}

Contents(a) == {n \in Names : cstate[a][n] # "absent"}
FilesOf(a)  == {cfile[a][n] : n \in Contents(a)} \ {0}

\* Faulty: whatever is not being transferred is taken for finished.
Finished_NotStarted == {"PENDING", "ENDING", "ERROR"}

\* What /jft flush removes.
Finished == {"ENDING", "ERROR"}
InfoList == {f \in FileIndex : f <= nfiles /\ files[f].state # "freed"}

\* What one callback shows to the outside.
Saw(cause, from, out) == obs' = [cause |-> cause, from |-> from, out |-> out]
Msg(kind, to, about, cond) == [kind |-> kind, to |-> to, about |-> about, cond |-> cond]

\* Faulty: the error is built and not sent.
IqError_Unsent(p, cond) == <<>>

\* Faulty: the result is built without an address.
AckIq_NoAddress(p) == <<Msg("result", NoBody, p, NoCond)>>

\* jingle_ack_iq and jingle_send_iq_error.
AckIq(p)         == <<Msg("result", p, p, NoCond)>>
IqError(p, cond) == <<Msg("error", p, p, cond)>>

-----------------------------------------------------------------------------
(* sessions.c and send.c *)

Init ==
  /\ live = {}
  /\ \E s \in Sids :
       sess = [a \in Addr |-> [sid |-> s, from |-> Me, to |-> Me, origin |-> "OUTGOING",
                               born |-> 0, announced |-> FALSE, inbound |-> {}]]
  /\ cstate = [a \in Addr |-> [n \in Names |-> "absent"]]
  /\ cfile = [a \in Addr |-> [n \in Names |-> 0]]
  /\ created = 0
  /\ files = [f \in FileIndex |-> [state |-> "unused", dir |-> "INCOMING", full |-> FALSE]]
  /\ nfiles = 0
  /\ acks = {} /\ nacks = 0 /\ events = {}
  /\ connected = TRUE /\ aborted = FALSE
  /\ obs = [cause |-> "init", from |-> NoBody, out |-> <<>>]

\* session_remove.
Removed(a) == live \ {a}

\* session_free: the contents are gone, the rest of the struct stays as it was
\* until the address is used again.
session_free(a) ==
  /\ cstate' = [cstate EXCEPT ![a] = [n \in Names |-> "absent"]]
  /\ cfile' = [cfile EXCEPT ![a] = [n \in Names |-> 0]]
  /\ UNCHANGED <<sess, created>>

\* session_delete on an address that may be stale: whatever session lives there
\* goes; when none does it is a double free, which the allocator may catch.
session_delete(a) ==
  /\ live' = Removed(a) /\ session_free(a)
  /\ aborted' \in IF a \in live THEN {FALSE} ELSE BOOLEAN

\* jingle_new_ack_handler, for the two requests whose handle has a callback.
NewAck(kind, a, born, ok) ==
  [n |-> nacks + 1, kind |-> kind, ptr |-> a, born |-> born,
   registered |-> ok, freed |-> FALSE]

\* jingle_send_session_terminate addresses the field "to" of the session.
Terminate(a, reason) == Msg("session-terminate", sess[a].to, Recipient(a), reason)

-----------------------------------------------------------------------------
(* Incoming Jingle IQs of type set: jingle_handle_iq and the handlers *)

\* A remote entity uses a session id of ours only after we sent it.
CanName(s, p) == \A a \in Find(s, p) : sess[a].announced

\* A namespace that is not Jingle's: dropped without an answer.
WrongNamespace(p) ==
  /\ Saw("wrong-namespace", p, <<>>)
  /\ UNCHANGED <<sessionVars, fileVars, ackVars, events, connected, aborted>>

\* check_jingle fails, or the action has no handler in jingle_action_list.
RefusedIq(p) ==
  /\ \E cond \in {"bad-request", "feature-not-implemented"} :
       Saw("refused", p, IqError(p, cond))
  /\ UNCHANGED <<sessionVars, fileVars, ackVars, events, connected, aborted>>

\* check_contents fails: the contents it had found are freed, and stay in the
\* JingleNode, which frees them again.
RefusedContents(p, cause) ==
  /\ Saw(cause, p, IqError(p, "bad-request"))
  /\ aborted' \in BOOLEAN
  /\ UNCHANGED <<sessionVars, fileVars, ackVars, events, connected>>

\* The checks handle_session_initiate makes before it answers.
InitiateRefused(p, s, offer) ==
  \/ p \in Roster /\ RefusedContents(p, "session-initiate")
  \/ /\ \/ p \notin Roster /\ Saw("session-initiate", p, IqError(p, "service-unavailable"))
        \/ /\ p \in Roster                        \* no content, or none of disposition session
           /\ Saw("session-initiate", p, IqError(p, "bad-request"))
        \/ /\ p \in Roster /\ Find(s, p) # {} /\ \E n \in Names : offer[n] # "none"
           /\ Saw("session-initiate", p, IqError(p, "unexpected-request"))
     /\ UNCHANGED <<sessionVars, fileVars, ackVars, events, connected, aborted>>

\* The next k JingleFTs: each is allocated for its content and appended to info_list.
Entries(k) == nfiles + 1 .. nfiles + k

\* Faulty: an empty session is kept.
Unsupported_Kept(kept) == FALSE

\* No content of the session-initiate could be kept.
Unsupported(kept) == kept = {}

\* The session that is built, and the JingleFT of its contents: newfrommessage of
\* the application puts one in info_list before the transport is tried, where it
\* stays when the transport refuses the content.
SessionReceived(a, p, s, kept, entries, index, empty) ==
  /\ files' = [f \in FileIndex |->
                 IF f \in entries
                 THEN [state |-> "PENDING", dir |-> "INCOMING", full |-> f \in empty]
                 ELSE files[f]]
  /\ sess' = [sess EXCEPT ![a] = [sid |-> s, from |-> p, to |-> Me, origin |-> "INCOMING",
                                  born |-> created + 1, announced |-> TRUE, inbound |-> kept]]
  /\ cstate' = [cstate EXCEPT ![a] = [n \in Names |-> IF n \in kept THEN "PENDING" ELSE "absent"]]
  /\ cfile' = [cfile EXCEPT ![a] = [n \in Names |-> IF n \in kept THEN index[n] ELSE 0]]
  /\ IF Unsupported(kept)
     THEN /\ Saw("session-initiate", p,
                 AckIq(p) \o <<Msg("session-terminate", Me, p, "unsupported-applications")>>)
          /\ UNCHANGED <<live, events>>
     ELSE /\ Saw("session-initiate", p, AckIq(p))
          /\ live' = live \cup {a}
          /\ events' = events \cup {[ptr |-> a, born |-> created + 1]}

InitiateAccepted(p, s, offer) ==
  LET kept    == {n \in Names : offer[n] = "good"}
      opened  == {n \in Names : offer[n] \in {"good", "badTransport"}}
      known   == opened \cup {n \in Names : offer[n] = "badApp"}
      entries == Entries(Cardinality(opened))
  IN
  /\ p \in Roster /\ Find(s, p) = {} /\ \E n \in Names : offer[n] # "none"
  /\ created < MaxSessions /\ nfiles + Cardinality(opened) <= MaxFiles
  /\ \E a \in Addr \ live, index \in [opened -> entries], empty \in SUBSET entries :
       /\ \A m, n \in opened : index[m] = index[n] => m = n
       /\ SessionReceived(a, p, s, kept, entries, index, empty)
  /\ created' = created + 1 /\ nfiles' = nfiles + Cardinality(opened)
  \* "err" is freed but not reset: after a content that was refused, or had a bad
  \* creator, every other content frees it again
  /\ aborted' \in IF Cardinality(known) > 1 THEN BOOLEAN ELSE {FALSE}
  /\ UNCHANGED <<ackVars, connected>>

handle_session_initiate(p, s) ==
  \E offer \in [Names -> Offers] : InitiateRefused(p, s, offer) \/ InitiateAccepted(p, s, offer)

\* All handlers below start with this answer to a session they do not know.
UnknownSession(p, s, cause) ==
  /\ Find(s, p) = {}
  /\ Saw(cause, p, IqError(p, "item-not-found"))
  /\ UNCHANGED <<sessionVars, fileVars, ackVars, events, connected, aborted>>

\* handle returns JINGLE_STATUS_HANDLED, which is 0, so the test on its result
\* takes a hash (stored by then) for unknown and the first refusal for handled.
handle_session_info(p, s) ==
  \/ UnknownSession(p, s, "session-info")
  \/ /\ Find(s, p) # {}
     /\ \/ Saw("info-ping", p, AckIq(p))
        \/ Saw("info-hash", p, IqError(p, "unsupported-info"))
        \/ Saw("info-other", p, AckIq(p))
     /\ UNCHANGED <<sessionVars, fileVars, ackVars, events, connected, aborted>>

\* The transport's init does nothing for IBB: no start of the application follows.
handle_session_accept(p, s) ==
  \/ UnknownSession(p, s, "session-accept")
  \/ Find(s, p) # {} /\ RefusedContents(p, "session-accept")
  \/ \E a \in Find(s, p), named \in SUBSET Names :
       /\ cstate' = [cstate EXCEPT ![a] =
                       [n \in Names |-> IF n \in named \cap Contents(a)
                                        THEN "ACTIVE" ELSE cstate[a][n]]]
       /\ Saw("session-accept", p, AckIq(p))
       /\ UNCHANGED <<live, sess, cfile, created, fileVars, ackVars, events, connected, aborted>>

\* stop of the file transfer module, on the files of a set.
Stop(stopped) ==
  [f \in FileIndex |->
     IF f \in stopped
     THEN [files[f] EXCEPT !.state = IF files[f].full THEN "ENDING" ELSE "ERROR"]
     ELSE files[f]]

\* We have business about a session while the user has not answered its event
\* or a request about it has no reply yet.
Unfinished(a) ==
  \/ \E e \in events : e.ptr = a /\ e.born = sess[a].born
  \/ \E k \in acks : ~k.freed /\ k.ptr = a /\ k.born = sess[a].born

\* The stops of the contents the loop reaches, at least one.  It compares the sender
\* exactly, where session_find ignored the case: spelled otherwise than in the
\* session, he ends it and no content is stopped.
StopContents(a) ==
  \E reached \in SUBSET Contents(a), spelled \in BOOLEAN :
    /\ reached # {} \/ Contents(a) = {}
    /\ LET stopped == IF spelled THEN {cfile[a][n] : n \in reached} \ {0} ELSE {}
       IN files' = Stop({f \in stopped : files[f].state # "freed"})

\* The loop removes the link it stands on and reads its successor from the freed
\* link: it goes on with some of the contents, or ends the process there, as may
\* a stop of a freed JingleFT; the IQ then has no answer.
handle_session_terminate(p, s) ==
  \/ UnknownSession(p, s, "session-terminate")
  \/ \E a \in Find(s, p) :
       /\ "cancel" \notin Disorder => ~Unfinished(a)
       /\ \/ /\ StopContents(a)
             /\ live' = Removed(a) /\ session_free(a)
             /\ Saw("session-terminate", p, AckIq(p))
             /\ UNCHANGED <<nfiles, ackVars, events, connected, aborted>>
          \/ /\ Contents(a) # {} /\ aborted' = TRUE
             /\ Saw("session-terminate", p, <<>>)
             /\ UNCHANGED <<sessionVars, fileVars, ackVars, events, connected>>

\* check_contents is never called for a transport-info, so it has no contents.
handle_transport_info(p, s) ==
  \/ UnknownSession(p, s, "transport-info")
  \/ /\ Find(s, p) # {}
     /\ Saw("transport-info", p, IqError(p, "bad-request"))
     /\ UNCHANGED <<sessionVars, fileVars, ackVars, events, connected, aborted>>

jingle_handle_iq(p) ==
  /\ connected
  /\ \/ WrongNamespace(p)
     \/ RefusedIq(p)
     \/ \E s \in Sids :
          /\ CanName(s, p)
          /\ \/ handle_session_initiate(p, s)
             \/ handle_session_info(p, s)
             \/ handle_session_accept(p, s)
             \/ handle_session_terminate(p, s)
             \/ handle_transport_info(p, s)

\* handle_data of the file transfer module opens the file on the first block and
\* counts the bytes, unless opening or writing fails.
handle_data(f) ==
  \/ /\ files[f].state # "freed" /\ files[f].dir = "INCOMING"
     /\ \E full \in BOOLEAN :
          /\ files[f].full => full
          /\ files' = [files EXCEPT ![f] = [@ EXCEPT !.state = "STARTING", !.full = full]]
     /\ UNCHANGED aborted
  \/ files[f].state # "freed" /\ UNCHANGED <<files, aborted>>
  \/ files[f].state = "freed" /\ aborted' \in BOOLEAN /\ UNCHANGED files

\* An IBB data stanza for the transport of an incoming content, acknowledged by
\* the transport: the content is looked up, its state is not looked at.
handle_trans_data(a, n) ==
  /\ connected /\ a \in live /\ n \in Contents(a) \cap sess[a].inbound
  /\ handle_data(cfile[a][n])
  /\ Saw("data", Recipient(a), AckIq(Recipient(a)))
  /\ UNCHANGED <<sessionVars, nfiles, ackVars, events, connected>>

-----------------------------------------------------------------------------
(* The user: /jft and /event *)

\* The struct new_session_with_apps makes; its sid is a random one.
NewOutgoing(s, p) == [sid |-> s, from |-> Me, to |-> p, origin |-> "OUTGOING",
                      born |-> created + 1, announced |-> FALSE, inbound |-> {}]

\* session_find_by_app: the oldest session with the JingleFT, which is the new one
\* at a unless the JingleFT is retried.
session_find_by_app(f, a) ==
  LET holders == {b \in live : f \in FilesOf(b)} IN
  IF holders = {} THEN a
  ELSE CHOOSE b \in holders : \A c \in holders : sess[b].born <= sess[c].born

\* jingle_send_session_initiate for the session at b, which holds r: its handle is
\* kept even when sending fails and the session is deleted.
jingle_send_session_initiate(b, r, ok) ==
  /\ acks' = acks \cup {NewAck("si", b, r.born, ok)}
  /\ nacks' = nacks + 1

\* The struct after its content was offered: the transport is now ours.
Offered(r, ok) ==
  [r EXCEPT !.announced = IF ok THEN TRUE ELSE @, !.inbound = @ \ {FileName}]

\* new_session_with_apps at a, then jingle_handle_app, which looks the session up
\* again by its JingleFT.  It sends a session-initiate unless no transport module is
\* loaded, or session_add_trans crashes because the content is not there.
SessionOffered(f, p, cause, a, s, trans, ok) ==
  LET target  == session_find_by_app(f, a)
      lost    == target # a /\ cstate[target][FileName] = "absent"
      sends   == trans /\ ~lost
      deleted == IF sends /\ ~ok THEN {target} ELSE {}
      both    == [sess EXCEPT ![a] = NewOutgoing(s, p)]
      peer    == IF target = a THEN p ELSE Recipient(target)
  IN
  /\ live' = (live \cup {a}) \ deleted
  /\ cstate' = [b \in Addr |-> [n \in Names |->
                  IF b \in deleted THEN "absent"
                  ELSE IF b # a THEN cstate[b][n]
                  ELSE IF n = FileName THEN "PENDING" ELSE "absent"]]
  /\ cfile' = [b \in Addr |-> [n \in Names |->
                 IF b \in deleted THEN 0
                 ELSE IF b # a THEN cfile[b][n]
                 ELSE IF n = FileName THEN f ELSE 0]]
  /\ \/ /\ sends
        /\ jingle_send_session_initiate(target, both[target], ok)
        /\ sess' = [both EXCEPT ![target] = Offered(both[target], ok)]
        /\ Saw(cause, NoBody,
               IF ok THEN <<Msg("session-initiate", peer, peer, NoCond)>> ELSE <<>>)
        /\ UNCHANGED aborted
     \/ /\ ~sends
        /\ sess' = both
        /\ aborted' = trans
        /\ Saw(cause, NoBody, <<>>)
        /\ UNCHANGED ackVars

\* The end of _jft_send.
JftOffer(f, p, cause, fs) ==
  /\ created < MaxSessions /\ nacks < MaxAcks
  /\ \E a \in Addr \ live, s \in Sids \ {sess[b].sid : b \in live}, trans \in BOOLEAN,
        ok \in IF "linkfail" \in Disorder THEN BOOLEAN ELSE {TRUE} :
       SessionOffered(f, p, cause, a, s, trans, ok)
  /\ created' = created + 1
  /\ files' = fs
  /\ UNCHANGED <<events, connected>>

\* The JingleFT ends in ERROR and no session is made: the file cannot be opened,
\* no buddy has the focus, or it has no resource that speaks Jingle.
JftFails(cause, fs) ==
  /\ files' = fs
  /\ Saw(cause, NoBody, <<>>)
  /\ UNCHANGED <<sessionVars, ackVars, events, connected, aborted>>

jft_send(p) ==
  /\ nfiles < MaxFiles
  /\ nfiles' = nfiles + 1
  /\ \E empty \in BOOLEAN :
       LET File(st) == [files EXCEPT ![nfiles + 1] =
                          [state |-> st, dir |-> "OUTGOING", full |-> empty]] IN
       \/ JftFails("send", File("ERROR"))
       \/ connected /\ JftOffer(nfiles + 1, p, "send", File("PENDING"))

\* A stray semicolon ends the search at the first entry of info_list, whatever
\* number was asked for; its size and its count are reset to 0.
jft_retry(p) ==
  /\ "retry" \in Disorder /\ InfoList # {}
  /\ LET f == CHOOSE g \in InfoList : \A h \in InfoList : g <= h
         File(st) == [files EXCEPT ![f] = [@ EXCEPT !.state = st, !.full = TRUE]] IN
     \/ JftFails("retry", File("ERROR"))
     \/ connected /\ JftOffer(f, p, "retry", File("PENDING"))
  /\ UNCHANGED nfiles

\* When the first entry is freed the walk goes on from its freed link: it is lost
\* there, or finds its way to the next entry.
jft_flush ==
  LET done     == {f \in InfoList : files[f].state \in Finished}
      headDone == \E f \in done : \A g \in InfoList : f <= g
      Freed(S) == [f \in FileIndex |->
                     IF f \in S THEN [files[f] EXCEPT !.state = "freed", !.full = FALSE]
                     ELSE files[f]]
  IN
  /\ done # {}
  /\ \/ files' = Freed(done)
     \/ \E f \in done : (\A g \in InfoList : f <= g) /\ files' = Freed({f})
  /\ aborted' \in IF headDone /\ Cardinality(InfoList) > 1 THEN BOOLEAN ELSE {FALSE}
  /\ Saw("flush", NoBody, <<>>)
  /\ UNCHANGED <<sessionVars, nfiles, ackVars, events, connected>>

\* jingle_send_session_accept.
jingle_send_session_accept(a) ==
  /\ nacks < MaxAcks
  /\ acks' = acks \cup {NewAck("sa", a, sess[a].born, connected)}
  /\ nacks' = nacks + 1
  /\ Saw("event-accept", NoBody,
         IF connected THEN <<Msg("session-accept", Recipient(a), Recipient(a), NoCond)>> ELSE <<>>)

\* evscallback_jingle, run once per event.  It never asks whether the session at
\* the address is still there: a freed struct is read as it was left, or worse.
evscallback_jingle(e) ==
  LET a == e.ptr IN
  /\ e \in events
  /\ events' = events \ {e}
  /\ aborted' \in IF a \in live THEN {FALSE} ELSE BOOLEAN
  /\ \/ Saw("event-cancel", NoBody, <<>>) /\ UNCHANGED ackVars
     \/ jingle_send_session_accept(a)
     \/ /\ Saw("event-reject", NoBody,
               IF connected THEN <<Terminate(a, "decline")>> ELSE <<>>)
        /\ UNCHANGED ackVars
  /\ UNCHANGED <<sessionVars, fileVars, connected>>

-----------------------------------------------------------------------------
(* Replies, timeouts and the connection *)

\* Faulty: jingle_ack_handler_free is not called.
Consumed_Not(k) == acks

\* jingle_ack_handler_free, and loudmouth forgetting the request.
Consumed(k) == acks \ {k}

\* jingle_handle_ack_iq_si and jingle_handle_ack_iq_sa do the same: only a result
\* leaves the session alone.
AckCallback(k, answer) ==
  \/ answer = "result" /\ UNCHANGED <<sessionVars, aborted>>
  \/ answer \in {"iq-error", "timeout"} /\ session_delete(k.ptr)

\* jingle_handle_ack_iq: the reply to a request of ours.
Reply(k) ==
  /\ k \in acks /\ k.registered /\ ~k.freed /\ connected
  /\ acks' = Consumed(k)
  /\ \E answer \in {"result", "iq-error"} :
       Saw(answer, Recipient(k.ptr), <<>>) /\ AckCallback(k, answer)
  /\ UNCHANGED <<fileVars, nacks, events, connected>>

\* Faulty: a handle whose request could not be sent never expires.
Expires_IfSent(k) == ~k.freed /\ k.registered

\* Both requests are given 60 s; a freed handle is not in the list.
Expires(k) == ~k.freed

\* jingle_ack_timeout_checker: the callback deletes the session, the handle is
\* freed.  Loudmouth still holds it as the handler of the reply.
Timeout(k) ==
  /\ k \in acks /\ Expires(k)
  /\ acks' = (acks \ {k}) \cup (IF k.registered THEN {[k EXCEPT !.freed = TRUE]} ELSE {})
  /\ AckCallback(k, "timeout")
  /\ Saw("timeout", NoBody, <<>>)
  /\ UNCHANGED <<fileVars, nacks, events, connected>>

\* The reply to a request that timed out: the freed handle is used again.
LateReply(k) ==
  /\ "late" \in Disorder
  /\ k \in acks /\ k.freed /\ k.registered /\ connected
  /\ acks' = acks \ {k}
  /\ \/ /\ aborted' \in BOOLEAN
        /\ UNCHANGED sessionVars
     \/ \E answer \in {"result", "iq-error"} : AckCallback(k, answer)
  /\ Saw("late-reply", NoBody, <<>>)
  /\ UNCHANGED <<fileVars, nacks, events, connected>>

\* HOOK_PRE_DISCONNECT: sessions, events and handles all stay, but no reply to an
\* earlier request can arrive any more.
Disconnect ==
  /\ connected /\ connected' = FALSE
  /\ acks' = {[k EXCEPT !.registered = FALSE] : k \in {j \in acks : ~j.freed}}
  /\ Saw("disconnect", NoBody, <<>>)
  /\ UNCHANGED <<sessionVars, fileVars, nacks, events, aborted>>

Connect ==
  /\ ~connected /\ connected' = TRUE
  /\ Saw("connect", NoBody, <<>>)
  /\ UNCHANGED <<sessionVars, fileVars, ackVars, events, aborted>>

Peer(p) == jingle_handle_iq(p)
User == \/ \E p \in Roster : jft_send(p) \/ jft_retry(p)     \* the buddy who has the focus
        \/ jft_flush
        \/ \E e \in events : evscallback_jingle(e)
Network == \/ \E k \in acks : Reply(k) \/ LateReply(k)
           \/ Connect \/ Disconnect
           \/ \E a \in live, n \in Names : handle_trans_data(a, n)
Timer == \E k \in acks : Timeout(k)

\* A process that undefined behaviour has stopped does nothing more.
Next == /\ ~aborted
        /\ \/ \E p \in Peers : Peer(p)
           \/ User \/ Network \/ Timer

Spec == Init /\ [][Next]_vars

\* The glib timer runs every 3 s as long as the process does; users and peers
\* need not do anything.
FairSpec == Spec /\ WF_vars(~aborted /\ Timer)

-----------------------------------------------------------------------------
(* Properties *)

TypeOK ==
  /\ live \subseteq Addr
  /\ sess \in [Addr -> Session]
  /\ cstate \in [Addr -> [Names -> SessionState]]
  /\ cfile \in [Addr -> [Names -> 0 .. MaxFiles]]
  /\ created \in Nat
  /\ files \in [FileIndex -> JingleFT]
  /\ nfiles \in 0 .. MaxFiles
  /\ acks \subseteq AckHandle /\ nacks \in Nat
  /\ events \subseteq Event
  /\ connected \in BOOLEAN /\ aborted \in BOOLEAN
  /\ obs \in [cause : Cause, from : Jids \cup {NoBody}, out : Seq(Stanza)]

\* A sid and an entity name at most one session, whoever initiated it and
\* whatever became of earlier ones: session_find_by_sid returns the first match
\* and every handler acts on it.
UniqueSession ==
  \A a, b \in live : sess[a].sid = sess[b].sid /\ Recipient(a) = Recipient(b) => a = b

\* A session in the list has a content: the handlers, lm_message_from_jinglesession
\* and the /event prompt never meet an empty one.
NoEmptySession == \A a \in live : Contents(a) # {}

\* Every IQ in our namespaces is answered exactly once and to its sender, on every
\* path through check_jingle and the handlers (jingle_ack_iq, jingle_send_iq_error),
\* unless the process ends before the answer.
Iqs == {"refused", "session-initiate", "session-info", "info-ping", "info-hash", "info-other",
        "session-accept", "session-terminate", "transport-info"}
RepliedOnce ==
  obs.cause \in Iqs =>
    \/ \E i \in DOMAIN obs.out :
         /\ {j \in DOMAIN obs.out : obs.out[j].kind \in {"result", "error"}} = {i}
         /\ obs.out[i].to = obs.from
    \/ aborted /\ obs.out = <<>>
OneReply == [][RepliedOnce']_vars

\* The struct an event or a handle will be called back with is the one it was made
\* for, and is still in the list.
LiveRefs ==
  /\ \A e \in events : e.ptr \in live /\ sess[e.ptr].born = e.born
  /\ \A k \in acks : ~k.freed => k.ptr \in live /\ sess[k.ptr].born = k.born

\* An address is kept by one event or one handle that is not freed, never by two:
\* the callback of one would delete the session of the other.
OneRef ==
  /\ \A e \in events, k \in acks : ~k.freed => e.ptr # k.ptr
  /\ \A d, e \in events : d.ptr = e.ptr => d = e
  /\ \A j, k \in acks : ~j.freed /\ ~k.freed /\ j.ptr = k.ptr => j = k

Refs == LiveRefs /\ OneRef

\* The steps that leave the address of a freed session with an event or a handle,
\* as the code does not ask for either: a session-terminate or a late reply ends a
\* session we have unfinished business about, or a session-initiate cannot be
\* sent.  A retry gives a session a second handle.
Severs ==
  \/ /\ obs'.cause \in {"session-terminate", "late-reply"}
     /\ \E a \in live \ live' : Unfinished(a)
  \/ obs'.cause = "send" /\ obs'.out = <<>>
  \/ obs'.cause = "retry"

\* As long as every address kept by an event or a handle is good, only those steps
\* make one bad: no error reply, timeout, answer of the user, invitation, flush or
\* lost connection does, whatever is allocated where.
OnlyTheseSever == [][Refs /\ ~Severs => Refs']_vars

\* A content in the list points to a JingleFT that is neither finished nor freed,
\* so /jft flush frees nothing a later stanza could reach.
ContentsUnfinished ==
  \A a \in live : \A f \in FilesOf(a) : files[f].state \in {"PENDING", "STARTING"}

\* A session-initiate or session-accept does not wait for ever: its handle is
\* used by a reply or by the timeout, also when it could not be sent or the
\* connection was lost.
Waiting(i) == \E k \in acks : k.n = i /\ ~k.freed
RequestsResolve == \A i \in 1 .. MaxAcks : Waiting(i) ~> ~Waiting(i) \/ aborted

-----------------------------------------------------------------------------
(* What comments and documents say, and the code does not do *)

\* sessions.h: "recipient", the entity we send IQs to, is from or to depending on
\* who initiated; jingle_send_session_terminate uses to.
TerminateReachesPeer ==
  [][\A i \in DOMAIN obs'.out :
       obs'.out[i].kind = "session-terminate" => obs'.out[i].to = obs'.out[i].about]_vars

\* doc.txt: start means the session was accepted and the transfer can begin.
AcceptedStarts ==
  \A f \in FileIndex :
     (\E a \in live, n \in Names : sess[a].origin = "OUTGOING" /\ cfile[a][n] = f
                                   /\ cstate[a][n] = "ACTIVE")
     ~> files[f].state # "PENDING" \/ aborted
=============================================================================
