------------------------------- MODULE Client -------------------------------
(***************************************************************************)
(* A session core (Jingle) whose peer is another one.  The two are joined  *)
(* by an XMPP stream each way, which keeps the order of stanzas and may    *)
(* lose them when a connection is lost.  What Jingle leaves open, which    *)
(* stanza comes next and with what in it, is here what the peer sent; a    *)
(* reply is found by loudmouth through the id of the request.              *)
(*                                                                         *)
(* A stanza of ours that is addressed to ourselves never reaches the peer; *)
(* we answer it with item-not-found, which changes nothing.                *)
(***************************************************************************)
EXTENDS Jingle

CONSTANTS
  Other,         \* the full jid of the peer
  MaxOffers      \* bound: transfers offered with /jft send

VARIABLES
  inbox,         \* the stanzas on their way to us
  outbox         \* the stanzas on their way to the peer

wires == <<inbox, outbox>>

\* The iq stanzas of type set; n is the handle of the reply, 0 when it has no callback.
Requests == {"session-initiate", "session-accept", "session-terminate"}

\* The stanza at place i of those the last callback sent, if it is for the peer.
Carried(i, sid, n) ==
  IF i \in DOMAIN obs'.out /\ obs'.out[i].to = Other
  THEN <<[kind |-> obs'.out[i].kind, sid |-> sid,
          n |-> IF obs'.out[i].kind = "session-terminate" THEN 0 ELSE n]>>
  ELSE <<>>

\* No callback sends more than two stanzas.
Sent(sid, n) == Carried(1, sid, n) \o Carried(2, sid, n)

Send(sid, n) == outbox' = outbox \o Sent(sid, n)

-----------------------------------------------------------------------------
(* The user *)

\* Whether a file is empty makes no difference here, where no data is sent.
NoEmptyFile == \A f \in FileIndex : ~files'[f].full

OwnOffers == Cardinality({f \in FileIndex : files[f].dir = "OUTGOING"})

\* jingle_generate_sid draws a name no client ever used.
NewSid == <<Me, OwnOffers + 1>>

Offer ==
  /\ OwnOffers < MaxOffers
  /\ jft_send(Other)
  /\ NoEmptyFile /\ \A a \in live' \ live : sess'[a].sid = NewSid
  /\ Send(NewSid, nacks') /\ UNCHANGED inbox

AnswerEvent ==
  \E e \in events :
    /\ evscallback_jingle(e)
    /\ Send(sess[e.ptr].sid, nacks') /\ UNCHANGED inbox

-----------------------------------------------------------------------------
(* Stanzas *)

\* The peer's requests are well formed, so no check of their contents fails, and its
\* session-accept names every content of the session.
Requested(m) ==
  /\ \/ m.kind = "session-initiate" /\ handle_session_initiate(Other, m.sid)
     \/ /\ m.kind = "session-accept" /\ handle_session_accept(Other, m.sid)
        /\ \A a \in Find(m.sid, Other) : \A n \in Contents(a) : cstate'[a][n] = "ACTIVE"
     \/ m.kind = "session-terminate" /\ handle_session_terminate(Other, m.sid)
  /\ NoEmptyFile /\ \A i \in DOMAIN obs'.out : obs'.out[i].cond # "bad-request"
  /\ Send(m.sid, m.n)

\* A reply nobody waits for is dropped by loudmouth.
Answered(m) ==
  /\ m.kind \in {"result", "error"} /\ UNCHANGED outbox
  /\ LET asked == {k \in acks : k.n = m.n /\ k.registered} IN
     \/ asked = {} /\ UNCHANGED vars
     \/ \E k \in asked :
          \/ Reply(k) /\ obs'.cause = IF m.kind = "result" THEN "result" ELSE "iq-error"
          \/ k.freed /\ LateReply(k)

Deliver ==
  /\ ~aborted /\ connected /\ inbox # <<>>
  /\ Requested(Head(inbox)) \/ Answered(Head(inbox))
  /\ inbox' = Tail(inbox)

\* The server answers a request to someone who is not connected, unless it does not
\* know yet that the connection is gone.
Undelivered ==
  /\ ~connected /\ inbox # <<>>
  /\ \/ UNCHANGED outbox
     \/ /\ Head(inbox).kind \in Requests
        /\ outbox' = Append(outbox, [Head(inbox) EXCEPT !.kind = "error"])
  /\ inbox' = Tail(inbox) /\ UNCHANGED vars

-----------------------------------------------------------------------------
(* Time and the connection *)

\* Faulty: the timeout is shorter than what a stanza may take.
UnderWay_Never(k) == FALSE

\* No stanza is on its way for the 60 s of a timeout.
UnderWay(k) ==
  \/ \E i \in DOMAIN outbox : outbox[i].kind \in Requests /\ outbox[i].n = k.n
  \/ \E i \in DOMAIN inbox : inbox[i].kind \notin Requests /\ inbox[i].n = k.n

Expire ==
  /\ ~aborted
  /\ \E k \in acks : ~UnderWay(k) /\ Timeout(k)
  /\ UNCHANGED wires

\* What was sent last may be lost with the connection.
Lose ==
  /\ ~aborted /\ Disconnect
  /\ \E i \in 0 .. Len(outbox) : outbox' = SubSeq(outbox, 1, i)
  /\ UNCHANGED inbox

Reconnect == ~aborted /\ Connect /\ UNCHANGED wires

ClientNext ==
  \/ ~aborted /\ (Offer \/ AnswerEvent)
  \/ Deliver \/ Undelivered \/ Expire
  \/ Lose \/ Reconnect
=============================================================================
