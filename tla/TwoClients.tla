----------------------------- MODULE TwoClients -----------------------------
(***************************************************************************)
(* Two clients that run this program and talk to each other.               *)
(***************************************************************************)
EXTENDS Naturals, FiniteSets, Sequences

CONSTANTS
  Alice, Bob,
  FileName, Addr, MaxSessions, MaxFiles, MaxAcks,   \* as in Jingle
  MaxOffersA, MaxOffersB,                           \* as in Client
  MaxLosses      \* bound: connections lost

ASSUME ClientsAssumption == Alice # Bob
ASSUME LimitsAssumption  == MaxSessions \in Nat /\ MaxFiles \in Nat /\ MaxAcks \in Nat

VARIABLES
  liveA, sessA, cstateA, cfileA, createdA, filesA, nfilesA, acksA, nacksA, eventsA,
  connectedA, abortedA, obsA,
  liveB, sessB, cstateB, cfileB, createdB, filesB, nfilesB, acksB, nacksB, eventsB,
  connectedB, abortedB, obsB,
  toA, toB,      \* the streams
  losses         \* how many connections were lost

clientA == <<liveA, sessA, cstateA, cfileA, createdA, filesA, nfilesA, acksA, nacksA, eventsA,
             connectedA, abortedA, obsA>>
clientB == <<liveB, sessB, cstateB, cfileB, createdB, filesB, nfilesB, acksB, nacksB, eventsB,
             connectedB, abortedB, obsB>>
wires   == <<toA, toB>>
vars    == <<clientA, clientB, wires, losses>>

\* The session identifiers each of them draws.
Sids == ({Alice} \X (1 .. MaxOffersA)) \cup ({Bob} \X (1 .. MaxOffersB))

\* Alice's and Bob's client, when the wrong that can be done around one is in disorder.
A(disorder) == INSTANCE Client WITH
  Me <- Alice, Peers <- {Bob}, Roster <- {Bob}, Other <- Bob, MaxOffers <- MaxOffersA,
  Names <- {FileName}, Disorder <- disorder,
  live <- liveA, sess <- sessA, cstate <- cstateA, cfile <- cfileA, created <- createdA,
  files <- filesA, nfiles <- nfilesA, acks <- acksA, nacks <- nacksA, events <- eventsA,
  connected <- connectedA, aborted <- abortedA, obs <- obsA, inbox <- toA, outbox <- toB
B(disorder) == INSTANCE Client WITH
  Me <- Bob, Peers <- {Alice}, Roster <- {Alice}, Other <- Alice, MaxOffers <- MaxOffersB,
  Names <- {FileName}, Disorder <- disorder,
  live <- liveB, sess <- sessB, cstate <- cstateB, cfile <- cfileB, created <- createdB,
  files <- filesB, nfiles <- nfilesB, acks <- acksB, nacks <- nacksB, events <- eventsB,
  connected <- connectedB, aborted <- abortedB, obs <- obsB, inbox <- toB, outbox <- toA

\* Nothing is assumed about the order of what the other sends.
Any == {"cancel", "late"}

Init == A(Any)!Init /\ B(Any)!Init /\ toA = <<>> /\ toB = <<>> /\ losses = 0

StepA ==
  /\ A(Any)!ClientNext /\ UNCHANGED clientB
  /\ losses' = IF connectedA /\ ~connectedA' THEN losses + 1 ELSE losses
StepB ==
  /\ B(Any)!ClientNext /\ UNCHANGED clientA
  /\ losses' = IF connectedB /\ ~connectedB' THEN losses + 1 ELSE losses

Next == (StepA \/ StepB) /\ losses' <= MaxLosses

Spec == Init /\ [][Next]_vars

\* Streams are read and timers run; users do what they like.
FairSpec ==
  /\ Spec
  /\ WF_vars((A(Any)!Deliver \/ A(Any)!Undelivered) /\ UNCHANGED <<clientB, losses>>)
  /\ WF_vars((B(Any)!Deliver \/ B(Any)!Undelivered) /\ UNCHANGED <<clientA, losses>>)
  /\ WF_vars(A(Any)!Expire /\ UNCHANGED <<clientB, losses>>)
  /\ WF_vars(B(Any)!Expire /\ UNCHANGED <<clientA, losses>>)

-----------------------------------------------------------------------------
(* Properties *)

\* Each client, seen by itself, is one around which nothing is in disorder: no session
\* ends by a session-terminate while there is unfinished business about it and no reply
\* comes late.  Other peers may do both; two clients of this program never do it to each
\* other, also when connections are lost.
InOrder == /\ A({})!Init /\ [][A({})!Next]_clientA
           /\ B({})!Init /\ [][B({})!Next]_clientB

SidsOf(live, sess, origin) == {sess[a].sid : a \in {b \in live : sess[b].origin = origin}}

\* As long as no connection was lost, a session somebody was invited to is one the
\* other knows, and a session that is active where it was offered still exists where it
\* was accepted: neither is deleted behind the other's back.
Accompanied ==
  losses = 0 =>
    /\ SidsOf(liveA, sessA, "INCOMING") \subseteq SidsOf(liveB, sessB, "OUTGOING")
    /\ SidsOf(liveB, sessB, "INCOMING") \subseteq SidsOf(liveA, sessA, "OUTGOING")
    /\ \A a \in liveA : cstateA[a][FileName] = "ACTIVE" =>
         sessA[a].sid \in SidsOf(liveB, sessB, "INCOMING")
    /\ \A b \in liveB : cstateB[b][FileName] = "ACTIVE" =>
         sessB[b].sid \in SidsOf(liveA, sessA, "INCOMING")

\* A session-accept on its way comes to make the session active where it was offered,
\* while it still exists where it was accepted, unless a connection is lost: no timeout
\* and no answer to another request comes between.  After a loss either of them can be
\* left alone with the session for ever.
Accepted(s) == \E i \in DOMAIN toA : toA[i].kind = "session-accept" /\ toA[i].sid = s
Joined(s) ==
  /\ \E a \in liveA : sessA[a].sid = s /\ cstateA[a][FileName] = "ACTIVE"
  /\ s \in SidsOf(liveB, sessB, "INCOMING")
AcceptanceJoins ==
  \A s \in {Alice} \X (1 .. MaxOffersA) : Accepted(s) ~> Joined(s) \/ losses > 0
=============================================================================
