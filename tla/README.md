# mcabber-jingle in TLA+

A model of mcabber-jingle, the Jingle (XEP-0166) modules of the mcabber XMPP client: the
session core (`jingle/`), the file transfer application (`jingle-ft/`) and the two transports,
in-band bytestreams (`jingle-ibb/`) and SOCKS5 bytestreams (`jingle-s5b/`). Every definition is
translated from the C source; `PROJECT.json` maps it to its lines.

The whole program runs in one glib main loop. Nothing runs in parallel; what makes it hard is
that loudmouth, the glib timer, the user's `/event` and the peer all call back later, with an
address as user data, and that the code seldom asks whether what lives at that address is still
what it was.

## 1. The system

| Component | State | Operations | Interacts with |
|---|---|---|---|
| Session core (`sessions.c`, `action-handlers.c`, `send.c`, `jingle.c`) | the list `sessions`; per session sid, from, to, origin and a list of contents (name, state, functions and opaque data of its application and its transport) | one handler per Jingle action; `new_session_with_apps`, `jingle_handle_app`; the callbacks of session-initiate and session-accept; `/event` | called by loudmouth with IQs and replies, by the applications and transports with data; calls their functions through the register |
| Acknowledgement handles (`jingle.c`) | the list `ack_handlers`; loudmouth's table of pending replies | `jingle_new_ack_handler`, `jingle_handle_ack_iq`, `jingle_ack_timeout_checker` (every 3 s) | the callbacks delete sessions, go on with a transfer |
| Check of elements (`check.c`) | one `JingleNode` and its `JingleContent`s per IQ | `check_jingle`, `check_contents`, `jingle_free_jinglenode` | the handlers dereference what it let pass |
| Register (`register.c`) | two lists of modules | register, unregister, lookup, `jingle_transport_for_app` | mcabber loads and unloads modules |
| File transfer (`filetransfer.c`) | `info_list` of `JingleFT` (state, direction, bytes transmitted, file channel, hash) and its counter | `/jft send, info, flush, retry`; `newfrommessage`, `handle_data`, `start`, `send`, `stop` | contents point to its `JingleFT`s |
| In-band bytestreams (`ibb.c`) | per content: block size, sequence number, buffer | `send`, `end`, IQ handler of data, callback of a block's acknowledgement | pulls data from the application through `handle_trans_next` |
| SOCKS5 bytestreams (`s5b.c`) | candidates, current attempt, reference-counted arguments shared with a 5 s timer | `init`, `_send_internal`, attempt, result, cancel | asynchronous connections |
| SOCKS5 protocol (`socks5-proto.c`) | position in the handshake, buffers | asynchronous client and server handshake | glib streams |

What is hard, and what makes each part correct:

* **Stale addresses.** Events and handles keep the address of a session that a session-terminate,
  a failed send, an error reply or a timeout may have freed, and at which another session may have
  been allocated. Right means: whoever is called back acts on the session it was meant for.
* **Sessions named twice.** `session_find` returns the first match of a sid and a peer; right means
  there is only one, in both directions, across deletions and reuse.
* **Contents and transfers.** A `JingleFT` is listed in `info_list`, pointed to by a content, stopped
  by session-terminate, freed by `/jft flush` and reused by `/jft retry`. Right means that nothing a
  content leads to is finished or freed.
* **Timeouts against answers.** The checker frees a handle that loudmouth still holds. Right would mean one
  outcome per request; what holds is an outcome for each, and a second only from a reply after the timeout.
* **Every IQ answered once**, on each of about a dozen early returns, unless the process ends first.
* **A stream cut into blocks.** Reads of one size, blocks of another, negotiated downwards even in
  mid-transfer, a buffer that moves, errors that are taken for acknowledgements. Right means: in order, complete
  only with all of the file, one block under way, no block longer than agreed, nothing outside the buffer.
* **Memory of an IQ.** Three places free a content of an IQ; the handlers dereference what was checked.
* **Modules come and go** in any order, and the best transport depends on the lists.

`PROJECT.json` lists each hazard at its line with the properties that would catch it.

## 2. Plan

Modules in order, with what they compose:

1. `Jingle` — session core, handles seen from it, `/event`, info_list. *Done*, with `JingleProofs`
   (types, replies, sessions, transfers, what makes an address stale).
2. `AckHandlers` implements `AckPromise` (abstract). *Done*; `AckProofs` proves the refinement.
3. `IbbTransfer` implements `ByteStream` (abstract), with the hash exchange. *Done*; `IbbProofs` proves
   every safety property of it and the refinement.
4. `JingleCheck`, `Registry`. *Done*, with `CheckProofs` and `RegistryProofs`.
5. `S5bConnect` — candidates, attempts, the 5 s timer and the shared reference count. *Done*, with
   `S5bProofs`.
6. `Socks5` — the client and the server handshake, against each other and against foreign ends. *Done*, with
   `Socks5Proofs`.
7. `Client` extends `Jingle` with the streams to a peer, `TwoClients` puts two of them together. *Done*: the lemmas
   about one client end `JingleProofs`, `TwoClientsProofs` puts them together.

Left: `Registry` x `Jingle`, a module unloaded while a content has its functions; a second session-accept
while SOCKS5 attempts are under way.

## 3. Modules and code

### Jingle

`live` is the list `sessions`; `sess`, `cstate`, `cfile` are what the struct at each address of
`Addr` holds. They keep their values when the struct is freed (except the contents), as memory does.
A session has a history variable `born`, its number; a handle or an event has the `born` of the
session it was made for, so that `OnlyTheseSever` can tell a session from another at the same address.
`files` and `nfiles` are the `JingleFT`s in the order of `info_list`, each a `g_new0` of its own; `acks` are the handles of
session-initiate and session-accept, `registered` when loudmouth has them too and `freed` when the
checker freed them. `obs` is what the last callback sent and what caused it; the handlers' effect on
the outside is checked through it.

| Action | Code | What to know |
|---|---|---|
| `WrongNamespace`, `RefusedIq` | `jingle_handle_iq`, `check_jingle` | the details of the checks are in `JingleCheck` |
| `handle_session_initiate` | same | `Offers` gives each content an outcome: kept, unknown module, refused by application or by transport (the `JingleFT` then stays in `info_list`) |
| `handle_session_info` | same | the inverted test of the status (line 198) is kept |
| `handle_session_accept` | same | contents named become ACTIVE; the transport's `init` is empty for IBB |
| `handle_session_terminate` | same | the walk over the list it empties: some contents are stopped, at least one, or the process ends before the answer; the sender is compared exactly (line 280) where `session_find` ignores case, so he may end the session and stop nothing |
| `handle_transport_info` | same | always refused: nothing calls `check_contents` for it |
| `handle_trans_data` | `handle_trans_data`, `handle_data` | looks at no state; opens the file on the first block |
| `jft_send`, `jft_retry`, `jft_flush` | `_jft_send` … | `session_find_by_app` may find another session than the new one; the semicolon of `_jft_retry` is kept |
| `evscallback_jingle` | same | accept, reject, cancel, on whatever is at the address |
| `Reply`, `LateReply`, `Timeout` | `jingle_handle_ack_iq`, `jingle_ack_timeout_checker` | `AckCallback` is the two callbacks |
| `Disconnect`, `Connect` | the hooks | nothing is cleared |

Undefined behaviour is a choice: a read of a freed link stops or goes on, a double free sets
`aborted` or passes. Once `aborted` nothing happens any more. A stale session is used as it was left,
or as the session that was allocated there since.

Abstractions: contents have no order (so "those up to where the walk was lost" is any non-empty
subset); names of contents are distinct in one session-initiate; a sid of ours is one no live session
has, as the code takes a random one; handles without a callback (terminate, hash) do nothing when
called back and are left out; that `Peers` can name a session of ours only after it was announced;
the buddy who has the focus is in the roster. The choice of a compatible resource, opening the file
and loaded transports are nondeterministic outcomes of `/jft send`.

`Disorder` names what may go wrong around us: `cancel` (a peer ends a session while we have an event
or a request about it), `late` (a reply after its timeout), `linkfail` (a session-initiate cannot be
sent), `retry` (`/jft retry` is used). All four are legal, and the code has no answer to them: with any of them
it goes on with the address of a freed session (`LiveRefs` is false).

* `cancel`: p invites us, the `/event` keeps the address of the session, p ends it. When the user accepts, the freed
  struct is read (`evscallback_jingle`), and a handle is made with its address; when that handle times
  out, `session_delete` frees it again, or whatever session was allocated there since.
* `linkfail`: the session is deleted as the session-initiate cannot be sent, its handle stays and does the same 60 s later.
* `late`: the callback of a freed handle runs again and deletes the session a second time.
* `retry`: a session has two handles; the timeout of one deletes the session the other leads to.

`jingle_full` has all four, with what follows from them: the freed struct is read as it was left or as the new session,
or the process ends. `OnlyTheseSever` says that nothing *else* makes an address bad: a step that spoils one is one of those, whatever
timeouts, error replies, invitations and reused addresses there are. `ContentsUnfinished` is false only with `retry`.

### AckHandlers, AckPromise

`AckHandlers` has the list in order and loudmouth's table. The checker's walk is modelled link by
link where it matters: when the head expires, `prev` is the freed head itself, and unless the list has become
empty the walk reads a freed link (`Walked`). `AckPromise` is about the callbacks: a request waits until a response or, if
it has a timeout, a timeout, which is all that `jingle.h:165-188` says. What the code does beyond it is an action of its own
there, `AnswerAgain`: the answer after a timeout calls back once more, or ends the process. The refinement keeps every
callback of every handle (`calls`), so a second one made in any other way would show. That it is made at all
contradicts jingle.h (`AtMostOnce`, run `doc_ack`). Time is counted in visits of the checker.

### IbbTransfer, ByteStream

One transfer from the application's `start`. `Pump` is the mutual recursion of `send` in
`filetransfer.c` and in `ibb.c`: reads until a block is full (`FillsBlock`), the file ends (`ReachesEnd`), or
a read fails (`ReadFails`). At the end of the file the last block, the hash of what was read (session-info)
and the session-terminate go out one after the other (`Farewell`); the receiver keeps the hash (`ReceiveHash`)
and compares it at the end with that of what it was handed (`Checked`). The md5 of bytes is the bytes. A byte is its
position in the file. The callback of an answer does not look at its type (ibb.c:243, a TODO of the
code): `replies` counts results and errors alike, and `LoseBlock` is a block nobody takes. An error comes back when
the receiver is away or does not know the sid, and the sender goes on with the next block: the receiver has a hole. So `ByteStream` is less
than `register.h:30-32` says of a streaming transport ("reliably and in order"): the
application is handed pieces of the file in their order and none twice, pieces may be missing, it may fail to write some, and the transfer is complete
only when everything was handed over and written. Only blocks can be lost singly; the hash and the end of the session
are lost only with the connection. When the answer to the last block arrives, the session is deleted and
the sid and jid it is looked up by are freed (ibb.c:246): nothing is found, or the process ends (`aborted`). At this commit nothing reaches `start` (run `doc_start`); the module models the pump that
is there to be started, and starts it once. The sequence number is left out: the receiver never looks
at it. `transmit` counts bytes, and a read error can keep the state STARTING, as in the code.

### Client, TwoClients

In `Jingle` the peer is anybody. `Client` is the same core (it uses the actions of `Jingle` as they are) whose peer
is another client of this program: `inbox` and `outbox` are the streams between them, and what a callback
sends, according to `obs`, goes out with the sid and the number of its handle, which stands for the id by
which loudmouth finds the reply. `Deliver` hands the oldest stanza to the handler `Jingle` has for it.
`Lose` is the loss of a connection, with any number of the stanzas sent last; a stanza for a client that is
away is answered by its server or lost (`Undelivered`). `TwoClients` instantiates `Client` twice.

Left out: transfers of data, `/jft retry` and `/jft flush`; a stanza that
is on its way for longer than the 60 s of a timeout; a full jid that changes with the connection. What a client
sends to itself (a decline, see `doc_terminate`) is answered by itself with item-not-found and has no
effect, so it is not put in a stream: this is why a declined session stays at both ends.

The cores are instantiated with `Disorder = {"cancel", "late"}`, so nothing is assumed about the order of what
arrives, and `InOrder` checks that each of them nevertheless does only what it may do with `Disorder = {}`.
So between two clients of this program none of the steps of `OnlyTheseSever` that a peer or the network takes ever happens
(`retry` is left out, and sending never fails); section 5 has the proof for any number of offers and losses. What it
rests on is `UnderWay`, an assumption of the model and no line of the code: no stanza takes the 60 s of a timeout.

`AcceptanceJoins` is about a session-accept on its way while no connection is lost. When one is, either client may be
left alone with an accepted session for ever: the session-accept is lost with the connection, or the result
of a session-initiate is, whose timeout then deletes a session that has become active since. The model does both; the code has nothing
against it and no document of it says otherwise.

### JingleCheck, Registry

`JingleCheck` is the life of one `JingleNode` with every combination of attributes, and up to
`MaxElements` children of any validity. `Registry` is the two lists; `Best` is the loop of
`jingle_transport_for_app`, compared with a definition by quantifiers. Nobody passes a list of
forbidden transports; the dereference of NULL with such a list (register.c:140) is the answer `Crash`.

### S5bConnect

| Definition | Code | What to know |
|---|---|---|
| `parse_candidates`, `Before` | same, `prioritycmp` | the loop tests `node->name`, the parent's, where `node2->name` is meant (s5b.c:153): called with the `transport` element, as it is, the list stays empty and no attempt is ever made |
| `init`, `NewAttempt` | `init`, `connect_candidate` | args start with two references, one for each callback |
| `Outcome` | GIO | connected, refused, or CANCELLED when cancelled; GIO leaves open which wins |
| `connect_cancel_timeout`, `Cancel` | same | cancels the *last* attempt, whichever that is |
| `handle_client_connect`, `Handled` | same | an outcome other than CANCELLED is taken to mean that the timer is pending; a connection that was made is treated the same way and the next candidate is tried, line 540 is not reached |
| `connect_next_candidate` | same | after the last candidate NULL is dereferenced: `aborted` |

`NodeNames` are the names of the element the candidates are parsed from. The run gives both `transport`,
what the program passes, and `candidate`, with which the rest of the code does what it was written for;
without the second nothing after `init` could be checked. `late` is a history of attempts that ended by
themselves after their timer: the code then takes a reference too many away, and uses what was freed. `init` is called once
here (`started`), although a second session-accept would call it again: all properties of this module rest on that.

### Socks5

One connection, its two ends and all bytes either has written. `ours` are the ends that run this code: both,
or one with a foreign program that keeps to the protocol. `data[e]` is the `ConnectAsyncData` of an end with
the callback of its pending read or write; `Read` and `Write` return any part of what was asked for, and
each `..._cb` is the callback of that name. Kept as the code has it:

* The end of the methods is recognised by comparing with the first method and not with their number
  (line 728): a server may wait for methods that do not come, or act on an offer it has read in part.
* What is asked for may be longer than the buffer (`Allocated`): the server reads up to 257 bytes of methods into 4 (667-668),
  and the client a domain name and its port, up to 257, into 255 (980, 1203). `Overrun` is the process ending there; `Read`
  is what happens otherwise. `OnlyTheseOverrun` says these are the only ones.
* The methods searched stop two too early (183): our own client is always refused by our own server.
* When the address of a request or reply comes in pieces, the rest is parsed as the head of a reply
  (1103, 1233): the handshake succeeds only if the address arrives in one read. So a client that is granted a connection may wait
  for ever: of 5.0.0.1 in 5 bytes and one, what is left looks like the head of a reply. The run has that
  address. No property says that a handshake ends: the code does not see to it.
* The reply repeats the address type (442 and 446), against the format above it (331): a foreign client
  must expect that.
* The end of the stream, a read of 0 bytes, is not an error: the callback reads again for ever.
* A `GError` pointer that was not initialised (730, 808) makes a refusal a crash or not; so does a name for
  an address, whose callback is the server's and finds no address (1178, 1206).
* A wrong host name is not answered (1096 says it should be).

Nothing calls this file at this commit; the module is the handshake that is there to be called.

`MCJingle`, `MCIbbTransfer`, `MCRegistry`, `MCSocks5` hold values of constants for TLC. A definition whose name has a
suffix and whose comment begins with "Faulty" (`Consumed_Not`, `Expires_IfSent`, …) is a plausible mistake
in the definition next to it; no behaviour of the model uses it. `PROJECT.json` pairs each property with one
that TLC finds to violate it.

## 4. Runs

| Run | Module, states | Bounds | Shows |
|---|---|---|---|
| `jingle_full` | MCJingle, 259,566 | 2 peers (one outside the roster), 2 sids, 2 addresses, 2 sessions, 2 files, 2 handles, one name, all of `Disorder` | `TypeOK`, `UniqueSession`, `NoEmptySession`, `OneReply`, `OnlyTheseSever` |
| `two_clients` | TwoClients, 200,308 | one offer of each client, 2 addresses, 2 sessions, one connection lost | `InOrder`, `Accompanied`, `AcceptanceJoins` |
| `jingle_fair` | MCJingle, 111,252 | one peer, one address, two names of contents, all of `Disorder` but `retry` | `ContentsUnfinished`, `RequestsResolve` |
| `ack_handlers` | AckHandlers, 49,390 | 4 requests, 3 of them with a timeout of 2 visits | types, `CalledIsUnlisted`, `KeepsPromise`, `PromiseResolved` |
| `ibb` | MCIbbTransfer, 101,067 | 9 bytes, reads of 2, blocks of at most 4, answers -1 to 5 | buffer, block and order properties, `Verified`, `ImplementsStream`, `Completes` |
| `jingle_check` | JingleCheck, 220,486 | 3 children | `HandlersSafe`, `ContentsFreed` |
| `registry` | MCRegistry, 3,260 | 8 modules | `ListsLoaded`, `BestTransport` |
| `s5b` | S5bConnect, 16,464 | up to 3 candidates, 3 priorities | `OneAttempt`, `TimerOfAttempt`, `ArgsCounted`, `BestFirst`, `AttemptEnds` |
| `socks5` | MCSocks5, 5,809 | hosts of 1, 2 and 254 bytes, IPv4 (also 5.0.0.1) and IPv6, 5 offers of methods, all pairs of ends | `OnlyTheseOverrun`, `WrittenWhole`, `GrantsAllowed`, `BelievesGrant`, `RefusalTold` |
| `doc_terminate`, `doc_start`, `doc_ack` | | | statements of the documentation the code does not keep, below |

Why the bounds are enough. Two addresses and two sessions are the least in which an address is reused
while another session is live, and in which the two directions can collide on a sid; with two files a
retried transfer finds an older session. Two handles let a late reply meet a second request. With two
names a session-initiate can be accepted in part and a session-terminate can stop in part. For the properties
of section 5 the bounds do not matter: they are proved for every value. Four requests put an expired
handle before, between and after others in the walk. 9, 2 and 4 give reads that do and do not meet the
block size, a buffer with more than a block, and a rest at the end; the answers cover negative, 0, smaller, equal
and larger. Three children give content elements before and after one that is refused.

`VIEW WithoutObs` leaves `obs` out of the state's fingerprint in the runs of `MCJingle`: nothing reads it, and
action properties are evaluated on every step. `TypeOK` therefore sees only the first `obs` that reaches a
state; the proof covers all. Symmetry permutes addresses and sids, which the model only compares.
Deadlock is allowed: the process stops at undefined behaviour, and at the bounds.

Fairness. `RequestsResolve`, `PromiseResolved`: only the glib timer, which runs every 3 s as long as the
process does. No fairness for peers, users or the network. `AcceptanceJoins`: both streams are
read (or their stanzas lost) and both timers run; users, lost connections and reconnections are not fair. `Completes`: delivery of data and
acknowledgements by the server and the main loop's callbacks, and no failure on the way; `start`
and session-accept need not happen.

### Disagreements

| Run | What is said | What the code does |
|---|---|---|
| `doc_terminate` | sessions.h:37: the entity we send to depends on who initiated | `jingle_send_session_terminate` uses `to`, ourselves in an incoming session |
| `doc_ack` | jingle.h:184: callback with JINGLE_ACK_TIMEOUT if no response was received in time | the handle the checker frees (jingle.c:178) is still loudmouth's: a reply then calls it back again (148-162) |
| `doc_start` | doc.txt:30: start, the session has been accepted | no caller of `handle_transport_initialize`: an accepted transfer stays PENDING |

Others met while modelling, which no run of this project checks: a SOCKS5 client that offers only to go
without authentication, as ours does, is refused, as the last two methods are never looked at
(socks5-proto.c:182, against 734); an informational message nobody understands
is acknowledged, as the test of the status is inverted (action-handlers.c:198, against 204); a peer's blocks
are written while the user has not answered (jingle.c:479, against filetransfer.h:39); an error that answers a block is taken for its acknowledgement, so bytes
go missing in the middle (ibb.c:243, against "reliably", register.h:30-32); what ends the reading of the methods is
not their number (socks5-proto.c:728, against 726), and more is read than is allocated (668, 1203); an address in two pieces is read
as another message (1103, 1233); after a timer that lost the race
against the outcome, the arguments of a SOCKS5 attempt are unreferenced once too often (s5b.c:517); a Jingle element of a foreign namespace is not
answered (jingle.c:113); session-terminate may leave transfers running (action-handlers.c:278); `/jft
flush` goes on from a freed link (filetransfer.c:356); a bad creator stores an error and is accepted
(check.c:131); the `JingleNode` of a foreign IQ is leaked (jingle.c:110); contents are freed twice after
a refusal (check.c:180); `err` is freed twice when a content after a refused one is added
(action-handlers.c:122).

## 5. Proofs

12370 obligations, all checked by TLAPS for every value of the constants that meets the assumptions
(`Me` is no peer and the roster is made of peers; names are finite and `FileName` is one; the bounds are
naturals; the two clients have different jids; a host is at most 255 bytes, none of them 0, as the code keeps it as a C string; a server has an
address; the methods of an offer are at most 255, as many as its one byte can count).

| Theorem | States | From |
|---|---|---|
| `JingleProofs!TypeCorrect` | `Spec => []TypeOK` | nothing more |
| `JingleProofs!EveryIqAnswered` | `Spec => OneReply` | nothing more |
| `JingleProofs!OneSessionPerName` | `Spec => []UniqueSession` | nothing more |
| `JingleProofs!NoSessionEmpty` | `Spec => []NoEmptySession` | nothing more |
| `JingleProofs!ContentsRun` | `Spec => []ContentsUnfinished` | no `retry` |
| `JingleProofs!SeversOnlyThere` | `Spec => OnlyTheseSever` | nothing more |
| `TwoClientsProofs!SessionsAccompanied` | `Spec => []Accompanied` | nothing more |
| `TwoClientsProofs!PeersInOrder` | `Spec => InOrder` | nothing more |
| `TwoClientsProofs!AddressesGoodTogether` | `LiveRefs` of both clients, always | nothing more |
| `IbbProofs!TypeCorrect` | `Spec => []TypeOK` | nothing more |
| `IbbProofs!OneBlockInFlight` | `Spec => []OneInFlight` | nothing more |
| `IbbProofs!CompleteIsVerified` | `Spec => []Verified` | nothing more |
| `IbbProofs!BufferIsLargeEnough`, `BlocksAreShortEnough` | `Spec => BufferBound`, `BlockBound` | nothing more |
| `IbbProofs!TransferIsAStream` | `Spec => ImplementsStream` | nothing more |
| `CheckProofs!HandlersAreSafe`, `AllContentsFreed` | `Spec => []HandlersSafe`, `[]ContentsFreed` | nothing more |
| `AckProofs!TypesKept`, `CalledOnceFromTheList` | `Spec => []TypeOK`, `[]CalledIsUnlisted` | nothing more |
| `AckProofs!PromiseKept` | `Spec => KeepsPromise` | nothing more |
| `RegistryProofs!ListsFollow` | `Spec => []ListsLoaded` | nothing more |
| `RegistryProofs!BestIsChosen` | `Spec => []BestTransport` | nothing more |
| `S5bProofs!TypesKept`, `BestAreFirst` | `Spec => []TypeOK`, `[]BestFirst` | nothing more |
| `S5bProofs!OneAtATime` | `Spec => []OneAttempt` | nothing more |
| `S5bProofs!TimersKeepToTheirs` | `Spec => []TimerOfAttempt` | nothing more |
| `S5bProofs!ArgsAreCounted` | `Spec => []ArgsCounted` | nothing more |
| `Socks5Proofs!TypesKept`, `WholeMessages` | `Spec => []TypeOK`, `[]WrittenWhole` | nothing more |
| `Socks5Proofs!TwoOverruns` | `Spec => []OnlyTheseOverrun` | nothing more |
| `Socks5Proofs!SuccessIsGranted` | `Spec => []BelievesGrant` | nothing more |
| `Socks5Proofs!OnlyTheHostGranted` | `Spec => []GrantsAllowed` | `OffersNoRequest` |

The session core. `TypeOK` is inductive; its proof has a lemma per action. For the sessions, `JingleProofs` shows
that every step is of one of three kinds (`StepKinds`): `Kept` (sessions may leave the list, those that
stay keep their contents and structs), `InitiateAccepted` (one session received), `Offer` (one session made
by `/jft`, one perhaps deleted). `UniqueSession` and `NoEmptySession` are inductive with `TypeOK` over
these kinds: a received session is tested by `Find`, an offered one has a sid no live session has.

`EveryIqAnswered` needs no invariant: a handler's `obs` is a list of one reply and of what is no reply,
on each early return (`PeerReplies`), and the last callback that is not an IQ's owes none (`OthersShow`).

`ContentsUnfinished` follows from `AllRunning`: the file of every content is PENDING or STARTING. That a session-terminate
stops the files of the session it deletes and no other's takes `OwnFile` (no two contents have one `JingleFT`), and that with `Entered`: the files of contents
are among those made. This is where `retry` is excluded, which gives a `JingleFT` to a second content. Flush frees
finished files, and by `AllRunning` none a content has.

`OnlyTheseSever` is about `Refs`, which is `LiveRefs` with `OneRef`: an address is held by one event or one handle not freed, never by two.
Otherwise the timeout of one would delete the session another still leads to. That is what the code
relies on: an incoming session has an event, and only the user's answer turns it into a handle; an
outgoing one has one handle. The proof has a lemma per action that the address survives it (`InitiateRefs` to `UserRefs`): a new
session goes to an address no session is at, and by `Refs` nothing is kept about such an address; an answer
deletes the session of its own handle, whose address nothing else has. What is excluded step by step in `Severs` is
what TLC shows to break it. With `Disorder = {}` none of those steps is there, and `LiveRefs` holds always; this is what
`AddressesGoodTogether` uses.

Two clients. `PeersInOrder` says that none of this disorder comes from a peer that runs this program,
although `TwoClients` assumes nothing of the kind (its cores have `cancel` and `late` in `Disorder`). The
invariant has a part for each client and one between them:

* `ClientOK`: the types, `Entered`, `OwnFile` and `LiveRefs` with `OneRef`, as above; every session is one we offered, with a sid that we
  drew, or one of the peer's (`Parties`); an event is about one of the latter (`Invited`). `Numbered`: a number is that of one
  handle at most, and the handle of a *pending* number, whose request or answer is on its way, is not freed. A timeout frees a handle only
  when its number is not pending, so no reply is ever late. The peer's steps keep this, as they make no
  number pending (`PeerKeeps`).
* `Known`: the sids in our session-initiates on their way, in the session-accepts on their way to us, and in the
  sessions the peer was invited to, are ones we drew and whose session, if it still lives, is announced (`Told`); a
  session-initiate on its way is about a session the peer does not have yet, and only one is. So the peer names no
  session he was not told of, and the sids of the two never collide: every `Deliver` is a step `Jingle` allows (`ClientStep`).
* `Counted`: until the first loss, every handle is registered, not freed and has its number pending; no error is on its
  way; what is on its way is about sessions that are there; and what is active was accepted (`Lossless`). So no timeout
  can expire and no reply is an error, the only ways for a session to go: `Accompanied` follows.

No session-terminate ever reaches the peer, because of the wrong address (`doc_terminate`): that is what makes the
theorem true of `cancel` in this code, and it would have to be proved anew were the address mended.
In `JingleProofs` each action has a lemma about what it does to the sessions, handles and streams (`OfferDoes` to
`UndeliveredDoes`), and each part of the invariant one that goes through them (`ClientNumbers`, `ClientOrigins`, `ClientKnown`,
`ClientRefs`, `ClientLossless`). Variables of the peer are parameters there (`PL`, `PS`, …), so they are proved once, and
`TwoClientsProofs` instantiates the module twice. Its lemmas with long lists of definitions only say that two
instances of one definition mean the same.

The transfer. `IbbProofs` has one inductive invariant. What was handed over are bytes of the file in their order, all before a
point p that moves past each block handed over or lost (`Scattered`); what is under way and what is in the buffer are consecutive
runs of the file from p up to what was read (`Ordered`). This gives the order of the stream. `Shape` says what may be under way: nothing, one block, one
answer, or, once the sender has ended, blocks and answers followed by the farewell.
`Ends` and `Told` tie the receiver's state and hash to that. `written <= Len(handed)` makes a complete file one
that was handed over whole: as many bytes as the file has, in order and none twice, leave no hole; with the hash being that of the file, it is verified. `Len(buf) <= size_buf` carries
`BufferBound` across steps. The refinement then is that each step adds a piece to `handed` that starts after all before it, closes
the file, or stutters.

The attempts. A timer may cancel whatever attempt is last, which is right only because a timer that can
fire is that of the last attempt. `IInv` says of each attempt that its timer, its outcome and its reference
count fit together (`Sound`), and that all but the last are handled (`OneAttempt`); it is inductive, as the
callback destroys the timer, or was cancelled by it, before the next attempt is made.

The check of an IQ. `CheckProofs` has an invariant along the loop over the children: the list holds the content
elements below `child`, in their order, none of them refused (`Listed`); nothing is freed before the check
is over (`Unfreed`), and a refusal has freed the refused content and all before it (`Refused`). The theorems
read it off where the handler starts and where the `JingleNode` is gone.

The register. Each list follows what is loaded of its kind, once (`Follows`): an entry is appended when its module
is not there yet, and unlinking one entry of a list without duplicates removes exactly its module. The loop of
`jingle_transport_for_app` has, after i entries, the best of the first i.

The handles. The invariant adds to the types what a late reply relies on: a handle that loudmouth still has and
the list has not was called back once, with a timeout. So a late reply, which runs the callback of a freed handle again,
is the step `AnswerAgain` and can come once only; a visit of the checker gives "timeout" to what it takes off the list and changes
nothing else, whatever link it goes on from (`ResolvedBecomes`).

The order of the attempts. `parse_candidates` is the sorted list of what was usable. There is one (`Sortable`:
the place of a candidate is how many are not after it), the list is that (`Prepared`), and attempt k is the one to
the candidate at place k (`InTurn`): that is all `BestFirst` needs, as no attempt is ever taken back.

The handshake. `IInv` says of every end of ours that what it has in its data fits what it has written
(`Reader`, `Writer`): its script up to its callback's message, and of that as much as the offset says.
`WrittenWhole` follows. `TwoOverruns` adds to it how long the reads are that a length byte does not set (`Fits`); the name's length is
that of one byte, and 2. That an end succeeds only when it should is not inductive with this: it must be said what
has been read. `CInv` and `SInv` list where a client or server of ours can stand with a foreign end, from
`Offering` to `Granted` and from `HearsOffer` to `Granting`, and what bytes its buffer holds there (`Fresh`).
The case to watch is an address of which only a part was read: the code then parses the rest as the
head of a reply. `Astray` is the invariant of what follows, whichever callbacks run: either all was
read, or the read in progress would end exactly where what was sent ends. Then every read from there on
returns nothing, so no callback gets to success (`AstrayStays`). Two ends of ours never succeed, as the server's
search of the methods stops before the only one the client offers (`Refused`).

`OnlyTheHostGranted` assumes `OffersNoRequest`: no four consecutive methods begin with 5 and end with 3. The
theorem is false without it, as TLC showed: the server may accept an offer it has read only in part
(socks5-proto.c:728), and then reads the rest of the methods as the request, which succeeds when they happen to read as
one. A client that offers fewer than four methods, or no method 5, as those in the runs, meets the hypothesis.

The induction. TLAPS has no induction over data here, as the library's theorems have an operator for a parameter.
Where a loop is a recursive function (`Unlink`, `Best`) the proofs argue with the least
counterexample instead: a nonempty set of naturals has a least element (`LeastNat`, from the
well-foundedness of `<`), which is first-order.

Only model-checked: liveness, which TLAPS does not reach under fairness (`RequestsResolve`, `PromiseResolved`, `Completes`,
`AttemptEnds`, `RefusalTold`, `AcceptanceJoins`). Every safety property of a passing run is proved, with the
hypotheses in the table.

## 6. Not modelled

The composition of the register with the sessions (section 2), and of two clients with a transfer of data. Username and password
in the SOCKS5 handshake: nothing sets them, so the callbacks of that exchange are never reached. Our own
SOCKS5 candidates (the interfaces of the host, the choice of a port), and a second session-accept while
attempts are under way. `_send` and `end` of `s5b.c` and its handling of candidate-error and candidate-used
are empty. `/jft info`, the parsing of file offers beyond its outcome, logging and the printable texts; the choice
among resources, a query of mcabber's roster; the build files and the generated documentation.

## 7. Running

    tlc -config JingleFull.cfg MCJingle
    tlapm JingleProofs.tla
