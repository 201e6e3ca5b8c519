------------------------------- MODULE Socks5 -------------------------------
(***************************************************************************)
(* The SOCKS5 handshake of socks5-proto.c over one connection: a client    *)
(* (socks5_client_nego) and a server (socks5_server_nego), each a chain of *)
(* asynchronous reads and writes whose callbacks share one ConnectAsync-   *)
(* Data.  A write may write less than was asked, a read may return less    *)
(* than was sent: every callback must put the pieces together.             *)
(*                                                                         *)
(* Either end may also be a foreign program that keeps to the protocol.    *)
(* What the connection carries is bytes, as the code compares and counts   *)
(* them; a foreign program is modelled by the messages it sends.           *)
(* Authentication is left out: nothing sets a username or a password.      *)
(***************************************************************************)
EXTENDS Naturals, Sequences, SequencesExt

CONSTANTS
  Host,          \* the dst.addr our end was given, the hash of a sid and two jids
  Hosts,         \* those a foreign end may name, Host among them
  Addresses,     \* the server may have: 4 bytes or 16
  Offers,        \* lists of methods a foreign client may offer
  Pairs          \* the sets of ends that run this code

End == {"client", "server"}
Byte == 0 .. 255

ASSUME HostAssumption ==
  Host \in Hosts /\ \A h \in Hosts : h \in Seq(Byte \ {0}) /\ Len(h) <= 255
ASSUME AddressAssumption ==
  Addresses # {} /\ \A a \in Addresses : a \in Seq(Byte) /\ Len(a) \in {4, 16}
ASSUME OffersAssumption  == \A o \in Offers : o \in Seq(Byte) /\ Len(o) \in 1 .. 255
ASSUME PairsAssumption   == Pairs \subseteq SUBSET End

VARIABLES
  ours,          \* the ends that run this code
  sent,          \* all an end has written
  taken,         \* how much of the other end's bytes it has read
  data,          \* its ConnectAsyncData and the callback of its pending read or write
  result,        \* how it completed, "pending" before
  stage,         \* where a foreign end stands
  closed         \* the ends that closed the connection

vars == <<ours, sent, taken, data, result, stage, closed>>

VERSION == 5
NONE == 0       USR_PASS == 2      NO_ACCEPT == 255        \* methods
IPV4 == 1       DOMAINNAME == 3    IPV6 == 4               \* address types

Writing == {"nego_msg_write", "nego_reply_write", "no_supported_method",
            "connect_msg_write", "connect_reply_write"}
Reading == {"nego_msg_read", "nego_reply_read", "connect_msg_read", "connect_addr_len_read",
            "connect_addr_read", "connect_reply_read", "connect_reply_addr_len_read",
            "connect_reply_addr_read"}

Peer(e) == IF e = "client" THEN "server" ELSE "client"

\* Bytes on their way to an end.
Arriving(e) == SubSeq(sent[Peer(e)], taken[e] + 1, Len(sent[Peer(e)]))

-----------------------------------------------------------------------------
(* Messages *)

NegoMsg(methods) == <<VERSION, Len(methods)>> \o methods
NegoReply(method) == <<VERSION, method>>
ConnectMsg(host) == <<VERSION, 1, 0, DOMAINNAME, Len(host)>> \o host \o <<0, 0>>

AddressType(a) == IF Len(a) = 4 THEN IPV4 ELSE IPV6

\* server_set_connect_reply writes the address type twice.
ConnectReply(a) == <<VERSION, 0, 0, AddressType(a), AddressType(a)>> \o a \o <<0, 0>>

\* The replies of a foreign server.
Grant(a)   == <<VERSION, 0, 0, AddressType(a)>> \o a \o <<0, 0>>
GrantTo(h) == <<VERSION, 0, 0, DOMAINNAME, Len(h)>> \o h \o <<0, 0>>
Denial(rep) == <<VERSION, rep, 0, IPV4>> \o <<0, 0, 0, 0>> \o <<0, 0>>

\* client_parse_connect_reply: the error for each reply field.
ReplyError(rep) ==
  CASE rep = 2 -> "not_allowed"
    [] rep = 3 -> "network_unreachable"
    [] rep \in {4, 6} -> "host_unreachable"
    [] rep = 5 -> "refused"
    [] OTHER -> "failed"

-----------------------------------------------------------------------------
(* Reads, writes and completion *)

\* The buffer, as far as reads have filled it; g_malloc0 put 0 in the rest.
At(buffer, i) == IF i <= Len(buffer) THEN buffer[i] ELSE 0
Stored(buffer, offset, bytes) ==
  SubSeq(buffer, 1, offset) \o bytes \o SubSeq(buffer, offset + Len(bytes) + 1, Len(buffer))

Idle == [cb |-> "none", buffer |-> <<>>, length |-> 0, offset |-> 0]

do_read(e, cb, buffer, length, offset) ==
  /\ data' = [data EXCEPT ![e] = [cb |-> cb, buffer |-> buffer, length |-> length,
                                  offset |-> offset]]
  /\ UNCHANGED result

do_write(e, cb, msg) ==
  /\ data' = [data EXCEPT ![e] = [cb |-> cb, buffer |-> msg, length |-> Len(msg), offset |-> 0]]
  /\ UNCHANGED result

\* Faulty: a return is missing after complete_async_from_error.
Complete_GoesOn(e, r) ==
  /\ result' = [result EXCEPT ![e] = r]
  /\ UNCHANGED data

\* g_simple_async_result_complete, with an error or without.
Complete(e, r) ==
  /\ data' = [data EXCEPT ![e] = Idle]
  /\ result' = [result EXCEPT ![e] = r]

\* An error is stored through a GError pointer that was never initialised: it is
\* seen as set when the stack happened to hold no 0, and followed.
CompleteUninitialised(e, r) == Complete(e, r) \/ Complete(e, "crashed")

Init ==
  /\ ours \in Pairs
  /\ sent = [e \in End |-> <<>>] /\ taken = [e \in End |-> 0]
  /\ data = [e \in End |->
       IF e \notin ours THEN Idle
       ELSE IF e = "client"
       THEN [cb |-> "nego_msg_write", buffer |-> NegoMsg(<<NONE>>), length |-> 3, offset |-> 0]
       ELSE [cb |-> "nego_msg_read", buffer |-> <<>>, length |-> 257, offset |-> 0]]
  /\ result = [e \in End |-> "pending"]
  /\ stage = "start" /\ closed = {}

-----------------------------------------------------------------------------
(* The callbacks of a read: b is the buffer, o the offset, n the length *)

Again(e, b, n, o) == do_read(e, data[e].cb, b, n, o)

\* server_parse_nego_init: a method that is not among the last two.
AcceptsNone(b, o) == \E i \in 2 .. o - 1 : i < At(b, 2) /\ At(b, i + 1) = NONE

\* What ends the reading is compared with the first method, not with NMETHODS.
NegoRead(b, n, o) == (o >= 2 /\ o - 2 > At(b, 3)) \/ o = n

\* Faulty: completes without a word to the client.
RefuseMethods_Silent(e) == Complete(e, "auth_failed")

RefuseMethods(e) == do_write(e, "no_supported_method", NegoReply(NO_ACCEPT))

nego_msg_read_cb(e, b, n, o) ==
  IF ~NegoRead(b, n, o) THEN Again(e, b, n, o)
  ELSE \/ At(b, 1) # VERSION /\ CompleteUninitialised(e, "failed")
       \/ /\ At(b, 1) = VERSION /\ AcceptsNone(b, o)
          /\ do_write(e, "nego_reply_write", NegoReply(NONE))
       \/ /\ At(b, 1) = VERSION /\ ~AcceptsNone(b, o)
          /\ RefuseMethods(e) \/ Complete(e, "crashed")     \* error, not initialised

nego_reply_read_cb(e, b, n, o) ==
  IF o # n THEN Again(e, b, n, o)
  ELSE \/ b[1] # VERSION /\ CompleteUninitialised(e, "failed")
       \/ /\ b[1] = VERSION /\ b[2] = NONE
          /\ do_write(e, "connect_msg_write", ConnectMsg(Host))
       \/ b[1] = VERSION /\ b[2] = USR_PASS /\ CompleteUninitialised(e, "need_auth")
       \/ b[1] = VERSION /\ b[2] \notin {NONE, USR_PASS} /\ CompleteUninitialised(e, "auth_failed")

\* A command other than CONNECT is no error.
connect_msg_read_cb(e, b, n, o) ==
  IF o # n THEN Again(e, b, n, o)
  ELSE IF b[1] = VERSION /\ b[4] = DOMAINNAME
       THEN do_read(e, "connect_addr_len_read", b, 1, 0)
       ELSE Complete(e, "failed")

\* connect_addr_len_read_cb and connect_reply_addr_len_read_cb: also when nothing was
\* read, with what the buffer holds.
addr_len_read_cb(e, b) == do_read(e, "connect_addr_read", b, b[1] + 2, 0)

\* Faulty: compares as many bytes as the client sent.
NamesHost_Prefix(b, n) == n - 2 <= Len(Host) /\ SubSeq(b, 1, n - 2) = SubSeq(Host, 1, n - 2)

\* What was read before the port, as a C string: up to a byte 0.
NamesHost(b, n) ==
  LET h == Len(Host) IN
  /\ h <= n - 2 /\ SubSeq(b, 1, h) = Host
  /\ h = n - 2 \/ b[h + 1] = 0

\* The server's callback, which the client uses for a domain name: there is no
\* address of ours in its data.  What is missing is read as if by a client.
connect_addr_read_cb(e, b, n, o) ==
  IF o # n THEN do_read(e, "connect_reply_read", b, n, o)
  ELSE \/ ~NamesHost(b, n) /\ Complete(e, "not_allowed")
       \/ NamesHost(b, n) /\ e = "client" /\ Complete(e, "crashed")
       \/ /\ NamesHost(b, n) /\ e = "server"
          /\ \E a \in Addresses : do_write(e, "connect_reply_write", ConnectReply(a))

\* client_parse_connect_reply.
connect_reply_read_cb(e, b, n, o) ==
  IF o # n THEN Again(e, b, n, o)
  ELSE \/ At(b, 1) # VERSION /\ Complete(e, "failed")
       \/ At(b, 1) = VERSION /\ At(b, 2) # 0 /\ Complete(e, ReplyError(At(b, 2)))
       \/ /\ At(b, 1) = VERSION /\ At(b, 2) = 0
          /\ \/ At(b, 3) = 0 /\ At(b, 4) = IPV4 /\ do_read(e, "connect_reply_addr_read", b, 6, 0)
             \/ At(b, 3) = 0 /\ At(b, 4) = IPV6 /\ do_read(e, "connect_reply_addr_read", b, 18, 0)
             \/ /\ At(b, 3) = 0 /\ At(b, 4) = DOMAINNAME
                /\ do_read(e, "connect_reply_addr_len_read", b, 1, 0)
             \/ (At(b, 3) # 0 \/ At(b, 4) \notin {IPV4, IPV6, DOMAINNAME}) /\ Complete(e, "failed")

\* Faulty: any part of the address will do.
connect_reply_addr_read_cb_Short(e, b, n, o) == Complete(e, "success")

\* What is missing is read as if it were the head of the reply.
connect_reply_addr_read_cb(e, b, n, o) ==
  IF o = n THEN Complete(e, "success") ELSE do_read(e, "connect_reply_read", b, n, o)

ReadCallback(e, b, n, o) ==
  CASE data[e].cb = "nego_msg_read"     -> nego_msg_read_cb(e, b, n, o)
    [] data[e].cb = "nego_reply_read"   -> nego_reply_read_cb(e, b, n, o)
    [] data[e].cb = "connect_msg_read"  -> connect_msg_read_cb(e, b, n, o)
    [] data[e].cb \in {"connect_addr_len_read", "connect_reply_addr_len_read"}
                                        -> addr_len_read_cb(e, b)
    [] data[e].cb = "connect_addr_read" -> connect_addr_read_cb(e, b, n, o)
    [] data[e].cb = "connect_reply_read" -> connect_reply_read_cb(e, b, n, o)
    [] OTHER                            -> connect_reply_addr_read_cb(e, b, n, o)

-----------------------------------------------------------------------------
(* Steps of an end that runs this code *)

\* How much a read returns: at the end of the stream nothing, which is no error.
ReadSizes(e) ==
  LET most == data[e].length - data[e].offset IN
  IF Arriving(e) # <<>> THEN {k \in 1 .. most : k <= Len(Arriving(e))}
  ELSE IF Peer(e) \in closed THEN {0} ELSE {}

Read(e) ==
  /\ data[e].cb \in Reading
  /\ \E k \in ReadSizes(e) :
       /\ taken' = [taken EXCEPT ![e] = @ + k]
       /\ ReadCallback(e, Stored(data[e].buffer, data[e].offset, SubSeq(Arriving(e), 1, k)),
                       data[e].length, data[e].offset + k)
  /\ UNCHANGED <<ours, sent, stage, closed>>

\* Faulty: the request is read into the buffer of the reply.
Allocated_Reused(e, cb) ==
  CASE cb \in {"nego_msg_write", "nego_msg_read"} -> 4
    [] cb \in {"nego_reply_read", "nego_reply_write", "no_supported_method", "connect_msg_read"} -> 2
    [] cb = "connect_msg_write" -> 262
    [] OTHER -> IF e = "client" THEN 255 ELSE 262

\* The bytes allocated for the buffer a callback finds.
Allocated(e, cb) ==
  CASE cb \in {"nego_msg_write", "nego_msg_read"} -> 4
    [] cb \in {"nego_reply_read", "nego_reply_write", "no_supported_method"} -> 2
    [] cb = "connect_msg_write" -> 262
    [] cb = "connect_reply_write" -> 255
    [] OTHER -> IF e = "client" THEN 255 ELSE 262

\* More than that is read, which may bring the process down, then or when the buffer
\* is freed.  Read is what happens otherwise.
Overrun(e) ==
  /\ data[e].cb \in Reading
  /\ \E k \in ReadSizes(e) : data[e].offset + k > Allocated(e, data[e].cb)
  /\ Complete(e, "crashed")
  /\ UNCHANGED <<ours, sent, taken, stage, closed>>

\* What follows when all of a message is written.
Written(e) ==
  CASE data[e].cb = "nego_msg_write"      -> do_read(e, "nego_reply_read", <<>>, 2, 0)
    [] data[e].cb = "nego_reply_write"    -> do_read(e, "connect_msg_read", <<>>, 4, 0)
    [] data[e].cb = "connect_msg_write"   -> do_read(e, "connect_reply_read", <<>>, 4, 0)
    [] data[e].cb = "no_supported_method" -> Complete(e, "auth_failed")
    [] OTHER                              -> Complete(e, "success")

\* Faulty: data->offset = written.
Advanced_Restart(e, k) == k

\* data->offset += written.
Advanced(e, k) == data[e].offset + k

Write(e) ==
  /\ data[e].cb \in Writing
  /\ \E k \in 1 .. data[e].length - data[e].offset :
       /\ sent' = [sent EXCEPT ![e] =
                     @ \o SubSeq(data[e].buffer, data[e].offset + 1, data[e].offset + k)]
       /\ IF Advanced(e, k) = data[e].length THEN Written(e)
          ELSE Again(e, data[e].buffer, data[e].length, Advanced(e, k))
  /\ UNCHANGED <<ours, taken, stage, closed>>

\* The connection breaks under a read or a write, or the operation is cancelled.
Fail(e) ==
  /\ data[e].cb # "none" /\ Complete(e, "io_error")
  /\ UNCHANGED <<ours, sent, taken, stage, closed>>

\* Whoever asked for the handshake closes the connection it failed on.
Close(e) ==
  /\ e \in ours /\ e \notin closed /\ result[e] \notin {"pending", "success"}
  /\ closed' = closed \cup {e}
  /\ UNCHANGED <<ours, sent, taken, data, result, stage>>

-----------------------------------------------------------------------------
(* A foreign end *)

Foreign(e) == e \notin ours /\ e \notin closed

Says(e, msg, next) ==
  /\ sent' = [sent EXCEPT ![e] = @ \o msg] /\ stage' = next
  /\ UNCHANGED <<ours, data, result, closed>>

Takes(e, k) == taken' = [taken EXCEPT ![e] = @ + k]

ForeignClient ==
  LET in == Arriving("client") IN
  /\ Foreign("client")
  /\ \/ /\ stage = "start"
        /\ \E o \in Offers : Says("client", NegoMsg(o), "offered")
        /\ UNCHANGED taken
     \/ /\ stage = "offered" /\ Len(in) >= 2 /\ in[2] = NONE
        /\ \E h \in Hosts : Says("client", ConnectMsg(h), "asked")
        /\ Takes("client", 2)
     \/ /\ stage = "asked" /\ Len(in) >= 4
        /\ LET whole == IF in[4] = IPV4 THEN 10 ELSE 22 IN
           Len(in) >= whole /\ Takes("client", whole) /\ Says("client", <<>>, "done")

ForeignServer ==
  LET in == Arriving("server") IN
  /\ Foreign("server")
  /\ \/ /\ stage = "start" /\ Len(in) >= 2 /\ Len(in) >= in[2] + 2
        /\ \E m \in {NONE, NO_ACCEPT} :
             Says("server", NegoReply(m), IF m = NONE THEN "offered" ELSE "done")
        /\ Takes("server", in[2] + 2)
     \/ /\ stage = "offered" /\ Len(in) >= 5 /\ Len(in) >= in[5] + 7
        /\ \E reply \in {Grant(a) : a \in Addresses} \cup {GrantTo(h) : h \in Hosts}
                        \cup {Denial(rep) : rep \in 1 .. 8} :
             Says("server", reply, "done")
        /\ Takes("server", in[5] + 7)

\* A foreign end may go away whenever it likes.
Leave(e) ==
  /\ Foreign(e) /\ closed' = closed \cup {e}
  /\ UNCHANGED <<ours, sent, taken, data, result, stage>>

Next ==
  \/ \E e \in End : Read(e) \/ Overrun(e) \/ Write(e) \/ Fail(e) \/ Close(e) \/ Leave(e)
  \/ ForeignClient \/ ForeignServer

Spec == Init /\ [][Next]_vars

\* The main loops run the callbacks of what the network lets through, and a foreign
\* end answers.  Nobody need close or break a connection.
FairSpec ==
  /\ Spec
  /\ \A e \in End : WF_vars(Read(e)) /\ WF_vars(Write(e))
  /\ WF_vars(ForeignClient) /\ WF_vars(ForeignServer)

-----------------------------------------------------------------------------
(* Properties *)

Results == {"pending", "success", "failed", "auth_failed", "need_auth", "not_allowed",
            "network_unreachable", "host_unreachable", "refused", "io_error", "crashed"}

TypeOK ==
  /\ ours \in Pairs /\ closed \subseteq End
  /\ sent \in [End -> Seq(Byte)]
  /\ \A e \in End : taken[e] \in 0 .. Len(sent[Peer(e)])
  /\ \A e \in End :
       /\ data[e].cb \in {"none"} \cup Reading \cup Writing
       /\ data[e].buffer \in Seq(Byte) /\ data[e].length \in 0 .. 262
       /\ data[e].offset \in 0 .. data[e].length
       /\ data[e].cb # "none" <=> e \in ours /\ result[e] = "pending"
  /\ result \in [End -> Results]
  /\ stage \in {"start", "offered", "asked", "done"}

\* Whatever the other end sends and in whatever pieces, no read is of more bytes than
\* were allocated, but for two: the server's of the methods, 257 into 4, and the
\* client's of a domain name, up to 257 into 255, with what follows a part of it.
OnlyTheseOverrun ==
  \A e \in ours : result[e] = "pending" /\ data[e].length > Allocated(e, data[e].cb) =>
    \/ data[e].cb = "nego_msg_read"
    \/ /\ e = "client" /\ data[e].length \in {256, 257}
       /\ data[e].cb \in {"connect_addr_read", "connect_reply_read"}

\* However the writes are cut, an end of ours writes its messages whole, in order
\* and once: what it has written is a prefix of one of its scripts.
Scripts(e) ==
  IF e = "client" THEN {NegoMsg(<<NONE>>) \o ConnectMsg(Host)}
  ELSE {NegoReply(NO_ACCEPT)} \cup {NegoReply(NONE) \o ConnectReply(a) : a \in Addresses}
WrittenWhole == \A e \in ours : \E script \in Scripts(e) : IsPrefix(sent[e], script)

\* However the reads are cut, and whatever was read as something else: the server
\* succeeds only with a client that offered to go without authentication and named
\* the host we were given, and has then read all the client sent and no more.
GrantsAllowed ==
  "server" \in ours /\ result["server"] = "success" =>
    /\ taken["server"] = Len(sent["client"])
    /\ \E o \in Offers : NONE \in ToSet(o) /\ sent["client"] = NegoMsg(o) \o ConnectMsg(Host)

\* The client succeeds only when the server granted the connection, and has then
\* read the whole answer and nothing that follows it.
BelievesGrant ==
  "client" \in ours /\ result["client"] = "success" =>
    \E a \in Addresses : LET answer == NegoReply(NONE) \o Grant(a) IN
      taken["client"] = Len(answer) /\ IsPrefix(answer, sent["server"])

\* A server that refuses the methods tells the client before the connection is
\* closed: a client of ours ends with the same error.
RefusalTold ==
  ours = End /\ result["server"] = "auth_failed"
    ~> result["client"] \in {"auth_failed", "io_error", "crashed"}
=============================================================================
