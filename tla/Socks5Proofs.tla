---------------------------- MODULE Socks5Proofs ----------------------------
(***************************************************************************)
(* Theorems about Socks5, for any host, addresses and offers, and however  *)
(* reads and writes are cut.  First what holds of every end of ours (IInv):*)
(* it reads and writes as its callback says, and has written a prefix of a *)
(* script.  Then, for each end of ours with a foreign one, where it stands *)
(* and what it has read so far (CInv, SInv): what is missing of an address *)
(* is parsed as something else, and an end that does so is astray until it *)
(* fails, as it finds no more bytes than those (Astray).  Two ends of ours *)
(* never succeed (Refused).                                                *)
(***************************************************************************)
EXTENDS Socks5, SequencesExt, SequenceTheorems, TLAPS

-----------------------------------------------------------------------------
(* Lists put together *)

\* Two lists put together.
LEMMA Joined ==
  ASSUME NEW S, NEW u \in Seq(S), NEW v \in Seq(S)
  PROVE  /\ u \o v \in Seq(S) /\ Len(u \o v) = Len(u) + Len(v)
         /\ \A i \in 1 .. Len(u) : (u \o v)[i] = u[i]
         /\ \A i \in 1 .. Len(v) : (u \o v)[Len(u) + i] = v[i]
<1>1. /\ u \o v \in Seq(S) /\ Len(u \o v) = Len(u) + Len(v)
      /\ \A i \in 1 .. Len(u) + Len(v) :
           (u \o v)[i] = IF i <= Len(u) THEN u[i] ELSE v[i - Len(u)]
  BY ConcatProperties
<1>2. Len(u) \in Nat /\ Len(v) \in Nat
  OBVIOUS
<1>3. ASSUME NEW i \in 1 .. Len(u) PROVE (u \o v)[i] = u[i]
  <2>1. i \in 1 .. Len(u) + Len(v) /\ i <= Len(u)
    BY <1>2
  <2> QED BY <1>1, <2>1
<1>4. ASSUME NEW i \in 1 .. Len(v) PROVE (u \o v)[Len(u) + i] = v[i]
  <2> DEFINE j == Len(u) + i
  <2>1. j \in 1 .. Len(u) + Len(v) /\ ~(j <= Len(u)) /\ j - Len(u) = i
    BY <1>2
  <2> HIDE DEF j
  <2>2. (u \o v)[j] = v[i]
    BY <1>1, <2>1
  <2> QED BY <2>2 DEF j
<1> QED BY <1>1, <1>3, <1>4

-----------------------------------------------------------------------------
(* Messages, byte by byte *)

LEMMA ByteType ==
  /\ \A x \in Byte : x \in Nat /\ x <= 255
  /\ \A x \in Nat : x <= 255 => x \in Byte
BY SMTT(30) DEF Byte

USE DEF VERSION, NONE, USR_PASS, NO_ACCEPT, IPV4, DOMAINNAME, IPV6

\* The message of a client that offers o.
LEMMA NegoMsgBytes ==
  ASSUME NEW o \in Seq(Byte), Len(o) \in 1 .. 255
  PROVE  /\ NegoMsg(o) \in Seq(Byte) /\ Len(NegoMsg(o)) = Len(o) + 2
         /\ NegoMsg(o)[1] = 5 /\ NegoMsg(o)[2] = Len(o)
         /\ \A i \in 1 .. Len(o) : NegoMsg(o)[2 + i] = o[i]
<1> DEFINE head == <<5, Len(o)>>
           m == head \o o
<1>1. head \in Seq(Byte) /\ Len(head) = 2 /\ head[1] = 5 /\ head[2] = Len(o)
  BY SMTT(30) DEF Byte
<1> HIDE DEF head
<1>0. head \in Seq(Byte)
  BY <1>1
<1>2. /\ m \in Seq(Byte) /\ Len(m) = Len(head) + Len(o)
      /\ \A i \in 1 .. Len(head) : m[i] = head[i]
      /\ \A i \in 1 .. Len(o) : m[Len(head) + i] = o[i]
  BY <1>0, Joined
<1> HIDE DEF m
<1>3. NegoMsg(o) = m
  BY DEF NegoMsg, m, head
<1>4. 1 \in 1 .. 2 /\ 2 \in 1 .. 2 /\ 2 + Len(o) = Len(o) + 2
  OBVIOUS
<1> QED BY <1>1, <1>2, <1>3, <1>4

\* A message with an address between its head and its port.
LEMMA FramedBytes ==
  ASSUME NEW head \in Seq(Byte), NEW a \in Seq(Byte)
  PROVE  LET m == head \o a \o <<0, 0>> IN
         /\ m \in Seq(Byte) /\ Len(m) = Len(head) + Len(a) + 2
         /\ \A i \in 1 .. Len(head) : m[i] = head[i]
         /\ \A i \in 1 .. Len(a) : m[Len(head) + i] = a[i]
         /\ m[Len(head) + Len(a) + 1] = 0
<1> DEFINE port == <<0, 0>>
           u == head \o a
           m == u \o port
<1>1. port \in Seq(Byte) /\ Len(port) = 2 /\ port[1] = 0
  BY DEF Byte
<1> HIDE DEF port
<1>2. /\ u \in Seq(Byte) /\ Len(u) = Len(head) + Len(a)
      /\ \A i \in 1 .. Len(head) : u[i] = head[i]
      /\ \A i \in 1 .. Len(a) : u[Len(head) + i] = a[i]
  BY Joined
<1>3. u \in Seq(Byte) /\ port \in Seq(Byte)
  BY <1>1, <1>2
<1> HIDE DEF u
<1>4. /\ m \in Seq(Byte) /\ Len(m) = Len(u) + Len(port)
      /\ \A i \in 1 .. Len(u) : m[i] = u[i]
      /\ \A i \in 1 .. Len(port) : m[Len(u) + i] = port[i]
  BY <1>3, Joined
<1> HIDE DEF m
<1>5. Len(head) \in Nat /\ Len(a) \in Nat /\ 1 \in 1 .. 2
  OBVIOUS
<1>6. \A i \in 1 .. Len(head) : m[i] = head[i]
  <2>1. \A i \in 1 .. Len(head) : i \in 1 .. Len(u)
    BY <1>2, <1>5
  <2> QED BY <1>2, <1>4, <2>1
<1>7. \A i \in 1 .. Len(a) : m[Len(head) + i] = a[i]
  <2>1. \A i \in 1 .. Len(a) : Len(head) + i \in 1 .. Len(u)
    BY <1>2, <1>5
  <2> QED BY <1>2, <1>4, <2>1
<1>8. m[Len(head) + Len(a) + 1] = 0
  BY <1>1, <1>2, <1>4, <1>5
<1>9. m \in Seq(Byte) /\ Len(m) = Len(head) + Len(a) + 2
  BY <1>1, <1>2, <1>4, <1>5
<1> QED BY <1>6, <1>7, <1>8, <1>9 DEF m, u, port

\* The request to connect to h, and the reply that names it: 5 bytes come before it.
LEMMA NamingBytes ==
  ASSUME NEW h \in Seq(Byte), Len(h) <= 255, NEW second \in Byte
  PROVE  LET m == <<5, second, 0, 3, Len(h)>> \o h \o <<0, 0>> IN
         /\ m \in Seq(Byte) /\ Len(m) = Len(h) + 7
         /\ m[1] = 5 /\ m[2] = second /\ m[3] = 0 /\ m[4] = 3 /\ m[5] = Len(h)
         /\ \A i \in 1 .. Len(h) : m[5 + i] = h[i]
         /\ m[Len(h) + 6] = 0
<1> DEFINE head == <<5, second, 0, 3, Len(h)>>
           m == head \o h \o <<0, 0>>
<1>1. /\ head \in Seq(Byte) /\ Len(head) = 5 /\ Len(h) \in Nat
      /\ head[1] = 5 /\ head[2] = second /\ head[3] = 0 /\ head[4] = 3 /\ head[5] = Len(h)
  <2> DEFINE n == Len(h)
  <2>1. n \in Nat /\ n <= 255
    OBVIOUS
  <2> HIDE DEF n
  <2>2. 5 \in Byte /\ 0 \in Byte /\ 3 \in Byte /\ n \in Byte
    BY <2>1 DEF Byte
  <2>3. <<5, second, 0, 3, n>> \in Seq(Byte)
    BY <2>2
  <2> QED BY <2>1, <2>3 DEF n
<1> HIDE DEF head
<1>2. /\ m \in Seq(Byte) /\ Len(m) = Len(head) + Len(h) + 2
      /\ \A i \in 1 .. Len(head) : m[i] = head[i]
      /\ \A i \in 1 .. Len(h) : m[Len(head) + i] = h[i]
      /\ m[Len(head) + Len(h) + 1] = 0
  BY <1>1, FramedBytes
<1> HIDE DEF m
<1>3. Len(head) + Len(h) + 2 = Len(h) + 7 /\ Len(head) + Len(h) + 1 = Len(h) + 6
  BY <1>1
<1>4. 1 \in 1 .. 5 /\ 2 \in 1 .. 5 /\ 3 \in 1 .. 5 /\ 4 \in 1 .. 5 /\ 5 \in 1 .. 5
  OBVIOUS
<1>5. /\ m \in Seq(Byte) /\ Len(m) = Len(h) + 7
      /\ m[1] = 5 /\ m[2] = second /\ m[3] = 0 /\ m[4] = 3 /\ m[5] = Len(h)
      /\ \A i \in 1 .. Len(h) : m[5 + i] = h[i]
      /\ m[Len(h) + 6] = 0
  BY <1>1, <1>2, <1>3, <1>4
<1> QED BY <1>5 DEF m, head

\* The reply of a server with the address a.
LEMMA GrantBytes ==
  ASSUME NEW a \in Addresses
  PROVE  /\ Grant(a) \in Seq(Byte) /\ Len(Grant(a)) = Len(a) + 6
         /\ Grant(a)[1] = 5 /\ Grant(a)[2] = 0 /\ Grant(a)[3] = 0 /\ Grant(a)[4] = AddressType(a)
         /\ AddressType(a) = IF Len(a) = 4 THEN 1 ELSE 4
         /\ a \in Seq(Byte) /\ Len(a) \in {4, 16}
<1> DEFINE t == AddressType(a)
           head == <<5, 0, 0, t>>
           m == head \o a \o <<0, 0>>
<1>0. a \in Seq(Byte) /\ Len(a) \in {4, 16}
  BY AddressAssumption DEF AddressAssumption
<1>1. t \in Byte /\ t = IF Len(a) = 4 THEN 1 ELSE 4
  BY <1>0 DEF AddressType, Byte
<1> HIDE DEF t
<1>2. /\ head \in Seq(Byte) /\ Len(head) = 4
      /\ head[1] = 5 /\ head[2] = 0 /\ head[3] = 0 /\ head[4] = t
  BY <1>1 DEF Byte
<1> HIDE DEF head
<1>3. /\ m \in Seq(Byte) /\ Len(m) = Len(head) + Len(a) + 2
      /\ \A i \in 1 .. Len(head) : m[i] = head[i]
  BY <1>0, <1>2, FramedBytes
<1> HIDE DEF m
<1>4. 1 \in 1 .. 4 /\ 2 \in 1 .. 4 /\ 3 \in 1 .. 4 /\ 4 \in 1 .. 4
  OBVIOUS
<1>5. /\ m \in Seq(Byte) /\ Len(m) = Len(a) + 6
      /\ m[1] = 5 /\ m[2] = 0 /\ m[3] = 0 /\ m[4] = t
  BY <1>0, <1>2, <1>3, <1>4
<1>6. Grant(a) = m
  BY DEF Grant, m, head, t
<1> QED BY <1>0, <1>1, <1>5, <1>6 DEF t

\* The reply of our server, with the address type twice.
LEMMA ConnectReplyBytes ==
  ASSUME NEW a \in Addresses
  PROVE  ConnectReply(a) \in Seq(Byte) /\ Len(ConnectReply(a)) = Len(a) + 7
<1> DEFINE t == AddressType(a)
           head == <<5, 0, 0, t, t>>
           m == head \o a \o <<0, 0>>
<1>0. a \in Seq(Byte) /\ Len(a) \in {4, 16}
  BY AddressAssumption DEF AddressAssumption
<1>1. t \in Byte
  BY DEF AddressType, Byte
<1> HIDE DEF t
<1>2. head \in Seq(Byte) /\ Len(head) = 5
  BY <1>1 DEF Byte
<1> HIDE DEF head
<1>3. m \in Seq(Byte) /\ Len(m) = Len(head) + Len(a) + 2
  BY <1>0, <1>2, FramedBytes
<1> HIDE DEF m
<1>4. ConnectReply(a) = m
  BY DEF ConnectReply, m, head, t
<1> QED BY <1>0, <1>2, <1>3, <1>4

LEMMA DenialBytes ==
  ASSUME NEW rep \in 1 .. 8
  PROVE  /\ Denial(rep) \in Seq(Byte) /\ Len(Denial(rep)) = 10
         /\ Denial(rep)[1] = 5 /\ Denial(rep)[2] = rep
<1> DEFINE head == <<5, rep, 0, 1>>
           a == <<0, 0, 0, 0>>
           m == head \o a \o <<0, 0>>
<1>1. /\ head \in Seq(Byte) /\ Len(head) = 4 /\ head[1] = 5 /\ head[2] = rep
      /\ a \in Seq(Byte) /\ Len(a) = 4
  BY DEF Byte
<1> HIDE DEF head, a
<1>2. /\ m \in Seq(Byte) /\ Len(m) = Len(head) + Len(a) + 2
      /\ \A i \in 1 .. Len(head) : m[i] = head[i]
  BY <1>1, FramedBytes
<1> HIDE DEF m
<1>3. Denial(rep) = m
  BY DEF Denial, m, head, a
<1>4. 1 \in 1 .. 4 /\ 2 \in 1 .. 4
  OBVIOUS
<1> QED BY <1>1, <1>2, <1>3, <1>4

-----------------------------------------------------------------------------
(* What an end of ours has written, and what it is about to do *)

Cad == [cb : {"none"} \cup Reading \cup Writing, buffer : Seq(Byte),
        length : 0 .. 262, offset : 0 .. 262]

\* The callbacks an end can come to: connect_addr_read_cb is shared, and what it does
\* with a part of an address leads the server to the callbacks of the client.
Own(e) ==
  {"connect_reply_read", "connect_reply_addr_len_read", "connect_reply_addr_read",
   "connect_addr_read"} \cup
  IF e = "client" THEN {"nego_msg_write", "nego_reply_read", "connect_msg_write"}
  ELSE {"nego_msg_read", "nego_reply_write", "no_supported_method", "connect_msg_read",
        "connect_addr_len_read", "connect_reply_write"}

\* What was written before the pending read or the message that is being written.
Said(e, cb) ==
  IF e = "client"
  THEN IF cb = "nego_msg_write" THEN <<>>
       ELSE IF cb \in {"nego_reply_read", "connect_msg_write"} THEN NegoMsg(<<NONE>>)
       ELSE NegoMsg(<<NONE>>) \o ConnectMsg(Host)
  ELSE IF cb \in {"nego_msg_read", "nego_reply_write", "no_supported_method"} THEN <<>>
       ELSE NegoReply(NONE)

Messages(cb) ==
  CASE cb = "nego_msg_write"      -> {NegoMsg(<<NONE>>)}
    [] cb = "nego_reply_write"    -> {NegoReply(NONE)}
    [] cb = "no_supported_method" -> {NegoReply(NO_ACCEPT)}
    [] cb = "connect_msg_write"   -> {ConnectMsg(Host)}
    [] OTHER                      -> {ConnectReply(a) : a \in Addresses}

LenReads == {"connect_addr_len_read", "connect_reply_addr_len_read"}

\* A pending read: there is room left, and the buffer is filled up to the offset.
Reader(e, d, s) ==
  /\ d.cb \in Reading \cap Own(e)
  /\ d.length \in 1 .. 257 /\ d.offset \in 0 .. d.length - 1 /\ d.offset <= Len(d.buffer)
  /\ d.cb \in LenReads => Len(d.buffer) >= 1
  /\ s = Said(e, d.cb)

\* A pending write: part of the message is still to be written.
Writer(e, d, s) ==
  /\ d.cb \in Writing \cap Own(e)
  /\ d.buffer \in Messages(d.cb)
  /\ d.length = Len(d.buffer) /\ d.offset \in 0 .. d.length - 1
  /\ s = Said(e, d.cb) \o SubSeq(d.buffer, 1, d.offset)

MayEnd(e, s) == \E script \in Scripts(e) : IsPrefix(s, script)

Ended(e, d, r, s) == d = Idle /\ r \in Results \ {"pending"} /\ MayEnd(e, s)

Stands(e, d, r, s) ==
  \/ Ended(e, d, r, s)
  \/ r = "pending" /\ (Reader(e, d, s) \/ Writer(e, d, s))

IInv ==
  /\ ours \in Pairs /\ closed \subseteq End
  /\ sent \in [End -> Seq(Byte)]
  /\ taken \in [End -> Nat] /\ \A e \in End : taken[e] <= Len(sent[Peer(e)])
  /\ data \in [End -> Cad] /\ result \in [End -> Results]
  /\ stage \in {"start", "offered", "asked", "done"}
  /\ \A e \in ours : Stands(e, data[e], result[e], sent[e])
  /\ \A e \in End \ ours : data[e] = Idle /\ result[e] = "pending"

\* The constants are what the messages need.
LEMMA HostType ==
  /\ Host \in Seq(Byte) /\ Len(Host) \in Nat /\ Len(Host) <= 255
  /\ \A i \in 1 .. Len(Host) : Host[i] # 0
<1>1. Host \in Seq(Byte \ {0}) /\ Len(Host) <= 255
  BY HostAssumption DEF HostAssumption
<1>2. Host \in Seq(Byte)
  BY <1>1, SeqMonotonic
<1>3. \A i \in 1 .. Len(Host) : Host[i] \in Byte \ {0}
  BY <1>1, ElementOfSeq
<1> QED BY <1>1, <1>2, <1>3

\* The messages of our ends are bytes, and fit.
LEMMA MessageType ==
  /\ NegoMsg(<<NONE>>) \in Seq(Byte) /\ Len(NegoMsg(<<NONE>>)) = 3
  /\ NegoReply(NONE) \in Seq(Byte) /\ Len(NegoReply(NONE)) = 2
  /\ NegoReply(NO_ACCEPT) \in Seq(Byte) /\ Len(NegoReply(NO_ACCEPT)) = 2
  /\ ConnectMsg(Host) \in Seq(Byte) /\ Len(ConnectMsg(Host)) \in 7 .. 262
  /\ \A a \in Addresses : ConnectReply(a) \in Seq(Byte) /\ Len(ConnectReply(a)) \in 11 .. 23
<1>1. NegoMsg(<<NONE>>) \in Seq(Byte) /\ Len(NegoMsg(<<NONE>>)) = 3
  <2> DEFINE o == <<0>>
  <2>1. o \in Seq(Byte) /\ Len(o) = 1 /\ Len(o) \in 1 .. 255
    BY DEF Byte
  <2> HIDE DEF o
  <2>2. NegoMsg(o) \in Seq(Byte) /\ Len(NegoMsg(o)) = Len(o) + 2
    BY <2>1, NegoMsgBytes, Zenon
  <2> QED BY <2>1, <2>2 DEF o
<1>2. \A m \in Byte : NegoReply(m) \in Seq(Byte) /\ Len(NegoReply(m)) = 2
  BY DEF NegoReply, Byte
<1>3. NONE \in Byte /\ NO_ACCEPT \in Byte /\ 1 \in Byte
  BY DEF Byte
<1>4. ConnectMsg(Host) \in Seq(Byte) /\ Len(ConnectMsg(Host)) = Len(Host) + 7
  BY <1>3, HostType, NamingBytes DEF ConnectMsg
<1>5. ASSUME NEW a \in Addresses
      PROVE  ConnectReply(a) \in Seq(Byte) /\ Len(ConnectReply(a)) \in 11 .. 23
  <2>1. ConnectReply(a) \in Seq(Byte) /\ Len(ConnectReply(a)) = Len(a) + 7
    BY ConnectReplyBytes
  <2>2. Len(a) = 4 \/ Len(a) = 16
    BY AddressAssumption DEF AddressAssumption
  <2>3. 4 + 7 \in 11 .. 23 /\ 16 + 7 \in 11 .. 23
    OBVIOUS
  <2> QED BY <2>1, <2>2, <2>3, Zenon
<1>6. Len(Host) + 7 \in 7 .. 262
  <2>1. \A n \in Nat : n <= 255 => n + 7 \in 7 .. 262
    OBVIOUS
  <2> QED BY <2>1, HostType, Zenon
<1>7. Len(ConnectMsg(Host)) \in 7 .. 262
  BY <1>4, <1>6, Zenon
<1> QED BY <1>1, <1>2, <1>3, <1>4, <1>5, <1>7, ZenonT(30)

\* What an end is about to write is a message that fits its data, and what it wrote
\* before is bytes.
LEMMA SaidType ==
  ASSUME NEW e \in End, NEW cb
  PROVE  Said(e, cb) \in Seq(Byte)
<1>1. <<>> \in Seq(Byte)
  OBVIOUS
<1>2. NegoMsg(<<NONE>>) \o ConnectMsg(Host) \in Seq(Byte)
  BY MessageType, Joined
<1> QED BY <1>1, <1>2, MessageType DEF Said

LEMMA MessagesType ==
  ASSUME NEW cb \in Writing, NEW m \in Messages(cb)
  PROVE  m \in Seq(Byte) /\ Len(m) \in 1 .. 262
BY MessageType DEF Messages, Writing

\* A prefix, from what follows it.
LEMMA Prefixed ==
  ASSUME NEW u \in Seq(Byte), NEW v \in Seq(Byte)
  PROVE  IsPrefix(u, u \o v)
<1>1. /\ u \o v \in Seq(Byte) /\ Len(u \o v) = Len(u) + Len(v)
      /\ \A i \in 1 .. Len(u) : (u \o v)[i] = u[i]
  BY Joined
<1>2. Len(u) \in Nat /\ Len(v) \in Nat /\ Len(u) <= Len(u \o v)
  BY <1>1
<1>3. SubSeq(u, 1, Len(u)) = u
  BY SubSeqFull
<1> DEFINE w == u \o v
           p == SubSeq(w, 1, Len(u))
<1>4. \A i \in 1 .. Len(u) : w[i] \in Byte
  BY <1>1
<1>5. /\ p \in Seq(Byte) /\ Len(p) = IF 1 <= Len(u) THEN Len(u) - 1 + 1 ELSE 0
      /\ \A i \in 1 .. Len(u) - 1 + 1 : p[i] = w[1 + i - 1]
  <2> HIDE DEF w
  <2> QED BY <1>2, <1>4, SubSeqProperties
<1> HIDE DEF p
<1>6. Len(p) = Len(u)
  BY <1>2, <1>5
<1>7. \A i \in 1 .. Len(u) : p[i] = u[i]
  <2>1. \A i \in 1 .. Len(u) : i \in 1 .. Len(u) - 1 + 1 /\ 1 + i - 1 = i
    BY <1>2
  <2> QED BY <1>1, <1>5, <2>1
<1>8. p = u
  BY <1>5, <1>6, <1>7, SeqEqual
<1> QED BY <1>2, <1>3, <1>8 DEF IsPrefix, p

\* However far a message is written, what an end has written is the beginning of
\* one of its scripts.
LEMMA WriterMayEnd ==
  ASSUME NEW e \in End, NEW cb \in Writing \cap Own(e), NEW m \in Messages(cb),
         NEW k \in 0 .. Len(m)
  PROVE  MayEnd(e, Said(e, cb) \o SubSeq(m, 1, k))
<1> DEFINE before == Said(e, cb)
           u == SubSeq(m, 1, k)
           v == SubSeq(m, k + 1, Len(m))
<1>1. before \in Seq(Byte) /\ m \in Seq(Byte) /\ Len(m) \in Nat
  BY SaidType, MessagesType
<1>2. u \in Seq(Byte) /\ v \in Seq(Byte) /\ u \o v = m
  <2>1. 1 \in 1 .. Len(m) + 1 /\ k \in 1 - 1 .. Len(m) /\ Len(m) \in k .. Len(m)
    BY <1>1
  <2>2. u \o v = SubSeq(m, 1, Len(m))
    BY <1>1, <2>1, ConcatAdjacentSubSeq
  <2>3. \A i \in 1 .. Len(m) : m[i] \in Byte
    BY <1>1
  <2>4. u \in Seq(Byte) /\ v \in Seq(Byte)
    <3>1. \A i \in 1 .. k : m[i] \in Byte
      BY <1>1, <2>3
    <3>2. \A i \in k + 1 .. Len(m) : m[i] \in Byte
      BY <1>1, <2>3
    <3>3. 1 \in Int /\ k \in Int /\ k + 1 \in Int /\ Len(m) \in Int
      BY <1>1
    <3> QED BY <3>1, <3>2, <3>3, SubSeqProperties
  <2> QED BY <1>1, <2>2, <2>4, SubSeqFull
<1> HIDE DEF before, u, v
<1>3. before \o u \in Seq(Byte) /\ before \o m = (before \o u) \o v
  <2>1. before \in Seq(Byte) /\ u \in Seq(Byte) /\ v \in Seq(Byte)
    BY <1>1, <1>2
  <2>2. before \o u \in Seq(Byte)
    BY <2>1, Joined
  <2>3. (before \o u) \o v = before \o (u \o v)
    BY SMTT(30), <2>1, ConcatAssociative
  <2> QED BY <1>2, <2>2, <2>3, Zenon
<1>4. IsPrefix(before \o u, before \o m)
  BY <1>2, <1>3, Prefixed
<1>5. CASE cb = "nego_msg_write"
  <2>1. m = NegoMsg(<<NONE>>) /\ e = "client" /\ before = <<>>
    BY <1>5 DEF Messages, Own, End, Said, before
  <2>2. before \o m = NegoMsg(<<NONE>>)
    BY <1>1, <2>1, ConcatEmptySeq
  <2>3. u \o (v \o ConnectMsg(Host)) = NegoMsg(<<NONE>>) \o ConnectMsg(Host)
    <3>1. (u \o v) \o ConnectMsg(Host) = u \o (v \o ConnectMsg(Host))
      <4>1. u \in Seq(Byte) /\ v \in Seq(Byte) /\ ConnectMsg(Host) \in Seq(Byte)
        BY SMTT(30), <1>2, MessageType
      <4> QED BY SMTT(30), <4>1, ConcatAssociative
    <3> QED BY <1>2, <2>1, <3>1, Zenon
  <2>4. v \o ConnectMsg(Host) \in Seq(Byte)
    BY <1>2, MessageType, Joined
  <2>5. before \o u = u
    BY <1>2, <2>1, ConcatEmptySeq
  <2>6. IsPrefix(u, NegoMsg(<<NONE>>) \o ConnectMsg(Host))
    BY <1>2, <2>3, <2>4, Prefixed
  <2> QED BY <2>1, <2>5, <2>6 DEF MayEnd, Scripts, before, u
<1>6. CASE cb = "nego_reply_write"
  <2>1. m = NegoReply(NONE) /\ e = "server" /\ before = <<>>
    BY <1>6 DEF Messages, Own, End, Said, before
  <2>2. PICK a \in Addresses : TRUE
    BY AddressAssumption DEF AddressAssumption
  <2>3. u \o (v \o ConnectReply(a)) = NegoReply(NONE) \o ConnectReply(a)
    <3>1. (u \o v) \o ConnectReply(a) = u \o (v \o ConnectReply(a))
      <4>1. u \in Seq(Byte) /\ v \in Seq(Byte) /\ ConnectReply(a) \in Seq(Byte)
        BY SMTT(30), <1>2, MessageType
      <4> QED BY <4>1, ConcatAssociative
    <3> QED BY <1>2, <2>1, <3>1, Zenon
  <2>4. v \o ConnectReply(a) \in Seq(Byte)
    BY <1>2, MessageType, Joined
  <2>5. before \o u = u
    BY <1>2, <2>1, ConcatEmptySeq
  <2>6. IsPrefix(u, NegoReply(NONE) \o ConnectReply(a))
    BY <1>2, <2>3, <2>4, Prefixed
  <2>7. e # "client"
    BY <2>1
  <2> QED BY <2>5, <2>6, <2>7 DEF MayEnd, Scripts, before, u
<1>7. CASE cb \in {"no_supported_method", "connect_msg_write", "connect_reply_write"}
  <2>1. before \o m \in Scripts(e)
    <3>1. CASE cb = "no_supported_method"
      <4>1. m = NegoReply(NO_ACCEPT) /\ e # "client" /\ before = <<>>
        BY <3>1 DEF Messages, Own, End, Said, before
      <4>2. before \o m = m
        BY <1>1, <4>1, ConcatEmptySeq
      <4> QED BY <4>1, <4>2 DEF Scripts
    <3>2. CASE cb = "connect_msg_write"
      BY <3>2 DEF Messages, Own, End, Said, before, Scripts
    <3>3. CASE cb = "connect_reply_write"
      BY ZenonT(30), <3>3 DEF Messages, Own, End, Said, before, Scripts
    <3> QED BY <1>7, <3>1, <3>2, <3>3
  <2> QED BY <1>4, <2>1 DEF MayEnd, before, u
<1> QED BY <1>5, <1>6, <1>7 DEF Writing, Own

\* Nothing yet.
LEMMA NothingWritten ==
  ASSUME NEW m \in Seq(Byte)
  PROVE  SubSeq(m, 1, 0) = <<>>
BY SubSeqEmpty

LEMMA MayEndNow ==
  ASSUME NEW e \in End, NEW d \in Cad, NEW s \in Seq(Byte), Reader(e, d, s) \/ Writer(e, d, s)
  PROVE  MayEnd(e, s)
<1>1. CASE Writer(e, d, s)
  <2>1. d.buffer \in Seq(Byte) /\ d.offset \in 0 .. Len(d.buffer)
    BY <1>1 DEF Writer, Cad
  <2> QED BY <1>1, <2>1, WriterMayEnd DEF Writer
<1>2. CASE Reader(e, d, s)
  <2>1. s = Said(e, d.cb) /\ d.cb \in Reading \cap Own(e)
    BY <1>2 DEF Reader
  <2> DEFINE cb == d.cb
  <2>2. cb \in Reading \cap Own(e) /\ s = Said(e, cb)
    BY SMTT(30), <2>1
  <2> HIDE DEF cb
  <2>3. CASE e = "client" /\ cb = "nego_reply_read"
    <3>1. s = NegoMsg(<<NONE>>) /\ Scripts(e) = {NegoMsg(<<NONE>>) \o ConnectMsg(Host)}
      BY <2>2, <2>3 DEF Said, Scripts
    <3> QED BY <3>1, MessageType, Prefixed DEF MayEnd
  <2>4. CASE e = "client" /\ cb # "nego_reply_read"
    <3>1. s = NegoMsg(<<NONE>>) \o ConnectMsg(Host) /\ Scripts(e) = {s}
      BY <2>2, <2>4 DEF Said, Scripts, Reading
    <3>2. s \o <<>> = s /\ <<>> \in Seq(Byte)
      BY ConcatEmptySeq
    <3> QED BY <3>1, <3>2, Prefixed DEF MayEnd
  <2>5. CASE e = "server" /\ cb = "nego_msg_read"
    <3>1. s = <<>> /\ NegoReply(NO_ACCEPT) \in Scripts(e)
      BY <2>2, <2>5 DEF Said, Scripts
    <3>2. s \o NegoReply(NO_ACCEPT) = NegoReply(NO_ACCEPT)
      BY <3>1, MessageType, ConcatEmptySeq
    <3> QED BY ZenonT(30), <3>1, <3>2, MessageType, Prefixed DEF MayEnd
  <2>6. CASE e = "server" /\ cb # "nego_msg_read"
    <3>1. PICK a \in Addresses : TRUE
      BY AddressAssumption DEF AddressAssumption
    <3>2. s = NegoReply(NONE) /\ s \o ConnectReply(a) \in Scripts(e)
      BY <2>2, <2>6 DEF Said, Scripts, Reading
    <3> QED BY <3>2, MessageType, Prefixed DEF MayEnd
  <2> QED BY <2>3, <2>4, <2>5, <2>6 DEF End
<1> QED BY <1>1, <1>2

-----------------------------------------------------------------------------
(* What a callback leads to *)

\* End e goes on, or completes, having written s.
Moves(e, s) ==
  /\ data' \in [End -> Cad] /\ result' \in [End -> Results]
  /\ \A f \in End : f # e => data'[f] = data[f] /\ result'[f] = result[f]
  /\ Stands(e, data'[e], result'[e], s)

\* The data of a read.
LEMMA ReadCad ==
  ASSUME NEW cb \in Reading, NEW b \in Seq(Byte), NEW n \in 1 .. 257, NEW o \in 0 .. n - 1
  PROVE  [cb |-> cb, buffer |-> b, length |-> n, offset |-> o] \in Cad
<1>1. n \in 0 .. 262 /\ o \in 0 .. 262
  OBVIOUS
<1> QED BY <1>1, ZenonT(30) DEF Cad

LEMMA MovesRead ==
  ASSUME IInv, NEW e \in ours, result[e] = "pending",
         NEW cb \in Reading \cap Own(e), NEW b \in Seq(Byte),
         NEW n \in 1 .. 257, NEW o \in 0 .. n - 1, o <= Len(b), cb \in LenReads => Len(b) >= 1,
         do_read(e, cb, b, n, o)
  PROVE  Moves(e, Said(e, cb))
<1> DEFINE d == [cb |-> cb, buffer |-> b, length |-> n, offset |-> o]
<1>1. d \in Cad
  BY ReadCad
<1>2. Reader(e, d, Said(e, cb))
  BY DEF Reader
<1>3. data' = [data EXCEPT ![e] = d] /\ result' = result
  BY DEF do_read
<1>4. e \in End
  BY PairsAssumption DEF IInv, PairsAssumption
<1> HIDE DEF d
<1>5. data' \in [End -> Cad] /\ data'[e] = d /\ \A f \in End : f # e => data'[f] = data[f]
  BY <1>1, <1>3, <1>4 DEF IInv
<1> QED BY SMTT(30), <1>2, <1>3, <1>5 DEF Moves, Stands, IInv

LEMMA MovesWrite ==
  ASSUME IInv, NEW e \in ours, result[e] = "pending",
         NEW cb \in Writing \cap Own(e), NEW m \in Messages(cb), do_write(e, cb, m)
  PROVE  Moves(e, Said(e, cb))
<1> DEFINE d == [cb |-> cb, buffer |-> m, length |-> Len(m), offset |-> 0]
<1>0. e \in End
  BY PairsAssumption DEF IInv, PairsAssumption
<1>1. m \in Seq(Byte) /\ Len(m) \in 1 .. 262
  BY SMTT(30), MessagesType
<1>2. d \in Cad
  BY <1>1 DEF Cad, Writing
<1>3. Writer(e, d, Said(e, cb))
  <2>1. Said(e, cb) \o <<>> = Said(e, cb)
    BY <1>0, SaidType, ConcatEmptySeq
  <2>2. SubSeq(m, 1, 0) = <<>>
    BY <1>1, NothingWritten
  <2>3. Said(e, cb) = Said(e, cb) \o SubSeq(m, 1, 0)
    BY <2>1, <2>2, Zenon
  <2>4. 0 \in 0 .. Len(m) - 1
    <3>1. \A n \in 1 .. 262 : 0 \in 0 .. n - 1
      OBVIOUS
    <3> QED BY <1>1, <3>1, Zenon
  <2> QED BY <2>3, <2>4 DEF Writer
<1>4. data' = [data EXCEPT ![e] = d] /\ result' = result
  BY DEF do_write
<1> HIDE DEF d
<1>5. data' \in [End -> Cad] /\ data'[e] = d /\ \A f \in End : f # e => data'[f] = data[f]
  BY <1>0, <1>2, <1>4 DEF IInv
<1> QED BY <1>3, <1>4, <1>5 DEF Moves, Stands, IInv

LEMMA MovesComplete ==
  ASSUME IInv, NEW e \in ours, NEW r \in Results \ {"pending"}, NEW s, MayEnd(e, s), Complete(e, r)
  PROVE  Moves(e, s) /\ data'[e] = Idle /\ result'[e] = r
<1>0. e \in End
  BY PairsAssumption DEF IInv, PairsAssumption
<1>1. Idle \in Cad
  <2>1. <<>> \in Seq(Byte)
    OBVIOUS
  <2> QED BY <2>1 DEF Cad, Idle
<1>2. data' = [data EXCEPT ![e] = Idle] /\ result' = [result EXCEPT ![e] = r]
  BY DEF Complete
<1>3. data' \in [End -> Cad] /\ data'[e] = Idle /\ \A f \in End : f # e => data'[f] = data[f]
  BY <1>0, <1>1, <1>2 DEF IInv
<1>4. result' \in [End -> Results] /\ result'[e] = r /\ \A f \in End : f # e => result'[f] = result[f]
  BY <1>0, <1>2 DEF IInv
<1> QED BY <1>3, <1>4 DEF Moves, Stands, Ended

-----------------------------------------------------------------------------
(* Reads *)

\* What the buffer holds after a read of k bytes.
LEMMA StoredBytes ==
  ASSUME NEW buffer \in Seq(Byte), NEW offset \in 0 .. Len(buffer), NEW bytes \in Seq(Byte)
  PROVE  LET b == Stored(buffer, offset, bytes) IN
         /\ b \in Seq(Byte) /\ offset + Len(bytes) <= Len(b) /\ Len(buffer) <= Len(b)
         /\ \A i \in 1 .. offset : b[i] = buffer[i]
         /\ \A i \in 1 .. Len(bytes) : b[offset + i] = bytes[i]
<1> DEFINE head == SubSeq(buffer, 1, offset)
           rest == SubSeq(buffer, offset + Len(bytes) + 1, Len(buffer))
           u == head \o bytes
           b == u \o rest
<1>1. Len(buffer) \in Nat /\ Len(bytes) \in Nat /\ offset \in Nat /\ offset <= Len(buffer)
      /\ \A i \in 1 .. Len(buffer) : buffer[i] \in Byte
  OBVIOUS
<1>2. /\ head \in Seq(Byte) /\ Len(head) = offset
      /\ \A i \in 1 .. offset : head[i] = buffer[i]
  <2>1. \A i \in 1 .. offset : buffer[i] \in Byte
    BY <1>1
  <2>2. /\ head \in Seq(Byte) /\ Len(head) = IF 1 <= offset THEN offset - 1 + 1 ELSE 0
        /\ \A i \in 1 .. offset - 1 + 1 : head[i] = buffer[1 + i - 1]
    BY <1>1, <2>1, SubSeqProperties
  <2> HIDE DEF head
  <2>3. \A i \in 1 .. offset : i \in 1 .. offset - 1 + 1 /\ 1 + i - 1 = i
    BY <1>1
  <2> QED BY <1>1, <2>2, <2>3
<1>3. rest \in Seq(Byte) /\ Len(rest) >= Len(buffer) - (offset + Len(bytes)) /\ Len(rest) \in Nat
  <2> DEFINE from == offset + Len(bytes) + 1
  <2>1. from \in Int /\ Len(buffer) \in Int /\ \A i \in from .. Len(buffer) : buffer[i] \in Byte
    BY <1>1
  <2>2. /\ rest \in Seq(Byte)
        /\ Len(rest) = IF from <= Len(buffer) THEN Len(buffer) - from + 1 ELSE 0
    <3> HIDE DEF from
    <3>1. /\ SubSeq(buffer, from, Len(buffer)) \in Seq(Byte)
          /\ Len(SubSeq(buffer, from, Len(buffer))) =
               IF from <= Len(buffer) THEN Len(buffer) - from + 1 ELSE 0
      BY <2>1, SubSeqProperties
    <3> QED BY <3>1 DEF from
  <2> HIDE DEF rest
  <2> QED BY <1>1, <2>2
<1> HIDE DEF head, rest
<1>4. head \in Seq(Byte) /\ bytes \in Seq(Byte) /\ rest \in Seq(Byte)
  BY <1>2, <1>3
<1>5. /\ u \in Seq(Byte) /\ Len(u) = Len(head) + Len(bytes)
      /\ \A i \in 1 .. Len(head) : u[i] = head[i]
      /\ \A i \in 1 .. Len(bytes) : u[Len(head) + i] = bytes[i]
  BY <1>4, Joined
<1> HIDE DEF u
<1>6. u \in Seq(Byte)
  BY <1>5
<1>7. /\ b \in Seq(Byte) /\ Len(b) = Len(u) + Len(rest)
      /\ \A i \in 1 .. Len(u) : b[i] = u[i]
  BY <1>4, <1>6, Joined
<1> HIDE DEF b
<1>8. Stored(buffer, offset, bytes) = b
  BY DEF Stored, b, u, head, rest
<1>9. offset + Len(bytes) <= Len(b) /\ Len(buffer) <= Len(b)
  BY <1>1, <1>2, <1>3, <1>5, <1>7
<1>10. \A i \in 1 .. offset : b[i] = buffer[i]
  <2>1. \A i \in 1 .. offset : i \in 1 .. Len(u) /\ i \in 1 .. Len(head)
    BY <1>1, <1>2, <1>5
  <2> QED BY <1>2, <1>5, <1>7, <2>1
<1>11. \A i \in 1 .. Len(bytes) : b[offset + i] = bytes[i]
  <2>1. \A i \in 1 .. Len(bytes) : offset + i \in 1 .. Len(u)
    BY <1>1, <1>2, <1>5
  <2> QED BY <1>2, <1>5, <1>7, <2>1
<1> QED BY <1>7, <1>8, <1>9, <1>10, <1>11

\* The buffer of an end when a read has returned k bytes.
Filled(e, k) == Stored(data[e].buffer, data[e].offset, SubSeq(Arriving(e), 1, k))

\* The bytes on their way to an end.
LEMMA ArrivingBytes ==
  ASSUME IInv, NEW e \in End
  PROVE  /\ Arriving(e) \in Seq(Byte) /\ Len(Arriving(e)) = Len(sent[Peer(e)]) - taken[e]
         /\ \A i \in 1 .. Len(Arriving(e)) : Arriving(e)[i] = sent[Peer(e)][taken[e] + i]
<1> DEFINE s == sent[Peer(e)]
           t == taken[e]
           in == Arriving(e)
<1>1. s \in Seq(Byte) /\ t \in Nat /\ t <= Len(s)
  <2>1. Peer(e) \in End
    BY DEF Peer, End
  <2> QED BY <2>1 DEF IInv
<1>2. in = SubSeq(s, t + 1, Len(s))
  BY DEF Arriving
<1> HIDE DEF s, t, in
<1>3. \A i \in t + 1 .. Len(s) : s[i] \in Byte
  BY <1>1
<1>4. t + 1 \in Int /\ Len(s) \in Int
  BY <1>1
<1>5. /\ in \in Seq(Byte) /\ Len(in) = IF t + 1 <= Len(s) THEN Len(s) - (t + 1) + 1 ELSE 0
      /\ \A i \in 1 .. Len(s) - (t + 1) + 1 : in[i] = s[t + 1 + i - 1]
  BY <1>2, <1>3, <1>4, SubSeqProperties
<1>6. Len(in) = Len(s) - t
  BY <1>1, <1>5
<1>7. \A i \in 1 .. Len(in) : i \in 1 .. Len(s) - (t + 1) + 1 /\ t + 1 + i - 1 = t + i
  BY <1>1, <1>6
<1>8. in \in Seq(Byte) /\ Len(in) = Len(s) - t /\ \A i \in 1 .. Len(in) : in[i] = s[t + i]
  BY <1>5, <1>6, <1>7
<1> QED BY <1>8 DEF in, s, t

LEMMA ReadBytes ==
  ASSUME IInv, NEW e \in ours, Reader(e, data[e], sent[e]), NEW k \in ReadSizes(e)
  PROVE  /\ Filled(e, k) \in Seq(Byte) /\ k \in Nat
         /\ data[e].offset + k \in 0 .. data[e].length
         /\ data[e].offset + k <= Len(Filled(e, k))
         /\ Len(data[e].buffer) <= Len(Filled(e, k))
         /\ taken[e] + k <= Len(sent[Peer(e)])
         /\ \A i \in 1 .. data[e].offset : Filled(e, k)[i] = data[e].buffer[i]
         /\ \A i \in 1 .. k : Filled(e, k)[data[e].offset + i] = sent[Peer(e)][taken[e] + i]
<1> DEFINE s == sent[Peer(e)]
           t == taken[e]
           in == Arriving(e)
           n == data[e].length
           o == data[e].offset
           buffer == data[e].buffer
           got == SubSeq(in, 1, k)
<1>1. e \in End /\ Peer(e) \in End
  BY PairsAssumption DEF IInv, PairsAssumption, Peer, End
<1>2. s \in Seq(Byte) /\ t \in Nat /\ t <= Len(s)
  BY <1>1 DEF IInv
<1>3. n \in 1 .. 257 /\ o \in 0 .. n - 1 /\ o <= Len(buffer) /\ o \in Nat /\ n \in Nat /\ o <= n
  <2>1. n \in 1 .. 257 /\ o \in 0 .. n - 1 /\ o <= Len(buffer)
    BY Zenon DEF Reader
  <2>2. \A m \in 1 .. 257 : m \in Nat /\ \A p \in 0 .. m - 1 : p \in Nat /\ p <= m
    OBVIOUS
  <2> HIDE DEF n, o, buffer
  <2> QED BY <2>1, <2>2
<1>4. buffer \in Seq(Byte)
  BY <1>1 DEF IInv, Cad
<1>6. k = 0 \/ (k \in 1 .. n - o /\ k <= Len(in))
  BY DEF ReadSizes
<1> HIDE DEF s, t, in, n, o, buffer
<1>7. /\ in \in Seq(Byte) /\ Len(in) = Len(s) - t
      /\ \A i \in 1 .. Len(in) : in[i] = s[t + i]
  BY <1>1, ArrivingBytes DEF in, s, t
<1>8. k \in Nat /\ k <= Len(in) /\ o + k \in 0 .. n /\ t + k <= Len(s)
  BY SMTT(30), <1>2, <1>3, <1>6, <1>7
<1>9. got \in Seq(Byte) /\ Len(got) = k /\ \A i \in 1 .. k : got[i] = in[i]
  <2>1. \A i \in 1 .. k : in[i] \in Byte
    BY <1>7, <1>8
  <2>2. /\ got \in Seq(Byte) /\ Len(got) = IF 1 <= k THEN k - 1 + 1 ELSE 0
        /\ \A i \in 1 .. k - 1 + 1 : got[i] = in[1 + i - 1]
    BY <1>8, <2>1, SubSeqProperties
  <2> HIDE DEF got
  <2>3. \A i \in 1 .. k : i \in 1 .. k - 1 + 1 /\ 1 + i - 1 = i
    BY <1>8
  <2> QED BY <1>8, <2>2, <2>3
<1> DEFINE b == Filled(e, k)
<1>10. b = Stored(buffer, o, got)
  BY DEF Filled, buffer, o, in
<1> HIDE DEF b, got
<1>11. o \in 0 .. Len(buffer) /\ got \in Seq(Byte)
  BY <1>3, <1>4, <1>9
<1>12. /\ b \in Seq(Byte) /\ o + Len(got) <= Len(b) /\ Len(buffer) <= Len(b)
       /\ \A i \in 1 .. o : b[i] = buffer[i]
       /\ \A i \in 1 .. Len(got) : b[o + i] = got[i]
  BY <1>4, <1>10, <1>11, StoredBytes
<1>13. \A i \in 1 .. k : b[o + i] = s[t + i]
  <2>1. \A i \in 1 .. k : i \in 1 .. Len(in)
    BY <1>7, <1>8
  <2> QED BY <1>7, <1>9, <1>12, <2>1
<1> QED BY <1>8, <1>9, <1>12, <1>13 DEF b, s, t, n, o, buffer

\* Where a callback of a read starts from.
AtRead(e, b, n, o) ==
  /\ e \in ours /\ result[e] = "pending" /\ data[e].cb \in Reading \cap Own(e)
  /\ sent[e] = Said(e, data[e].cb) /\ MayEnd(e, sent[e])
  /\ b \in Seq(Byte) /\ n \in 1 .. 257 /\ o \in 0 .. n /\ o <= Len(b)
  /\ data[e].cb \in LenReads => Len(b) >= 1

\* A buffer that is full holds a byte.
LEMMA FullBuffer ==
  ASSUME NEW e, NEW b, NEW n, NEW o, AtRead(e, b, n, o), o = n
  PROVE  b \in Seq(Byte) /\ Len(b) >= 1 /\ 0 <= Len(b)
<1>1. b \in Seq(Byte) /\ n \in 1 .. 257 /\ n <= Len(b)
  BY Zenon DEF AtRead
<1>2. \A l \in Nat, m \in 1 .. 257 : m <= l => l >= 1 /\ 0 <= l
  OBVIOUS
<1>3. Len(b) \in Nat
  BY <1>1
<1> QED BY <1>1, <1>2, <1>3, Zenon

\* What every callback may do: go on reading, or complete.
LEMMA CallbackGoesOn ==
  ASSUME IInv, NEW e, NEW b, NEW n, NEW o, AtRead(e, b, n, o),
         NEW cb \in Reading \cap Own(e), cb \in LenReads => Len(b) >= 1,
         Said(e, cb) = Said(e, data[e].cb),
         NEW m \in 1 .. 257, NEW p \in 0 .. m - 1, p <= Len(b), do_read(e, cb, b, m, p)
  PROVE  Moves(e, sent[e])
<1>1. e \in ours /\ result[e] = "pending" /\ sent[e] = Said(e, cb) /\ b \in Seq(Byte)
  BY SMTT(30) DEF AtRead
<1>2. Moves(e, Said(e, cb))
  BY ZenonT(30), <1>1, MovesRead
<1> QED BY <1>1, <1>2

LEMMA CallbackGoesBack ==
  ASSUME IInv, NEW e, NEW b, NEW n, NEW o, AtRead(e, b, n, o), o # n,
         NEW cb \in {data[e].cb, "connect_reply_read"}, Said(e, cb) = Said(e, data[e].cb),
         do_read(e, cb, b, n, o)
  PROVE  Moves(e, sent[e])
<1>1. cb \in Reading \cap Own(e)
  BY DEF AtRead, Own, Reading
<1>2. cb \in LenReads => Len(b) >= 1
  BY DEF AtRead, LenReads
<1>3. n \in 1 .. 257 /\ o \in 0 .. n - 1 /\ o <= Len(b)
  BY DEF AtRead
<1> QED BY <1>1, <1>2, <1>3, CallbackGoesOn

LEMMA CallbackAnswers ==
  ASSUME IInv, NEW e, NEW b, NEW n, NEW o, AtRead(e, b, n, o),
         NEW cb \in Writing \cap Own(e), Said(e, cb) = Said(e, data[e].cb),
         NEW m \in Messages(cb), do_write(e, cb, m)
  PROVE  Moves(e, sent[e])
<1>1. e \in ours /\ result[e] = "pending" /\ sent[e] = Said(e, cb)
  BY DEF AtRead
<1>2. Moves(e, Said(e, cb))
  BY <1>1, MovesWrite
<1> QED BY <1>1, <1>2

LEMMA CallbackCompletes ==
  ASSUME IInv, NEW e, NEW b, NEW n, NEW o, AtRead(e, b, n, o),
         NEW r \in Results \ {"pending"}, Complete(e, r) \/ CompleteUninitialised(e, r)
  PROVE  Moves(e, sent[e])
<1>1. e \in ours /\ MayEnd(e, sent[e])
  BY DEF AtRead
<1>2. "crashed" \in Results \ {"pending"}
  BY DEF Results
<1>3. Complete(e, r) \/ Complete(e, "crashed")
  BY DEF CompleteUninitialised
<1> QED BY <1>1, <1>2, <1>3, MovesComplete

-----------------------------------------------------------------------------
(* The callbacks of a read *)

LEMMA NegoMsgRead ==
  ASSUME IInv, NEW e, NEW b, NEW n, NEW o, AtRead(e, b, n, o), data[e].cb = "nego_msg_read",
         nego_msg_read_cb(e, b, n, o)
  PROVE  Moves(e, sent[e])
<1>0. e \in End /\ e # "client"
  BY PairsAssumption DEF IInv, PairsAssumption, AtRead, Own
<1>1. CASE ~NegoRead(b, n, o) /\ Again(e, b, n, o)
  <2>1. o # n
    BY <1>1 DEF NegoRead
  <2> QED BY <1>1, <2>1, CallbackGoesBack DEF Again
<1>2. ASSUME NEW r \in {"crashed", "failed"}, Complete(e, r) \/ CompleteUninitialised(e, r)
      PROVE  Moves(e, sent[e])
  BY <1>2, CallbackCompletes DEF Results
<1>3. ASSUME NEW cb \in {"nego_reply_write", "no_supported_method"}, NEW m \in Messages(cb),
             do_write(e, cb, m)
      PROVE  Moves(e, sent[e])
  <2>1. cb \in Writing \cap Own(e) /\ Said(e, cb) = Said(e, data[e].cb)
    BY <1>0 DEF Writing, Own, Said
  <2> QED BY <1>3, <2>1, CallbackAnswers
<1>4. NegoReply(NONE) \in Messages("nego_reply_write")
      /\ NegoReply(NO_ACCEPT) \in Messages("no_supported_method")
  BY DEF Messages
<1> QED BY <1>1, <1>2, <1>3, <1>4 DEF nego_msg_read_cb, RefuseMethods

LEMMA NegoReplyRead ==
  ASSUME IInv, NEW e, NEW b, NEW n, NEW o, AtRead(e, b, n, o), data[e].cb = "nego_reply_read",
         nego_reply_read_cb(e, b, n, o)
  PROVE  Moves(e, sent[e])
<1>0. e \in End /\ e = "client"
  BY PairsAssumption DEF IInv, PairsAssumption, AtRead, Own, End
<1>1. CASE o # n /\ Again(e, b, n, o)
  BY <1>1, CallbackGoesBack DEF Again
<1>2. ASSUME NEW r \in {"need_auth", "auth_failed", "failed"}, CompleteUninitialised(e, r)
      PROVE  Moves(e, sent[e])
  BY <1>2, CallbackCompletes DEF Results
<1>3. CASE do_write(e, "connect_msg_write", ConnectMsg(Host))
  <2>1. "connect_msg_write" \in Writing \cap Own(e)
        /\ Said(e, "connect_msg_write") = Said(e, data[e].cb)
    BY <1>0 DEF Writing, Own, Said
  <2>2. ConnectMsg(Host) \in Messages("connect_msg_write")
    BY DEF Messages
  <2> QED BY <1>3, <2>1, <2>2, CallbackAnswers
<1> QED BY <1>1, <1>2, <1>3 DEF nego_reply_read_cb

LEMMA ConnectMsgRead ==
  ASSUME IInv, NEW e, NEW b, NEW n, NEW o, AtRead(e, b, n, o), data[e].cb = "connect_msg_read",
         connect_msg_read_cb(e, b, n, o)
  PROVE  Moves(e, sent[e])
<1>0. e \in End /\ e # "client"
  BY PairsAssumption DEF IInv, PairsAssumption, AtRead, Own
<1>1. CASE o # n /\ Again(e, b, n, o)
  BY <1>1, CallbackGoesBack DEF Again
<1>2. CASE Complete(e, "failed")
  BY SMTT(30), <1>2, CallbackCompletes DEF Results
<1>3. CASE o = n /\ do_read(e, "connect_addr_len_read", b, 1, 0)
  <2>1. "connect_addr_len_read" \in Reading \cap Own(e)
        /\ Said(e, "connect_addr_len_read") = Said(e, data[e].cb)
    BY <1>0 DEF Reading, Own, Said
  <2>2. b \in Seq(Byte) /\ Len(b) >= 1 /\ 0 <= Len(b)
    BY <1>3, FullBuffer
  <2>3. 1 \in 1 .. 257 /\ 0 \in 0 .. 1 - 1
    OBVIOUS
  <2> QED BY ZenonT(30), <1>3, <2>1, <2>2, <2>3, CallbackGoesOn
<1> QED BY <1>1, <1>2, <1>3 DEF connect_msg_read_cb

LEMMA AddrLenRead ==
  ASSUME IInv, NEW e, NEW b, NEW n, NEW o, AtRead(e, b, n, o), data[e].cb \in LenReads,
         addr_len_read_cb(e, b)
  PROVE  Moves(e, sent[e])
<1>0. e \in End
  BY PairsAssumption DEF IInv, PairsAssumption, AtRead
<1>1. "connect_addr_read" \in Reading \cap Own(e) /\ "connect_addr_read" \notin LenReads
      /\ Said(e, "connect_addr_read") = Said(e, data[e].cb)
  BY <1>0 DEF Reading, Own, Said, LenReads, AtRead
<1>2. b \in Seq(Byte) /\ Len(b) >= 1
  BY DEF AtRead
<1>3. b[1] \in Byte /\ 0 <= Len(b)
  BY <1>2
<1> DEFINE x == b[1]
           m == x + 2
<1>6. do_read(e, "connect_addr_read", b, m, 0)
  BY Zenon DEF addr_len_read_cb
<1>4. x \in Byte
  BY <1>3
<1> HIDE DEF x
<1>5. m \in 1 .. 257 /\ 0 \in 0 .. m - 1
  BY <1>4 DEF Byte
<1> HIDE DEF m
<1> QED BY <1>1, <1>2, <1>3, <1>5, <1>6, CallbackGoesOn

LEMMA ConnectAddrRead ==
  ASSUME IInv, NEW e, NEW b, NEW n, NEW o, AtRead(e, b, n, o), data[e].cb = "connect_addr_read",
         connect_addr_read_cb(e, b, n, o)
  PROVE  Moves(e, sent[e])
<1>0. e \in End
  BY PairsAssumption DEF IInv, PairsAssumption, AtRead
<1>1. CASE o # n /\ do_read(e, "connect_reply_read", b, n, o)
  <2>1. Said(e, "connect_reply_read") = Said(e, data[e].cb)
    BY DEF Said
  <2> QED BY <1>1, <2>1, CallbackGoesBack
<1>2. ASSUME NEW r \in {"not_allowed", "crashed"}, Complete(e, r) PROVE Moves(e, sent[e])
  BY <1>2, CallbackCompletes DEF Results
<1>3. ASSUME e = "server", NEW a \in Addresses, do_write(e, "connect_reply_write", ConnectReply(a))
      PROVE  Moves(e, sent[e])
  <2>1. "connect_reply_write" \in Writing \cap Own(e)
        /\ Said(e, "connect_reply_write") = Said(e, data[e].cb)
    BY <1>3 DEF Writing, Own, Said
  <2>2. ConnectReply(a) \in Messages("connect_reply_write")
    BY DEF Messages
  <2> QED BY <1>3, <2>1, <2>2, CallbackAnswers
<1> QED BY <1>1, <1>2, <1>3 DEF connect_addr_read_cb

LEMMA ReplyErrorType == \A rep : ReplyError(rep) \in Results \ {"pending", "success"}
BY DEF ReplyError, Results

LEMMA ConnectReplyRead ==
  ASSUME IInv, NEW e, NEW b, NEW n, NEW o, AtRead(e, b, n, o), data[e].cb = "connect_reply_read",
         connect_reply_read_cb(e, b, n, o)
  PROVE  Moves(e, sent[e])
<1>0. e \in End
  BY PairsAssumption DEF IInv, PairsAssumption, AtRead
<1>1. CASE o # n /\ Again(e, b, n, o)
  BY <1>1, CallbackGoesBack DEF Again
<1>2. ASSUME NEW r \in Results \ {"pending"}, Complete(e, r) PROVE Moves(e, sent[e])
  BY SMTT(30), <1>2, CallbackCompletes
<1>3. ASSUME o = n, NEW cb \in {"connect_reply_addr_read", "connect_reply_addr_len_read"},
             NEW m \in {1, 6, 18}, do_read(e, cb, b, m, 0)
      PROVE  Moves(e, sent[e])
  <2>1. cb \in Reading \cap Own(e) /\ Said(e, cb) = Said(e, data[e].cb)
    BY <1>0 DEF Reading, Own, Said
  <2>2. b \in Seq(Byte) /\ Len(b) >= 1 /\ 0 <= Len(b)
    BY <1>3, FullBuffer
  <2>3. m \in 1 .. 257 /\ 0 \in 0 .. m - 1
    OBVIOUS
  <2> QED BY <1>3, <2>1, <2>2, <2>3, CallbackGoesOn
<1>4. "failed" \in Results \ {"pending"} /\ ReplyError(At(b, 2)) \in Results \ {"pending"}
  BY ReplyErrorType DEF Results
<1> QED BY <1>1, <1>2, <1>3, <1>4 DEF connect_reply_read_cb

LEMMA ConnectReplyAddrRead ==
  ASSUME IInv, NEW e, NEW b, NEW n, NEW o, AtRead(e, b, n, o),
         data[e].cb = "connect_reply_addr_read", connect_reply_addr_read_cb(e, b, n, o)
  PROVE  Moves(e, sent[e])
<1>1. CASE o # n /\ do_read(e, "connect_reply_read", b, n, o)
  <2>1. Said(e, "connect_reply_read") = Said(e, data[e].cb)
    BY DEF Said
  <2> QED BY <1>1, <2>1, CallbackGoesBack
<1>2. CASE Complete(e, "success")
  BY <1>2, CallbackCompletes DEF Results
<1> QED BY <1>1, <1>2 DEF connect_reply_addr_read_cb

-----------------------------------------------------------------------------
(* The steps of an end that runs this code *)

\* What a pending operation is.
LEMMA Pending ==
  ASSUME IInv, NEW e \in End, data[e].cb # "none"
  PROVE  /\ e \in ours /\ result[e] = "pending"
         /\ Reader(e, data[e], sent[e]) \/ Writer(e, data[e], sent[e])
         /\ MayEnd(e, sent[e])
<1>1. e \in ours /\ data[e] # Idle
  BY DEF IInv, Idle
<1>2. result[e] = "pending" /\ (Reader(e, data[e], sent[e]) \/ Writer(e, data[e], sent[e]))
  BY <1>1 DEF IInv, Stands, Ended
<1>3. data[e] \in Cad /\ sent[e] \in Seq(Byte)
  BY DEF IInv
<1> QED BY <1>1, <1>2, <1>3, MayEndNow

LEMMA ReadMoves ==
  ASSUME IInv, NEW e \in End, Read(e)
  PROVE  /\ Moves(e, sent[e]) /\ e \in ours
         /\ taken' \in [End -> Nat] /\ taken'[e] <= Len(sent[Peer(e)])
         /\ \A f \in End : f # e => taken'[f] = taken[f]
         /\ ours' = ours /\ sent' = sent /\ stage' = stage /\ closed' = closed
<1>1. data[e].cb \in Reading /\ data[e].cb # "none" /\ data[e].cb \notin Writing
  BY DEF Read, Reading, Writing
<1>2. e \in ours /\ result[e] = "pending" /\ Reader(e, data[e], sent[e]) /\ MayEnd(e, sent[e])
  BY <1>1, Pending DEF Writer
<1>3. PICK k \in ReadSizes(e) :
         /\ taken' = [taken EXCEPT ![e] = @ + k]
         /\ ReadCallback(e, Filled(e, k), data[e].length, data[e].offset + k)
  BY DEF Read, Filled
<1>4. /\ Filled(e, k) \in Seq(Byte) /\ k \in Nat
      /\ data[e].offset + k \in 0 .. data[e].length
      /\ data[e].offset + k <= Len(Filled(e, k))
      /\ Len(data[e].buffer) <= Len(Filled(e, k))
      /\ taken[e] + k <= Len(sent[Peer(e)])
  BY <1>2, ReadBytes
<1>5. /\ taken' \in [End -> Nat] /\ taken'[e] = taken[e] + k
      /\ \A f \in End : f # e => taken'[f] = taken[f]
  <2>1. taken \in [End -> Nat] /\ taken[e] + k \in Nat
    BY <1>4 DEF IInv
  <2> QED BY <1>3, <2>1
<1> DEFINE b == Filled(e, k)
           n == data[e].length
           o == data[e].offset + k
<1>6. AtRead(e, b, n, o)
  <2>1. data[e].cb \in Reading \cap Own(e) /\ sent[e] = Said(e, data[e].cb) /\ n \in 1 .. 257
        /\ (data[e].cb \in LenReads => Len(data[e].buffer) >= 1)
    BY <1>2, Zenon DEF Reader
  <2>2. b \in Seq(Byte) /\ o \in 0 .. n /\ o <= Len(b)
    BY <1>4, Zenon
  <2>3. data[e].cb \in LenReads => Len(b) >= 1
    <3>1. \A x, y \in Nat : x >= 1 /\ x <= y => y >= 1
      OBVIOUS
    <3>2. Len(data[e].buffer) \in Nat /\ Len(b) \in Nat
      BY <1>4 DEF IInv, Cad
    <3> QED BY <1>4, <2>1, <3>1, <3>2, Zenon
  <2> QED BY <1>2, <2>1, <2>2, <2>3, Zenon DEF AtRead
<1>7. ReadCallback(e, b, n, o)
  BY <1>3
<1> HIDE DEF b, n, o
<1>8. Moves(e, sent[e])
  <2>1. CASE data[e].cb = "nego_msg_read"
    BY <1>6, <1>7, <2>1, NegoMsgRead DEF ReadCallback
  <2>2. CASE data[e].cb = "nego_reply_read"
    BY <1>6, <1>7, <2>2, NegoReplyRead DEF ReadCallback
  <2>3. CASE data[e].cb = "connect_msg_read"
    BY <1>6, <1>7, <2>3, ConnectMsgRead DEF ReadCallback
  <2>4. CASE data[e].cb \in LenReads
    BY <1>6, <1>7, <2>4, AddrLenRead DEF ReadCallback, LenReads
  <2>5. CASE data[e].cb = "connect_addr_read"
    BY <1>6, <1>7, <2>5, ConnectAddrRead DEF ReadCallback
  <2>6. CASE data[e].cb = "connect_reply_read"
    BY <1>6, <1>7, <2>6, ConnectReplyRead DEF ReadCallback
  <2>7. CASE data[e].cb = "connect_reply_addr_read"
    BY <1>6, <1>7, <2>7, ConnectReplyAddrRead DEF ReadCallback
  <2> QED BY <1>1, <2>1, <2>2, <2>3, <2>4, <2>5, <2>6, <2>7 DEF Reading, LenReads
<1>9. ours' = ours /\ sent' = sent /\ stage' = stage /\ closed' = closed
  BY DEF Read
<1> QED BY <1>2, <1>4, <1>5, <1>8, <1>9

\* What an end has written after k more bytes of its message.
LEMMA WrittenBytes ==
  ASSUME NEW e \in End, NEW cb \in Writing, NEW m \in Messages(cb),
         NEW o \in Nat, NEW k \in 1 .. Len(m) - o
  PROVE  /\ (Said(e, cb) \o SubSeq(m, 1, o)) \o SubSeq(m, o + 1, o + k)
              = Said(e, cb) \o SubSeq(m, 1, o + k)
         /\ SubSeq(m, o + 1, o + k) \in Seq(Byte)
         /\ o + k \in 0 .. Len(m)
<1>1. m \in Seq(Byte) /\ Len(m) \in Nat /\ \A i \in 1 .. Len(m) : m[i] \in Byte
  BY MessagesType
<1>2. o + k \in 0 .. Len(m) /\ o \in 1 - 1 .. Len(m) /\ o + k \in o .. Len(m) /\ 1 \in 1 .. Len(m) + 1
  BY <1>1
<1>3. SubSeq(m, 1, o) \o SubSeq(m, o + 1, o + k) = SubSeq(m, 1, o + k)
  BY <1>1, <1>2, ConcatAdjacentSubSeq
<1>4. SubSeq(m, 1, o) \in Seq(Byte) /\ SubSeq(m, o + 1, o + k) \in Seq(Byte)
  <2>1. \A i \in 1 .. o : m[i] \in Byte
    BY <1>1, <1>2
  <2>2. \A i \in o + 1 .. o + k : m[i] \in Byte
    BY <1>1, <1>2
  <2>3. 1 \in Int /\ o \in Int /\ o + 1 \in Int /\ o + k \in Int
    BY <1>2
  <2> QED BY <2>1, <2>2, <2>3, SubSeqProperties
<1>5. Said(e, cb) \in Seq(Byte)
  BY SaidType
<1> DEFINE u == SubSeq(m, 1, o)
           v == SubSeq(m, o + 1, o + k)
<1>6. u \in Seq(Byte) /\ v \in Seq(Byte)
  BY <1>4
<1>7. (Said(e, cb) \o u) \o v = Said(e, cb) \o (u \o v)
  <2> HIDE DEF u, v
  <2> QED BY SMTT(30), <1>5, <1>6, ConcatAssociative
<1> QED BY <1>2, <1>3, <1>4, <1>7, Zenon

LEMMA WriteMoves ==
  ASSUME IInv, NEW e \in End, Write(e)
  PROVE  /\ Moves(e, sent'[e]) /\ e \in ours
         /\ sent' \in [End -> Seq(Byte)] /\ Len(sent[e]) <= Len(sent'[e])
         /\ \A f \in End : f # e => sent'[f] = sent[f]
         /\ ours' = ours /\ taken' = taken /\ stage' = stage /\ closed' = closed
         /\ \A i \in 1 .. Len(sent[e]) : sent'[e][i] = sent[e][i]
         /\ \E j \in 0 .. Len(data[e].buffer) :
              sent'[e] = Said(e, data[e].cb) \o SubSeq(data[e].buffer, 1, j)
<1> DEFINE cb == data[e].cb
           m == data[e].buffer
           o == data[e].offset
           s == sent[e]
<1>1. data[e].cb \in Writing /\ data[e].cb # "none" /\ data[e].cb \notin Reading
  BY DEF Write, Reading, Writing
<1>2. e \in ours /\ result[e] = "pending" /\ Writer(e, data[e], sent[e])
  BY <1>1, Pending DEF Reader
<1>3. /\ cb \in Writing \cap Own(e) /\ m \in Messages(cb) /\ data[e].length = Len(m)
      /\ o \in 0 .. Len(m) - 1 /\ s = Said(e, cb) \o SubSeq(m, 1, o)
  BY <1>2, Zenon DEF Writer
<1>4. PICK k \in 1 .. Len(m) - o :
         /\ sent' = [sent EXCEPT ![e] = @ \o SubSeq(m, o + 1, o + k)]
         /\ IF o + k = Len(m) THEN Written(e) ELSE Again(e, m, Len(m), o + k)
  BY <1>3, Zenon DEF Write, Advanced
<1>5. ours' = ours /\ taken' = taken /\ stage' = stage /\ closed' = closed
  BY DEF Write
<1>6. s \in Seq(Byte) /\ sent \in [End -> Seq(Byte)]
  BY DEF IInv
<1>7. Again(e, m, Len(m), o + k) => do_read(e, cb, m, Len(m), o + k)
  BY DEF Again
<1> HIDE DEF cb, m, o
<1>8. o \in Nat
  <2>1. \A l \in Nat : \A p \in 0 .. l - 1 : p \in Nat
    OBVIOUS
  <2>2. Len(m) \in Nat
    BY <1>3, MessagesType
  <2> QED BY <1>3, <2>1, <2>2, Zenon
<1>9. /\ s \o SubSeq(m, o + 1, o + k) = Said(e, cb) \o SubSeq(m, 1, o + k)
      /\ SubSeq(m, o + 1, o + k) \in Seq(Byte)
      /\ o + k \in 0 .. Len(m)
  BY <1>3, <1>8, WrittenBytes
<1> DEFINE v == SubSeq(m, o + 1, o + k)
<1>10. /\ s \o v \in Seq(Byte) /\ Len(s) <= Len(s \o v)
       /\ \A i \in 1 .. Len(s) : (s \o v)[i] = s[i]
  <2>1. v \in Seq(Byte)
    BY <1>9
  <2> HIDE DEF v, s
  <2>2. /\ s \o v \in Seq(Byte) /\ Len(s \o v) = Len(s) + Len(v)
        /\ \A i \in 1 .. Len(s) : (s \o v)[i] = s[i]
    BY <1>6, <2>1, Joined
  <2>3. Len(s) \in Nat /\ Len(v) \in Nat
    BY <1>6, <2>1
  <2>4. Len(s) <= Len(s \o v)
    BY <2>2, <2>3
  <2> QED BY <2>2, <2>4
<1>11. /\ sent' \in [End -> Seq(Byte)] /\ sent'[e] = s \o v
       /\ \A f \in End : f # e => sent'[f] = sent[f]
  <2> HIDE DEF v
  <2>1. sent' = [sent EXCEPT ![e] = @ \o v]
    BY <1>4 DEF v
  <2> QED BY <1>6, <1>10, <2>1
<1> HIDE DEF v, s
<1>12. sent'[e] = Said(e, cb) \o SubSeq(m, 1, o + k)
  BY <1>9, <1>11 DEF v
<1>13. MayEnd(e, sent'[e])
  BY <1>3, <1>9, <1>12, WriterMayEnd
<1>16. \E j \in 0 .. Len(data[e].buffer) :
         sent'[e] = Said(e, data[e].cb) \o SubSeq(data[e].buffer, 1, j)
  BY <1>9, <1>12, Zenon DEF cb, m
<1> SUFFICES Moves(e, sent'[e])
  BY <1>2, <1>5, <1>10, <1>11, <1>16 DEF s
<1>14. CASE o + k # Len(m)
  <2> DEFINE d == [cb |-> cb, buffer |-> m, length |-> Len(m), offset |-> o + k]
  <2>1. data' = [data EXCEPT ![e] = d] /\ result' = result
    BY <1>4, <1>7, <1>14 DEF do_read
  <2>2. m \in Seq(Byte) /\ Len(m) \in 0 .. 262
    BY <1>3, MessagesType
  <2>3. o + k \in 0 .. 262 /\ o + k \in 0 .. Len(m) - 1
    <3>1. \A l \in 0 .. 262 : \A p \in 0 .. l : p # l => p \in 0 .. 262 /\ p \in 0 .. l - 1
      OBVIOUS
    <3> QED BY <1>9, <1>14, <2>2, <3>1, Zenon
  <2>4. d \in Cad
    <3>1. cb \in {"none"} \cup Reading \cup Writing
      BY <1>3
    <3> QED BY <2>2, <2>3, <3>1, Zenon DEF Cad
  <2>5. Writer(e, d, sent'[e])
    BY SMTT(30), <1>3, <1>12, <2>3 DEF Writer
  <2> HIDE DEF d
  <2>6. data' \in [End -> Cad] /\ data'[e] = d /\ \A f \in End : f # e => data'[f] = data[f]
    BY <2>1, <2>4 DEF IInv
  <2> QED BY <1>2, <2>1, <2>5, <2>6 DEF Moves, Stands, IInv
<1>15. CASE o + k = Len(m)
  <2>1. m \in Seq(Byte) /\ Said(e, cb) \in Seq(Byte)
    BY <1>3, MessagesType, SaidType
  <2>2. SubSeq(m, 1, Len(m)) = m
    BY <2>1, SubSeqFull
  <2>3. sent'[e] = Said(e, cb) \o m
    BY <1>12, <1>15, <2>2
  <2>4. Written(e) /\ e \in {"client", "server"}
    BY <1>4, <1>15 DEF End
  <2>5. ASSUME NEW cb2 \in Reading \cap Own(e), cb2 \notin LenReads, Said(e, cb2) = Said(e, cb) \o m,
               NEW n \in {2, 4}, do_read(e, cb2, <<>>, n, 0)
        PROVE  Moves(e, sent'[e])
    <3>1. <<>> \in Seq(Byte) /\ 0 <= Len(<<>>) /\ n \in 1 .. 257 /\ 0 \in 0 .. n - 1
      BY SMTT(30)
    <3>2. Moves(e, Said(e, cb2))
      BY <1>2, <2>5, <3>1, MovesRead
    <3> QED BY <2>3, <2>5, <3>2
  <2>6. ASSUME NEW r \in {"auth_failed", "success"}, Complete(e, r)
        PROVE  Moves(e, sent'[e])
    BY <1>2, <1>13, <2>6, MovesComplete DEF Results
  <2>7. CASE cb = "nego_msg_write"
    <3>1. e = "client" /\ m = NegoMsg(<<NONE>>) /\ Said(e, cb) = <<>>
      BY <1>3, <2>4, <2>7 DEF Own, Messages, Said
    <3>2. "nego_reply_read" \in Reading \cap Own(e) /\ Said(e, "nego_reply_read") = m
          /\ "nego_reply_read" \notin LenReads
      BY <3>1 DEF Reading, Own, Said, LenReads
    <3>3. Said(e, cb) \o m = m
      BY <2>1, <3>1, ConcatEmptySeq
    <3>4. do_read(e, "nego_reply_read", <<>>, 2, 0)
      BY <2>4, <2>7 DEF Written, cb
    <3> QED BY <2>5, <3>2, <3>3, <3>4
  <2>8. CASE cb = "nego_reply_write"
    <3>1. e = "server" /\ m = NegoReply(NONE) /\ Said(e, cb) = <<>>
      BY <1>3, <2>4, <2>8 DEF Own, Messages, Said
    <3>2. "connect_msg_read" \in Reading \cap Own(e) /\ Said(e, "connect_msg_read") = m
          /\ "connect_msg_read" \notin LenReads
      BY <3>1 DEF Reading, Own, Said, LenReads
    <3>3. Said(e, cb) \o m = m
      BY <2>1, <3>1, ConcatEmptySeq
    <3>4. do_read(e, "connect_msg_read", <<>>, 4, 0)
      BY <2>4, <2>8 DEF Written, cb
    <3> QED BY <2>5, <3>2, <3>3, <3>4
  <2>9. CASE cb = "connect_msg_write"
    <3>1. e = "client" /\ m = ConnectMsg(Host) /\ Said(e, cb) = NegoMsg(<<NONE>>)
      BY <1>3, <2>4, <2>9 DEF Own, Messages, Said
    <3>2. "connect_reply_read" \in Reading \cap Own(e)
          /\ Said(e, "connect_reply_read") = NegoMsg(<<NONE>>) \o ConnectMsg(Host)
          /\ "connect_reply_read" \notin LenReads
      BY <3>1 DEF Reading, Own, Said, LenReads
    <3>3. do_read(e, "connect_reply_read", <<>>, 4, 0)
      BY <2>4, <2>9 DEF Written, cb
    <3> QED BY <2>5, <3>1, <3>2, <3>3
  <2>10. CASE cb \in {"no_supported_method", "connect_reply_write"}
    <3>1. Complete(e, "auth_failed") \/ Complete(e, "success")
      BY <2>4, <2>10 DEF Written, cb
    <3> QED BY <2>6, <3>1
  <2> QED BY <1>3, <2>7, <2>8, <2>9, <2>10 DEF Writing
<1> QED BY <1>14, <1>15

-----------------------------------------------------------------------------
(* The invariant *)

LEMMA IInvInit == Init => IInv
<1> SUFFICES ASSUME Init PROVE IInv
  OBVIOUS
<1> USE DEF Init
<1>1. /\ <<>> \in Seq(Byte) /\ Len(<<>>) = 0 /\ Idle \in Cad
  <2>1. <<>> \in Seq(Byte) /\ Len(<<>>) = 0
    OBVIOUS
  <2> QED BY <2>1 DEF Idle, Cad
<1>2. /\ sent \in [End -> Seq(Byte)] /\ taken \in [End -> Nat]
      /\ \A e \in End : taken[e] <= Len(sent[Peer(e)])
  <2>1. \A e \in End : Peer(e) \in End
    BY DEF Peer, End
  <2>2. \A e \in End : sent[e] = <<>> /\ taken[e] = 0
    OBVIOUS
  <2>3. sent = [e \in End |-> <<>>] /\ taken = [e \in End |-> 0]
    OBVIOUS
  <2> QED BY <1>1, <2>1, <2>2, <2>3
<1> DEFINE write == [cb |-> "nego_msg_write", buffer |-> NegoMsg(<<NONE>>), length |-> 3, offset |-> 0]
           read == [cb |-> "nego_msg_read", buffer |-> <<>>, length |-> 257, offset |-> 0]
<1>3. write \in Cad /\ Writer("client", write, <<>>)
  <2> DEFINE m == NegoMsg(<<NONE>>)
  <2>1. m \in Seq(Byte) /\ Len(m) = 3 /\ m \in Messages("nego_msg_write")
    BY MessageType DEF Messages
  <2> HIDE DEF m
  <2>2. <<>> \o SubSeq(m, 1, 0) = <<>>
    BY <2>1, NothingWritten, ConcatEmptySeq
  <2>3. write = [cb |-> "nego_msg_write", buffer |-> m, length |-> 3, offset |-> 0]
    BY DEF m
  <2> HIDE DEF write
  <2>4. 3 \in 0 .. 262 /\ 0 \in 0 .. 262 /\ 0 \in 0 .. 3 - 1
    OBVIOUS
  <2>5. "nego_msg_write" \in Writing \cap Own("client") /\ Said("client", "nego_msg_write") = <<>>
    BY DEF Writing, Own, Said
  <2> QED BY SMTT(30), <2>1, <2>2, <2>3, <2>4, <2>5 DEF Cad, Writer
<1>4. read \in Cad /\ Reader("server", read, <<>>)
  <2>1. 257 \in 0 .. 262 /\ 0 \in 0 .. 262 /\ 0 \in 0 .. 257 - 1 /\ 257 \in 1 .. 257
    OBVIOUS
  <2>2. "nego_msg_read" \in Reading \cap Own("server") /\ Said("server", "nego_msg_read") = <<>>
        /\ "nego_msg_read" \notin LenReads
    BY DEF Reading, Own, Said, LenReads
  <2> QED BY <1>1, <2>1, <2>2 DEF Cad, Reader
<1>5. /\ \A e \in End : data[e] = IF e \notin ours THEN Idle
                                  ELSE IF e = "client" THEN write ELSE read
      /\ data = [e \in End |-> data[e]]
  OBVIOUS
<1> HIDE DEF write, read
<1>6. data \in [End -> Cad]
  BY <1>1, <1>3, <1>4, <1>5
<1>7. \A e \in ours : Stands(e, data[e], result[e], sent[e])
  <2>1. ours \subseteq End
    BY PairsAssumption DEF PairsAssumption
  <2> TAKE e \in ours
  <2>2. e \in End /\ result[e] = "pending" /\ sent[e] = <<>>
    BY <2>1
  <2>3. CASE e = "client"
    BY <1>3, <1>5, <2>2, <2>3 DEF Stands
  <2>4. CASE e = "server"
    BY <1>4, <1>5, <2>2, <2>4 DEF Stands
  <2> QED BY <2>2, <2>3, <2>4 DEF End
<1>8. /\ result \in [End -> Results] /\ \A e \in End : result[e] = "pending"
  BY DEF Results
<1>9. \A e \in End \ ours : data[e] = Idle
  BY <1>5
<1> QED BY <1>2, <1>6, <1>7, <1>8, <1>9 DEF IInv

\* A step of one end of ours.
LEMMA Moved ==
  ASSUME IInv, NEW e \in ours, Moves(e, sent'[e]),
         sent' \in [End -> Seq(Byte)], \A f \in End : f # e => sent'[f] = sent[f],
         taken' \in [End -> Nat], \A f \in End : taken'[f] <= Len(sent'[Peer(f)]),
         ours' = ours, stage' = stage, closed' = closed
  PROVE  IInv'
<1>1. ours \subseteq End
  BY PairsAssumption DEF IInv, PairsAssumption
<1>2. \A f \in ours : Stands(f, data'[f], result'[f], sent'[f])
  BY <1>1 DEF Moves, IInv
<1>3. \A f \in End \ ours : data'[f] = Idle /\ result'[f] = "pending"
  BY DEF Moves, IInv
<1> QED BY <1>2, <1>3 DEF Moves, IInv

\* A step of a foreign end.
LEMMA ForeignMoved ==
  ASSUME IInv, NEW e \in End \ ours, NEW msg \in Seq(Byte), NEW k \in Nat,
         NEW next \in {"start", "offered", "asked", "done"},
         Says(e, msg, next), taken' = [taken EXCEPT ![e] = @ + k],
         taken[e] + k <= Len(sent[Peer(e)])
  PROVE  IInv'
<1>1. /\ sent' = [sent EXCEPT ![e] = @ \o msg] /\ stage' = next
      /\ ours' = ours /\ data' = data /\ result' = result /\ closed' = closed
  BY DEF Says
<1>2. sent[e] \in Seq(Byte) /\ sent \in [End -> Seq(Byte)] /\ taken \in [End -> Nat]
  BY DEF IInv
<1>3. sent[e] \o msg \in Seq(Byte) /\ Len(sent[e]) <= Len(sent[e] \o msg)
  <2> DEFINE s == sent[e]
  <2>1. s \in Seq(Byte)
    BY <1>2
  <2> HIDE DEF s
  <2>2. s \o msg \in Seq(Byte) /\ Len(s \o msg) = Len(s) + Len(msg)
    BY <2>1, Joined
  <2>3. Len(s) \in Nat /\ Len(msg) \in Nat
    BY <2>1
  <2>4. Len(s) <= Len(s \o msg)
    BY <2>2, <2>3
  <2> QED BY <2>2, <2>4 DEF s
<1>4. /\ sent' \in [End -> Seq(Byte)] /\ sent'[e] = sent[e] \o msg
      /\ \A f \in End : f # e => sent'[f] = sent[f]
  BY <1>1, <1>2, <1>3
<1>5. /\ taken' \in [End -> Nat] /\ taken'[e] = taken[e] + k
      /\ \A f \in End : f # e => taken'[f] = taken[f]
  <2>1. taken[e] + k \in Nat
    BY <1>2
  <2> QED BY <1>2, <2>1
<1>6. \A f \in End : taken'[f] <= Len(sent'[Peer(f)])
  <2> TAKE f \in End
  <2>1. Peer(f) \in End /\ Peer(f) # f
    BY DEF Peer, End
  <2>2. CASE f = e
    BY <1>4, <1>5, <2>1, <2>2
  <2>3. CASE f # e
    <3>1. Peer(f) = e /\ taken'[f] = taken[f] /\ taken[f] <= Len(sent[e])
      <4>1. Peer(f) = e
        BY <2>3 DEF Peer, End
      <4> QED BY <1>5, <2>3, <4>1 DEF IInv
    <3>2. taken[f] \in Nat /\ Len(sent[e]) \in Nat /\ Len(sent'[e]) \in Nat
      BY <1>2, <1>4
    <3>3. \A x, y, z \in Nat : x <= y /\ y <= z => x <= z
      OBVIOUS
    <3> QED BY <1>3, <1>4, <3>1, <3>2, <3>3, Zenon
  <2> QED BY <2>2, <2>3
<1>7. \A f \in ours : Stands(f, data'[f], result'[f], sent'[f])
  <2>1. ours \subseteq End
    BY PairsAssumption DEF IInv, PairsAssumption
  <2> QED BY <1>1, <1>4, <2>1 DEF IInv
<1> QED BY <1>1, <1>4, <1>5, <1>6, <1>7 DEF IInv

\* What a foreign end takes is there, and what it says is bytes.
LEMMA ForeignTakes ==
  ASSUME IInv, NEW e \in End, NEW k \in Nat, k <= Len(Arriving(e))
  PROVE  taken[e] + k <= Len(sent[Peer(e)])
<1> DEFINE s == sent[Peer(e)]
           t == taken[e]
           in == Arriving(e)
<1>1. s \in Seq(Byte) /\ t \in Nat /\ in \in Seq(Byte) /\ Len(in) = Len(s) - t /\ k <= Len(in)
  <2>1. Peer(e) \in End
    BY DEF Peer, End
  <2> QED BY SMTT(30), <2>1, ArrivingBytes DEF IInv
<1> HIDE DEF s, t, in
<1>2. t + k <= Len(s)
  BY <1>1
<1> QED BY <1>2 DEF s, t

LEMMA ForeignMessages ==
  /\ \A o \in Offers : NegoMsg(o) \in Seq(Byte)
  /\ \A h \in Hosts : h \in Seq(Byte) /\ ConnectMsg(h) \in Seq(Byte) /\ GrantTo(h) \in Seq(Byte)
  /\ \A m \in {NONE, NO_ACCEPT} : NegoReply(m) \in Seq(Byte)
  /\ \A a \in Addresses : Grant(a) \in Seq(Byte)
  /\ \A rep \in 1 .. 8 : Denial(rep) \in Seq(Byte)
<1>1. \A o \in Offers : NegoMsg(o) \in Seq(Byte)
  BY NegoMsgBytes, OffersAssumption DEF OffersAssumption
<1>2. ASSUME NEW h \in Hosts
      PROVE  h \in Seq(Byte) /\ ConnectMsg(h) \in Seq(Byte) /\ GrantTo(h) \in Seq(Byte)
  <2>1. h \in Seq(Byte \ {0}) /\ Len(h) <= 255
    BY HostAssumption DEF HostAssumption
  <2>2. h \in Seq(Byte)
    BY <2>1, SeqMonotonic
  <2>3. 0 \in Byte /\ 1 \in Byte
    BY DEF Byte
  <2> QED BY <2>1, <2>2, <2>3, NamingBytes DEF ConnectMsg, GrantTo
<1> QED BY SMTT(30), <1>1, <1>2, MessageType, GrantBytes, DenialBytes

LEMMA ForeignClientKeeps ==
  ASSUME IInv, ForeignClient
  PROVE  IInv'
<1> DEFINE in == Arriving("client")
<1>1. "client" \in End \ ours /\ <<>> \in Seq(Byte)
  BY DEF ForeignClient, Foreign, End
<1>2. in \in Seq(Byte)
  BY <1>1, ArrivingBytes
<1> HIDE DEF in
<1>3. ASSUME NEW o \in Offers, Says("client", NegoMsg(o), "offered"), UNCHANGED taken
      PROVE  IInv'
  <2>1. taken \in [End -> Nat]
    BY DEF IInv
  <2>2. taken["client"] + 0 = taken["client"] /\ 0 \in Nat
    BY <1>1, <2>1
  <2>3. taken' = [taken EXCEPT !["client"] = @ + 0]
    BY <1>1, <1>3, <2>1, <2>2
  <2>4. taken["client"] + 0 <= Len(sent[Peer("client")])
    BY <1>1, <2>2 DEF IInv
  <2>5. NegoMsg(o) \in Seq(Byte)
    BY ForeignMessages
  <2> QED BY <1>1, <1>3, <2>2, <2>3, <2>4, <2>5, ForeignMoved
<1>4. ASSUME NEW h \in Hosts, Says("client", ConnectMsg(h), "asked"), Takes("client", 2), Len(in) >= 2
      PROVE  IInv'
  <2>1. taken["client"] + 2 <= Len(sent[Peer("client")])
    BY <1>1, <1>2, <1>4, ForeignTakes DEF in
  <2> QED BY <1>1, <1>4, <2>1, ForeignMessages, ForeignMoved DEF Takes
<1>5. ASSUME NEW k \in {10, 22}, Says("client", <<>>, "done"), Takes("client", k), Len(in) >= k
      PROVE  IInv'
  <2>1. taken["client"] + k <= Len(sent[Peer("client")])
    BY <1>1, <1>2, <1>5, ForeignTakes DEF in
  <2>2. k \in Nat
    OBVIOUS
  <2> QED BY <1>1, <1>5, <2>1, <2>2, ForeignMoved DEF Takes
<1> QED BY <1>3, <1>4, <1>5 DEF ForeignClient, in

LEMMA ForeignServerKeeps ==
  ASSUME IInv, ForeignServer
  PROVE  IInv'
<1> DEFINE in == Arriving("server")
<1>1. "server" \in End \ ours
  BY DEF ForeignServer, Foreign, End
<1>2. in \in Seq(Byte)
  BY <1>1, ArrivingBytes
<1> HIDE DEF in
<1>3. ASSUME NEW msg \in Seq(Byte), NEW next \in {"offered", "done"}, Says("server", msg, next),
             NEW i \in 1 .. Len(in), NEW more \in {2, 7},
             Takes("server", in[i] + more), Len(in) >= in[i] + more
      PROVE  IInv'
  <2> DEFINE k == in[i] + more
  <2>1. k \in Nat
    <3>1. in[i] \in Byte
      BY <1>2
    <3> HIDE DEF in
    <3> QED BY <3>1, ByteType
  <2>2. Takes("server", k) /\ k <= Len(in)
    BY <1>2, <1>3, <2>1
  <2> HIDE DEF k
  <2>3. taken["server"] + k <= Len(sent[Peer("server")])
    BY <1>1, <2>1, <2>2, ForeignTakes DEF in
  <2> QED BY ZenonT(30), <1>1, <1>3, <2>1, <2>2, <2>3, ForeignMoved DEF Takes
<1>4. ASSUME Len(in) >= 2 PROVE 2 \in 1 .. Len(in)
  BY <1>2, <1>4
<1>5. ASSUME Len(in) >= 5 PROVE 5 \in 1 .. Len(in)
  BY <1>2, <1>5
<1>6. CASE \E m \in {NONE, NO_ACCEPT} :
             /\ Says("server", NegoReply(m), IF m = NONE THEN "offered" ELSE "done")
             /\ Takes("server", in[2] + 2) /\ Len(in) >= 2 /\ Len(in) >= in[2] + 2
  <2>1. PICK m \in {NONE, NO_ACCEPT} :
             /\ Says("server", NegoReply(m), IF m = NONE THEN "offered" ELSE "done")
             /\ Takes("server", in[2] + 2) /\ Len(in) >= 2 /\ Len(in) >= in[2] + 2
    BY <1>6
  <2>2. NegoReply(m) \in Seq(Byte) /\ 2 \in 1 .. Len(in)
    BY ZenonT(30), <1>4, <2>1, ForeignMessages
  <2> DEFINE next == IF m = NONE THEN "offered" ELSE "done"
  <2>3. next \in {"offered", "done"} /\ Says("server", NegoReply(m), next)
    BY <2>1
  <2> HIDE DEF next
  <2> QED BY <1>3, <2>1, <2>2, <2>3
<1>7. CASE \E reply \in {Grant(a) : a \in Addresses} \cup {GrantTo(h) : h \in Hosts}
                        \cup {Denial(rep) : rep \in 1 .. 8} :
             /\ Says("server", reply, "done")
             /\ Takes("server", in[5] + 7) /\ Len(in) >= 5 /\ Len(in) >= in[5] + 7
  BY ZenonT(30), <1>3, <1>5, <1>7, ForeignMessages
<1> QED BY <1>6, <1>7 DEF ForeignServer, in

\* Every step keeps the invariant.
\* A connection that breaks and a buffer that overflows stop an end where it is.
LEMMA Stopped ==
  ASSUME NEW e, Fail(e) \/ Overrun(e)
  PROVE  /\ data[e].cb # "none" /\ \E r \in {"io_error", "crashed"} : Complete(e, r)
         /\ ours' = ours /\ sent' = sent /\ taken' = taken /\ stage' = stage /\ closed' = closed
BY DEF Fail, Overrun, Reading

LEMMA IInvNext == IInv /\ [Next]_vars => IInv'
<1> SUFFICES ASSUME IInv, [Next]_vars PROVE IInv'
  OBVIOUS
<1>0. ours \subseteq End /\ \A f \in End : Peer(f) \in End /\ Peer(f) # f
  BY PairsAssumption DEF IInv, PairsAssumption, Peer, End
<1>1. ASSUME NEW e \in End, Read(e) PROVE IInv'
  <2>1. /\ Moves(e, sent[e]) /\ e \in ours
        /\ taken' \in [End -> Nat] /\ taken'[e] <= Len(sent[Peer(e)])
        /\ \A f \in End : f # e => taken'[f] = taken[f]
        /\ ours' = ours /\ sent' = sent /\ stage' = stage /\ closed' = closed
    BY <1>1, ReadMoves
  <2>2. \A f \in End : taken'[f] <= Len(sent'[Peer(f)])
    BY <2>1 DEF IInv
  <2>3. sent' \in [End -> Seq(Byte)] /\ Moves(e, sent'[e])
    BY <2>1 DEF IInv
  <2> QED BY <2>1, <2>2, <2>3, Moved
<1>2. ASSUME NEW e \in End, Write(e) PROVE IInv'
  <2>1. /\ Moves(e, sent'[e]) /\ e \in ours
        /\ sent' \in [End -> Seq(Byte)] /\ Len(sent[e]) <= Len(sent'[e])
        /\ \A f \in End : f # e => sent'[f] = sent[f]
        /\ ours' = ours /\ taken' = taken /\ stage' = stage /\ closed' = closed
    BY <1>2, WriteMoves
  <2>2. taken' \in [End -> Nat]
    BY <2>1 DEF IInv
  <2>3. ASSUME NEW f \in End PROVE taken'[f] <= Len(sent'[Peer(f)])
    <3>1. taken'[f] = taken[f] /\ taken[f] <= Len(sent[Peer(f)]) /\ taken[f] \in Nat
      BY <2>1 DEF IInv
    <3>2. Peer(f) # e => sent'[Peer(f)] = sent[Peer(f)]
      BY <1>0, <2>1
    <3>3. Len(sent[e]) \in Nat /\ Len(sent'[e]) \in Nat
      BY <2>1 DEF IInv
    <3>4. \A x, y, z \in Nat : x <= y /\ y <= z => x <= z
      OBVIOUS
    <3>5. CASE Peer(f) = e
      BY <2>1, <3>1, <3>3, <3>4, <3>5, Zenon
    <3> QED BY <3>1, <3>2, <3>5
  <2> QED BY <2>1, <2>2, <2>3, Moved
<1>3. ASSUME NEW e \in End, Fail(e) \/ Overrun(e) PROVE IInv'
  <2>1. e \in ours /\ MayEnd(e, sent[e]) /\ (\E r \in {"io_error", "crashed"} : Complete(e, r))
        /\ ours' = ours /\ sent' = sent /\ taken' = taken /\ stage' = stage /\ closed' = closed
    BY <1>3, Stopped, Pending
  <2>2. Moves(e, sent[e])
    BY <2>1, MovesComplete DEF Results
  <2> QED BY <2>1, <2>2, Moved DEF IInv
<1>4. ASSUME NEW e \in End, Close(e) \/ Leave(e) PROVE IInv'
  <2>1. closed' = closed \cup {e} /\ UNCHANGED <<ours, sent, taken, data, result, stage>>
    BY <1>4 DEF Close, Leave
  <2> QED BY <2>1 DEF IInv
<1>5. CASE ForeignClient
  BY <1>5, ForeignClientKeeps
<1>6. CASE ForeignServer
  BY <1>6, ForeignServerKeeps
<1>7. CASE UNCHANGED vars
  BY <1>7 DEF IInv, vars
<1> QED BY <1>1, <1>2, <1>3, <1>4, <1>5, <1>6, <1>7 DEF Next

-----------------------------------------------------------------------------
(* What the invariant gives *)

LEMMA IInvTypeOK == IInv => TypeOK
<1> SUFFICES ASSUME IInv PROVE TypeOK
  OBVIOUS
<1>1. \A e \in End : taken[e] \in 0 .. Len(sent[Peer(e)])
  <2> TAKE e \in End
  <2>1. Peer(e) \in End
    BY DEF Peer, End
  <2>2. taken[e] \in Nat /\ taken[e] <= Len(sent[Peer(e)]) /\ Len(sent[Peer(e)]) \in Nat
    BY <2>1 DEF IInv
  <2>3. \A x, y \in Nat : x <= y => x \in 0 .. y
    OBVIOUS
  <2> QED BY <2>2, <2>3, Zenon
<1>2. ASSUME NEW e \in End
      PROVE  /\ data[e].cb \in {"none"} \cup Reading \cup Writing
             /\ data[e].buffer \in Seq(Byte) /\ data[e].length \in 0 .. 262
             /\ data[e].offset \in 0 .. data[e].length
             /\ data[e].cb # "none" <=> e \in ours /\ result[e] = "pending"
  <2>1. data[e] \in Cad
    BY DEF IInv
  <2>2. \/ data[e] = Idle /\ ~(e \in ours /\ result[e] = "pending")
        \/ /\ e \in ours /\ result[e] = "pending"
           /\ Reader(e, data[e], sent[e]) \/ Writer(e, data[e], sent[e])
    BY DEF IInv, Stands, Ended
  <2>3. CASE data[e] = Idle /\ ~(e \in ours /\ result[e] = "pending")
    BY <2>1, <2>3 DEF Idle, Cad
  <2>4. CASE /\ e \in ours /\ result[e] = "pending"
             /\ Reader(e, data[e], sent[e]) \/ Writer(e, data[e], sent[e])
    <3>1. data[e].cb \in Reading \cup Writing /\ data[e].offset \in 0 .. data[e].length - 1
      BY <2>4 DEF Reader, Writer
    <3>2. data[e].cb # "none"
      BY <3>1 DEF Reading, Writing
    <3>3. \A n \in 0 .. 262 : \A o \in 0 .. n - 1 : o \in 0 .. n
      OBVIOUS
    <3>4. data[e].cb \in {"none"} \cup Reading \cup Writing
          /\ data[e].buffer \in Seq(Byte) /\ data[e].length \in 0 .. 262
      BY <2>1, Zenon DEF Cad
    <3>5. data[e].offset \in 0 .. data[e].length
      BY <3>1, <3>3, <3>4, Zenon
    <3> QED BY <2>4, <3>2, <3>4, <3>5
  <2> QED BY <2>2, <2>3, <2>4
<1> QED BY <1>1, <1>2 DEF TypeOK, IInv

LEMMA IInvWrittenWhole == IInv => WrittenWhole
<1> SUFFICES ASSUME IInv, NEW e \in ours PROVE MayEnd(e, sent[e])
  BY DEF WrittenWhole, MayEnd
<1>1. e \in End /\ data[e] \in Cad /\ sent[e] \in Seq(Byte)
  BY PairsAssumption DEF IInv, PairsAssumption
<1>2. CASE Ended(e, data[e], result[e], sent[e])
  BY <1>2 DEF Ended
<1>3. CASE Reader(e, data[e], sent[e]) \/ Writer(e, data[e], sent[e])
  BY <1>1, <1>3, MayEndNow
<1> QED BY <1>2, <1>3 DEF IInv, Stands

LEMMA Invariant == Spec => []IInv
BY IInvInit, IInvNext, PTL DEF Spec

\* Whatever is sent, cut and read as something else, no callback goes beyond the length
\* it was given, which is at most 262, and no end reads what was not sent.  That the
\* length fits the buffer is the theorem TwoOverruns.
THEOREM TypesKept == Spec => []TypeOK
BY Invariant, IInvTypeOK, PTL

\* However the writes are cut, an end of ours writes its messages whole, in order and
\* once, whatever the other end sends.
THEOREM WholeMessages == Spec => []WrittenWhole
BY Invariant, IInvWrittenWhole, PTL

-----------------------------------------------------------------------------
(* Where an end of ours stands, with a foreign end *)

\* The buffer holds what followed the first base bytes of the other end.
Fresh(e, base) ==
  /\ taken[e] = base + data[e].offset
  /\ \A i \in 1 .. data[e].offset : data[e].buffer[i] = sent[Peer(e)][base + i]

\* The foreign end has nothing more to say.
AllSaid == stage \in {"asked", "done"}

\* What is missing of an address is read as something else: whatever the callbacks
\* make of it, they find no more bytes than those.
Astray(e) ==
  /\ AllSaid /\ result[e] = "pending"
  /\ data[e].cb \in {"connect_reply_read", "connect_reply_addr_len_read",
                     "connect_reply_addr_read", "connect_addr_read"}
  /\ \/ taken[e] = Len(sent[Peer(e)])
     \/ /\ data[e].cb = "connect_reply_read"
        /\ taken[e] + data[e].length = Len(sent[Peer(e)]) + data[e].offset

Failed(e) == data[e] = Idle /\ result[e] \notin {"pending", "success"}

Waits(e, cb, n) == result[e] = "pending" /\ data[e].cb = cb /\ data[e].length = n
Begins(e, cb, n) == Waits(e, cb, n) /\ data[e].offset = 0

Replies == {Grant(a) : a \in Addresses} \cup {GrantTo(h) : h \in Hosts}
           \cup {Denial(rep) : rep \in 1 .. 8}

ServerSays ==
  \/ stage = "start" /\ sent["server"] = <<>>
  \/ stage = "offered" /\ sent["server"] = NegoReply(NONE)
  \/ /\ stage = "done"
     /\ \/ sent["server"] = NegoReply(NO_ACCEPT)
        \/ \E r \in Replies : sent["server"] = NegoReply(NONE) \o r

\* The server takes no authentication.
Accepted == Len(sent["server"]) >= 2 /\ sent["server"][2] = NONE

Offering == result["client"] = "pending" /\ data["client"].cb = "nego_msg_write" /\ taken["client"] = 0
HearsMethod == Waits("client", "nego_reply_read", 2) /\ Fresh("client", 0)
Asking ==
  Accepted /\ result["client"] = "pending" /\ data["client"].cb = "connect_msg_write"
  /\ taken["client"] = 2
HearsHead == Accepted /\ Waits("client", "connect_reply_read", 4) /\ Fresh("client", 2)

Answered(r) == AllSaid /\ sent["server"] = NegoReply(NONE) \o r
HearsAddress ==
  \E a \in Addresses : /\ Answered(Grant(a)) /\ taken["client"] = 6
                       /\ Begins("client", "connect_reply_addr_read", Len(a) + 2)
HearsLength ==
  \E h \in Hosts : /\ Answered(GrantTo(h)) /\ taken["client"] = 6
                   /\ Begins("client", "connect_reply_addr_len_read", 1)
HearsName ==
  \E h \in Hosts : /\ Answered(GrantTo(h)) /\ taken["client"] = 7
                   /\ Begins("client", "connect_addr_read", Len(h) + 2)
Granted ==
  /\ data["client"] = Idle /\ result["client"] = "success"
  /\ \E a \in Addresses : Answered(Grant(a)) /\ taken["client"] = Len(sent["server"])

ClientStands ==
  \/ Offering \/ HearsMethod \/ Asking \/ HearsHead \/ HearsAddress \/ HearsLength
  \/ HearsName \/ Astray("client") \/ Granted \/ Failed("client")

\* Two ends of ours: the list of one method is never searched, so the client is refused.
Refused ==
  /\ \A e \in End : result[e] # "success"
  /\ data["server"].cb \in {"nego_msg_read", "no_supported_method", "none"}
  /\ data["client"].cb \in {"nego_msg_write", "nego_reply_read", "none"}
  /\ data["server"].cb = "nego_msg_read" => data["server"].length = 257 /\ Fresh("server", 0)
  /\ data["client"].cb = "nego_msg_write" => taken["client"] = 0
  /\ data["client"].cb = "nego_reply_read" => data["client"].length = 2 /\ Fresh("client", 0)
  /\ Len(sent["server"]) >= 2 => sent["server"][2] = NO_ACCEPT

CInv ==
  /\ IInv
  /\ ours = {"client"} => ServerSays /\ ClientStands
  /\ ours = End => Refused

\* The foreign client: it asks when the server has accepted it.
ClientSays ==
  \/ stage = "start" /\ sent["client"] = <<>> /\ taken["client"] = 0
  \/ /\ stage = "offered" /\ taken["client"] = 0
     /\ \E o \in Offers : sent["client"] = NegoMsg(o)
  \/ /\ AllSaid /\ Len(sent["server"]) >= 2
     /\ \E o \in Offers, h \in Hosts : sent["client"] = NegoMsg(o) \o ConnectMsg(h)

\* The offer o was read up to t0 when the server took no authentication.
Offered(o, t0) ==
  /\ o \in Offers /\ NONE \in ToSet(o) /\ t0 \in 2 .. Len(NegoMsg(o))
  /\ \/ stage = "offered" /\ sent["client"] = NegoMsg(o)
     \/ AllSaid /\ \E h \in Hosts : sent["client"] = NegoMsg(o) \o ConnectMsg(h)
Asked(o, h) ==
  /\ o \in Offers /\ NONE \in ToSet(o) /\ h \in Hosts
  /\ AllSaid /\ sent["client"] = NegoMsg(o) \o ConnectMsg(h)

HearsOffer == Waits("server", "nego_msg_read", 257) /\ Fresh("server", 0)
Accepting ==
  /\ result["server"] = "pending" /\ data["server"].cb = "nego_reply_write"
  /\ \E o \in Offers : Offered(o, taken["server"])
HearsRequest ==
  /\ Waits("server", "connect_msg_read", 4)
  /\ \E o \in Offers : \E t0 \in 2 .. Len(NegoMsg(o)) : Offered(o, t0) /\ Fresh("server", t0)
HearsHostLength ==
  \E o \in Offers, h \in Hosts : /\ Asked(o, h) /\ taken["server"] = Len(o) + 6
                                 /\ Begins("server", "connect_addr_len_read", 1)
HearsHost ==
  \E o \in Offers, h \in Hosts : /\ Asked(o, h) /\ taken["server"] = Len(o) + 7
                                 /\ Begins("server", "connect_addr_read", Len(h) + 2)
Granting ==
  /\ \/ result["server"] = "success" /\ data["server"] = Idle
     \/ result["server"] = "pending" /\ data["server"].cb = "connect_reply_write"
  /\ \E o \in Offers : Asked(o, Host) /\ taken["server"] = Len(sent["client"])
Refusing == result["server"] = "pending" /\ data["server"].cb = "no_supported_method"

ServerStands ==
  \/ HearsOffer \/ Accepting \/ HearsRequest \/ HearsHostLength \/ HearsHost
  \/ Granting \/ Refusing \/ Astray("server") \/ Failed("server")

SInv ==
  /\ IInv
  /\ ours = {"server"} => ClientSays /\ ServerStands
  /\ ours = End => Refused

-----------------------------------------------------------------------------
(* What a step does to an end *)

LEMMA Peers ==
  /\ Peer("client") = "server" /\ Peer("server") = "client"
  /\ \A e \in End : e \in {"client", "server"} /\ Peer(e) \in End /\ Peer(e) # e
BY DEF Peer, End

\* End e goes on with d, or completes with r; the other end stays as it is.
Goes(e, d) ==
  /\ data'[e] = d /\ result'[e] = result[e]
  /\ \A f \in End : f # e => data'[f] = data[f] /\ result'[f] = result[f]
Completes(e, r) ==
  /\ data'[e] = Idle /\ result'[e] = r
  /\ \A f \in End : f # e => data'[f] = data[f] /\ result'[f] = result[f]

LEMMA Effects ==
  ASSUME IInv, NEW e \in End
  PROVE  /\ \A cb, b, n, o : do_read(e, cb, b, n, o) =>
               Goes(e, [cb |-> cb, buffer |-> b, length |-> n, offset |-> o])
         /\ \A cb, m : do_write(e, cb, m) =>
               Goes(e, [cb |-> cb, buffer |-> m, length |-> Len(m), offset |-> 0])
         /\ \A r : Complete(e, r) => Completes(e, r)
         /\ \A r : CompleteUninitialised(e, r) => Completes(e, r) \/ Completes(e, "crashed")
<1>1. data = [f \in End |-> data[f]] /\ result = [f \in End |-> result[f]]
  BY DEF IInv
<1>2. ASSUME NEW d, data' = [data EXCEPT ![e] = d], result' = result PROVE Goes(e, d)
  BY <1>1, <1>2 DEF Goes
<1>3. ASSUME NEW r, Complete(e, r) PROVE Completes(e, r)
  BY <1>1, <1>3 DEF Complete, Completes
<1>4. ASSUME NEW cb, NEW b, NEW n, NEW o, do_read(e, cb, b, n, o)
      PROVE  Goes(e, [cb |-> cb, buffer |-> b, length |-> n, offset |-> o])
  BY <1>2, <1>4 DEF do_read
<1>5. ASSUME NEW cb, NEW m, do_write(e, cb, m)
      PROVE  Goes(e, [cb |-> cb, buffer |-> m, length |-> Len(m), offset |-> 0])
  BY <1>2, <1>5 DEF do_write
<1> QED BY <1>3, <1>4, <1>5 DEF CompleteUninitialised

\* A read returned k bytes.
Returned(e, k) ==
  /\ k \in Nat /\ data[e].offset + k <= data[e].length
  /\ taken[e] + k <= Len(sent[Peer(e)])
  /\ k = 0 => taken[e] = Len(sent[Peer(e)])
  /\ taken'[e] = taken[e] + k /\ \A f \in End : f # e => taken'[f] = taken[f]
  /\ ReadCallback(e, Filled(e, k), data[e].length, data[e].offset + k)
  /\ ours' = ours /\ sent' = sent /\ stage' = stage /\ closed' = closed

LEMMA ReadStep ==
  ASSUME IInv, NEW e \in End, Read(e)
  PROVE  /\ e \in ours /\ result[e] = "pending" /\ data[e].cb \in Reading
         /\ Reader(e, data[e], sent[e])
         /\ \E k \in ReadSizes(e) : Returned(e, k)
<1>1. data[e].cb \in Reading /\ data[e].cb # "none" /\ data[e].cb \notin Writing
  BY DEF Read, Reading, Writing
<1>2. e \in ours /\ result[e] = "pending" /\ Reader(e, data[e], sent[e])
  BY <1>1, Pending DEF Writer
<1>3. PICK k \in ReadSizes(e) :
         /\ taken' = [taken EXCEPT ![e] = @ + k]
         /\ ReadCallback(e, Filled(e, k), data[e].length, data[e].offset + k)
  BY DEF Read, Filled
<1>4. k \in Nat /\ data[e].offset + k \in 0 .. data[e].length /\ taken[e] + k <= Len(sent[Peer(e)])
  BY <1>2, ReadBytes
<1>5. data[e].length \in Nat
  <2>1. data[e].length \in 1 .. 257
    BY <1>2, Zenon DEF Reader
  <2> QED BY <2>1
<1>6. data[e].offset + k <= data[e].length
  BY <1>4, <1>5
<1>7. k = 0 => taken[e] = Len(sent[Peer(e)])
  <2> SUFFICES ASSUME k = 0 PROVE taken[e] = Len(sent[Peer(e)])
    OBVIOUS
  <2> DEFINE in == Arriving(e)
             s == sent[Peer(e)]
             t == taken[e]
  <2>1. in = <<>>
    BY DEF ReadSizes
  <2>2. Len(in) = Len(s) - t
    BY ArrivingBytes
  <2>3. s \in Seq(Byte) /\ t \in Nat
    BY Peers DEF IInv
  <2> HIDE DEF in, s, t
  <2>4. t = Len(s)
    BY <2>1, <2>2, <2>3
  <2> QED BY <2>4 DEF s, t
<1>8. taken'[e] = taken[e] + k /\ \A f \in End : f # e => taken'[f] = taken[f]
  <2>1. taken \in [End -> Nat]
    BY DEF IInv
  <2> QED BY <1>3, <2>1
<1>9. ours' = ours /\ sent' = sent /\ stage' = stage /\ closed' = closed
  BY DEF Read
<1>10. Returned(e, k)
  BY <1>3, <1>4, <1>6, <1>7, <1>8, <1>9, Zenon DEF Returned
<1> QED BY <1>1, <1>2, <1>10

\* A buffer stays what followed the base.
LEMMA FreshRead ==
  ASSUME IInv, NEW e \in ours, Reader(e, data[e], sent[e]), NEW k \in ReadSizes(e), Returned(e, k),
         NEW base \in Nat, Fresh(e, base)
  PROVE  LET o == data[e].offset + k
             b == Filled(e, k) IN
         /\ o \in Nat /\ b \in Seq(Byte) /\ o <= Len(b)
         /\ taken'[e] = base + o /\ base + o <= Len(sent[Peer(e)])
         /\ \A i \in 1 .. o : b[i] = sent[Peer(e)][base + i]
<1> DEFINE s == sent[Peer(e)]
           t == taken[e]
           o0 == data[e].offset
           o == o0 + k
           b == Filled(e, k)
<1>1. /\ b \in Seq(Byte) /\ k \in Nat /\ o \in 0 .. data[e].length /\ o <= Len(b)
      /\ t + k <= Len(s)
      /\ \A i \in 1 .. o0 : b[i] = data[e].buffer[i]
      /\ \A i \in 1 .. k : b[o0 + i] = s[t + i]
  BY ReadBytes
<1>2. o0 \in Nat
  <2>1. data[e].length \in 1 .. 257 /\ data[e].offset \in 0 .. data[e].length - 1
    BY Zenon DEF Reader
  <2> QED BY <2>1
<1>3. t = base + o0 /\ \A i \in 1 .. o0 : data[e].buffer[i] = s[base + i]
  BY DEF Fresh
<1>4. taken'[e] = t + k
  BY DEF Returned
<1> HIDE DEF s, t, o0, b
<1>5. o \in Nat /\ taken'[e] = base + o /\ base + o <= Len(s)
  BY <1>1, <1>2, <1>3, <1>4
<1>6. ASSUME NEW i \in 1 .. o PROVE b[i] = s[base + i]
  <2>1. CASE i <= o0
    <3>1. i \in 1 .. o0
      BY <1>2, <2>1
    <3> QED BY <1>1, <1>3, <3>1
  <2>2. CASE i > o0
    <3> DEFINE j == i - o0
    <3>1. j \in 1 .. k /\ i = o0 + j /\ t + j = base + i
      BY <1>1, <1>2, <1>3, <2>2
    <3> HIDE DEF j
    <3> QED BY <1>1, <3>1
  <2> QED BY <1>2, <2>1, <2>2
<1> HIDE DEF o
<1>7. b \in Seq(Byte) /\ o <= Len(b)
  BY <1>1
<1> QED BY <1>5, <1>6, <1>7 DEF s, o, o0, b

\* The same, for the first bytes.
LEMMA FirstRead ==
  ASSUME IInv, NEW e \in End, Read(e), NEW k \in ReadSizes(e), Returned(e, k), Fresh(e, 0)
  PROVE  LET o == data[e].offset + k
             b == Filled(e, k) IN
         /\ o \in Nat /\ b \in Seq(Byte) /\ o <= Len(b)
         /\ taken'[e] = o /\ o <= Len(sent[Peer(e)])
         /\ \A i \in 1 .. o : b[i] = sent[Peer(e)][i]
<1> DEFINE o == data[e].offset + k
           b == Filled(e, k)
           s == sent[Peer(e)]
<1>1. e \in ours /\ Reader(e, data[e], sent[e]) /\ 0 \in Nat
  BY ReadStep
<1>2. /\ o \in Nat /\ b \in Seq(Byte) /\ o <= Len(b)
      /\ taken'[e] = 0 + o /\ 0 + o <= Len(s)
      /\ \A i \in 1 .. o : b[i] = s[0 + i]
  BY <1>1, FreshRead, Zenon
<1> HIDE DEF o, b, s
<1>3. 0 + o = o /\ \A i \in 1 .. o : 0 + i = i
  BY <1>2
<1>4. /\ o \in Nat /\ b \in Seq(Byte) /\ o <= Len(b)
      /\ taken'[e] = o /\ o <= Len(s)
      /\ \A i \in 1 .. o : b[i] = s[i]
  BY <1>2, <1>3
<1> QED BY <1>4 DEF o, b, s

\* It stays so whatever is sent after that.
LEMMA FreshStays ==
  ASSUME IInv, NEW e \in End, Reader(e, data[e], sent[e]), NEW base \in Nat, Fresh(e, base),
         taken'[e] = taken[e], data'[e] = data[e],
         \A i \in 1 .. Len(sent[Peer(e)]) : sent'[Peer(e)][i] = sent[Peer(e)][i]
  PROVE  Fresh(e, base)'
<1> DEFINE o == data[e].offset
           s == sent[Peer(e)]
           t == sent'[Peer(e)]
<1>1. o \in Nat
  <2>1. data[e].length \in 1 .. 257 /\ o \in 0 .. data[e].length - 1
    BY Zenon DEF Reader
  <2> QED BY <2>1
<1>2. taken[e] = base + o /\ \A i \in 1 .. o : data[e].buffer[i] = s[base + i]
  BY DEF Fresh
<1>3. taken[e] <= Len(s) /\ Len(s) \in Nat
  BY Peers DEF IInv
<1>4. \A i \in 1 .. Len(s) : t[i] = s[i]
  OBVIOUS
<1> HIDE DEF o, s, t
<1>5. \A i \in 1 .. o : base + i \in 1 .. Len(s)
  BY <1>1, <1>2, <1>3
<1>6. \A i \in 1 .. o : data[e].buffer[i] = t[base + i]
  BY <1>2, <1>4, <1>5
<1> QED BY <1>2, <1>6 DEF Fresh, o, t

-----------------------------------------------------------------------------
(* An end that went astray *)

LEMMA AstrayStays ==
  ASSUME IInv, NEW e \in End, Astray(e), Read(e)
  PROVE  Astray(e)' \/ Failed(e)'
<1>1. /\ e \in ours /\ result[e] = "pending" /\ Reader(e, data[e], sent[e])
      /\ \E k \in ReadSizes(e) : Returned(e, k)
  BY ReadStep
<1>2. PICK k \in ReadSizes(e) : Returned(e, k)
  BY <1>1
<1> DEFINE cb == data[e].cb
           n == data[e].length
           o == data[e].offset
           t == taken[e]
           s == Len(sent[Peer(e)])
           b == Filled(e, k)
<1>3. n \in Nat /\ o \in Nat /\ o < n /\ t \in Nat /\ s \in Nat
  <2>1. n \in 1 .. 257 /\ o \in 0 .. n - 1
    BY <1>1, Zenon DEF Reader
  <2>2. t \in Nat /\ s \in Nat
    BY Peers DEF IInv
  <2> HIDE DEF n, o, t, s
  <2> QED BY <2>1, <2>2
<1>4. /\ k \in Nat /\ o + k <= n /\ t + k <= s /\ taken'[e] = t + k
      /\ ReadCallback(e, b, n, o + k)
      /\ sent' = sent /\ stage' = stage
  BY <1>2 DEF Returned
<1>5. /\ AllSaid /\ result[e] = "pending"
      /\ cb \in {"connect_reply_read", "connect_reply_addr_len_read",
                 "connect_reply_addr_read", "connect_addr_read"}
      /\ t = s \/ (cb = "connect_reply_read" /\ t + n = s + o)
  BY DEF Astray
<1>6. Len(sent'[Peer(e)]) = s /\ AllSaid'
  BY <1>4, <1>5 DEF AllSaid
<1>7. ASSUME NEW cb2 \in {"connect_reply_read", "connect_reply_addr_len_read",
                          "connect_reply_addr_read", "connect_addr_read"},
             NEW n2, NEW o2, do_read(e, cb2, b, n2, o2),
             t + k = s \/ (cb2 = "connect_reply_read" /\ t + k + n2 = s + o2)
      PROVE  Astray(e)'
  <2> DEFINE d == [cb |-> cb2, buffer |-> b, length |-> n2, offset |-> o2]
  <2>1. data'[e] = d /\ result'[e] = "pending"
    BY <1>5, <1>7, Effects DEF Goes
  <2>2. data'[e].cb = cb2 /\ data'[e].length = n2 /\ data'[e].offset = o2
    BY <2>1
  <2> HIDE DEF d, t, s
  <2> QED BY <1>4, <1>6, <1>7, <2>1, <2>2, Zenon DEF Astray
<1>8. ASSUME NEW r \in Results \ {"pending", "success"}, Complete(e, r)
      PROVE  Failed(e)'
  BY <1>8, Effects DEF Completes, Failed
<1> DEFINE o2 == o + k
<1>9. ReadCallback(e, b, n, o2) /\ Again(e, b, n, o2) = do_read(e, cb, b, n, o2)
  BY <1>4 DEF Again
<1>10. CASE t = s
  <2>1. k = 0 /\ o2 # n /\ t + k = s
    <3> HIDE DEF n, o, t, s, cb
    <3> QED BY <1>3, <1>4, <1>10
  <2>2. CASE cb = "connect_reply_addr_len_read"
    <3>1. addr_len_read_cb(e, b)
      BY <1>9, <2>2 DEF ReadCallback
    <3>2. do_read(e, "connect_addr_read", b, b[1] + 2, 0)
      BY <3>1 DEF addr_len_read_cb
    <3> QED BY <1>7, <2>1, <3>2
  <2>3. CASE cb \in {"connect_reply_read", "connect_addr_read", "connect_reply_addr_read"}
    <3>1. do_read(e, "connect_reply_read", b, n, o2)
      <4> HIDE DEF o2, n
      <4>1. CASE cb = "connect_reply_read"
        BY <1>9, <2>1, <4>1 DEF ReadCallback, connect_reply_read_cb
      <4>2. CASE cb = "connect_addr_read"
        BY <1>9, <2>1, <4>2 DEF ReadCallback, connect_addr_read_cb
      <4>3. CASE cb = "connect_reply_addr_read"
        BY <1>9, <2>1, <4>3 DEF ReadCallback, connect_reply_addr_read_cb
      <4> QED BY <2>3, <4>1, <4>2, <4>3
    <3> QED BY <1>7, <2>1, <3>1
  <2> QED BY <1>5, <2>2, <2>3
<1>11. CASE cb = "connect_reply_read" /\ t + n = s + o
  <2>1. connect_reply_read_cb(e, b, n, o2)
    BY <1>9, <1>11 DEF ReadCallback
  <2>2. t + k + n = s + o2
    <3> HIDE DEF n, o, t, s, cb
    <3> QED BY <1>3, <1>4, <1>11
  <2>3. CASE o2 # n
    <3>1. do_read(e, "connect_reply_read", b, n, o2)
      BY <1>9, <1>11, <2>1, <2>3 DEF connect_reply_read_cb
    <3> HIDE DEF n, o2, t, s, b
    <3> QED BY <1>7, <2>2, <3>1
  <2>4. CASE o2 = n
    <3>1. t + k = s
      <4> HIDE DEF n, o, t, s, cb
      <4> QED BY <1>3, <1>4, <1>11, <2>4
    <3>2. \/ \E cb2 \in {"connect_reply_addr_read", "connect_reply_addr_len_read"}, m \in {1, 6, 18} :
               do_read(e, cb2, b, m, 0)
          \/ \E r \in Results \ {"pending", "success"} : Complete(e, r)
      <4> HIDE DEF b, n, o2
      <4>1. "failed" \in Results \ {"pending", "success"}
            /\ ReplyError(At(b, 2)) \in Results \ {"pending", "success"}
        BY ReplyErrorType DEF Results
      <4> QED BY <2>1, <2>4, <4>1 DEF connect_reply_read_cb
    <3> HIDE DEF b, t, s
    <3> QED BY <1>7, <1>8, <3>1, <3>2
  <2> QED BY <2>3, <2>4
<1> QED BY <1>5, <1>10, <1>11

-----------------------------------------------------------------------------
(* The client and a foreign server *)

\* A server's answer, byte by byte.
LEMMA AnsweredBytes ==
  ASSUME NEW r \in Seq(Byte)
  PROVE  LET m == NegoReply(NONE) \o r IN
         /\ m \in Seq(Byte) /\ Len(m) = Len(r) + 2 /\ m[1] = 5 /\ m[2] = 0
         /\ \A i \in 1 .. Len(r) : m[2 + i] = r[i]
<1> DEFINE head == NegoReply(NONE)
           m == head \o r
<1>1. head \in Seq(Byte) /\ Len(head) = 2 /\ head[1] = 5 /\ head[2] = 0
  BY MessageType DEF NegoReply
<1>0. head \in Seq(Byte)
  BY <1>1
<1> HIDE DEF head
<1>2. /\ m \in Seq(Byte) /\ Len(m) = Len(head) + Len(r)
      /\ \A i \in 1 .. Len(head) : m[i] = head[i]
      /\ \A i \in 1 .. Len(r) : m[Len(head) + i] = r[i]
  BY <1>0, Joined
<1> HIDE DEF m
<1>3. 1 \in 1 .. 2 /\ 2 \in 1 .. 2 /\ Len(r) \in Nat
  OBVIOUS
<1>4. Len(m) = Len(r) + 2
  BY <1>1, <1>2, <1>3
<1>5. m[1] = 5 /\ m[2] = 0 /\ \A i \in 1 .. Len(r) : m[2 + i] = r[i]
  BY <1>1, <1>2, <1>3
<1> QED BY <1>2, <1>4, <1>5 DEF m, head

LEMMA GrantToBytes ==
  ASSUME NEW h \in Hosts
  PROVE  /\ GrantTo(h) \in Seq(Byte) /\ Len(GrantTo(h)) = Len(h) + 7
         /\ GrantTo(h)[1] = 5 /\ GrantTo(h)[2] = 0 /\ GrantTo(h)[3] = 0 /\ GrantTo(h)[4] = 3
         /\ GrantTo(h)[5] = Len(h)
         /\ h \in Seq(Byte) /\ Len(h) \in Nat /\ Len(h) <= 255
<1>1. h \in Seq(Byte) /\ Len(h) <= 255
  BY ForeignMessages, HostAssumption DEF HostAssumption
<1>2. 0 \in Byte
  BY DEF Byte
<1>3. Len(h) \in Nat
  BY <1>1
<1> QED BY <1>1, <1>2, <1>3, NamingBytes DEF GrantTo

\* A step of the server's, which never writes over what it said.
LEMMA ServerSpeaks ==
  ASSUME IInv, ServerSays, ForeignServer
  PROVE  /\ ServerSays' /\ ~AllSaid
         /\ data' = data /\ result' = result /\ taken'["client"] = taken["client"]
         /\ sent["server"] \in Seq(Byte) /\ sent'["server"] \in Seq(Byte)
         /\ Len(sent["server"]) <= Len(sent'["server"])
         /\ \A i \in 1 .. Len(sent["server"]) : sent'["server"][i] = sent["server"][i]
<1> DEFINE s == sent["server"]
<1>0. "server" \in End /\ "client" \in End /\ sent \in [End -> Seq(Byte)] /\ taken \in [End -> Nat]
      /\ s \in Seq(Byte)
  BY DEF End, IInv
<1>1. PICK msg, next, k :
         /\ Says("server", msg, next) /\ Takes("server", k)
         /\ \/ /\ stage = "start"
               /\ \E m \in {NONE, NO_ACCEPT} : msg = NegoReply(m)
                                               /\ next = IF m = NONE THEN "offered" ELSE "done"
            \/ /\ stage = "offered" /\ next = "done" /\ msg \in Replies
  <2> DEFINE in == Arriving("server")
  <2>1. CASE /\ stage = "start"
             /\ \E m \in {NONE, NO_ACCEPT} :
                  Says("server", NegoReply(m), IF m = NONE THEN "offered" ELSE "done")
             /\ Takes("server", in[2] + 2)
    BY <2>1
  <2>2. CASE /\ stage = "offered"
             /\ \E reply \in Replies : Says("server", reply, "done")
             /\ Takes("server", in[5] + 7)
    BY <2>2
  <2> QED BY <2>1, <2>2 DEF ForeignServer, Replies
<1>2. /\ sent'["server"] = s \o msg /\ stage' = next /\ data' = data /\ result' = result
      /\ taken'["client"] = taken["client"]
  BY <1>0, <1>1 DEF Says, Takes
<1>3. msg \in Seq(Byte)
  BY ZenonT(30), <1>1, ForeignMessages DEF Replies
<1> HIDE DEF s
<1>4. /\ s \o msg \in Seq(Byte) /\ Len(s \o msg) = Len(s) + Len(msg)
      /\ \A i \in 1 .. Len(s) : (s \o msg)[i] = s[i]
  BY <1>0, <1>3, Joined
<1>5. Len(s) <= Len(s \o msg)
  BY <1>0, <1>3, <1>4
<1>6. ServerSays'
  <2>1. CASE stage = "start"
    <3>1. s = <<>> /\ s \o msg = msg
      BY <1>3, <2>1, ConcatEmptySeq DEF ServerSays, s
    <3> QED BY <1>1, <1>2, <2>1, <3>1 DEF ServerSays
  <2>2. CASE stage = "offered"
    <3>1. s = NegoReply(NONE)
      BY <2>2 DEF ServerSays, s
    <3> QED BY <1>1, <1>2, <2>2, <3>1 DEF ServerSays
  <2> QED BY <1>1, <2>1, <2>2
<1>7. ~AllSaid
  BY <1>1 DEF AllSaid
<1> QED BY <1>0, <1>2, <1>4, <1>5, <1>6, <1>7 DEF s

LEMMA ClientHears ==
  ASSUME IInv, ours = {"client"}, ServerSays, ClientStands, ForeignServer
  PROVE  ServerSays' /\ ClientStands'
<1> DEFINE s == sent["server"]
           t == sent'["server"]
<1>1. /\ ServerSays' /\ ~AllSaid
      /\ data' = data /\ result' = result /\ taken'["client"] = taken["client"]
      /\ s \in Seq(Byte) /\ t \in Seq(Byte)
      /\ Len(s) <= Len(t) /\ \A i \in 1 .. Len(s) : t[i] = s[i]
  BY ServerSpeaks
<1>2. Peer("client") = "server" /\ "client" \in ours
  BY Peers
<1>3. taken["client"] <= Len(s) /\ taken["client"] \in Nat
  BY Peers DEF IInv, End
<1>4. ASSUME NEW base \in Nat, Fresh("client", base),
             Reader("client", data["client"], sent["client"])
      PROVE  Fresh("client", base)'
  <2>1. "client" \in End /\ data'["client"] = data["client"]
    BY <1>1 DEF End
  <2>2. \A i \in 1 .. Len(sent[Peer("client")]) :
          sent'[Peer("client")][i] = sent[Peer("client")][i]
    BY <1>1, <1>2
  <2> QED BY <1>1, <1>4, <2>1, <2>2, FreshStays
<1>5. Accepted => Accepted'
  <2> HIDE DEF s, t
  <2>1. ASSUME Len(s) >= 2, s[2] = NONE PROVE Len(t) >= 2 /\ t[2] = NONE
    BY <1>1, <2>1
  <2> QED BY <2>1 DEF Accepted, s, t
<1>6. data["client"].cb \in Reading => Reader("client", data["client"], sent["client"])
  <2>1. "client" \in End /\ ("none" \notin Reading) /\ \A cb \in Reading : cb \notin Writing
    BY DEF End, Reading, Writing
  <2> QED BY <2>1, Pending DEF Writer
<1>7. CASE Offering
  BY <1>1, <1>7 DEF Offering, ClientStands
<1>8. CASE HearsMethod
  <2>1. HearsMethod'
    BY <1>1, <1>4, <1>6, <1>8 DEF HearsMethod, Waits, Reading
  <2> QED BY <1>1, <2>1 DEF ClientStands
<1>9. CASE Asking
  BY <1>1, <1>5, <1>9 DEF Asking, ClientStands
<1>10. CASE HearsHead
  <2>1. HearsHead'
    BY <1>1, <1>4, <1>5, <1>6, <1>10 DEF HearsHead, Waits, Reading
  <2> QED BY <1>1, <2>1 DEF ClientStands
<1>11. CASE HearsAddress \/ HearsLength \/ HearsName \/ Astray("client") \/ Granted
  BY <1>1, <1>11 DEF HearsAddress, HearsLength, HearsName, Astray, Granted, Answered
<1>12. CASE Failed("client")
  BY <1>1, <1>12 DEF Failed, ClientStands
<1> QED BY <1>7, <1>8, <1>9, <1>10, <1>11, <1>12 DEF ClientStands

\* What a read is about, when the pending callback is cb.
LEMMA ReadAt ==
  ASSUME IInv, NEW e \in End, Read(e)
  PROVE  /\ e \in ours /\ result[e] = "pending" /\ data[e].cb \in Reading
         /\ Reader(e, data[e], sent[e])
         /\ data[e].length \in 1 .. 257 /\ data[e].offset \in 0 .. data[e].length - 1
         /\ taken[e] \in Nat /\ sent[Peer(e)] \in Seq(Byte)
         /\ \E k \in ReadSizes(e) : Returned(e, k)
<1>1. /\ e \in ours /\ result[e] = "pending" /\ data[e].cb \in Reading
      /\ Reader(e, data[e], sent[e])
      /\ \E k \in ReadSizes(e) : Returned(e, k)
  BY ReadStep
<1>2. data[e].length \in 1 .. 257 /\ data[e].offset \in 0 .. data[e].length - 1
  BY <1>1, Zenon DEF Reader
<1>3. taken[e] \in Nat /\ sent[Peer(e)] \in Seq(Byte)
  BY Peers DEF IInv
<1> QED BY <1>1, <1>2, <1>3

LEMMA HearsMethodReads ==
  ASSUME IInv, HearsMethod, Read("client")
  PROVE  ClientStands'
<1>0. "client" \in End /\ Peer("client") = "server"
  BY Peers DEF End
<1>1. /\ "client" \in ours /\ result["client"] = "pending"
      /\ Reader("client", data["client"], sent["client"])
      /\ \E k \in ReadSizes("client") : Returned("client", k)
  BY <1>0, ReadAt
<1>2. PICK k \in ReadSizes("client") : Returned("client", k)
  BY <1>1
<1>3. /\ data["client"].cb = "nego_reply_read" /\ data["client"].length = 2 /\ Fresh("client", 0)
  BY DEF HearsMethod, Waits
<1> DEFINE o == data["client"].offset + k
           b == Filled("client", k)
           s == sent["server"]
<1>4. /\ o \in Nat /\ b \in Seq(Byte) /\ o <= Len(b)
      /\ taken'["client"] = o /\ o <= Len(s)
      /\ \A i \in 1 .. o : b[i] = s[i]
  BY <1>0, <1>2, <1>3, FirstRead
<1>5. s \in Seq(Byte)
  BY <1>0 DEF IInv, End
<1>6. nego_reply_read_cb("client", b, 2, o) /\ sent' = sent
  BY <1>2, <1>3 DEF Returned, ReadCallback
<1> HIDE DEF o, b
<1>7. 0 + o = o /\ \A i \in 1 .. o : 0 + i = i
  BY <1>4
<1>9. CASE o # 2
  <2>1. do_read("client", "nego_reply_read", b, 2, o)
    BY <1>3, <1>6, <1>9 DEF nego_reply_read_cb, Again
  <2>2. Goes("client", [cb |-> "nego_reply_read", buffer |-> b, length |-> 2, offset |-> o])
    BY <1>0, <2>1, Effects
  <2>3. /\ result'["client"] = "pending" /\ data'["client"].cb = "nego_reply_read"
        /\ data'["client"].length = 2 /\ data'["client"].offset = o /\ data'["client"].buffer = b
    BY <1>1, <2>2 DEF Goes
  <2>4. HearsMethod'
    BY <1>0, <1>4, <1>6, <1>7, <2>3 DEF HearsMethod, Waits, Fresh
  <2> QED BY <2>4 DEF ClientStands
<1>10. CASE o = 2
  <2>1. \/ \E r \in {"failed", "need_auth", "auth_failed"} : CompleteUninitialised("client", r)
        \/ b[2] = NONE /\ do_write("client", "connect_msg_write", ConnectMsg(Host))
    BY <1>6, <1>10 DEF nego_reply_read_cb
  <2>2. CASE \E r \in {"failed", "need_auth", "auth_failed"} : CompleteUninitialised("client", r)
    <3>1. \E r \in {"failed", "need_auth", "auth_failed", "crashed"} : Completes("client", r)
      BY <1>0, <2>2, Effects
    <3> QED BY <3>1 DEF Completes, Failed, ClientStands
  <2>3. CASE b[2] = NONE /\ do_write("client", "connect_msg_write", ConnectMsg(Host))
    <3>1. Goes("client", [cb |-> "connect_msg_write", buffer |-> ConnectMsg(Host),
                          length |-> Len(ConnectMsg(Host)), offset |-> 0])
      BY <1>0, <2>3, Effects
    <3>2. result'["client"] = "pending" /\ data'["client"].cb = "connect_msg_write"
      BY <1>1, <3>1 DEF Goes
    <3>3. Len(s) >= 2 /\ s[2] = NONE
      BY <1>4, <1>5, <1>10, <2>3
    <3>4. Asking'
      BY <1>4, <1>6, <1>10, <3>2, <3>3 DEF Asking, Accepted
    <3> QED BY <3>4 DEF ClientStands
  <2> QED BY <2>1, <2>2, <2>3
<1> QED BY <1>9, <1>10

\* What the client makes of the head of an answer.
LEMMA HearsHeadReads ==
  ASSUME IInv, ServerSays, HearsHead, Read("client")
  PROVE  ClientStands'
<1>0. "client" \in End /\ Peer("client") = "server" /\ "server" \in End
  BY Peers DEF End
<1>1. /\ "client" \in ours /\ result["client"] = "pending"
      /\ Reader("client", data["client"], sent["client"])
      /\ \E k \in ReadSizes("client") : Returned("client", k)
  BY <1>0, ReadAt
<1>2. PICK k \in ReadSizes("client") : Returned("client", k)
  BY <1>1
<1>3. /\ data["client"].cb = "connect_reply_read" /\ data["client"].length = 4 /\ Fresh("client", 2)
      /\ Accepted
  BY DEF HearsHead, Waits
<1> DEFINE o == data["client"].offset + k
           b == Filled("client", k)
           s == sent["server"]
<1>4. /\ o \in Nat /\ b \in Seq(Byte) /\ o <= Len(b)
      /\ taken'["client"] = 2 + o /\ 2 + o <= Len(s)
      /\ \A i \in 1 .. o : b[i] = s[2 + i]
  <2>1. 2 \in Nat
    OBVIOUS
  <2>2. /\ o \in Nat /\ b \in Seq(Byte) /\ o <= Len(b)
        /\ taken'["client"] = 2 + o /\ 2 + o <= Len(sent[Peer("client")])
        /\ \A i \in 1 .. o : b[i] = sent[Peer("client")][2 + i]
    BY <1>1, <1>2, <1>3, <2>1, FreshRead, Zenon
  <2> QED BY <1>0, <2>2
<1>5. s \in Seq(Byte)
  BY <1>0 DEF IInv
<1>6. connect_reply_read_cb("client", b, 4, o) /\ sent' = sent /\ stage' = stage
  BY <1>2, <1>3 DEF Returned, ReadCallback
<1> HIDE DEF o, b
<1>9. CASE o # 4
  <2>1. do_read("client", "connect_reply_read", b, 4, o)
    BY <1>3, <1>6, <1>9 DEF connect_reply_read_cb, Again
  <2>2. Goes("client", [cb |-> "connect_reply_read", buffer |-> b, length |-> 4, offset |-> o])
    BY <1>0, <2>1, Effects
  <2>3. /\ result'["client"] = "pending" /\ data'["client"].cb = "connect_reply_read"
        /\ data'["client"].length = 4 /\ data'["client"].offset = o /\ data'["client"].buffer = b
    BY <1>1, <2>2 DEF Goes
  <2>4. HearsHead'
    BY <1>0, <1>3, <1>4, <1>6, <2>3 DEF HearsHead, Waits, Fresh, Accepted
  <2> QED BY <2>4 DEF ClientStands
<1>10. CASE o = 4
  <2>1. Len(s) >= 6 /\ s[2] = 0 /\ taken'["client"] = 6
    BY <1>3, <1>4, <1>5, <1>10 DEF Accepted
  <2>2. PICK r \in Replies : stage = "done" /\ s = NegoReply(NONE) \o r
    <3>1. Len(NegoReply(NONE)) = 2 /\ Len(NegoReply(NO_ACCEPT)) = 2 /\ Len(<<>>) = 0
      BY MessageType
    <3>2. s # <<>> /\ s # NegoReply(NONE) /\ s # NegoReply(NO_ACCEPT)
      <4> HIDE DEF s
      <4>1. ~(0 >= 6) /\ ~(2 >= 6)
        OBVIOUS
      <4> QED BY <2>1, <3>1, <4>1, ZenonT(30)
    <3> QED BY <3>2 DEF ServerSays
  <2>3. r \in Seq(Byte)
    BY ZenonT(30), ForeignMessages DEF Replies
  <2>4. Len(s) = Len(r) + 2 /\ \A i \in 1 .. Len(r) : s[2 + i] = r[i]
    BY <2>2, <2>3, AnsweredBytes
  <2>5. b[1] = r[1] /\ b[2] = r[2] /\ b[3] = r[3] /\ b[4] = r[4]
    <3>1. Len(r) \in Nat /\ Len(s) \in Nat
      BY <1>5, <2>3
    <3>2. 1 \in 1 .. Len(r) /\ 2 \in 1 .. Len(r) /\ 3 \in 1 .. Len(r) /\ 4 \in 1 .. Len(r)
      BY <2>1, <2>4, <3>1
    <3>3. 1 \in 1 .. o /\ 2 \in 1 .. o /\ 3 \in 1 .. o /\ 4 \in 1 .. o
      BY <1>10
    <3> HIDE DEF s
    <3> QED BY <1>4, <2>4, <3>2, <3>3
  <2>6. At(b, 1) = r[1] /\ At(b, 2) = r[2] /\ At(b, 3) = r[3] /\ At(b, 4) = r[4]
    <3>1. Len(b) \in Nat /\ 4 <= Len(b)
      BY <1>4, <1>10
    <3>2. 1 <= Len(b) /\ 2 <= Len(b) /\ 3 <= Len(b)
      BY <3>1
    <3> QED BY <2>5, <3>1, <3>2 DEF At
  <2>7. Answered(r)'
    <3>1. AllSaid' /\ sent'["server"] = NegoReply(NONE) \o r
      BY <1>6, <2>2 DEF AllSaid
    <3> QED BY <3>1 DEF Answered
  <2>8. ASSUME NEW cb, NEW n, do_read("client", cb, b, n, 0)
        PROVE  Begins("client", cb, n)'
    <3>1. Goes("client", [cb |-> cb, buffer |-> b, length |-> n, offset |-> 0])
      BY <1>0, <2>8, Effects
    <3>2. result'["client"] = "pending" /\ data'["client"].cb = cb
          /\ data'["client"].length = n /\ data'["client"].offset = 0
      BY <1>1, <3>1 DEF Goes
    <3> QED BY <3>2 DEF Begins, Waits
  <2>9. ASSUME NEW a \in Addresses, r = Grant(a) PROVE ClientStands'
    <3>1. /\ r[1] = 5 /\ r[2] = 0 /\ r[3] = 0 /\ r[4] = IF Len(a) = 4 THEN 1 ELSE 4
          /\ Len(a) \in {4, 16}
      BY <2>9, GrantBytes
    <3>2. do_read("client", "connect_reply_addr_read", b, Len(a) + 2, 0)
      <4>1. CASE Len(a) = 4
        <5>1. r[4] = 1 /\ Len(a) + 2 = 6
          BY <3>1, <4>1
        <5> QED BY <1>6, <1>10, <2>6, <3>1, <5>1 DEF connect_reply_read_cb
      <4>2. CASE Len(a) = 16
        <5>1. r[4] = 4 /\ Len(a) + 2 = 18
          BY <3>1, <4>2
        <5> QED BY <1>6, <1>10, <2>6, <3>1, <5>1 DEF connect_reply_read_cb
      <4> QED BY <3>1, <4>1, <4>2
    <3>3. HearsAddress'
      <4>1. Begins("client", "connect_reply_addr_read", Len(a) + 2)'
        BY <2>8, <3>2
      <4> QED BY <2>1, <2>7, <2>9, <4>1 DEF HearsAddress
    <3> QED BY <3>3 DEF ClientStands
  <2>10. ASSUME NEW h \in Hosts, r = GrantTo(h) PROVE ClientStands'
    <3>1. r[1] = 5 /\ r[2] = 0 /\ r[3] = 0 /\ r[4] = 3
      BY <2>10, GrantToBytes
    <3>2. do_read("client", "connect_reply_addr_len_read", b, 1, 0)
      BY <1>6, <1>10, <2>6, <3>1 DEF connect_reply_read_cb
    <3>3. HearsLength'
      <4>1. Begins("client", "connect_reply_addr_len_read", 1)'
        BY <2>8, <3>2
      <4> QED BY <2>1, <2>7, <2>10, <4>1 DEF HearsLength
    <3> QED BY <3>3 DEF ClientStands
  <2>11. ASSUME NEW rep \in 1 .. 8, r = Denial(rep) PROVE ClientStands'
    <3>1. r[1] = 5 /\ r[2] = rep /\ rep # 0
      BY <2>11, DenialBytes
    <3>2. Complete("client", ReplyError(rep))
      BY <1>6, <1>10, <2>6, <3>1 DEF connect_reply_read_cb
    <3>3. Completes("client", ReplyError(rep))
      BY <1>0, <3>2, Effects
    <3> QED BY <3>3, ReplyErrorType DEF Completes, Failed, ClientStands
  <2> QED BY <2>9, <2>10, <2>11 DEF Replies
<1> QED BY <1>9, <1>10

LEMMA HearsAddressReads ==
  ASSUME IInv, HearsAddress, Read("client")
  PROVE  ClientStands'
<1>0. "client" \in End /\ Peer("client") = "server"
  BY Peers DEF End
<1>1. result["client"] = "pending" /\ \E k \in ReadSizes("client") : Returned("client", k)
  BY <1>0, ReadAt
<1>2. PICK k \in ReadSizes("client") : Returned("client", k)
  BY <1>1
<1>3. PICK a \in Addresses :
        /\ AllSaid /\ sent["server"] = NegoReply(NONE) \o Grant(a) /\ taken["client"] = 6
        /\ data["client"].cb = "connect_reply_addr_read" /\ data["client"].length = Len(a) + 2
        /\ data["client"].offset = 0
  BY DEF HearsAddress, Answered, Begins, Waits
<1> DEFINE n == Len(a) + 2
           b == Filled("client", k)
           s == sent["server"]
<1>4. Len(s) = Len(a) + 8 /\ Len(a) \in Nat
  <2> DEFINE r == Grant(a)
  <2>1. r \in Seq(Byte) /\ Len(r) = Len(a) + 6 /\ Len(a) \in {4, 16}
    BY GrantBytes
  <2> HIDE DEF r
  <2>2. Len(NegoReply(NONE) \o r) = Len(r) + 2
    BY <2>1, AnsweredBytes
  <2>3. Len(s) = Len(r) + 2
    BY <1>3, <2>2 DEF r
  <2> HIDE DEF s
  <2> QED BY <2>1, <2>3
<1>5. /\ k \in Nat /\ 0 + k <= n /\ taken'["client"] = 6 + k
      /\ connect_reply_addr_read_cb("client", b, n, 0 + k) /\ sent' = sent /\ stage' = stage
  BY <1>2, <1>3 DEF Returned, ReadCallback
<1>6. 0 + k = k /\ AllSaid'
  BY <1>3, <1>5 DEF AllSaid
<1>7. connect_reply_addr_read_cb("client", b, n, k)
  BY <1>5, <1>6
<1> HIDE DEF n, b, s
<1>8. CASE k = n
  <2>1. Complete("client", "success")
    BY <1>7, <1>8 DEF connect_reply_addr_read_cb
  <2>2. Completes("client", "success")
    BY <1>0, <2>1, Effects
  <2>3. taken'["client"] = Len(s)
    BY <1>4, <1>5, <1>8 DEF n
  <2>4. Granted'
    BY <1>3, <1>5, <1>6, <2>2, <2>3 DEF Granted, Completes, Answered, s
  <2> QED BY <2>4 DEF ClientStands
<1>9. CASE k # n
  <2>1. do_read("client", "connect_reply_read", b, n, k)
    BY <1>7, <1>9 DEF connect_reply_addr_read_cb
  <2>2. Goes("client", [cb |-> "connect_reply_read", buffer |-> b, length |-> n, offset |-> k])
    BY <1>0, <2>1, Effects
  <2>3. /\ result'["client"] = "pending" /\ data'["client"].cb = "connect_reply_read"
        /\ data'["client"].length = n /\ data'["client"].offset = k
    BY <1>1, <2>2 DEF Goes
  <2>4. taken'["client"] + n = Len(s) + k
    BY <1>4, <1>5 DEF n
  <2>5. Astray("client")'
    BY <1>0, <1>5, <1>6, <2>3, <2>4, Zenon DEF Astray, s
  <2> QED BY <2>5 DEF ClientStands
<1> QED BY <1>8, <1>9

LEMMA HearsLengthReads ==
  ASSUME IInv, HearsLength, Read("client")
  PROVE  ClientStands'
<1>0. "client" \in End /\ Peer("client") = "server"
  BY Peers DEF End
<1>1. /\ "client" \in ours /\ result["client"] = "pending"
      /\ Reader("client", data["client"], sent["client"])
      /\ \E k \in ReadSizes("client") : Returned("client", k)
  BY <1>0, ReadAt
<1>2. PICK k \in ReadSizes("client") : Returned("client", k)
  BY <1>1
<1>3. PICK h \in Hosts :
        /\ AllSaid /\ sent["server"] = NegoReply(NONE) \o GrantTo(h) /\ taken["client"] = 6
        /\ data["client"].cb = "connect_reply_addr_len_read" /\ data["client"].length = 1
        /\ data["client"].offset = 0
  BY DEF HearsLength, Answered, Begins, Waits
<1> DEFINE b == Filled("client", k)
           s == sent["server"]
<1>4. Len(s) = Len(h) + 9 /\ Len(h) \in Nat /\ s[7] = Len(h)
  <2> DEFINE r == GrantTo(h)
  <2>1. r \in Seq(Byte) /\ Len(r) = Len(h) + 7 /\ r[5] = Len(h) /\ Len(h) \in Nat
    BY GrantToBytes
  <2> HIDE DEF r
  <2>2. /\ Len(NegoReply(NONE) \o r) = Len(r) + 2
        /\ \A i \in 1 .. Len(r) : (NegoReply(NONE) \o r)[2 + i] = r[i]
    BY <2>1, AnsweredBytes
  <2>3. Len(s) = Len(r) + 2 /\ \A i \in 1 .. Len(r) : s[2 + i] = r[i]
    BY <1>3, <2>2 DEF r
  <2> HIDE DEF s
  <2>4. 5 \in 1 .. Len(r) /\ Len(s) = Len(h) + 9
    BY <2>1, <2>3
  <2>5. s[2 + 5] = r[5] /\ 2 + 5 = 7
    BY <2>3, <2>4
  <2> QED BY <2>1, <2>4, <2>5
<1>5. /\ k \in Nat /\ 0 + k <= 1 /\ taken'["client"] = 6 + k /\ (k = 0 => 6 = Len(s))
      /\ addr_len_read_cb("client", b) /\ sent' = sent /\ stage' = stage
  BY <1>0, <1>2, <1>3 DEF Returned, ReadCallback
<1>6. k = 1 /\ AllSaid' /\ taken'["client"] = 7
  <2> HIDE DEF s
  <2>1. k = 1
    BY <1>4, <1>5
  <2> QED BY <1>3, <1>5, <2>1 DEF AllSaid
<1>7. b[1] = Len(h)
  <2>1. \A i \in 1 .. k : b[data["client"].offset + i] = sent[Peer("client")][taken["client"] + i]
    BY <1>1, ReadBytes
  <2>2. b[0 + 1] = s[6 + 1] /\ 0 + 1 = 1 /\ 6 + 1 = 7
    <3>1. \A i \in 1 .. 1 : b[0 + i] = s[6 + i]
      BY <1>0, <1>3, <1>6, <2>1
    <3>2. 1 \in 1 .. 1
      OBVIOUS
    <3>3. b[0 + 1] = s[6 + 1]
      BY <3>1, <3>2, Zenon
    <3> QED BY <3>3
  <2> QED BY <1>4, <2>2
<1>8. do_read("client", "connect_addr_read", b, Len(h) + 2, 0)
  BY <1>5, <1>7 DEF addr_len_read_cb
<1> DEFINE n == Len(h) + 2
<1>9. Goes("client", [cb |-> "connect_addr_read", buffer |-> b, length |-> n, offset |-> 0])
  BY <1>0, <1>8, Effects
<1> HIDE DEF n, b
<1>10. /\ result'["client"] = "pending" /\ data'["client"].cb = "connect_addr_read"
       /\ data'["client"].length = n /\ data'["client"].offset = 0
  BY <1>1, <1>9 DEF Goes
<1>11. HearsName'
  BY <1>3, <1>5, <1>6, <1>10 DEF HearsName, Answered, Begins, Waits, n
<1> QED BY <1>11 DEF ClientStands

LEMMA HearsNameReads ==
  ASSUME IInv, HearsName, Read("client")
  PROVE  ClientStands'
<1>0. "client" \in End /\ Peer("client") = "server"
  BY Peers DEF End
<1>1. result["client"] = "pending" /\ \E k \in ReadSizes("client") : Returned("client", k)
  BY <1>0, ReadAt
<1>2. PICK k \in ReadSizes("client") : Returned("client", k)
  BY <1>1
<1>3. PICK h \in Hosts :
        /\ AllSaid /\ sent["server"] = NegoReply(NONE) \o GrantTo(h) /\ taken["client"] = 7
        /\ data["client"].cb = "connect_addr_read" /\ data["client"].length = Len(h) + 2
        /\ data["client"].offset = 0
  BY DEF HearsName, Answered, Begins, Waits
<1> DEFINE n == Len(h) + 2
           b == Filled("client", k)
           s == sent["server"]
<1>4. Len(s) = Len(h) + 9 /\ Len(h) \in Nat
  <2> DEFINE r == GrantTo(h)
  <2>1. r \in Seq(Byte) /\ Len(r) = Len(h) + 7 /\ Len(h) \in Nat
    BY GrantToBytes
  <2> HIDE DEF r
  <2>2. Len(NegoReply(NONE) \o r) = Len(r) + 2
    BY <2>1, AnsweredBytes
  <2>3. Len(s) = Len(r) + 2
    BY <1>3, <2>2 DEF r
  <2> HIDE DEF s
  <2> QED BY <2>1, <2>3
<1>5. /\ k \in Nat /\ 0 + k <= n /\ taken'["client"] = 7 + k
      /\ connect_addr_read_cb("client", b, n, 0 + k) /\ sent' = sent /\ stage' = stage
  BY <1>2, <1>3 DEF Returned, ReadCallback
<1>6. 0 + k = k /\ AllSaid'
  BY <1>3, <1>5 DEF AllSaid
<1>7. connect_addr_read_cb("client", b, n, k)
  BY <1>5, <1>6
<1> HIDE DEF n, b, s
<1>8. CASE k = n
  <2>1. \E r \in {"not_allowed", "crashed"} : Complete("client", r)
    BY <1>7, <1>8 DEF connect_addr_read_cb
  <2>2. \E r \in {"not_allowed", "crashed"} : Completes("client", r)
    BY <1>0, <2>1, Effects
  <2> QED BY <2>2 DEF Completes, Failed, ClientStands
<1>9. CASE k # n
  <2>1. do_read("client", "connect_reply_read", b, n, k)
    BY <1>7, <1>9 DEF connect_addr_read_cb
  <2>2. Goes("client", [cb |-> "connect_reply_read", buffer |-> b, length |-> n, offset |-> k])
    BY <1>0, <2>1, Effects
  <2>3. /\ result'["client"] = "pending" /\ data'["client"].cb = "connect_reply_read"
        /\ data'["client"].length = n /\ data'["client"].offset = k
    BY <1>1, <2>2 DEF Goes
  <2>4. taken'["client"] + n = Len(s) + k
    BY <1>4, <1>5 DEF n
  <2>5. Astray("client")'
    BY <1>0, <1>5, <1>6, <2>3, <2>4, Zenon DEF Astray, s
  <2> QED BY <2>5 DEF ClientStands
<1> QED BY <1>8, <1>9

\* A read of the client's.
LEMMA ClientReads ==
  ASSUME IInv, ServerSays, ClientStands, Read("client")
  PROVE  ServerSays' /\ ClientStands'
<1>1. "client" \in End /\ result["client"] = "pending" /\ data["client"].cb \in Reading
      /\ \E k \in ReadSizes("client") : Returned("client", k)
  BY ReadAt DEF End
<1>2. ServerSays'
  BY SMTT(30), <1>1 DEF ServerSays, Returned
<1> SUFFICES ClientStands'
  BY <1>2
<1>3. ~Offering /\ ~Asking /\ ~Granted /\ ~Failed("client")
  BY <1>1 DEF Offering, Asking, Granted, Failed, Reading
<1>4. CASE HearsMethod
  BY <1>4, HearsMethodReads
<1>5. CASE HearsHead
  BY <1>5, HearsHeadReads
<1>6. CASE HearsAddress
  BY <1>6, HearsAddressReads
<1>7. CASE HearsLength
  BY <1>7, HearsLengthReads
<1>8. CASE HearsName
  BY <1>8, HearsNameReads
<1>9. CASE Astray("client")
  <2>1. Astray("client")' \/ Failed("client")'
    BY <1>1, <1>9, AstrayStays
  <2> QED BY <2>1 DEF ClientStands
<1> QED BY <1>3, <1>4, <1>5, <1>6, <1>7, <1>8, <1>9 DEF ClientStands

\* A write: part of the message, or the rest of it.
LEMMA WriteStep ==
  ASSUME IInv, NEW e \in End, Write(e)
  PROVE  /\ e \in ours /\ result[e] = "pending" /\ data[e].cb \in Writing
         /\ \A f \in End : f # e => sent'[f] = sent[f]
         /\ ours' = ours /\ taken' = taken /\ stage' = stage /\ closed' = closed
         /\ \/ Written(e)
            \/ \E o : Goes(e, [cb |-> data[e].cb, buffer |-> data[e].buffer,
                               length |-> data[e].length, offset |-> o])
<1>1. data[e].cb \in Writing /\ data[e].cb # "none"
  BY DEF Write, Writing
<1>2. e \in ours /\ result[e] = "pending"
  BY <1>1, Pending
<1>3. \/ Written(e)
      \/ \E o : do_read(e, data[e].cb, data[e].buffer, data[e].length, o)
  BY Zenon DEF Write, Again
<1>4. /\ \A f \in End : f # e => sent'[f] = sent[f]
      /\ ours' = ours /\ taken' = taken /\ stage' = stage /\ closed' = closed
  BY WriteMoves
<1> QED BY <1>1, <1>2, <1>3, <1>4, Effects, Zenon

LEMMA ClientWrites ==
  ASSUME IInv, ServerSays, ClientStands, Write("client")
  PROVE  ServerSays' /\ ClientStands'
<1>0. "client" \in End /\ "server" \in End /\ Peer("client") = "server" /\ "server" # "client"
  BY Peers DEF End
<1>1. /\ result["client"] = "pending" /\ data["client"].cb \in Writing
      /\ sent'["server"] = sent["server"] /\ taken' = taken /\ stage' = stage
      /\ \/ Written("client")
         \/ \E o : Goes("client", [cb |-> data["client"].cb, buffer |-> data["client"].buffer,
                                   length |-> data["client"].length, offset |-> o])
  BY <1>0, WriteStep, Zenon
<1>2. ServerSays'
  BY <1>1 DEF ServerSays
<1>3. Offering \/ Asking
  BY <1>1 DEF ClientStands, HearsMethod, HearsHead, HearsAddress, HearsLength, HearsName,
              Astray, Granted, Failed, Begins, Waits, Writing, Idle
<1>4. CASE \E o : Goes("client", [cb |-> data["client"].cb, buffer |-> data["client"].buffer,
                                  length |-> data["client"].length, offset |-> o])
  <2>1. result'["client"] = result["client"] /\ data'["client"].cb = data["client"].cb
    BY <1>4 DEF Goes
  <2>2. Offering' \/ Asking'
    BY <1>1, <1>3, <2>1 DEF Offering, Asking, Accepted
  <2> QED BY <1>2, <2>2 DEF ClientStands
<1>5. CASE Written("client") /\ Offering
  <2>1. do_read("client", "nego_reply_read", <<>>, 2, 0)
    BY <1>5 DEF Written, Offering
  <2>2. Goes("client", [cb |-> "nego_reply_read", buffer |-> <<>>, length |-> 2, offset |-> 0])
    BY <1>0, <2>1, Effects
  <2>3. /\ result'["client"] = "pending" /\ data'["client"].cb = "nego_reply_read"
        /\ data'["client"].length = 2 /\ data'["client"].offset = 0
    BY <1>1, <2>2 DEF Goes
  <2>4. taken'["client"] = 0 + 0
    BY <1>1, <1>5 DEF Offering
  <2>5. HearsMethod'
    BY <2>3, <2>4 DEF HearsMethod, Waits, Fresh
  <2> QED BY <1>2, <2>5 DEF ClientStands
<1>6. CASE Written("client") /\ Asking
  <2>1. do_read("client", "connect_reply_read", <<>>, 4, 0)
    BY <1>6 DEF Written, Asking
  <2>2. Goes("client", [cb |-> "connect_reply_read", buffer |-> <<>>, length |-> 4, offset |-> 0])
    BY <1>0, <2>1, Effects
  <2>3. /\ result'["client"] = "pending" /\ data'["client"].cb = "connect_reply_read"
        /\ data'["client"].length = 4 /\ data'["client"].offset = 0
    BY <1>1, <2>2 DEF Goes
  <2>4. taken'["client"] = 2 + 0 /\ Accepted'
    BY <1>1, <1>6 DEF Asking, Accepted
  <2>5. HearsHead'
    BY <2>3, <2>4 DEF HearsHead, Waits, Fresh
  <2> QED BY <1>2, <2>5 DEF ClientStands
<1> QED BY <1>1, <1>3, <1>4, <1>5, <1>6

\* Every step, for a client of ours and a foreign server.
LEMMA ClientKeeps ==
  ASSUME IInv, ours = {"client"}, ServerSays, ClientStands, [Next]_vars
  PROVE  ServerSays' /\ ClientStands'
<1>0. "client" \in End /\ "server" \in End /\ Peer("client") = "server" /\ "server" # "client"
  BY Peers DEF End
<1>1. data["server"] = Idle /\ data["server"].cb \notin Reading \cup Writing
  BY <1>0 DEF IInv, Idle, Reading, Writing
<1>2. CASE Read("client")
  BY <1>2, ClientReads
<1>3. CASE Write("client")
  BY <1>3, ClientWrites
<1>4. CASE Fail("client") \/ Overrun("client")
  <2>1. \E r \in {"io_error", "crashed"} : Completes("client", r)
    BY <1>0, <1>4, Stopped, Effects
  <2>2. Failed("client")' /\ sent' = sent /\ stage' = stage
    BY <1>4, <2>1, Stopped DEF Completes, Failed
  <2> QED BY <2>2 DEF ServerSays, ClientStands
<1>5. CASE ForeignServer
  BY <1>5, ClientHears
<1>6. ASSUME NEW e \in End, Close(e) \/ Leave(e) \/ UNCHANGED vars PROVE ServerSays' /\ ClientStands'
  <2>1. UNCHANGED <<ours, sent, taken, data, result, stage>>
    BY <1>6 DEF Close, Leave, vars
  <2> QED BY <2>1 DEF ServerSays, ClientStands, Offering, HearsMethod, Asking, HearsHead, HearsAddress,
            HearsLength, HearsName, Astray, Granted, Failed, Accepted, Answered, AllSaid, Fresh,
            Begins, Waits
<1>7. ~Read("server") /\ ~Overrun("server") /\ ~Write("server") /\ ~Fail("server") /\ ~ForeignClient
  BY <1>1 DEF Read, Overrun, Write, Fail, ForeignClient, Foreign, Idle
<1> QED BY <1>0, <1>2, <1>3, <1>4, <1>5, <1>6, <1>7 DEF Next, End

-----------------------------------------------------------------------------
(* What fits the buffers *)

\* The lengths of the reads into the small buffers.
Small == LenReads \cup {"connect_reply_addr_read"}
Fits(e) ==
  result[e] = "pending" =>
    /\ data[e].cb = "nego_reply_read" => data[e].length = 2
    /\ data[e].cb \in Small => data[e].length <= 18

BInv == IInv /\ \A e \in ours : Fits(e)

\* A read that begins or goes on, a write and an end.
LEMMA FitsNow ==
  ASSUME IInv, NEW e \in End
  PROVE  /\ \A cb, b, n, o :
              do_read(e, cb, b, n, o) /\ (cb = "nego_reply_read" => n = 2) /\ (cb \in Small => n <= 18)
              => Fits(e)'
         /\ \A cb, m : do_write(e, cb, m) /\ cb \in Writing => Fits(e)'
         /\ \A r : (Complete(e, r) \/ CompleteUninitialised(e, r)) /\ r # "pending" => Fits(e)'
<1>1. ASSUME NEW cb, NEW b, NEW n, NEW o, do_read(e, cb, b, n, o),
             cb = "nego_reply_read" => n = 2, cb \in Small => n <= 18
      PROVE  Fits(e)'
  <2>1. Goes(e, [cb |-> cb, buffer |-> b, length |-> n, offset |-> o])
    BY <1>1, Effects
  <2>2. data'[e].cb = cb /\ data'[e].length = n
    BY <2>1 DEF Goes
  <2> QED BY <1>1, <2>2 DEF Fits
<1>2. ASSUME NEW cb, NEW m, do_write(e, cb, m), cb \in Writing PROVE Fits(e)'
  <2>1. Goes(e, [cb |-> cb, buffer |-> m, length |-> Len(m), offset |-> 0])
    BY <1>2, Effects
  <2>2. data'[e].cb = cb
    BY <2>1 DEF Goes
  <2>3. cb # "nego_reply_read" /\ cb \notin Small
    BY <1>2 DEF Writing, Small, LenReads
  <2> QED BY <2>2, <2>3 DEF Fits
<1>3. ASSUME NEW r, Complete(e, r) \/ CompleteUninitialised(e, r), r # "pending" PROVE Fits(e)'
  <2>1. Completes(e, r) \/ Completes(e, "crashed")
    BY <1>3, Effects
  <2> QED BY <1>3, <2>1 DEF Completes, Fits
<1> QED BY <1>1, <1>2, <1>3, Zenon

\* Whatever a callback does with what was read.
LEMMA FitsRead ==
  ASSUME IInv, NEW e \in End, Fits(e), result[e] = "pending", data[e].cb \in Reading,
         NEW b, NEW n, NEW o, n = data[e].length, ReadCallback(e, b, n, o)
  PROVE  Fits(e)'
<1>1. Again(e, b, n, o) => Fits(e)'
  <2>1. (data[e].cb = "nego_reply_read" => n = 2) /\ (data[e].cb \in Small => n <= 18)
    BY DEF Fits
  <2> QED BY <2>1, FitsNow, Zenon DEF Again
<1>2. ASSUME NEW cb \in {"connect_reply_read", "connect_addr_read"}, NEW m, NEW k, do_read(e, cb, b, m, k)
      PROVE  Fits(e)'
  <2>1. cb # "nego_reply_read" /\ cb \notin Small
    BY DEF Small, LenReads
  <2> QED BY <1>2, <2>1, FitsNow, Zenon
<1>3. ASSUME NEW cb \in Small, NEW m \in {1, 6, 18}, do_read(e, cb, b, m, 0) PROVE Fits(e)'
  <2>1. cb # "nego_reply_read" /\ m <= 18
    BY DEF Small, LenReads
  <2> QED BY <1>3, <2>1, FitsNow, Zenon
<1>4. ASSUME NEW cb \in Writing, NEW m, do_write(e, cb, m) PROVE Fits(e)'
  BY <1>4, FitsNow, Zenon
<1>5. ASSUME NEW r, r # "pending", Complete(e, r) \/ CompleteUninitialised(e, r) PROVE Fits(e)'
  BY <1>5, FitsNow, Zenon
<1>6. CASE data[e].cb = "nego_msg_read"
  <2>1. nego_msg_read_cb(e, b, n, o)
    BY <1>6 DEF ReadCallback
  <2>2. "nego_reply_write" \in Writing /\ "no_supported_method" \in Writing
    BY DEF Writing
  <2>3. \/ Again(e, b, n, o) \/ CompleteUninitialised(e, "failed") \/ Complete(e, "crashed")
        \/ do_write(e, "nego_reply_write", NegoReply(NONE))
        \/ do_write(e, "no_supported_method", NegoReply(NO_ACCEPT))
    BY <2>1, Zenon DEF nego_msg_read_cb, RefuseMethods
  <2> QED BY <1>1, <1>4, <1>5, <2>2, <2>3
<1>7. CASE data[e].cb = "nego_reply_read"
  <2>1. nego_reply_read_cb(e, b, n, o)
    BY <1>7 DEF ReadCallback
  <2>2. "connect_msg_write" \in Writing
    BY DEF Writing
  <2>3. \/ Again(e, b, n, o)
        \/ \E r \in {"failed", "need_auth", "auth_failed"} : CompleteUninitialised(e, r)
        \/ do_write(e, "connect_msg_write", ConnectMsg(Host))
    BY <2>1 DEF nego_reply_read_cb
  <2> QED BY <1>1, <1>4, <1>5, <2>2, <2>3
<1>8. CASE data[e].cb = "connect_msg_read"
  <2>1. connect_msg_read_cb(e, b, n, o)
    BY <1>8 DEF ReadCallback
  <2>2. "connect_addr_len_read" \in Small
    BY DEF Small, LenReads
  <2>3. \/ Again(e, b, n, o) \/ Complete(e, "failed") \/ do_read(e, "connect_addr_len_read", b, 1, 0)
    BY <2>1, Zenon DEF connect_msg_read_cb
  <2> QED BY <1>1, <1>3, <1>5, <2>2, <2>3
<1>9. CASE data[e].cb \in LenReads
  <2>1. addr_len_read_cb(e, b)
    BY <1>9 DEF ReadCallback, LenReads
  <2>2. do_read(e, "connect_addr_read", b, b[1] + 2, 0)
    BY <2>1, Zenon DEF addr_len_read_cb
  <2> DEFINE m == b[1] + 2
  <2>3. do_read(e, "connect_addr_read", b, m, 0)
    BY <2>2
  <2> HIDE DEF m
  <2> QED BY <1>2, <2>3
<1>10. CASE data[e].cb = "connect_addr_read"
  <2>1. connect_addr_read_cb(e, b, n, o)
    BY <1>10 DEF ReadCallback
  <2>2. "connect_reply_write" \in Writing
    BY DEF Writing
  <2>3. \/ do_read(e, "connect_reply_read", b, n, o)
        \/ \E r \in {"not_allowed", "crashed"} : Complete(e, r)
        \/ \E m : do_write(e, "connect_reply_write", m)
    BY <2>1 DEF connect_addr_read_cb
  <2> QED BY <1>2, <1>4, <1>5, <2>2, <2>3
<1>11. CASE data[e].cb = "connect_reply_read"
  <2>1. connect_reply_read_cb(e, b, n, o)
    BY <1>11 DEF ReadCallback
  <2>2. "connect_reply_addr_read" \in Small /\ "connect_reply_addr_len_read" \in Small
    BY DEF Small, LenReads
  <2>3. \/ Again(e, b, n, o)
        \/ \E r : r # "pending" /\ Complete(e, r)
        \/ do_read(e, "connect_reply_addr_read", b, 6, 0)
        \/ do_read(e, "connect_reply_addr_read", b, 18, 0)
        \/ do_read(e, "connect_reply_addr_len_read", b, 1, 0)
    BY <2>1, ReplyErrorType DEF connect_reply_read_cb
  <2> QED BY <1>1, <1>3, <1>5, <2>2, <2>3
<1>12. CASE data[e].cb = "connect_reply_addr_read"
  <2>1. connect_reply_addr_read_cb(e, b, n, o)
    BY <1>12 DEF ReadCallback
  <2>2. Complete(e, "success") \/ do_read(e, "connect_reply_read", b, n, o)
    BY <2>1, Zenon DEF connect_reply_addr_read_cb
  <2> QED BY <1>2, <1>5, <2>2
<1> QED BY <1>6, <1>7, <1>8, <1>9, <1>10, <1>11, <1>12 DEF Reading, LenReads

LEMMA FitsWritten ==
  ASSUME IInv, NEW e \in End, data[e].cb \in Writing, Written(e)
  PROVE  Fits(e)'
<1>1. \/ do_read(e, "nego_reply_read", <<>>, 2, 0)
      \/ do_read(e, "connect_msg_read", <<>>, 4, 0)
      \/ do_read(e, "connect_reply_read", <<>>, 4, 0)
      \/ Complete(e, "auth_failed") \/ Complete(e, "success")
  BY DEF Written, Writing
<1>2. /\ "nego_reply_read" \notin Small /\ "connect_msg_read" \notin Small
      /\ "connect_reply_read" \notin Small
  BY DEF Small, LenReads
<1> QED BY <1>1, <1>2, FitsNow

LEMMA OursStays == [Next]_vars => ours' = ours
<1> SUFFICES ASSUME [Next]_vars PROVE ours' = ours
  OBVIOUS
<1>1. ASSUME NEW e \in End, Read(e) \/ Overrun(e) \/ Write(e) \/ Fail(e) \/ Close(e) \/ Leave(e)
      PROVE  ours' = ours
  BY <1>1 DEF Read, Overrun, Write, Fail, Close, Leave
<1>2. ASSUME ForeignClient \/ ForeignServer PROVE ours' = ours
  BY <1>2 DEF ForeignClient, ForeignServer, Says
<1> QED BY <1>1, <1>2 DEF Next, vars

LEMMA BInvNext == BInv /\ [Next]_vars => BInv'
<1> SUFFICES ASSUME BInv, [Next]_vars PROVE BInv'
  OBVIOUS
<1>1. IInv /\ IInv' /\ ours \subseteq End /\ ours' = ours /\ \A e \in ours : Fits(e)
  BY IInvNext, OursStays, PairsAssumption DEF BInv, IInv, PairsAssumption
<1>2. ASSUME NEW e \in ours, data'[e] = data[e], result'[e] = result[e] PROVE Fits(e)'
  BY <1>1, <1>2 DEF Fits
<1>3. ASSUME NEW e \in End, Read(e) PROVE \A f \in ours : Fits(f)'
  <2>1. /\ e \in ours /\ result[e] = "pending" /\ data[e].cb \in Reading
        /\ \E k \in ReadSizes(e) : Returned(e, k)
    BY <1>1, <1>3, ReadStep
  <2>2. PICK k \in ReadSizes(e) : Returned(e, k)
    BY <2>1
  <2>3. Fits(e)'
    BY <1>1, <2>1, <2>2, FitsRead DEF Returned
  <2>4. \A f \in End : f # e => data'[f] = data[f] /\ result'[f] = result[f]
    BY <1>1, <1>3, ReadMoves DEF Moves
  <2> QED BY <1>1, <1>2, <2>3, <2>4
<1>4. ASSUME NEW e \in End, Write(e) PROVE \A f \in ours : Fits(f)'
  <2>1. /\ e \in ours /\ result[e] = "pending" /\ data[e].cb \in Writing
        /\ \/ Written(e)
           \/ \E o : Goes(e, [cb |-> data[e].cb, buffer |-> data[e].buffer,
                              length |-> data[e].length, offset |-> o])
    BY <1>1, <1>4, WriteStep, Zenon
  <2>2. ASSUME NEW o, Goes(e, [cb |-> data[e].cb, buffer |-> data[e].buffer,
                               length |-> data[e].length, offset |-> o])
        PROVE  Fits(e)'
    <3>1. data'[e].cb = data[e].cb
      BY <2>2 DEF Goes
    <3>2. data'[e].cb # "nego_reply_read" /\ data'[e].cb \notin Small
      BY <2>1, <3>1 DEF Writing, Small, LenReads
    <3> QED BY <3>2 DEF Fits
  <2>3. Fits(e)'
    BY <1>1, <2>1, <2>2, FitsWritten
  <2>4. \A f \in End : f # e => data'[f] = data[f] /\ result'[f] = result[f]
    BY <1>1, <1>4, WriteMoves DEF Moves
  <2> QED BY <1>1, <1>2, <2>3, <2>4
<1>5. ASSUME NEW e \in End, Fail(e) \/ Overrun(e) PROVE \A f \in ours : Fits(f)'
  <2>1. \E r \in {"io_error", "crashed"} : Completes(e, r)
    BY <1>1, <1>5, Stopped, Effects
  <2>2. result'[e] # "pending" /\ \A f \in End : f # e => data'[f] = data[f] /\ result'[f] = result[f]
    BY <2>1 DEF Completes
  <2>3. Fits(e)'
    BY <2>2 DEF Fits
  <2> QED BY <1>1, <1>2, <2>2, <2>3
<1>6. ASSUME UNCHANGED <<data, result>> PROVE \A f \in ours : Fits(f)'
  BY <1>2, <1>6
<1>7. ASSUME NEW e \in End, Close(e) \/ Leave(e) PROVE UNCHANGED <<data, result>>
  BY <1>7 DEF Close, Leave
<1>8. ForeignClient \/ ForeignServer \/ UNCHANGED vars => UNCHANGED <<data, result>>
  BY DEF ForeignClient, ForeignServer, Says, vars
<1>9. \A f \in ours : Fits(f)'
  BY <1>3, <1>4, <1>5, <1>6, <1>7, <1>8 DEF Next
<1> QED BY <1>1, <1>9 DEF BInv

LEMMA BInvInit == Init => BInv
<1> SUFFICES ASSUME Init PROVE BInv
  OBVIOUS
<1>1. IInv
  BY IInvInit
<1>2. ASSUME NEW e \in ours PROVE Fits(e)
  <2>1. e \in End
    BY <1>1, PairsAssumption DEF IInv, PairsAssumption
  <2>2. data[e].cb \in {"nego_msg_write", "nego_msg_read"}
    BY <2>1 DEF Init
  <2> QED BY <2>2 DEF Fits, Small, LenReads
<1> QED BY <1>1, <1>2 DEF BInv

\* What we write is within the buffer that was allocated for it.
LEMMA WrittenFits ==
  ASSUME NEW e, NEW cb \in Writing, NEW m \in Messages(cb)
  PROVE  Len(m) \in Nat /\ Len(m) <= Allocated(e, cb)
<1>1. CASE cb = "nego_msg_write"
  <2>1. Len(m) = 3
    BY <1>1, MessageType DEF Messages
  <2>2. Allocated(e, cb) = 4
    BY <1>1 DEF Allocated
  <2> QED BY SMTT(30), <2>1, <2>2
<1>2. CASE cb \in {"nego_reply_write", "no_supported_method"}
  <2>1. m = NegoReply(NONE) \/ m = NegoReply(NO_ACCEPT)
    BY SMTT(30), <1>2 DEF Messages
  <2>2. Len(m) = 2
    BY SMTT(30), <2>1, MessageType
  <2>3. Allocated(e, cb) = 2
    BY <1>2 DEF Allocated
  <2> QED BY <2>2, <2>3
<1>3. CASE cb = "connect_msg_write"
  <2>1. m = ConnectMsg(Host)
    BY <1>3 DEF Messages
  <2> DEFINE k == Len(m)
  <2>2. k \in 7 .. 262
    BY <2>1, MessageType
  <2>3. Allocated(e, cb) = 262
    BY <1>3 DEF Allocated
  <2> HIDE DEF k
  <2>4. k \in Nat /\ k <= Allocated(e, cb)
    BY <2>2, <2>3
  <2> QED BY <2>4 DEF k
<1>4. CASE cb = "connect_reply_write"
  <2>1. \E a \in Addresses : m = ConnectReply(a)
    BY SMTT(30), <1>4 DEF Messages
  <2> DEFINE k == Len(m)
  <2>2. k \in 11 .. 23
    BY <2>1, MessageType
  <2>3. Allocated(e, cb) = 255
    BY <1>4 DEF Allocated
  <2> HIDE DEF k
  <2>4. k \in Nat /\ k <= Allocated(e, cb)
    BY <2>2, <2>3
  <2> QED BY <2>4 DEF k
<1> QED BY <1>1, <1>2, <1>3, <1>4 DEF Writing

LEMMA BInvOnlyTheseOverrun == BInv => OnlyTheseOverrun
<1> SUFFICES ASSUME BInv, NEW e \in ours, result[e] = "pending",
                    data[e].length > Allocated(e, data[e].cb)
             PROVE  \/ data[e].cb = "nego_msg_read"
                    \/ /\ e = "client" /\ data[e].length \in {256, 257}
                       /\ data[e].cb \in {"connect_addr_read", "connect_reply_read"}
  BY DEF OnlyTheseOverrun
<1> DEFINE cb == data[e].cb
           n == data[e].length
<1>1. IInv /\ Fits(e) /\ e \in End
  BY PairsAssumption DEF BInv, IInv, PairsAssumption
<1>2. Reader(e, data[e], sent[e]) \/ Writer(e, data[e], sent[e])
  BY <1>1 DEF IInv, Stands, Ended
<1>3. CASE Writer(e, data[e], sent[e])
  <2>1. cb \in Writing \cap Own(e) /\ data[e].buffer \in Messages(cb) /\ n = Len(data[e].buffer)
    BY <1>3, Zenon DEF Writer
  <2>2. \A m : m \in Messages(cb) => Len(m) \in Nat /\ Len(m) <= Allocated(e, cb)
    BY <2>1, WrittenFits
  <2>3. Allocated(e, cb) \in Nat
    BY DEF Allocated
  <2> HIDE DEF n, cb
  <2>4. n \in Nat /\ n <= Allocated(e, cb)
    BY <2>1, <2>2
  <2>5. n > Allocated(e, cb)
    BY DEF n, cb
  <2> QED BY <2>3, <2>4, <2>5
<1>4. CASE Reader(e, data[e], sent[e])
  <2>1. cb \in Reading \cap Own(e) /\ n \in 1 .. 257
    BY <1>4, Zenon DEF Reader
  <2>2. CASE cb = "nego_reply_read"
    BY <1>1, <2>2 DEF Fits, Allocated
  <2>3. CASE e = "server" /\ cb \notin {"nego_msg_read", "nego_reply_read"}
    <3>1. Allocated(e, cb) = 262
      BY <2>1, <2>3 DEF Allocated, Reading
    <3> QED BY <2>1, <3>1
  <2>4. CASE e = "client" /\ cb # "nego_reply_read"
    <3>1. cb \in Small \cup {"connect_addr_read", "connect_reply_read"}
      BY <2>1, <2>4 DEF Own, Reading, Small, LenReads
    <3>2. Allocated(e, cb) = 255
      BY <2>4, <3>1 DEF Allocated, Small, LenReads
    <3>3. cb \in Small => n <= 18
      BY <1>1 DEF Fits
    <3>4. n > 255
      BY <3>2
    <3>5. cb \notin Small /\ n \in {256, 257}
      BY <2>1, <3>3, <3>4
    <3> QED BY <2>4, <3>1, <3>5
  <2> QED BY <1>1, <2>2, <2>3, <2>4 DEF End
<1> QED BY <1>2, <1>3, <1>4

LEMMA BufferInvariant == Spec => []BInv
BY BInvInit, BInvNext, PTL DEF Spec

\* Whatever the other end sends and in whatever pieces, a read or a write that does not
\* fit the buffer allocated for it is the server's of the methods, or the client's of a
\* domain name of 254 bytes or more and what follows it (lines 667-668, 980 and 1203).
THEOREM TwoOverruns == Spec => []OnlyTheseOverrun
BY BufferInvariant, BInvOnlyTheseOverrun, PTL

-----------------------------------------------------------------------------
(* Two ends of ours *)

\* A prefix, element by element.
LEMMA PrefixBytes ==
  ASSUME NEW u \in Seq(Byte), NEW w \in Seq(Byte), IsPrefix(u, w)
  PROVE  Len(u) <= Len(w) /\ \A i \in 1 .. Len(u) : u[i] = w[i]
<1> DEFINE p == SubSeq(w, 1, Len(u))
<1>1. Len(u) <= Len(w) /\ SubSeq(u, 1, Len(u)) = p
  BY DEF IsPrefix
<1>2. u = p
  BY <1>1, SubSeqFull
<1>3. Len(u) \in Nat /\ Len(w) \in Nat
  OBVIOUS
<1>4. \A i \in 1 .. Len(u) : w[i] \in Byte
  BY <1>1, <1>3
<1>5. \A i \in 1 .. Len(u) - 1 + 1 : p[i] = w[1 + i - 1]
  BY <1>3, <1>4, SubSeqProperties
<1> HIDE DEF p
<1>6. \A i \in 1 .. Len(u) : i \in 1 .. Len(u) - 1 + 1 /\ 1 + i - 1 = i
  BY <1>3
<1> QED BY <1>1, <1>2, <1>5, <1>6

\* What the client offers: one method.
LEMMA OneMethod ==
  ASSUME IInv, "client" \in ours, Len(sent["client"]) >= 2
  PROVE  sent["client"][2] = 1
<1> DEFINE s == sent["client"]
           first == NegoMsg(<<NONE>>)
           script == first \o ConnectMsg(Host)
<1>1. IsPrefix(s, script)
  BY IInvWrittenWhole DEF WrittenWhole, Scripts
<1>2. s \in Seq(Byte)
  BY DEF IInv, End
<1>3. first \in Seq(Byte) /\ Len(first) = 3 /\ first[2] = 1
  <2> DEFINE o == <<0>>
  <2>1. o \in Seq(Byte) /\ Len(o) = 1 /\ Len(o) \in 1 .. 255
    BY DEF Byte
  <2> HIDE DEF o
  <2>2. NegoMsg(o) \in Seq(Byte) /\ Len(NegoMsg(o)) = Len(o) + 2 /\ NegoMsg(o)[2] = Len(o)
    BY <2>1, NegoMsgBytes, Zenon
  <2> QED BY <2>1, <2>2 DEF o
<1>4. ConnectMsg(Host) \in Seq(Byte)
  BY MessageType
<1>5. first \in Seq(Byte)
  BY <1>3
<1> HIDE DEF first, s
<1>6. script \in Seq(Byte) /\ \A i \in 1 .. Len(first) : script[i] = first[i]
  BY <1>4, <1>5, Joined
<1> HIDE DEF script
<1>7. Len(s) <= Len(script) /\ \A i \in 1 .. Len(s) : s[i] = script[i]
  BY <1>1, <1>2, <1>6, PrefixBytes
<1>8. 2 \in 1 .. Len(first) /\ 2 \in 1 .. Len(s)
  BY <1>2, <1>3 DEF s
<1> QED BY <1>3, <1>6, <1>7, <1>8 DEF s

LEMMA RefusedServerReads ==
  ASSUME IInv, ours = End, Refused, Read("server")
  PROVE  Refused'
<1>0. "client" \in End /\ "server" \in End /\ Peer("server") = "client" /\ "server" # "client"
  BY Peers DEF End
<1>1. /\ "server" \in ours /\ result["server"] = "pending" /\ data["server"].cb \in Reading
      /\ Reader("server", data["server"], sent["server"])
      /\ \E k \in ReadSizes("server") : Returned("server", k)
  BY <1>0, ReadAt
<1>2. PICK k \in ReadSizes("server") : Returned("server", k)
  BY <1>1
<1>3. data["server"].cb = "nego_msg_read" /\ data["server"].length = 257 /\ Fresh("server", 0)
  BY <1>1 DEF Refused, Reading
<1> DEFINE o == data["server"].offset + k
           b == Filled("server", k)
           s == sent["client"]
<1>4. /\ o \in Nat /\ b \in Seq(Byte) /\ o <= Len(b)
      /\ taken'["server"] = o /\ o <= Len(s)
      /\ \A i \in 1 .. o : b[i] = s[i]
  BY <1>0, <1>2, <1>3, FirstRead
<1>5. s \in Seq(Byte)
  BY <1>0 DEF IInv
<1>6. /\ nego_msg_read_cb("server", b, 257, o) /\ sent' = sent
      /\ taken'["client"] = taken["client"]
  BY <1>0, <1>2, <1>3 DEF Returned, ReadCallback
<1> HIDE DEF o, b
<1>7. Len(s) >= 2 => s[2] = 1
  BY <1>0, OneMethod
<1>8. ~AcceptsNone(b, o)
  <2> SUFFICES ASSUME NEW i \in 2 .. o - 1, i < At(b, 2) PROVE FALSE
    BY DEF AcceptsNone
  <2>1. o >= 3 /\ 2 \in 1 .. o
    BY <1>4
  <2>2. Len(s) \in Nat /\ Len(b) \in Nat
    BY <1>4, <1>5
  <2>3. 2 <= Len(b) /\ Len(s) >= 2
    <3> HIDE DEF s
    <3> QED BY <1>4, <2>1, <2>2
  <2>4. At(b, 2) = 1
    BY <1>4, <1>7, <2>1, <2>3 DEF At
  <2> QED BY <2>4
<1>9. \A r : Completes("server", r) /\ r # "success" => Refused'
  BY <1>0, <1>6 DEF Refused, Completes, Idle, Fresh, End
<1>10. CASE Again("server", b, 257, o)
  <2>1. Goes("server", [cb |-> "nego_msg_read", buffer |-> b, length |-> 257, offset |-> o])
    BY <1>0, <1>3, <1>10, Effects DEF Again
  <2>2. /\ result'["server"] = "pending" /\ data'["server"].cb = "nego_msg_read"
        /\ data'["server"].length = 257 /\ data'["server"].offset = o /\ data'["server"].buffer = b
        /\ result'["client"] = result["client"] /\ data'["client"] = data["client"]
    BY <1>0, <1>1, <2>1 DEF Goes
  <2>3. Fresh("server", 0)'
    <3>1. 0 + o = o /\ \A i \in 1 .. o : 0 + i = i
      BY <1>4
    <3> QED BY <1>0, <1>4, <1>6, <2>2, <3>1 DEF Fresh
  <2>4. Fresh("client", 0) => Fresh("client", 0)'
    BY <1>6, <2>2 DEF Fresh
  <2>5. \A e \in End : result'[e] # "success"
    BY <2>2 DEF Refused, End
  <2> QED BY <1>6, <2>2, <2>3, <2>4, <2>5 DEF Refused
<1>11. CASE \E r \in {"crashed", "failed"} :
              Complete("server", r) \/ CompleteUninitialised("server", r)
  BY <1>0, <1>9, <1>11, Effects
<1>12. CASE RefuseMethods("server")
  <2> DEFINE m == NegoReply(NO_ACCEPT)
             d == [cb |-> "no_supported_method", buffer |-> m, length |-> Len(m), offset |-> 0]
  <2>1. Goes("server", d)
    BY <1>0, <1>12, Effects DEF RefuseMethods
  <2>2. /\ result'["server"] = "pending" /\ data'["server"].cb = "no_supported_method"
        /\ result'["client"] = result["client"] /\ data'["client"] = data["client"]
    BY <1>0, <1>1, <2>1 DEF Goes
  <2>3. Fresh("client", 0) => Fresh("client", 0)'
    BY <1>6, <2>2 DEF Fresh
  <2>4. \A e \in End : result'[e] # "success"
    BY <2>2 DEF Refused, End
  <2> QED BY <1>6, <2>2, <2>3, <2>4 DEF Refused
<1> QED BY <1>6, <1>8, <1>10, <1>11, <1>12 DEF nego_msg_read_cb

LEMMA RefusedClientReads ==
  ASSUME IInv, ours = End, Refused, Read("client")
  PROVE  Refused'
<1>0. "client" \in End /\ "server" \in End /\ Peer("client") = "server" /\ "server" # "client"
  BY Peers DEF End
<1>1. /\ "client" \in ours /\ result["client"] = "pending" /\ data["client"].cb \in Reading
      /\ Reader("client", data["client"], sent["client"])
      /\ \E k \in ReadSizes("client") : Returned("client", k)
  BY <1>0, ReadAt
<1>2. PICK k \in ReadSizes("client") : Returned("client", k)
  BY <1>1
<1>3. data["client"].cb = "nego_reply_read" /\ data["client"].length = 2 /\ Fresh("client", 0)
  BY <1>1 DEF Refused, Reading
<1> DEFINE o == data["client"].offset + k
           b == Filled("client", k)
           s == sent["server"]
<1>4. /\ o \in Nat /\ b \in Seq(Byte) /\ o <= Len(b)
      /\ taken'["client"] = o /\ o <= Len(s)
      /\ \A i \in 1 .. o : b[i] = s[i]
  BY <1>0, <1>2, <1>3, FirstRead
<1>5. s \in Seq(Byte)
  BY <1>0 DEF IInv
<1>6. /\ nego_reply_read_cb("client", b, 2, o) /\ sent' = sent
      /\ taken'["server"] = taken["server"]
  BY <1>0, <1>2, <1>3 DEF Returned, ReadCallback
<1> HIDE DEF o, b
<1>9. \A r : Completes("client", r) /\ r # "success" => Refused'
  BY <1>0, <1>6 DEF Refused, Completes, Idle, Fresh, End
<1>10. CASE o # 2
  <2>1. Goes("client", [cb |-> "nego_reply_read", buffer |-> b, length |-> 2, offset |-> o])
    BY <1>0, <1>3, <1>6, <1>10, Effects DEF Again, nego_reply_read_cb
  <2>2. /\ result'["client"] = "pending" /\ data'["client"].cb = "nego_reply_read"
        /\ data'["client"].length = 2 /\ data'["client"].offset = o /\ data'["client"].buffer = b
        /\ result'["server"] = result["server"] /\ data'["server"] = data["server"]
    BY <1>0, <1>1, <2>1 DEF Goes
  <2>3. Fresh("client", 0)'
    <3>1. 0 + o = o /\ \A i \in 1 .. o : 0 + i = i
      BY <1>4
    <3> QED BY <1>0, <1>4, <1>6, <2>2, <3>1 DEF Fresh
  <2>4. Fresh("server", 0) => Fresh("server", 0)'
    BY <1>6, <2>2 DEF Fresh
  <2>5. \A e \in End : result'[e] # "success"
    BY <2>2 DEF Refused, End
  <2> QED BY <1>6, <2>2, <2>3, <2>4, <2>5 DEF Refused
<1>11. CASE o = 2
  <2>1. b[2] # NONE
    <3>1. Len(s) >= 2 /\ 2 \in 1 .. o
      <4>1. Len(s) \in Nat
        BY <1>5
      <4> HIDE DEF s
      <4> QED BY <1>4, <1>11, <4>1
    <3>2. s[2] = 255
      BY <3>1 DEF Refused
    <3> QED BY <1>4, <3>1, <3>2
  <2>2. \E r \in {"failed", "need_auth", "auth_failed"} : CompleteUninitialised("client", r)
    BY <1>6, <1>11, <2>1 DEF nego_reply_read_cb
  <2>3. \E r \in {"failed", "need_auth", "auth_failed", "crashed"} : Completes("client", r)
    BY <1>0, <2>2, Effects
  <2> QED BY <1>9, <2>3
<1> QED BY <1>10, <1>11

LEMMA RefusedServerWrites ==
  ASSUME IInv, ours = End, Refused, Write("server")
  PROVE  Refused'
<1>0. "client" \in End /\ "server" \in End /\ Peer("client") = "server" /\ "server" # "client"
      /\ Peer("server") = "client"
  BY Peers DEF End
<1>1. /\ result["server"] = "pending" /\ data["server"].cb \in Writing
      /\ sent'["client"] = sent["client"] /\ taken' = taken
      /\ \/ Written("server")
         \/ \E o : Goes("server", [cb |-> data["server"].cb, buffer |-> data["server"].buffer,
                                   length |-> data["server"].length, offset |-> o])
  BY <1>0, WriteStep, Zenon
<1>2. data["server"].cb = "no_supported_method"
  BY <1>1 DEF Refused, Writing
<1>3. /\ data["server"].buffer = NegoReply(NO_ACCEPT) /\ Said("server", "no_supported_method") = <<>>
  <2>1. Writer("server", data["server"], sent["server"])
    BY <1>0, <1>2, Pending DEF Reader, Reading
  <2> QED BY <1>2, <2>1 DEF Writer, Messages, Said
<1>4. Len(sent'["server"]) >= 2 => sent'["server"][2] = NO_ACCEPT
  <2> DEFINE m == NegoReply(NO_ACCEPT)
  <2>1. PICK j \in 0 .. Len(m) : sent'["server"] = <<>> \o SubSeq(m, 1, j)
    <3>1. \E j \in 0 .. Len(data["server"].buffer) : sent'["server"] =
            Said("server", data["server"].cb) \o SubSeq(data["server"].buffer, 1, j)
      BY <1>0, WriteMoves, Zenon
    <3> QED BY <1>2, <1>3, <3>1, ZenonT(30)
  <2>2. m \in Seq(Byte) /\ Len(m) = 2 /\ m[2] = 255
    BY MessageType DEF NegoReply
  <2> HIDE DEF m
  <2> DEFINE p == SubSeq(m, 1, j)
  <2>3. \A i \in 1 .. j : m[i] \in Byte
    BY <2>2
  <2>4. /\ p \in Seq(Byte) /\ Len(p) = IF 1 <= j THEN j - 1 + 1 ELSE 0
        /\ \A i \in 1 .. j - 1 + 1 : p[i] = m[1 + i - 1]
    BY <2>2, <2>3, SubSeqProperties
  <2> HIDE DEF p
  <2>5. sent'["server"] = p
    BY <2>1, <2>4, ConcatEmptySeq DEF p
  <2>6. j \in 0 .. 2
    BY <2>2
  <2>7. Len(p) >= 2 => p[2] = m[2]
    <3> SUFFICES ASSUME Len(p) >= 2 PROVE p[2] = m[2]
      OBVIOUS
    <3>1. j = 2
      BY <2>4, <2>6
    <3>2. 2 \in 1 .. j - 1 + 1 /\ 1 + 2 - 1 = 2
      BY <3>1
    <3> QED BY <2>4, <3>2
  <2> QED BY <2>2, <2>5, <2>7
<1>5. CASE \E o : Goes("server", [cb |-> data["server"].cb, buffer |-> data["server"].buffer,
                                  length |-> data["server"].length, offset |-> o])
  <2>1. /\ result'["server"] = "pending" /\ data'["server"].cb = "no_supported_method"
        /\ result'["client"] = result["client"] /\ data'["client"] = data["client"]
    BY <1>0, <1>1, <1>2, <1>5 DEF Goes
  <2>2. \A e \in End : result'[e] # "success"
    BY <2>1 DEF Refused, End
  <2>3. ASSUME data["client"].cb = "nego_reply_read" PROVE Fresh("client", 0)'
    <3>1. Reader("client", data["client"], sent["client"])
      BY <1>0, <2>3, Pending DEF Writer, Writing
    <3>2. \A i \in 1 .. Len(sent["server"]) : sent'["server"][i] = sent["server"][i]
      BY <1>0, WriteMoves
    <3>3. Fresh("client", 0) /\ 0 \in Nat
      BY <2>3 DEF Refused
    <3> QED BY <1>0, <1>1, <2>1, <3>1, <3>2, <3>3, FreshStays
  <2> QED BY <1>1, <1>4, <2>1, <2>2, <2>3 DEF Refused
<1>6. CASE Written("server")
  <2>1. Complete("server", "auth_failed")
    BY <1>2, <1>6 DEF Written
  <2>2. Completes("server", "auth_failed")
    BY <1>0, <2>1, Effects
  <2>3. /\ data'["server"].cb = "none" /\ result'["server"] = "auth_failed"
        /\ result'["client"] = result["client"] /\ data'["client"] = data["client"]
    BY <1>0, <2>2 DEF Completes, Idle
  <2>4. \A e \in End : result'[e] # "success"
    BY <2>3 DEF Refused, End
  <2>5. ASSUME data["client"].cb = "nego_reply_read" PROVE Fresh("client", 0)'
    <3>1. Reader("client", data["client"], sent["client"])
      BY <1>0, <2>5, Pending DEF Writer, Writing
    <3>2. \A i \in 1 .. Len(sent["server"]) : sent'["server"][i] = sent["server"][i]
      BY <1>0, WriteMoves
    <3>3. Fresh("client", 0) /\ 0 \in Nat
      BY <2>5 DEF Refused
    <3> QED BY <1>0, <1>1, <2>3, <3>1, <3>2, <3>3, FreshStays
  <2> QED BY <1>1, <1>4, <2>3, <2>4, <2>5 DEF Refused
<1> QED BY <1>1, <1>5, <1>6

LEMMA RefusedClientWrites ==
  ASSUME IInv, ours = End, Refused, Write("client")
  PROVE  Refused'
<1>0. "client" \in End /\ "server" \in End /\ Peer("client") = "server" /\ "server" # "client"
      /\ Peer("server") = "client"
  BY Peers DEF End
<1>1. /\ result["client"] = "pending" /\ data["client"].cb \in Writing
      /\ sent'["server"] = sent["server"] /\ taken' = taken
      /\ \/ Written("client")
         \/ \E o : Goes("client", [cb |-> data["client"].cb, buffer |-> data["client"].buffer,
                                   length |-> data["client"].length, offset |-> o])
  BY <1>0, WriteStep, Zenon
<1>2. data["client"].cb = "nego_msg_write" /\ taken["client"] = 0
  BY <1>1 DEF Refused, Writing
<1>3. ASSUME data["server"].cb = "nego_msg_read", data'["server"] = data["server"]
      PROVE  Fresh("server", 0)'
  <2>1. Reader("server", data["server"], sent["server"])
    BY <1>0, <1>3, Pending DEF Writer, Writing
  <2>2. \A i \in 1 .. Len(sent["client"]) : sent'["client"][i] = sent["client"][i]
    BY <1>0, WriteMoves
  <2>3. Fresh("server", 0) /\ 0 \in Nat
    BY <1>3 DEF Refused
  <2> QED BY <1>0, <1>1, <1>3, <2>1, <2>2, <2>3, FreshStays
<1>4. CASE \E o : Goes("client", [cb |-> data["client"].cb, buffer |-> data["client"].buffer,
                                  length |-> data["client"].length, offset |-> o])
  <2>1. /\ result'["client"] = "pending" /\ data'["client"].cb = "nego_msg_write"
        /\ result'["server"] = result["server"] /\ data'["server"] = data["server"]
    BY <1>0, <1>1, <1>2, <1>4 DEF Goes
  <2>2. \A e \in End : result'[e] # "success"
    BY <2>1 DEF Refused, End
  <2> QED BY <1>1, <1>2, <1>3, <2>1, <2>2 DEF Refused
<1>5. CASE Written("client")
  <2>1. do_read("client", "nego_reply_read", <<>>, 2, 0)
    BY <1>2, <1>5 DEF Written
  <2>2. Goes("client", [cb |-> "nego_reply_read", buffer |-> <<>>, length |-> 2, offset |-> 0])
    BY <1>0, <2>1, Effects
  <2>3. /\ result'["client"] = "pending" /\ data'["client"].cb = "nego_reply_read"
        /\ data'["client"].length = 2 /\ data'["client"].offset = 0
        /\ result'["server"] = result["server"] /\ data'["server"] = data["server"]
    BY <1>0, <1>1, <2>2 DEF Goes
  <2>4. taken'["client"] = 0 + 0
    BY <1>1, <1>2
  <2>5. Fresh("client", 0)'
    BY <2>3, <2>4 DEF Fresh
  <2>6. \A e \in End : result'[e] # "success"
    BY <2>3 DEF Refused, End
  <2> QED BY <1>1, <1>3, <2>3, <2>5, <2>6 DEF Refused
<1> QED BY <1>1, <1>4, <1>5

\* Every step, for two ends of ours.
LEMMA RefusedKeeps ==
  ASSUME IInv, ours = End, Refused, [Next]_vars
  PROVE  Refused'
<1>1. CASE \E e \in End : Read(e)
  BY <1>1, RefusedServerReads, RefusedClientReads DEF End
<1>2. CASE \E e \in End : Write(e)
  BY <1>2, RefusedServerWrites, RefusedClientWrites DEF End
<1>3. ASSUME NEW e \in End, Fail(e) \/ Overrun(e) PROVE Refused'
  <2>1. (\E r \in {"io_error", "crashed"} : Completes(e, r)) /\ sent' = sent /\ taken' = taken
    BY <1>3, Stopped, Effects
  <2>2. ASSUME NEW f \in End
        PROVE  \/ data'[f] = data[f] /\ result'[f] = result[f]
               \/ data'[f].cb = "none" /\ result'[f] \in {"io_error", "crashed"}
    BY <2>1 DEF Completes, Idle
  <2>3. "client" \in End /\ "server" \in End
    BY DEF End
  <2> QED BY <2>1, <2>2, <2>3 DEF Refused, Fresh
<1>4. ASSUME NEW e \in End, Close(e) \/ Leave(e) \/ UNCHANGED vars PROVE Refused'
  <2>1. UNCHANGED <<ours, sent, taken, data, result, stage>>
    BY <1>4 DEF Close, Leave, vars
  <2> QED BY <2>1 DEF Refused, Fresh
<1>5. ~ForeignClient /\ ~ForeignServer
  BY DEF ForeignClient, ForeignServer, Foreign, End
<1> QED BY <1>1, <1>2, <1>3, <1>4, <1>5 DEF Next, End

LEMMA RefusedInit ==
  ASSUME Init, ours = End
  PROVE  Refused
<1>1. /\ "client" \in End /\ "server" \in End /\ "client" # "server"
      /\ \A e \in End : result[e] = "pending" /\ taken[e] = 0 /\ sent[e] = <<>>
  BY DEF Init, End
<1>2. /\ data["client"].cb = "nego_msg_write" /\ data["server"].cb = "nego_msg_read"
      /\ data["server"].length = 257 /\ data["server"].offset = 0
  <2>1. data["client"] = [cb |-> "nego_msg_write", buffer |-> NegoMsg(<<NONE>>),
                          length |-> 3, offset |-> 0]
    BY <1>1 DEF Init
  <2>2. data["server"] = [cb |-> "nego_msg_read", buffer |-> <<>>, length |-> 257, offset |-> 0]
    BY <1>1 DEF Init
  <2> QED BY <2>1, <2>2
<1>3. Fresh("server", 0)
  BY <1>1, <1>2 DEF Fresh
<1>4. ~(Len(sent["server"]) >= 2)
  BY <1>1
<1> QED BY <1>1, <1>2, <1>3, <1>4 DEF Refused

\* An end of ours has a foreign end or one of ours before it.
LEMMA OneOrTwo ==
  ASSUME IInv, NEW e \in ours
  PROVE  ours = {e} \/ ours = End
<1>1. ours \subseteq End /\ e \in End
  BY PairsAssumption DEF IInv, PairsAssumption
<1>2. CASE Peer(e) \in ours
  <2>1. \A f \in End : f \in ours
    BY <1>1, <1>2 DEF Peer, End
  <2> QED BY <1>1, <2>1
<1>3. CASE Peer(e) \notin ours
  <2>1. \A f \in ours : f = e
    BY <1>1, <1>3 DEF Peer, End
  <2> QED BY <2>1
<1> QED BY <1>2, <1>3

LEMMA CInvInit == Init => CInv
<1> SUFFICES ASSUME Init PROVE CInv
  OBVIOUS
<1>1. ASSUME ours = {"client"} PROVE ServerSays /\ ClientStands
  <2>1. data["client"] = [cb |-> "nego_msg_write", buffer |-> NegoMsg(<<NONE>>),
                          length |-> 3, offset |-> 0]
    BY <1>1 DEF Init, End
  <2>2. /\ stage = "start" /\ sent["server"] = <<>> /\ taken["client"] = 0
        /\ result["client"] = "pending" /\ data["client"].cb = "nego_msg_write"
    BY <2>1 DEF Init, End
  <2> QED BY <2>2 DEF ServerSays, ClientStands, Offering
<1> QED BY <1>1, IInvInit, RefusedInit DEF CInv

LEMMA CInvNext == CInv /\ [Next]_vars => CInv'
<1> SUFFICES ASSUME CInv, [Next]_vars PROVE CInv'
  OBVIOUS
<1>1. IInv /\ IInv' /\ ours' = ours
  BY IInvNext, OursStays DEF CInv
<1>2. ours = {"client"} => ServerSays' /\ ClientStands'
  BY <1>1, ClientKeeps DEF CInv
<1>3. ours = End => Refused'
  BY <1>1, RefusedKeeps DEF CInv
<1> QED BY <1>1, <1>2, <1>3 DEF CInv

LEMMA CInvBelievesGrant == CInv => BelievesGrant
<1> SUFFICES ASSUME CInv, "client" \in ours, result["client"] = "success" PROVE BelievesGrant
  BY DEF BelievesGrant
<1>1. ours = {"client"} \/ ours = End
  BY OneOrTwo DEF CInv
<1>2. ours = {"client"}
  BY <1>1 DEF CInv, Refused, End
<1>3. Granted
  BY <1>2 DEF CInv, ClientStands, Offering, HearsMethod, Asking, HearsHead, HearsAddress,
              HearsLength, HearsName, Astray, Failed, Begins, Waits
<1>4. PICK a \in Addresses : /\ sent["server"] = NegoReply(NONE) \o Grant(a)
                             /\ taken["client"] = Len(sent["server"])
  BY <1>3 DEF Granted, Answered
<1>5. IsPrefix(NegoReply(NONE) \o Grant(a), sent["server"])
  <2>1. sent["server"] \in Seq(Byte)
    BY DEF CInv, IInv, End
  <2>2. Len(sent["server"]) <= Len(sent["server"])
    BY SMTT(30), <2>1
  <2> QED BY <1>4, <2>2 DEF IsPrefix
<1> QED BY <1>4, <1>5 DEF BelievesGrant

LEMMA ClientInvariant == Spec => []CInv
BY CInvInit, CInvNext, PTL DEF Spec

\* However the server's bytes are cut, and whatever a part of an address is read as,
\* the client succeeds only when it was granted the connection, having read the whole
\* answer and nothing after it.
THEOREM SuccessIsGranted == Spec => []BelievesGrant
BY ClientInvariant, CInvBelievesGrant, PTL

-----------------------------------------------------------------------------
(* The server and a foreign client *)

LEMMA OfferBytes ==
  ASSUME NEW o \in Offers
  PROVE  /\ o \in Seq(Byte) /\ Len(o) \in Nat /\ Len(o) >= 1
         /\ NegoMsg(o) \in Seq(Byte) /\ Len(NegoMsg(o)) = Len(o) + 2
         /\ \A i \in 1 .. Len(o) : NegoMsg(o)[2 + i] = o[i]
<1>1. o \in Seq(Byte) /\ Len(o) \in 1 .. 255
  BY OffersAssumption DEF OffersAssumption
<1>2. \A n \in 1 .. 255 : n \in Nat /\ n >= 1
  OBVIOUS
<1>3. Len(o) \in Nat /\ Len(o) >= 1
  BY <1>1, <1>2, Zenon
<1> QED BY <1>1, <1>3, NegoMsgBytes

\* All a foreign client says, byte by byte.
LEMMA AskedBytes ==
  ASSUME NEW o \in Offers, NEW h \in Hosts
  PROVE  LET m == NegoMsg(o) \o ConnectMsg(h)
             l == Len(o) + 2 IN
         /\ m \in Seq(Byte) /\ Len(m) = l + Len(h) + 7 /\ Len(h) \in Nat
         /\ \A i \in 1 .. Len(o) : m[2 + i] = o[i]
         /\ m[l + 1] = 5 /\ m[l + 2] = 1 /\ m[l + 3] = 0 /\ m[l + 4] = 3 /\ m[l + 5] = Len(h)
         /\ \A i \in 1 .. Len(h) : m[l + 5 + i] = h[i]
         /\ m[l + 5 + Len(h) + 1] = 0
<1> DEFINE u == NegoMsg(o)
           v == ConnectMsg(h)
           m == u \o v
           l == Len(o) + 2
<1>1. o \in Seq(Byte) /\ Len(o) \in Nat /\ u \in Seq(Byte) /\ Len(u) = l
      /\ \A i \in 1 .. Len(o) : u[2 + i] = o[i]
  BY OfferBytes
<1>2. h \in Seq(Byte) /\ Len(h) <= 255 /\ Len(h) \in Nat
  BY GrantToBytes
<1>3. /\ v \in Seq(Byte) /\ Len(v) = Len(h) + 7
      /\ v[1] = 5 /\ v[2] = 1 /\ v[3] = 0 /\ v[4] = 3 /\ v[5] = Len(h)
      /\ \A i \in 1 .. Len(h) : v[5 + i] = h[i]
      /\ v[Len(h) + 6] = 0
  <2>1. 1 \in Byte
    BY DEF Byte
  <2> QED BY <1>2, <2>1, NamingBytes DEF ConnectMsg
<1>4. u \in Seq(Byte) /\ v \in Seq(Byte)
  BY <1>1, <1>3
<1> HIDE DEF u, v
<1>5. /\ m \in Seq(Byte) /\ Len(m) = Len(u) + Len(v)
      /\ \A i \in 1 .. Len(u) : m[i] = u[i]
      /\ \A i \in 1 .. Len(v) : m[Len(u) + i] = v[i]
  BY <1>4, Joined
<1> HIDE DEF m
<1>6. l \in Nat /\ \A i \in 1 .. Len(o) : 2 + i \in 1 .. l
  BY <1>1
<1>7. \A i \in 1 .. Len(o) : m[2 + i] = o[i]
  BY <1>1, <1>5, <1>6
<1> HIDE DEF l
<1>8. \A i \in 1 .. Len(h) + 7 : m[l + i] = v[i]
  BY <1>1, <1>3, <1>5
<1>9. /\ 1 \in 1 .. Len(h) + 7 /\ 2 \in 1 .. Len(h) + 7 /\ 3 \in 1 .. Len(h) + 7
      /\ 4 \in 1 .. Len(h) + 7 /\ 5 \in 1 .. Len(h) + 7 /\ Len(h) + 6 \in 1 .. Len(h) + 7
      /\ \A i \in 1 .. Len(h) : 5 + i \in 1 .. Len(h) + 7
  BY <1>2
<1>10. m[l + 1] = 5 /\ m[l + 2] = 1 /\ m[l + 3] = 0 /\ m[l + 4] = 3 /\ m[l + 5] = Len(h)
  BY <1>3, <1>8, <1>9
<1>11. \A i \in 1 .. Len(h) : m[l + 5 + i] = h[i]
  <2>1. \A i \in 1 .. Len(h) : l + (5 + i) = l + 5 + i
    BY <1>6
  <2>2. \A i \in 1 .. Len(h) : m[l + (5 + i)] = h[i]
    BY <1>3, <1>8, <1>9
  <2> QED BY <2>1, <2>2
<1>12. m[l + 5 + Len(h) + 1] = 0
  <2>1. l + (Len(h) + 6) = l + 5 + Len(h) + 1
    BY <1>2, <1>6
  <2>2. m[l + (Len(h) + 6)] = 0
    BY <1>3, <1>8, <1>9
  <2> QED BY <2>1, <2>2
<1>13. Len(m) = l + Len(h) + 7
  BY <1>1, <1>2, <1>3, <1>5, <1>6
<1> QED BY <1>2, <1>5, <1>7, <1>10, <1>11, <1>12, <1>13 DEF m, l, u, v

\* No part of an offer reads as the head of a request.
OffersNoRequest ==
  \A o \in Offers : \A i \in 1 .. Len(o) - 3 : ~(o[i] = VERSION /\ o[i + 3] = DOMAINNAME)

\* What reads as the head of a request, after an offer or a part of it, is one.
LEMMA RequestFound ==
  ASSUME OffersNoRequest, NEW o, NEW t0, Offered(o, t0),
         t0 + 4 <= Len(sent["client"]),
         sent["client"][t0 + 1] = VERSION, sent["client"][t0 + 4] = DOMAINNAME
  PROVE  t0 = Len(o) + 2 /\ \E h \in Hosts : Asked(o, h)
<1> DEFINE s == sent["client"]
<1>1. o \in Offers /\ NONE \in ToSet(o) /\ t0 \in 2 .. Len(NegoMsg(o))
  BY DEF Offered
<1>2. /\ o \in Seq(Byte) /\ Len(o) \in Nat /\ Len(o) >= 1 /\ Len(NegoMsg(o)) = Len(o) + 2
      /\ \A i \in 1 .. Len(o) : NegoMsg(o)[2 + i] = o[i]
  BY <1>1, OfferBytes
<1>3. t0 \in Nat /\ t0 >= 2 /\ t0 <= Len(o) + 2
  BY <1>1, <1>2
<1>4. \A i \in 1 .. Len(o) - 3 : ~(o[i] = 5 /\ o[i + 3] = 3)
  BY <1>1, Zenon DEF OffersNoRequest
<1>5. ASSUME t0 + 4 <= Len(o) + 2, \A i \in 1 .. Len(o) : s[2 + i] = o[i]
      PROVE  FALSE
  <2> DEFINE i == t0 - 1
  <2>1. i \in 1 .. Len(o) - 3 /\ i \in 1 .. Len(o) /\ i + 3 \in 1 .. Len(o)
        /\ 2 + i = t0 + 1 /\ 2 + (i + 3) = t0 + 4
    BY <1>2, <1>3, <1>5
  <2> HIDE DEF i
  <2>2. s[2 + i] = o[i] /\ s[2 + (i + 3)] = o[i + 3]
    BY <1>5, <2>1
  <2>3. o[i] = 5 /\ o[i + 3] = 3
    BY <2>1, <2>2
  <2> QED BY <1>4, <2>1, <2>3
<1>6. CASE stage = "offered" /\ s = NegoMsg(o)
  BY <1>2, <1>5, <1>6
<1>7. ASSUME AllSaid, NEW h \in Hosts, s = NegoMsg(o) \o ConnectMsg(h)
      PROVE  t0 = Len(o) + 2
  <2> DEFINE l == Len(o) + 2
             m == NegoMsg(o) \o ConnectMsg(h)
  <2>0. /\ m[l + 1] = 5 /\ m[l + 2] = 1 /\ m[l + 3] = 0
        /\ \A i \in 1 .. Len(o) : m[2 + i] = o[i]
    BY <1>1, AskedBytes
  <2>1. /\ s[l + 1] = 5 /\ s[l + 2] = 1 /\ s[l + 3] = 0
        /\ \A i \in 1 .. Len(o) : s[2 + i] = o[i]
    <3> HIDE DEF m, l, s
    <3>1. s = m
      BY <1>7 DEF m
    <3> QED BY <2>0, <3>1
  <2>2. s[t0 + 4] = 3
    OBVIOUS
  <2> HIDE DEF s
  <2>3. ~(t0 + 4 <= l)
    BY <1>5, <2>1
  <2>4. t0 + 4 # l + 1 /\ t0 + 4 # l + 2 /\ t0 + 4 # l + 3
    BY <2>1, <2>2
  <2> QED BY SMTT(30), <1>2, <1>3, <2>3, <2>4
<1>8. CASE AllSaid /\ \E h \in Hosts : s = NegoMsg(o) \o ConnectMsg(h)
  BY <1>1, <1>7, <1>8 DEF Asked
<1> QED BY <1>6, <1>8 DEF Offered

\* A step of the client's: it offers, asks when it was accepted, and has the reply.
LEMMA ClientSpeaks ==
  ASSUME IInv, ClientSays, ForeignClient
  PROVE  /\ ClientSays' /\ data' = data /\ result' = result /\ sent'["server"] = sent["server"]
         /\ taken'["server"] = taken["server"]
         /\ \/ /\ stage = "start" /\ sent["client"] = <<>>
            \/ /\ stage = "offered" /\ stage' = "asked"
               /\ \E h \in Hosts : sent'["client"] = sent["client"] \o ConnectMsg(h)
            \/ /\ AllSaid /\ AllSaid' /\ sent'["client"] = sent["client"]
<1> DEFINE s == sent["client"]
           in == Arriving("client")
<1>0. /\ "server" \in End /\ "client" \in End /\ sent \in [End -> Seq(Byte)]
      /\ taken \in [End -> Nat] /\ s \in Seq(Byte) /\ sent["server"] \in Seq(Byte)
      /\ Peer("client") = "server"
  BY Peers DEF End, IInv
<1>1. ASSUME NEW msg, NEW next, Says("client", msg, next)
      PROVE  /\ sent'["client"] = s \o msg /\ stage' = next /\ data' = data /\ result' = result
             /\ sent'["server"] = sent["server"]
  BY <1>0, <1>1 DEF Says
<1>2. CASE /\ stage = "start" /\ UNCHANGED taken
           /\ \E o \in Offers : Says("client", NegoMsg(o), "offered")
  <2>1. PICK o \in Offers : Says("client", NegoMsg(o), "offered")
    BY <1>2
  <2>2. s = <<>> /\ taken["client"] = 0
    BY <1>2 DEF ClientSays, AllSaid
  <2>3. s \o NegoMsg(o) = NegoMsg(o)
    BY <2>2, OfferBytes, ConcatEmptySeq
  <2>4. ClientSays'
    BY <1>1, <1>2, <2>1, <2>2, <2>3 DEF ClientSays
  <2> QED BY <1>1, <1>2, <2>1, <2>2, <2>4
<1>3. CASE /\ stage = "offered" /\ Len(in) >= 2 /\ Takes("client", 2)
           /\ \E h \in Hosts : Says("client", ConnectMsg(h), "asked")
  <2>1. PICK h \in Hosts : Says("client", ConnectMsg(h), "asked")
    BY <1>3
  <2>2. taken["client"] = 0 /\ \E o \in Offers : s = NegoMsg(o)
    BY <1>3 DEF ClientSays, AllSaid
  <2>3. Len(sent["server"]) >= 2
    <3>1. Len(in) = Len(sent["server"]) - 0
      BY <1>0, <2>2, ArrivingBytes
    <3>2. Len(sent["server"]) \in Nat /\ Len(in) >= 2
      BY <1>0, <1>3
    <3> QED BY <3>1, <3>2
  <2>4. taken'["server"] = taken["server"]
    BY <1>0, <1>3 DEF Takes
  <2>5. ClientSays'
    BY <1>1, <2>1, <2>2, <2>3 DEF ClientSays, AllSaid
  <2> QED BY <1>1, <1>3, <2>1, <2>4, <2>5
<1>4. ASSUME NEW k, stage = "asked", Takes("client", k), Says("client", <<>>, "done")
      PROVE  /\ ClientSays' /\ taken'["server"] = taken["server"]
             /\ AllSaid /\ AllSaid' /\ sent'["client"] = s
             /\ data' = data /\ result' = result /\ sent'["server"] = sent["server"]
  <2>1. s \o <<>> = s
    BY <1>0, ConcatEmptySeq
  <2>2. AllSaid /\ AllSaid' /\ sent'["client"] = s /\ taken'["server"] = taken["server"]
    BY <1>0, <1>1, <1>4, <2>1 DEF AllSaid, Takes
  <2>3. ClientSays'
    BY <1>1, <1>4, <2>2 DEF ClientSays, AllSaid
  <2> QED BY <1>1, <1>4, <2>2, <2>3
<1> QED BY <1>2, <1>3, <1>4 DEF ForeignClient

\* What is said after an offer leaves it the beginning of all that is said.
LEMMA OfferedStays ==
  ASSUME NEW o, NEW t0, Offered(o, t0), IInv, ClientSays, ForeignClient
  PROVE  Offered(o, t0)'
<1>1. o \in Offers /\ sent["client"] # <<>>
  <2>1. o \in Offers
    BY DEF Offered
  <2>2. ASSUME NEW h \in Hosts PROVE NegoMsg(o) # <<>> /\ NegoMsg(o) \o ConnectMsg(h) # <<>>
    <3>1. Len(NegoMsg(o)) = Len(o) + 2 /\ Len(o) \in Nat
      BY <2>1, OfferBytes
    <3>2. Len(NegoMsg(o) \o ConnectMsg(h)) = Len(o) + 2 + Len(h) + 7 /\ Len(h) \in Nat
      BY <2>1, AskedBytes
    <3>3. Len(NegoMsg(o)) # 0 /\ Len(NegoMsg(o) \o ConnectMsg(h)) # 0
      BY <3>1, <3>2
    <3>4. Len(<<>>) = 0
      OBVIOUS
    <3> QED BY <3>3, <3>4, Zenon
  <2>3. Host \in Hosts
    BY HostAssumption DEF HostAssumption
  <2> QED BY <2>1, <2>2, <2>3 DEF Offered
<1>2. CASE /\ stage = "offered" /\ stage' = "asked"
           /\ \E h \in Hosts : sent'["client"] = sent["client"] \o ConnectMsg(h)
  <2>1. sent["client"] = NegoMsg(o)
    BY <1>2 DEF Offered, AllSaid
  <2> QED BY <1>2, <2>1 DEF Offered, AllSaid
<1>3. CASE AllSaid /\ AllSaid' /\ sent'["client"] = sent["client"]
  BY <1>3 DEF Offered, AllSaid
<1> QED BY <1>1, <1>2, <1>3, ClientSpeaks

LEMMA AskedStays ==
  ASSUME NEW o, NEW h, Asked(o, h), IInv, ClientSays, ForeignClient
  PROVE  Asked(o, h)' /\ sent'["client"] = sent["client"]
<1>1. AllSaid
  BY DEF Asked
<1>2. AllSaid' /\ sent'["client"] = sent["client"]
  BY <1>1, ClientSpeaks DEF AllSaid, ClientSays
<1> QED BY <1>2 DEF Asked

LEMMA ServerHears ==
  ASSUME IInv, ours = {"server"}, ClientSays, ServerStands, ForeignClient
  PROVE  ClientSays' /\ ServerStands'
<1>0. "server" \in End /\ Peer("server") = "client" /\ "server" \in ours
  BY Peers DEF End
<1>1. /\ ClientSays' /\ data' = data /\ result' = result /\ sent'["server"] = sent["server"]
      /\ taken'["server"] = taken["server"]
  BY ClientSpeaks
<1> SUFFICES ServerStands'
  BY <1>1
<1>2. \A i \in 1 .. Len(sent["client"]) : sent'["client"][i] = sent["client"][i]
  <2> DEFINE s == sent["client"]
  <2>1. s \in Seq(Byte)
    BY DEF IInv, End
  <2>2. CASE s = <<>>
    BY <2>2
  <2>3. ASSUME NEW h \in Hosts, sent'["client"] = s \o ConnectMsg(h)
        PROVE  \A i \in 1 .. Len(s) : sent'["client"][i] = s[i]
    <3> HIDE DEF s
    <3>1. ConnectMsg(h) \in Seq(Byte)
      BY ForeignMessages
    <3>2. \A i \in 1 .. Len(s) : (s \o ConnectMsg(h))[i] = s[i]
      BY <2>1, <3>1, Joined
    <3> QED BY <2>3, <3>2
  <2>4. \/ s = <<>> \/ sent'["client"] = s
        \/ \E h \in Hosts : sent'["client"] = s \o ConnectMsg(h)
    BY ClientSpeaks
  <2> QED BY <2>2, <2>3, <2>4
<1>3. ASSUME NEW base \in Nat, Fresh("server", base), data["server"].cb \in Reading
      PROVE  Fresh("server", base)'
  <2>1. Reader("server", data["server"], sent["server"])
    <3>1. data["server"].cb # "none" /\ data["server"].cb \notin Writing
      BY <1>3 DEF Reading, Writing
    <3> QED BY <1>0, <3>1, Pending DEF Writer
  <2>2. data'["server"] = data["server"]
    BY <1>1
  <2>3. \A i \in 1 .. Len(sent[Peer("server")]) :
          sent'[Peer("server")][i] = sent[Peer("server")][i]
    BY <1>0, <1>2
  <2> QED BY <1>0, <1>1, <1>3, <2>1, <2>2, <2>3, FreshStays
<1>4. CASE HearsOffer
  <2>1. Fresh("server", 0)'
    BY <1>3, <1>4 DEF HearsOffer, Waits, Reading
  <2> QED BY <1>1, <1>4, <2>1 DEF HearsOffer, Waits, ServerStands
<1>5. CASE Accepting
  <2>1. PICK o \in Offers : Offered(o, taken["server"])
    BY <1>5 DEF Accepting
  <2>2. PICK t \in 2 .. Len(NegoMsg(o)) : t = taken["server"] /\ Offered(o, t)
    BY <2>1 DEF Offered
  <2>3. Offered(o, t)'
    BY <2>2, OfferedStays
  <2>4. Offered(o, taken["server"])'
    BY <1>1, <2>2, <2>3 DEF Offered
  <2> QED BY <1>1, <1>5, <2>4 DEF Accepting, ServerStands
<1>6. CASE HearsRequest
  <2>0. PICK o \in Offers :
          \E t0 \in 2 .. Len(NegoMsg(o)) : Offered(o, t0) /\ Fresh("server", t0)
    BY <1>6 DEF HearsRequest
  <2>1. PICK t0 \in 2 .. Len(NegoMsg(o)) : Offered(o, t0) /\ Fresh("server", t0)
    BY <2>0
  <2>2. Offered(o, t0)'
    BY <2>1, OfferedStays
  <2>3. t0 \in Nat
    BY <2>1
  <2>4. Fresh("server", t0)'
    BY <1>3, <1>6, <2>1, <2>3 DEF HearsRequest, Waits, Reading
  <2>5. HearsRequest'
    BY <1>1, <1>6, <2>1, <2>2, <2>4 DEF HearsRequest, Waits
  <2> QED BY <2>5 DEF ServerStands
<1>7. CASE HearsHostLength
  <2>1. PICK o \in Offers, h \in Hosts : Asked(o, h) /\ taken["server"] = Len(o) + 6
    BY <1>7 DEF HearsHostLength
  <2>2. Asked(o, h)'
    BY <2>1, AskedStays
  <2>3. HearsHostLength'
    BY <1>1, <1>7, <2>1, <2>2 DEF HearsHostLength, Begins, Waits
  <2> QED BY <2>3 DEF ServerStands
<1>8. CASE HearsHost
  <2>1. PICK o \in Offers, h \in Hosts :
          /\ Asked(o, h) /\ taken["server"] = Len(o) + 7
          /\ Begins("server", "connect_addr_read", Len(h) + 2)
    BY <1>8 DEF HearsHost
  <2>2. Asked(o, h)'
    BY <2>1, AskedStays
  <2>3. HearsHost'
    BY <1>1, <2>1, <2>2 DEF HearsHost, Begins, Waits
  <2> QED BY <2>3 DEF ServerStands
<1>9. CASE Granting
  <2>1. PICK o \in Offers : Asked(o, Host) /\ taken["server"] = Len(sent["client"])
    BY <1>9 DEF Granting
  <2>2. Asked(o, Host)' /\ sent'["client"] = sent["client"]
    BY <2>1, AskedStays
  <2>3. Granting'
    BY <1>1, <1>9, <2>1, <2>2 DEF Granting
  <2> QED BY <2>3 DEF ServerStands
<1>10. CASE Refusing \/ Failed("server")
  BY <1>1, <1>10 DEF Refusing, Failed, ServerStands
<1>11. CASE Astray("server")
  <2>1. AllSaid' /\ sent'["client"] = sent["client"]
    BY <1>11, ClientSpeaks DEF Astray, AllSaid, ClientSays
  <2> QED BY <1>0, <1>1, <1>11, <2>1 DEF Astray, ServerStands
<1> QED BY <1>4, <1>5, <1>6, <1>7, <1>8, <1>9, <1>10, <1>11 DEF ServerStands

\* What the server makes of an offer.
LEMMA HearsOfferReads ==
  ASSUME IInv, ClientSays, HearsOffer, Read("server")
  PROVE  ServerStands'
<1>0. "client" \in End /\ "server" \in End /\ Peer("server") = "client"
  BY Peers DEF End
<1>1. /\ result["server"] = "pending" /\ Reader("server", data["server"], sent["server"])
      /\ \E k \in ReadSizes("server") : Returned("server", k)
  BY <1>0, ReadAt
<1>2. PICK k \in ReadSizes("server") : Returned("server", k)
  BY <1>1
<1>3. data["server"].cb = "nego_msg_read" /\ data["server"].length = 257 /\ Fresh("server", 0)
  BY DEF HearsOffer, Waits
<1> DEFINE o == data["server"].offset + k
           b == Filled("server", k)
           s == sent["client"]
<1>4. /\ o \in Nat /\ b \in Seq(Byte) /\ o <= Len(b)
      /\ taken'["server"] = o /\ o <= Len(s)
      /\ \A i \in 1 .. o : b[i] = s[i]
  BY <1>0, <1>2, <1>3, FirstRead
<1>5. s \in Seq(Byte)
  BY <1>0 DEF IInv
<1>6. nego_msg_read_cb("server", b, 257, o) /\ sent' = sent /\ stage' = stage
  BY <1>0, <1>2, <1>3 DEF Returned, ReadCallback
<1> HIDE DEF o, b
<1>7. \A r : Completes("server", r) /\ r # "success" /\ r # "pending" => Failed("server")'
  BY DEF Completes, Failed
<1>8. CASE Again("server", b, 257, o)
  <2>1. Goes("server", [cb |-> "nego_msg_read", buffer |-> b, length |-> 257, offset |-> o])
    BY <1>0, <1>3, <1>8, Effects DEF Again
  <2>2. /\ result'["server"] = "pending" /\ data'["server"].cb = "nego_msg_read"
        /\ data'["server"].length = 257 /\ data'["server"].offset = o /\ data'["server"].buffer = b
    BY <1>1, <2>1 DEF Goes
  <2>3. 0 + o = o /\ \A i \in 1 .. o : 0 + i = i
    BY <1>4
  <2>4. HearsOffer'
    BY <1>0, <1>4, <1>6, <2>2, <2>3 DEF HearsOffer, Waits, Fresh
  <2> QED BY <2>4 DEF ServerStands
<1>9. CASE \E r \in {"crashed", "failed"} :
             Complete("server", r) \/ CompleteUninitialised("server", r)
  <2>1. \E r \in {"crashed", "failed"} : Completes("server", r)
    BY <1>0, <1>9, Effects
  <2> QED BY <1>7, <2>1 DEF ServerStands
<1>10. CASE RefuseMethods("server")
  <2> DEFINE m == NegoReply(NO_ACCEPT)
  <2>1. Goes("server", [cb |-> "no_supported_method", buffer |-> m, length |-> Len(m), offset |-> 0])
    BY <1>0, <1>10, Effects DEF RefuseMethods
  <2>2. result'["server"] = "pending" /\ data'["server"].cb = "no_supported_method"
    BY <1>1, <2>1 DEF Goes
  <2> QED BY <2>2 DEF Refusing, ServerStands
<1>11. CASE NegoRead(b, 257, o) /\ AcceptsNone(b, o)
            /\ do_write("server", "nego_reply_write", NegoReply(NONE))
  <2>1. PICK i \in 2 .. o - 1 : At(b, i + 1) = NONE
    BY <1>11 DEF AcceptsNone
  <2>2. o >= 3 /\ i \in Nat /\ i >= 2 /\ i + 1 <= o /\ i + 1 \in 1 .. o
    BY <1>4
  <2>3. s[i + 1] = NONE
    <3>1. i + 1 <= Len(b)
      <4>1. Len(b) \in Nat
        BY <1>4
      <4> QED BY <1>4, <2>2, <4>1
    <3> QED BY <1>4, <2>1, <2>2, <3>1 DEF At
  <2>4. Len(s) \in Nat /\ Len(s) >= 3
    <3>1. Len(s) \in Nat
      BY <1>5
    <3> HIDE DEF s
    <3> QED BY <1>4, <2>2, <3>1
  <2>5. ~AllSaid
    <3>1. sent["server"] = <<>>
      BY <1>1, <1>3 DEF Reader, Said
    <3>2. ~(Len(sent["server"]) >= 2)
      BY <3>1
    <3> QED BY <3>2 DEF ClientSays, AllSaid
  <2>6. PICK offer \in Offers : s = NegoMsg(offer) /\ stage = "offered"
    <3>1. s # <<>>
      <4>1. Len(<<>>) = 0
        OBVIOUS
      <4>2. Len(s) # 0
        <5> HIDE DEF s
        <5> QED BY <2>4
      <4> QED BY <4>1, <4>2, Zenon
    <3> QED BY <2>5, <3>1 DEF ClientSays
  <2>7. /\ offer \in Seq(Byte) /\ Len(offer) \in Nat /\ Len(s) = Len(offer) + 2
        /\ \A j \in 1 .. Len(offer) : s[2 + j] = offer[j]
    BY <2>6, OfferBytes
  <2>8. NONE \in ToSet(offer)
    <3> DEFINE j == i - 1
    <3>1. j \in 1 .. Len(offer) /\ 2 + j = i + 1
      <4> HIDE DEF s
      <4> QED BY <1>4, <2>2, <2>7
    <3> HIDE DEF j
    <3>2. offer[j] = NONE
      BY <2>3, <2>7, <3>1
    <3>3. DOMAIN offer = 1 .. Len(offer)
      BY <2>7
    <3> QED BY <3>1, <3>2, <3>3, Zenon DEF ToSet
  <2>9. o \in 2 .. Len(NegoMsg(offer))
    <3>1. Len(NegoMsg(offer)) = Len(s)
      BY <2>6
    <3> HIDE DEF s
    <3> QED BY <1>4, <2>2, <2>4, <3>1
  <2> DEFINE m == NegoReply(NONE)
  <2>10. Goes("server", [cb |-> "nego_reply_write", buffer |-> m, length |-> Len(m), offset |-> 0])
    BY <1>0, <1>11, Effects
  <2>11. result'["server"] = "pending" /\ data'["server"].cb = "nego_reply_write"
    BY <1>1, <2>10 DEF Goes
  <2>12. Offered(offer, taken["server"])'
    BY <1>4, <1>6, <2>6, <2>8, <2>9 DEF Offered
  <2> QED BY <2>11, <2>12 DEF Accepting, ServerStands
<1> QED BY <1>6, <1>8, <1>9, <1>10, <1>11 DEF nego_msg_read_cb

\* A step of ours changes nothing of what the client says.
LEMMA OfferedSame ==
  ASSUME NEW o, NEW t0, sent' = sent, stage' = stage
  PROVE  Offered(o, t0)' <=> Offered(o, t0)
BY DEF Offered, AllSaid

LEMMA AskedSame ==
  ASSUME NEW o, NEW h, sent' = sent, stage' = stage
  PROVE  Asked(o, h)' <=> Asked(o, h)
BY DEF Asked, AllSaid

\* What the server makes of the head of a request, or of what it takes for one.
LEMMA HearsRequestReads ==
  ASSUME IInv, OffersNoRequest, HearsRequest, Read("server")
  PROVE  ServerStands'
<1>0. "client" \in End /\ "server" \in End /\ Peer("server") = "client"
  BY Peers DEF End
<1>1. /\ "server" \in ours /\ result["server"] = "pending"
      /\ Reader("server", data["server"], sent["server"])
      /\ \E k \in ReadSizes("server") : Returned("server", k)
  BY <1>0, ReadAt
<1>2. PICK k \in ReadSizes("server") : Returned("server", k)
  BY <1>1
<1>3. data["server"].cb = "connect_msg_read" /\ data["server"].length = 4
  BY DEF HearsRequest, Waits
<1>4. PICK f \in Offers :
        \E t0 \in 2 .. Len(NegoMsg(f)) : Offered(f, t0) /\ Fresh("server", t0)
  BY DEF HearsRequest
<1>5. PICK t0 \in 2 .. Len(NegoMsg(f)) : Offered(f, t0) /\ Fresh("server", t0)
  BY <1>4
<1> DEFINE o == data["server"].offset + k
           b == Filled("server", k)
           s == sent["client"]
<1>6. t0 \in Nat
  BY <1>5
<1>7. /\ o \in Nat /\ b \in Seq(Byte) /\ o <= Len(b)
      /\ taken'["server"] = t0 + o /\ t0 + o <= Len(s)
      /\ \A i \in 1 .. o : b[i] = s[t0 + i]
  <2>1. /\ o \in Nat /\ b \in Seq(Byte) /\ o <= Len(b)
        /\ taken'["server"] = t0 + o /\ t0 + o <= Len(sent[Peer("server")])
        /\ \A i \in 1 .. o : b[i] = sent[Peer("server")][t0 + i]
    BY <1>1, <1>2, <1>5, <1>6, FreshRead, Zenon
  <2> QED BY <1>0, <2>1
<1>8. connect_msg_read_cb("server", b, 4, o) /\ sent' = sent /\ stage' = stage
  BY <1>2, <1>3 DEF Returned, ReadCallback
<1> HIDE DEF o, b
<1>9. CASE o # 4
  <2>1. do_read("server", "connect_msg_read", b, 4, o)
    BY <1>3, <1>8, <1>9 DEF connect_msg_read_cb, Again
  <2>2. Goes("server", [cb |-> "connect_msg_read", buffer |-> b, length |-> 4, offset |-> o])
    BY <1>0, <2>1, Effects
  <2>3. /\ result'["server"] = "pending" /\ data'["server"].cb = "connect_msg_read"
        /\ data'["server"].length = 4 /\ data'["server"].offset = o /\ data'["server"].buffer = b
    BY <1>1, <2>2 DEF Goes
  <2>4. Offered(f, t0)'
    BY <1>5, <1>8, OfferedSame
  <2>5. Fresh("server", t0)'
    BY <1>0, <1>7, <1>8, <2>3 DEF Fresh
  <2>6. HearsRequest'
    BY <1>5, <2>3, <2>4, <2>5 DEF HearsRequest, Waits
  <2> QED BY <2>6 DEF ServerStands
<1>10. CASE o = 4 /\ ~(b[1] = VERSION /\ b[4] = DOMAINNAME)
  <2>1. Complete("server", "failed")
    BY <1>8, <1>10 DEF connect_msg_read_cb
  <2>2. Completes("server", "failed")
    BY <1>0, <2>1, Effects
  <2>3. Failed("server")'
    BY <2>2 DEF Completes, Failed
  <2> QED BY <2>3 DEF ServerStands
<1>11. CASE o = 4 /\ b[1] = VERSION /\ b[4] = DOMAINNAME
  <2>1. do_read("server", "connect_addr_len_read", b, 1, 0)
    BY <1>8, <1>11 DEF connect_msg_read_cb
  <2>2. Goes("server", [cb |-> "connect_addr_len_read", buffer |-> b, length |-> 1, offset |-> 0])
    BY <1>0, <2>1, Effects
  <2>3. /\ result'["server"] = "pending" /\ data'["server"].cb = "connect_addr_len_read"
        /\ data'["server"].length = 1 /\ data'["server"].offset = 0
    BY <1>1, <2>2 DEF Goes
  <2>4. s[t0 + 1] = VERSION /\ s[t0 + 4] = DOMAINNAME /\ t0 + 4 <= Len(s)
    <3>1. 1 \in 1 .. o /\ 4 \in 1 .. o
      BY <1>11
    <3> QED BY <1>7, <1>11, <3>1
  <2>5. t0 = Len(f) + 2 /\ \E h \in Hosts : Asked(f, h)
    BY <1>5, <2>4, RequestFound
  <2>6. PICK h \in Hosts : Asked(f, h)
    BY <2>5
  <2>7. Asked(f, h)'
    BY <1>8, <2>6, AskedSame
  <2>8. taken'["server"] = Len(f) + 6
    <3>1. Len(f) \in Nat
      BY OfferBytes
    <3> QED BY <1>7, <1>11, <2>5, <3>1
  <2>9. HearsHostLength'
    BY <2>3, <2>7, <2>8 DEF HearsHostLength, Begins, Waits
  <2> QED BY <2>9 DEF ServerStands
<1> QED BY <1>9, <1>10, <1>11

\* What the server makes of the length of the address.
LEMMA HearsHostLengthReads ==
  ASSUME IInv, HearsHostLength, Read("server")
  PROVE  ServerStands'
<1>0. "client" \in End /\ "server" \in End /\ Peer("server") = "client"
  BY Peers DEF End
<1>1. /\ "server" \in ours /\ result["server"] = "pending"
      /\ Reader("server", data["server"], sent["server"])
      /\ \E k \in ReadSizes("server") : Returned("server", k)
  BY <1>0, ReadAt
<1>2. PICK k \in ReadSizes("server") : Returned("server", k)
  BY <1>1
<1>3. PICK f \in Offers, h \in Hosts :
        /\ Asked(f, h) /\ taken["server"] = Len(f) + 6
        /\ data["server"].cb = "connect_addr_len_read" /\ data["server"].length = 1
        /\ data["server"].offset = 0
  BY DEF HearsHostLength, Begins, Waits
<1> DEFINE b == Filled("server", k)
           s == sent["client"]
           l == Len(f)
<1>4. Len(s) = l + Len(h) + 9 /\ Len(h) \in Nat /\ l \in Nat /\ s[l + 7] = Len(h)
  <2> DEFINE m == NegoMsg(f) \o ConnectMsg(h)
  <2>1. Len(m) = l + 2 + Len(h) + 7 /\ Len(h) \in Nat /\ m[l + 2 + 5] = Len(h)
    BY AskedBytes
  <2>2. s = m /\ l \in Nat
    BY <1>3, OfferBytes DEF Asked
  <2> HIDE DEF m, s, l
  <2>3. l + 2 + Len(h) + 7 = l + Len(h) + 9 /\ l + 2 + 5 = l + 7
    BY <2>1, <2>2
  <2> QED BY <2>1, <2>2, <2>3
<1>5. /\ k \in Nat /\ 0 + k <= 1 /\ taken'["server"] = l + 6 + k /\ (k = 0 => l + 6 = Len(s))
      /\ addr_len_read_cb("server", b) /\ sent' = sent /\ stage' = stage
  BY <1>0, <1>2, <1>3 DEF Returned, ReadCallback
<1>6. k = 1 /\ taken'["server"] = l + 7
  <2> HIDE DEF s, l
  <2>1. k = 1
    BY <1>4, <1>5
  <2> QED BY <1>4, <1>5, <2>1
<1>7. b[1] = Len(h)
  <2>1. \A i \in 1 .. k : b[data["server"].offset + i] = sent[Peer("server")][taken["server"] + i]
    BY <1>1, ReadBytes
  <2>2. \A i \in 1 .. 1 : b[0 + i] = s[l + 6 + i]
    BY <1>0, <1>3, <1>6, <2>1
  <2>3. b[0 + 1] = s[l + 6 + 1]
    <3>1. 1 \in 1 .. 1
      OBVIOUS
    <3> QED BY <2>2, <3>1, Zenon
  <2>4. 0 + 1 = 1 /\ l + 6 + 1 = l + 7
    <3> HIDE DEF l
    <3> QED BY <1>4
  <2> QED BY <1>4, <2>3, <2>4
<1>8. do_read("server", "connect_addr_read", b, Len(h) + 2, 0)
  BY <1>5, <1>7 DEF addr_len_read_cb
<1> DEFINE n == Len(h) + 2
<1>9. Goes("server", [cb |-> "connect_addr_read", buffer |-> b, length |-> n, offset |-> 0])
  BY <1>0, <1>8, Effects
<1> HIDE DEF n, b
<1>10. /\ result'["server"] = "pending" /\ data'["server"].cb = "connect_addr_read"
       /\ data'["server"].length = n /\ data'["server"].offset = 0
  BY <1>1, <1>9 DEF Goes
<1>11. Asked(f, h)'
  BY <1>3, <1>5, AskedSame
<1>12. HearsHost'
  BY <1>6, <1>10, <1>11 DEF HearsHost, Begins, Waits, n
<1> QED BY <1>12 DEF ServerStands

\* A name that was read whole, and the port after it, is the host only when it is the
\* host's: no name has a byte 0.
LEMMA HostNamed ==
  ASSUME NEW h \in Hosts, NEW b \in Seq(Byte), Len(h) + 2 <= Len(b),
         \A i \in 1 .. Len(h) : b[i] = h[i], b[Len(h) + 1] = 0, NamesHost(b, Len(h) + 2)
  PROVE  h = Host
<1> DEFINE n == Len(h)
           m == Len(Host)
<1>1. h \in Seq(Byte) /\ n \in Nat /\ \A i \in 1 .. n : h[i] # 0
  <2>1. h \in Seq(Byte \ {0})
    BY HostAssumption DEF HostAssumption
  <2>2. h \in Seq(Byte)
    BY <2>1, SeqMonotonic
  <2>3. \A i \in 1 .. n : h[i] \in Byte \ {0}
    BY <2>1, ElementOfSeq
  <2> QED BY <2>2, <2>3
<1>2. Host \in Seq(Byte) /\ m \in Nat
  BY HostType
<1>3. m <= n + 2 - 2 /\ SubSeq(b, 1, m) = Host /\ (m = n + 2 - 2 \/ b[m + 1] = 0)
  BY DEF NamesHost
<1>4. n <= Len(b) /\ Len(b) \in Nat /\ \A i \in 1 .. n : b[i] = h[i]
  <2>1. Len(b) \in Nat /\ n + 2 <= Len(b)
    OBVIOUS
  <2> HIDE DEF n
  <2>2. n <= Len(b)
    BY <1>1, <2>1
  <2> QED BY <2>1, <2>2 DEF n
<1> HIDE DEF n, m
<1>5. n + 2 - 2 = n
  BY <1>1
<1>6. m = n
  <2>1. CASE m = n
    BY <2>1
  <2>2. CASE m # n
    <3>1. m + 1 \in 1 .. n
      BY <1>1, <1>2, <1>3, <1>5, <2>2
    <3>2. b[m + 1] = h[m + 1] /\ h[m + 1] # 0
      BY <1>1, <1>4, <3>1
    <3> QED BY <1>3, <1>5, <2>2, <3>2
  <2> QED BY <2>1, <2>2
<1>7. \A i \in 1 .. n : Host[i] = h[i]
  <2>1. \A i \in 1 .. n : SubSeq(b, 1, n)[i] = b[i]
    BY <1>1, <1>4
  <2>2. SubSeq(b, 1, n) = Host
    BY <1>3, <1>6
  <2> QED BY <1>4, <2>1, <2>2
<1> QED BY <1>1, <1>2, <1>6, <1>7, SeqEqual DEF n, m

\* What the server makes of an address.
LEMMA HearsHostReads ==
  ASSUME IInv, HearsHost, Read("server")
  PROVE  ServerStands'
<1>0. "client" \in End /\ "server" \in End /\ Peer("server") = "client"
  BY Peers DEF End
<1>1. /\ "server" \in ours /\ result["server"] = "pending"
      /\ Reader("server", data["server"], sent["server"])
      /\ \E k \in ReadSizes("server") : Returned("server", k)
  BY <1>0, ReadAt
<1>2. PICK k \in ReadSizes("server") : Returned("server", k)
  BY <1>1
<1>3. PICK f \in Offers, h \in Hosts :
        /\ Asked(f, h) /\ taken["server"] = Len(f) + 7
        /\ data["server"].cb = "connect_addr_read" /\ data["server"].length = Len(h) + 2
        /\ data["server"].offset = 0
  BY DEF HearsHost, Begins, Waits
<1> DEFINE n == Len(h) + 2
           b == Filled("server", k)
           s == sent["client"]
           l == Len(f)
           q == Len(h)
<1>4. /\ Len(s) = l + q + 9 /\ q \in Nat /\ l \in Nat /\ n = q + 2
      /\ \A i \in 1 .. q : s[l + 7 + i] = h[i]
      /\ s[l + 7 + (q + 1)] = 0
  <2> DEFINE m == NegoMsg(f) \o ConnectMsg(h)
  <2>1. /\ Len(m) = l + 2 + q + 7 /\ q \in Nat
        /\ \A i \in 1 .. q : m[l + 2 + 5 + i] = h[i]
        /\ m[l + 2 + 5 + q + 1] = 0
    BY AskedBytes
  <2>2. s = m /\ l \in Nat /\ n = q + 2
    BY <1>3, OfferBytes DEF Asked
  <2> HIDE DEF m, s, l, q, n
  <2>3. l + 2 + q + 7 = l + q + 9 /\ l + 2 + 5 = l + 7 /\ l + 2 + 5 + q + 1 = l + 7 + (q + 1)
    BY <2>1, <2>2
  <2> QED BY <2>1, <2>2, <2>3
<1>5. /\ k \in Nat /\ 0 + k <= n /\ taken'["server"] = l + 7 + k
      /\ connect_addr_read_cb("server", b, n, 0 + k) /\ sent' = sent /\ stage' = stage
  BY <1>0, <1>2, <1>3 DEF Returned, ReadCallback
<1>6. AllSaid /\ AllSaid' /\ 0 + k = k
  BY <1>3, <1>5 DEF AllSaid, Asked
<1>7. connect_addr_read_cb("server", b, n, k)
  BY <1>5, <1>6
<1>8. /\ b \in Seq(Byte) /\ 0 + k <= Len(b)
      /\ \A i \in 1 .. k : b[0 + i] = s[l + 7 + i]
  <2>1. /\ b \in Seq(Byte) /\ data["server"].offset + k <= Len(b)
        /\ \A i \in 1 .. k : b[data["server"].offset + i] = sent[Peer("server")][taken["server"] + i]
    BY <1>1, ReadBytes
  <2> QED BY <1>0, <1>3, <2>1
<1> HIDE DEF n, b, s, l, q
<1>9. k <= Len(b) /\ \A i \in 1 .. k : b[i] = s[l + 7 + i]
  <2>1. \A i \in 1 .. k : 0 + i = i
    BY <1>5
  <2> QED BY <1>6, <1>8, <2>1
<1>10. CASE k # n
  <2>1. do_read("server", "connect_reply_read", b, n, k)
    BY <1>7, <1>10 DEF connect_addr_read_cb
  <2>2. Goes("server", [cb |-> "connect_reply_read", buffer |-> b, length |-> n, offset |-> k])
    BY <1>0, <2>1, Effects
  <2>3. /\ result'["server"] = "pending" /\ data'["server"].cb = "connect_reply_read"
        /\ data'["server"].length = n /\ data'["server"].offset = k
    BY <1>1, <2>2 DEF Goes
  <2>4. taken'["server"] + n = Len(s) + k
    BY <1>4, <1>5
  <2>5. Astray("server")'
    BY <1>0, <1>5, <1>6, <2>3, <2>4, Zenon DEF Astray, s
  <2> QED BY <2>5 DEF ServerStands
<1>11. CASE k = n /\ ~NamesHost(b, n)
  <2>1. Complete("server", "not_allowed")
    BY <1>7, <1>11 DEF connect_addr_read_cb
  <2>2. Completes("server", "not_allowed")
    BY <1>0, <2>1, Effects
  <2>3. Failed("server")'
    BY <2>2 DEF Completes, Failed
  <2> QED BY <2>3 DEF ServerStands
<1>12. CASE k = n /\ NamesHost(b, n)
  <2>1. PICK a \in Addresses : do_write("server", "connect_reply_write", ConnectReply(a))
    BY <1>7, <1>12 DEF connect_addr_read_cb
  <2> DEFINE m == ConnectReply(a)
  <2>2. Goes("server", [cb |-> "connect_reply_write", buffer |-> m, length |-> Len(m), offset |-> 0])
    BY <1>0, <2>1, Effects
  <2> HIDE DEF m
  <2>3. result'["server"] = "pending" /\ data'["server"].cb = "connect_reply_write"
    BY <1>1, <2>2 DEF Goes
  <2>4. n <= Len(b) /\ b[q + 1] = 0 /\ \A i \in 1 .. q : b[i] = h[i]
    <3>1. q + 1 \in 1 .. k /\ \A i \in 1 .. q : i \in 1 .. k
      BY <1>4, <1>12
    <3> QED BY <1>4, <1>9, <1>12, <3>1
  <2>5. h = Host
    BY <1>8, <1>12, <2>4, HostNamed DEF n, q
  <2>6. taken'["server"] = Len(s)
    BY <1>4, <1>5, <1>12
  <2>7. Asked(f, Host)'
    BY <1>3, <1>5, <2>5, AskedSame
  <2>8. Granting'
    BY <1>5, <2>3, <2>6, <2>7 DEF Granting, s
  <2> QED BY <2>8 DEF ServerStands
<1> QED BY <1>10, <1>11, <1>12

\* A read of the server's.
LEMMA ServerReads ==
  ASSUME IInv, OffersNoRequest, ClientSays, ServerStands, Read("server")
  PROVE  ClientSays' /\ ServerStands'
<1>1. /\ "server" \in End /\ "client" \in End /\ "server" # "client"
      /\ result["server"] = "pending" /\ data["server"].cb \in Reading
      /\ \E k \in ReadSizes("server") : Returned("server", k)
  BY ReadAt DEF End
<1>2. sent' = sent /\ stage' = stage /\ taken'["client"] = taken["client"]
  BY <1>1 DEF Returned
<1>3. ClientSays'
  BY <1>2 DEF ClientSays, AllSaid
<1> SUFFICES ServerStands'
  BY <1>3
<1>4. ~Accepting /\ ~Granting /\ ~Refusing /\ ~Failed("server")
  BY <1>1 DEF Accepting, Granting, Refusing, Failed, Reading
<1>5. CASE HearsOffer
  BY <1>5, HearsOfferReads
<1>6. CASE HearsRequest
  BY <1>6, HearsRequestReads
<1>7. CASE HearsHostLength
  BY <1>7, HearsHostLengthReads
<1>8. CASE HearsHost
  BY <1>8, HearsHostReads
<1>9. CASE Astray("server")
  <2>1. Astray("server")' \/ Failed("server")'
    BY <1>1, <1>9, AstrayStays
  <2> QED BY <2>1 DEF ServerStands
<1> QED BY <1>4, <1>5, <1>6, <1>7, <1>8, <1>9 DEF ServerStands

\* A write of the server's.
LEMMA ServerWrites ==
  ASSUME IInv, ClientSays, ServerStands, Write("server")
  PROVE  ClientSays' /\ ServerStands'
<1>0. "client" \in End /\ "server" \in End /\ Peer("server") = "client" /\ "server" # "client"
  BY Peers DEF End
<1>1. /\ result["server"] = "pending" /\ data["server"].cb \in Writing
      /\ sent'["client"] = sent["client"] /\ taken' = taken /\ stage' = stage
      /\ \/ Written("server")
         \/ \E o : Goes("server", [cb |-> data["server"].cb, buffer |-> data["server"].buffer,
                                   length |-> data["server"].length, offset |-> o])
  BY <1>0, WriteStep, Zenon
<1>2. ClientSays'
  <2> DEFINE n0 == Len(sent["server"])
             n1 == Len(sent'["server"])
  <2>1. n0 <= n1 /\ n0 \in Nat /\ n1 \in Nat
    <3>1. n0 <= n1 /\ sent'["server"] \in Seq(Byte)
      BY <1>0, WriteMoves
    <3>2. sent["server"] \in Seq(Byte)
      BY <1>0 DEF IInv
    <3> QED BY <3>1, <3>2
  <2> HIDE DEF n0, n1
  <2>2. n0 >= 2 => n1 >= 2
    BY <2>1
  <2> QED BY <1>1, <2>2 DEF ClientSays, AllSaid, n0, n1
<1>3. Accepting \/ Granting \/ Refusing
  BY <1>1 DEF ServerStands, HearsOffer, HearsRequest, HearsHostLength, HearsHost,
              Astray, Failed, Begins, Waits, Writing, Idle
<1>4. \A o, t0 : Offered(o, t0) => Offered(o, t0)'
  BY <1>1 DEF Offered, AllSaid
<1>5. \A o, h : Asked(o, h) => Asked(o, h)'
  BY <1>1 DEF Asked, AllSaid
<1>6. CASE \E o : Goes("server", [cb |-> data["server"].cb, buffer |-> data["server"].buffer,
                                  length |-> data["server"].length, offset |-> o])
  <2>1. result'["server"] = result["server"] /\ data'["server"].cb = data["server"].cb
    BY <1>6 DEF Goes
  <2>2. ASSUME Accepting PROVE ServerStands'
    BY <1>1, <2>1, <2>2 DEF Accepting, ServerStands, Offered, AllSaid
  <2>3. ASSUME Granting PROVE ServerStands'
    BY <1>1, <1>5, <2>1, <2>3 DEF Granting, ServerStands
  <2>4. ASSUME Refusing PROVE ServerStands'
    BY <2>1, <2>4 DEF Refusing, ServerStands
  <2>5. ServerStands'
    BY <1>3, <2>2, <2>3, <2>4
  <2> QED BY <1>2, <2>5
<1>7. CASE Written("server") /\ Accepting
  <2>1. do_read("server", "connect_msg_read", <<>>, 4, 0)
    BY <1>7 DEF Written, Accepting
  <2>2. Goes("server", [cb |-> "connect_msg_read", buffer |-> <<>>, length |-> 4, offset |-> 0])
    BY <1>0, <2>1, Effects
  <2>3. /\ result'["server"] = "pending" /\ data'["server"].cb = "connect_msg_read"
        /\ data'["server"].length = 4 /\ data'["server"].offset = 0
    BY <1>1, <2>2 DEF Goes
  <2>4. PICK o \in Offers : Offered(o, taken["server"])
    BY <1>7 DEF Accepting
  <2>5. PICK t0 \in 2 .. Len(NegoMsg(o)) : t0 = taken["server"] /\ Offered(o, t0)
    BY <2>4 DEF Offered
  <2>6. t0 + 0 = t0
    BY <2>5
  <2>7. Fresh("server", t0)'
    BY <1>1, <2>3, <2>5, <2>6 DEF Fresh
  <2>8. HearsRequest'
    BY <1>4, <2>3, <2>5, <2>7 DEF HearsRequest, Waits
  <2> QED BY <1>2, <2>8 DEF ServerStands
<1>8. CASE Written("server") /\ Refusing
  <2>1. Complete("server", "auth_failed")
    BY <1>8 DEF Written, Refusing
  <2>2. Completes("server", "auth_failed")
    BY <1>0, <2>1, Effects
  <2>3. Failed("server")'
    BY <2>2 DEF Completes, Failed
  <2> QED BY <1>2, <2>3 DEF ServerStands
<1>9. CASE Written("server") /\ Granting
  <2>1. data["server"].cb = "connect_reply_write"
    BY <1>1, <1>9 DEF Granting
  <2>2. Complete("server", "success")
    BY <1>9, <2>1 DEF Written
  <2>3. Completes("server", "success")
    BY <1>0, <2>2, Effects
  <2>4. Granting'
    BY <1>1, <1>5, <1>9, <2>3 DEF Completes, Granting
  <2> QED BY <1>2, <2>4 DEF ServerStands
<1> QED BY <1>1, <1>3, <1>6, <1>7, <1>8, <1>9

\* Every step, for a server of ours and a foreign client.
LEMMA ServerKeeps ==
  ASSUME IInv, OffersNoRequest, ours = {"server"}, ClientSays, ServerStands, [Next]_vars
  PROVE  ClientSays' /\ ServerStands'
<1>0. "client" \in End /\ "server" \in End /\ Peer("server") = "client" /\ "server" # "client"
  BY Peers DEF End
<1>1. data["client"] = Idle /\ data["client"].cb \notin Reading \cup Writing
  BY <1>0 DEF IInv, Idle, Reading, Writing
<1>2. CASE Read("server")
  BY <1>2, ServerReads
<1>3. CASE Write("server")
  BY <1>3, ServerWrites
<1>4. CASE Fail("server") \/ Overrun("server")
  <2>1. \E r \in {"io_error", "crashed"} : Completes("server", r)
    BY <1>0, <1>4, Stopped, Effects
  <2>2. Failed("server")' /\ UNCHANGED <<sent, stage, taken>>
    BY <1>4, <2>1, Stopped DEF Completes, Failed
  <2>3. ClientSays'
    BY ZenonT(30), <2>2 DEF ClientSays, AllSaid
  <2> QED BY <2>2, <2>3 DEF ServerStands
<1>5. CASE ForeignClient
  BY SMTT(30), <1>5, ServerHears
<1>6. ASSUME NEW e \in End, Close(e) \/ Leave(e) \/ UNCHANGED vars PROVE ClientSays' /\ ServerStands'
  <2>1. UNCHANGED <<ours, sent, taken, data, result, stage>>
    BY <1>6 DEF Close, Leave, vars
  <2> QED BY ZenonT(30), <2>1 DEF ClientSays, ServerStands, HearsOffer, Accepting, HearsRequest, HearsHostLength,
            HearsHost, Granting, Refusing, Astray, Failed, Offered, Asked, AllSaid, Fresh,
            Begins, Waits
<1>7. ~Read("client") /\ ~Overrun("client") /\ ~Write("client") /\ ~Fail("client") /\ ~ForeignServer
  BY <1>1 DEF Read, Overrun, Write, Fail, ForeignServer, Foreign, Idle
<1> QED BY <1>0, <1>2, <1>3, <1>4, <1>5, <1>6, <1>7 DEF Next, End

LEMMA SInvInit == Init => SInv
<1> SUFFICES ASSUME Init PROVE SInv
  OBVIOUS
<1>1. ASSUME ours = {"server"} PROVE ClientSays /\ ServerStands
  <2>1. data["server"] = [cb |-> "nego_msg_read", buffer |-> <<>>, length |-> 257, offset |-> 0]
    BY <1>1 DEF Init, End
  <2>2. /\ stage = "start" /\ sent["client"] = <<>> /\ taken["client"] = 0 /\ taken["server"] = 0
        /\ result["server"] = "pending" /\ data["server"].cb = "nego_msg_read"
        /\ data["server"].length = 257 /\ data["server"].offset = 0
    BY <2>1 DEF Init, End
  <2>3. Fresh("server", 0)
    BY <2>2 DEF Fresh
  <2> QED BY <2>2, <2>3 DEF ClientSays, ServerStands, HearsOffer, Waits
<1> QED BY <1>1, IInvInit, RefusedInit DEF SInv

LEMMA SInvNext ==
  ASSUME OffersNoRequest
  PROVE  SInv /\ [Next]_vars => SInv'
<1> SUFFICES ASSUME SInv, [Next]_vars PROVE SInv'
  OBVIOUS
<1>1. IInv /\ IInv' /\ ours' = ours
  BY IInvNext, OursStays DEF SInv
<1>2. ours = {"server"} => ClientSays' /\ ServerStands'
  BY <1>1, ServerKeeps DEF SInv
<1>3. ours = End => Refused'
  BY <1>1, RefusedKeeps DEF SInv
<1> QED BY <1>1, <1>2, <1>3 DEF SInv

LEMMA SInvGrantsAllowed == SInv => GrantsAllowed
<1> SUFFICES ASSUME SInv, "server" \in ours, result["server"] = "success" PROVE GrantsAllowed
  BY DEF GrantsAllowed
<1>1. ours = {"server"} \/ ours = End
  BY OneOrTwo DEF SInv
<1>2. ours = {"server"}
  BY <1>1 DEF SInv, Refused, End
<1>3. Granting
  BY <1>2 DEF SInv, ServerStands, HearsOffer, Accepting, HearsRequest, HearsHostLength, HearsHost,
              Refusing, Astray, Failed, Begins, Waits
<1>4. PICK o \in Offers : Asked(o, Host) /\ taken["server"] = Len(sent["client"])
  BY <1>3 DEF Granting
<1> QED BY <1>4 DEF Asked, GrantsAllowed

LEMMA ServerInvariant ==
  ASSUME OffersNoRequest
  PROVE  Spec => []SInv
<1>1. SInv /\ [Next]_vars => SInv'
  BY SInvNext
<1> QED BY <1>1, SInvInit, PTL DEF Spec

\* However the client's bytes are cut, and whatever a part of them is read as, the
\* server succeeds only with a client that offered to go without authentication and
\* named the host, having read all it sent and no more, unless four bytes of an offer
\* can be taken for the head of a request: the server accepts an offer it has read in
\* part, as it compares what was read with the first method (line 728), and reads the
\* rest of the methods as the request.
THEOREM OnlyTheHostGranted ==
  ASSUME OffersNoRequest
  PROVE  Spec => []GrantsAllowed
BY ServerInvariant, SInvGrantsAllowed, PTL
=============================================================================
