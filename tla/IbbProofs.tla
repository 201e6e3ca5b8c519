----------------------------- MODULE IbbProofs -----------------------------
(***************************************************************************)
(* Theorems about IbbTransfer, for every size of the file, of reads and of *)
(* blocks and every answer.  The inductive invariant says that the block   *)
(* under way and the buffer are consecutive runs of the file, and that     *)
(* what was handed over are bytes from before them, in their order.        *)
(***************************************************************************)
EXTENDS IbbTransfer, TLAPS

\* s is the piece of the file that follows the first n bytes.
Run(s, n) == \A i \in DOMAIN s : s[i] = n + i

\* s holds bytes from the first p of the file, in their order and none twice.
Scattered(s, p) ==
  /\ Len(s) <= p
  /\ \A i \in DOMAIN s : i <= s[i] /\ s[i] + Len(s) <= p + i

\* The data of the block under way.
InFlight == IF stanzas # <<>> /\ stanzas[1].type = "data" THEN stanzas[1].data ELSE <<>>

\* What can be under way: a block, or what is left of the last block, the hash and
\* the end of the session.
Shape ==
  /\ HasSession => Len(stanzas) + replies <= 1
  /\ HasSession => \A i \in DOMAIN stanzas : stanzas[i].type = "data"
  /\ ~HasSession =>
       /\ Len(stanzas) <= 3
       /\ \A i \in DOMAIN stanzas :
            stanzas[i].type = IF i = Len(stanzas) THEN "session-terminate"
                              ELSE IF i = Len(stanzas) - 1 THEN "hash" ELSE "data"
  /\ \A i \in DOMAIN stanzas : stanzas[i].type = "hash" => stanzas[i].data = File

\* The first p bytes have passed, handed over or lost.
Ordered ==
  \E p \in Nat :
    /\ Scattered(handed, p)
    /\ Run(InFlight, p) /\ Run(buf, p + Len(InFlight))
    /\ transmit = p + Len(InFlight) + Len(buf)

Ends ==
  /\ state = "PENDING" =>
       stanzas = <<>> /\ replies = 0 /\ buf = <<>> /\ transmit = 0 /\ handed = <<>>
  /\ state = "ENDING" => buf = <<>> /\ transmit = FileSize
  /\ infile = "ENDING" => stanzas = <<>> /\ state = "ENDING"

Told ==
  /\ Len(stanzas) = 1 /\ ~HasSession => hash = {File}
  /\ Verified

IInv == /\ TypeOK /\ Shape /\ Ordered /\ Ends /\ Told
        /\ written <= Len(handed) /\ Len(buf) <= size_buf

-----------------------------------------------------------------------------
(* Pieces of the file *)

LEMMA FileSeq == File \in Seq(Byte) /\ Len(File) = FileSize
BY SizesAssumption DEF File, Byte

\* What is read between two places.
LEMMA RunRead ==
  ASSUME NEW a \in Nat, NEW b \in Nat, a <= b, b <= FileSize
  PROVE  /\ SubSeq(File, a + 1, b) \in Seq(Byte) /\ Len(SubSeq(File, a + 1, b)) = b - a
         /\ Run(SubSeq(File, a + 1, b), a)
<1> DEFINE s == SubSeq(File, a + 1, b)
<1>1. s \in Seq(Byte) /\ Len(s) = b - a
  BY FileSeq, SizesAssumption
<1>2. \A i \in 1 .. Len(s) : s[i] = File[a + i]
  BY FileSeq, SizesAssumption
<1>3. \A i \in 1 .. FileSize : File[i] = i
  BY DEF File, Byte
<1> HIDE DEF s
<1>4. Run(s, a)
  BY <1>1, <1>2, <1>3, SizesAssumption DEF Run
<1> QED BY <1>1, <1>4 DEF s

\* One piece after another.
LEMMA RunConcat ==
  ASSUME NEW s \in Seq(Byte), NEW t \in Seq(Byte), NEW n \in Nat, Run(s, n), Run(t, n + Len(s))
  PROVE  s \o t \in Seq(Byte) /\ Len(s \o t) = Len(s) + Len(t) /\ Run(s \o t, n)
<1>1. s \o t \in Seq(Byte) /\ Len(s \o t) = Len(s) + Len(t)
  OBVIOUS
<1>2. \A i \in 1 .. Len(s) + Len(t) :
        (s \o t)[i] = IF i <= Len(s) THEN s[i] ELSE t[i - Len(s)]
  OBVIOUS
<1>3. \A i \in DOMAIN (s \o t) : (s \o t)[i] = n + i
  <2> SUFFICES ASSUME NEW i \in 1 .. Len(s) + Len(t) PROVE (s \o t)[i] = n + i
    BY <1>1
  <2>1. CASE i <= Len(s)
    BY <1>2, <2>1 DEF Run
  <2>2. CASE i > Len(s)
    <3>1. i - Len(s) \in DOMAIN t
      BY <2>2
    <3>2. t[i - Len(s)] = n + Len(s) + (i - Len(s))
      BY <3>1 DEF Run
    <3> QED BY <1>2, <2>2, <3>2
  <2> QED BY <2>1, <2>2
<1> QED BY <1>1, <1>3 DEF Run

\* A piece cut in two.
LEMMA RunSplit ==
  ASSUME NEW s \in Seq(Byte), NEW n \in Nat, Run(s, n), NEW k \in 0 .. Len(s)
  PROVE  /\ SubSeq(s, 1, k) \in Seq(Byte) /\ Len(SubSeq(s, 1, k)) = k /\ Run(SubSeq(s, 1, k), n)
         /\ SubSeq(s, k + 1, Len(s)) \in Seq(Byte) /\ Len(SubSeq(s, k + 1, Len(s))) = Len(s) - k
         /\ Run(SubSeq(s, k + 1, Len(s)), n + k)
<1>1. /\ SubSeq(s, 1, k) \in Seq(Byte) /\ Len(SubSeq(s, 1, k)) = k
      /\ \A i \in 1 .. k : SubSeq(s, 1, k)[i] = s[i]
  OBVIOUS
<1>2. /\ SubSeq(s, k + 1, Len(s)) \in Seq(Byte) /\ Len(SubSeq(s, k + 1, Len(s))) = Len(s) - k
      /\ \A i \in 1 .. Len(s) - k : SubSeq(s, k + 1, Len(s))[i] = s[k + i]
  OBVIOUS
<1>3. \A i \in 1 .. Len(s) : s[i] = n + i
  BY DEF Run
<1>4. Run(SubSeq(s, 1, k), n)
  BY <1>1, <1>3 DEF Run
<1>5. Run(SubSeq(s, k + 1, Len(s)), n + k)
  BY <1>2, <1>3 DEF Run
<1> QED BY <1>1, <1>2, <1>4, <1>5

\* The piece of so many bytes at the start is the prefix of that length.
LEMMA RunPrefix ==
  ASSUME NEW s \in Seq(Byte), Run(s, 0), Len(s) <= FileSize
  PROVE  s = SubSeq(File, 1, Len(s))
<1>1. s \in Seq(Byte) /\ Len(s) \in Nat /\ \A i \in 1 .. Len(s) : s[i] = i
  BY DEF Run
<1> DEFINE t == SubSeq(File, 1, Len(s))
<1>2. t \in Seq(Byte) /\ Len(t) = Len(s) /\ \A i \in 1 .. Len(s) : t[i] = i
  <2>1. 0 + 1 = 1 /\ Len(s) - 0 = Len(s)
    OBVIOUS
  <2>2. Run(SubSeq(File, 0 + 1, Len(s)), 0) /\ Len(SubSeq(File, 0 + 1, Len(s))) = Len(s) - 0
        /\ SubSeq(File, 0 + 1, Len(s)) \in Seq(Byte)
    BY <1>1, RunRead, SizesAssumption
  <2> QED BY <1>1, <2>1, <2>2 DEF Run
<1> HIDE DEF t
<1>3. s = t
  BY <1>1, <1>2
<1> QED BY <1>3 DEF t

\* A piece is what its place and its length say.
LEMMA RunPiece ==
  ASSUME NEW s \in Seq(Byte), NEW n \in Nat, Run(s, n)
  PROVE  s = [i \in 1 .. Len(s) |-> n + i]
<1> DEFINE t == [i \in 1 .. Len(s) |-> n + i]
<1>1. s = [i \in 1 .. Len(s) |-> s[i]]
  OBVIOUS
<1>2. \A i \in 1 .. Len(s) : s[i] = n + i
  BY DEF Run
<1> QED BY <1>1, <1>2

\* What the buffer holds after reads up to q.
LEMMA FilledRun ==
  ASSUME TypeOK, NEW q \in transmit .. FileSize, NEW n \in Nat, Run(buf, n), transmit = n + Len(buf)
  PROVE  /\ Filled(q) \in Seq(Byte) /\ Len(Filled(q)) = Len(buf) + (q - transmit)
         /\ Run(Filled(q), n)
<1>0. transmit \in 0 .. FileSize /\ buf \in Seq(Byte)
  BY Zenon DEF TypeOK
<1>1. transmit \in Nat /\ q \in Nat /\ transmit <= q /\ q <= FileSize
  BY <1>0, SizesAssumption
<1> DEFINE t == SubSeq(File, transmit + 1, q)
<1>2. t \in Seq(Byte) /\ Len(t) = q - transmit /\ Run(t, n + Len(buf))
  BY <1>1, RunRead
<1> HIDE DEF t
<1>3. buf \o t \in Seq(Byte) /\ Len(buf \o t) = Len(buf) + Len(t) /\ Run(buf \o t, n)
  BY <1>0, <1>2, RunConcat
<1> QED BY <1>2, <1>3 DEF Filled, t

\* The answer never raises the block size, and is a length.
LEMMA NegotiatedType ==
  ASSUME TypeOK, NEW y \in Answers PROVE Negotiated(y) \in 0 .. MaxBlock
<1>1. y \in Int /\ Wrap \in Nat \ {0}
  BY AnswersAssumption
<1>2. y % Wrap \in 0 .. Wrap - 1
  BY <1>1
<1>3. blocksize \in 0 .. MaxBlock
  BY Zenon DEF TypeOK
<1> QED BY <1>2, <1>3, SizesAssumption DEF Negotiated

-----------------------------------------------------------------------------
(* The sender's steps *)

\* Before a block goes out nothing is under way, and the buffer follows what has
\* passed.
Base(p) ==
  /\ HasSession /\ stanzas = <<>> /\ replies' = 0
  /\ Scattered(handed, p) /\ Run(buf, p) /\ transmit = p + Len(buf)
  /\ UNCHANGED <<accepted, aborted, receiverVars>> /\ UNCHANGED blocksize

\* What concerns lengths: the buffer is large enough, for the block as well.
Room(size) ==
  /\ Len(buf') <= size /\ size \in Nat
  /\ \A i \in DOMAIN stanzas' : stanzas'[i].type = "data" =>
       Len(stanzas'[i].data) + Len(buf') <= size /\ Len(stanzas'[i].data) <= blocksize

\* The types of the variables that matter below, one by one.
LEMMA Types ==
  ASSUME TypeOK
  PROVE  /\ state \in FileState /\ accepted \in BOOLEAN /\ blocksize \in 0 .. MaxBlock
         /\ transmit \in 0 .. FileSize /\ buf \in Seq(Byte) /\ size_buf \in Nat
         /\ aborted \in BOOLEAN /\ stanzas \in Seq(IbbStanza) /\ replies \in Nat /\ failed \in BOOLEAN
         /\ infile \in FileState /\ handed \in Seq(Byte) /\ written \in Nat
         /\ hash \in SUBSET Seq(Byte)
         /\ verdict \in {"none", "not verified", "corrupt", "verified"}
         /\ FileSize \in Nat /\ MaxBlock \in Nat /\ blocksize \in Nat /\ transmit \in Nat
<1>1. FileSize \in Nat /\ MaxBlock \in Nat
  BY SizesAssumption
<1>2. blocksize \in 0 .. MaxBlock /\ transmit \in 0 .. FileSize
  BY Zenon DEF TypeOK
<1>3. blocksize \in Nat /\ transmit \in Nat
  BY <1>1, <1>2
<1> QED BY <1>1, <1>2, <1>3, Zenon DEF TypeOK

\* A block cut from data keeps everything in order.
LEMMA BlockSent ==
  ASSUME IInv, NEW p \in Nat, Base(p), NEW q \in transmit .. FileSize, NEW data \in Seq(Byte),
         Run(data, p), q = p + Len(data), Len(data) >= blocksize,
         NEW size \in Nat, Len(data) <= size,
         SendBlock(data), transmit' = q, size_buf' = size,
         state' \in {state, "STARTING"}, state # "PENDING" \/ state' = "STARTING",
         UNCHANGED failed
  PROVE  IInv' /\ Room(size)
<1> DEFINE d == SubSeq(data, 1, blocksize)
<1> DEFINE r == SubSeq(data, blocksize + 1, Len(data))
<1>0. TypeOK
  BY DEF IInv
<1>1. /\ handed \in Seq(Byte) /\ blocksize \in Nat /\ FileSize \in Nat /\ transmit \in Nat
      /\ transmit \in 0 .. FileSize
  BY <1>0, Types
<1>1a. q \in 0 .. FileSize /\ blocksize \in 0 .. Len(data) /\ Len(data) \in Nat
  BY <1>1
<1>2. /\ d \in Seq(Byte) /\ Len(d) = blocksize /\ Run(d, p)
      /\ r \in Seq(Byte) /\ Len(r) = Len(data) - blocksize /\ Run(r, p + blocksize)
  BY <1>1a, RunSplit
<1>3. buf' = r /\ stanzas' = <<Block(d)>>
  BY DEF SendBlock, Rest, Base
<1> HIDE DEF d, r
<1>4. Block(d) \in IbbStanza /\ Block(d).type = "data" /\ Block(d).data = d
  BY <1>2 DEF Block, IbbStanza
<1>5. stanzas' \in Seq(IbbStanza) /\ Len(stanzas') = 1 /\ stanzas'[1].type = "data" /\ stanzas'[1].data = d
  BY <1>3, <1>4
<1>5a. stanzas' # <<>>
  BY <1>3
<1>6. InFlight' = d
  BY <1>5, <1>5a, Zenon DEF InFlight
<1>7. state' \in FileState /\ HasSession'
  BY <1>0, Types DEF Base, HasSession, FileState
<1>8. /\ accepted' \in BOOLEAN /\ blocksize' \in 0 .. MaxBlock /\ infile' \in FileState
      /\ aborted' \in BOOLEAN /\ failed' \in BOOLEAN /\ handed' \in Seq(Byte) /\ written' \in Nat
      /\ hash' \in SUBSET Seq(Byte)
      /\ verdict' \in {"none", "not verified", "corrupt", "verified"}
  BY <1>0, Types DEF Base, receiverVars
<1>9. transmit' \in 0 .. FileSize
  BY <1>1a
<1>10. TypeOK'
  BY <1>2, <1>3, <1>5, <1>7, <1>8, <1>9 DEF TypeOK, Base
<1>11. Shape'
  BY <1>5, <1>7 DEF Shape, Base
<1>12. handed' = handed /\ written' = written /\ infile' = infile /\ verdict' = verdict
  BY DEF Base, receiverVars
<1>13. Ordered'
  <2>1. Scattered(handed', p)
    BY <1>12 DEF Base
  <2>2. Len(InFlight') = blocksize /\ Len(buf') = Len(data) - blocksize
    BY <1>2, <1>3, <1>6
  <2>3. Run(InFlight', p) /\ Run(buf', p + Len(InFlight'))
    BY <1>2, <1>3, <1>6, <2>2
  <2>4. transmit' = p + Len(InFlight') + Len(buf')
    BY <1>1, <1>1a, <2>2
  <2> QED BY <2>1, <2>3, <2>4, Zenon DEF Ordered
<1>14. Ends'
  BY <1>7, <1>12 DEF Ends, IInv, Base, HasSession
<1>15. Told'
  BY <1>7, <1>12 DEF Told, Verified, IInv
<1>16. Len(buf') <= size_buf'
  BY <1>1, <1>1a, <1>2, <1>3
<1>17. Room(size)
  <2>1. Len(buf') = Len(data) - blocksize /\ Len(d) = blocksize
    BY <1>2, <1>3
  <2>2. \A i \in DOMAIN stanzas' : stanzas'[i].data = d
    BY <1>5
  <2> QED BY <1>1, <1>1a, <2>1, <2>2 DEF Room
<1> QED BY <1>10, <1>11, <1>12, <1>13, <1>14, <1>15, <1>16, <1>17 DEF IInv

\* Two stanzas, or a stanza and two more.
LEMMA TwoOrThree ==
  ASSUME NEW S, NEW b \in S, NEW h \in S, NEW e \in S
  PROVE  /\ <<>> \o <<h, e>> \in Seq(S) /\ Len(<<>> \o <<h, e>>) = 2
         /\ (<<>> \o <<h, e>>)[1] = h /\ (<<>> \o <<h, e>>)[2] = e
         /\ <<b>> \o <<h, e>> \in Seq(S) /\ Len(<<b>> \o <<h, e>>) = 3
         /\ (<<b>> \o <<h, e>>)[1] = b /\ (<<b>> \o <<h, e>>)[2] = h /\ (<<b>> \o <<h, e>>)[3] = e
OBVIOUS

\* The end of the file: the rest, the hash and the end of the session go out.
LEMMA EndSent ==
  ASSUME IInv, NEW p \in Nat, Base(p), NEW data \in Seq(Byte),
         Run(data, p), FileSize = p + Len(data), Len(data) <= blocksize,
         NEW size \in Nat, Len(data) <= size,
         stanzas' = Last(data) \o Farewell, buf' = <<>>, transmit' = FileSize, size_buf' = size,
         state' = "ENDING", UNCHANGED failed
  PROVE  IInv' /\ Room(size)
<1>0. TypeOK
  BY DEF IInv
<1>1. /\ handed \in Seq(Byte) /\ blocksize \in Nat /\ FileSize \in Nat /\ replies' \in Nat
      /\ blocksize \in 0 .. MaxBlock
  BY <1>0, Types DEF Base
<1>2. Len(data) \in Nat
  BY <1>1
<1> DEFINE B == Block(data)
<1> DEFINE H == Hash(File)
<1> DEFINE E == EndOfSession
<1>3. /\ B \in IbbStanza /\ B.type = "data" /\ B.data = data
      /\ H \in IbbStanza /\ H.type = "hash" /\ H.data = File
      /\ E \in IbbStanza /\ E.type = "session-terminate"
  BY FileSeq DEF Block, Hash, EndOfSession, IbbStanza
<1>4. stanzas' = IF data = <<>> THEN <<>> \o <<H, E>> ELSE <<B>> \o <<H, E>>
  BY DEF Last, Farewell
<1> DEFINE Kinds ==
       /\ stanzas' \in Seq(IbbStanza) /\ Len(stanzas') \in {2, 3} /\ stanzas' # <<>>
       /\ \A i \in DOMAIN stanzas' :
            stanzas'[i].type = IF i = Len(stanzas') THEN "session-terminate"
                               ELSE IF i = Len(stanzas') - 1 THEN "hash" ELSE "data"
       /\ \A i \in DOMAIN stanzas' : stanzas'[i].type = "hash" => stanzas'[i].data = File
       /\ \A i \in DOMAIN stanzas' : stanzas'[i].type = "data" => stanzas'[i].data = data
<1> HIDE DEF B, H, E
<1>5. ASSUME data = <<>> PROVE InFlight' = data /\ Kinds
  <2>1. /\ stanzas' \in Seq(IbbStanza) /\ Len(stanzas') = 2
        /\ stanzas'[1] = H /\ stanzas'[2] = E
    BY ONLY <1>3, <1>4, <1>5, TwoOrThree
  <2>2. stanzas' # <<>>
    BY <2>1
  <2>3. InFlight' = data
    <3>1. stanzas'[1].type # "data"
      BY <1>3, <2>1
    <3> QED BY <1>5, <3>1, Zenon DEF InFlight
  <2>4. \A i \in DOMAIN stanzas' : i = 1 \/ i = 2
    BY SMTT(30), <2>1
  <2>5. Kinds
    BY ONLY <1>3, <2>1, <2>2, <2>4
  <2> HIDE DEF Kinds
  <2> QED BY <2>3, <2>5
<1>6. ASSUME data # <<>> PROVE InFlight' = data /\ Kinds
  <2>1. /\ stanzas' \in Seq(IbbStanza) /\ Len(stanzas') = 3
        /\ stanzas'[1] = B /\ stanzas'[2] = H /\ stanzas'[3] = E
    BY ONLY <1>3, <1>4, <1>6, TwoOrThree
  <2>2. stanzas' # <<>>
    BY <2>1
  <2>3. InFlight' = data
    BY <1>3, <2>1, <2>2, Zenon DEF InFlight
  <2>4. \A i \in DOMAIN stanzas' : i = 1 \/ i = 2 \/ i = 3
    BY SMTT(30), <2>1
  <2>5. Kinds
    BY ONLY <1>3, <2>1, <2>2, <2>4
  <2> HIDE DEF Kinds
  <2> QED BY <2>3, <2>5
<1>7. InFlight' = data /\ Kinds
  <2> HIDE DEF Kinds
  <2> QED BY <1>5, <1>6
<1>8. ~HasSession' /\ state' \in FileState /\ state' # "PENDING"
  BY DEF HasSession, FileState
<1>9. /\ accepted' \in BOOLEAN /\ blocksize' \in 0 .. MaxBlock /\ infile' \in FileState
      /\ aborted' \in BOOLEAN /\ failed' \in BOOLEAN /\ handed' \in Seq(Byte) /\ written' \in Nat
      /\ hash' \in SUBSET Seq(Byte)
      /\ verdict' \in {"none", "not verified", "corrupt", "verified"}
  BY <1>0, Types DEF Base, receiverVars
<1>10. transmit' \in 0 .. FileSize /\ buf' \in Seq(Byte) /\ size_buf' \in Nat
  BY <1>1
<1>11. TypeOK'
  BY <1>1, <1>7, <1>8, <1>9, <1>10, Zenon DEF TypeOK
<1>12. Shape'
  BY <1>7, <1>8 DEF Shape
<1>13. handed' = handed /\ written' = written /\ infile' = infile /\ verdict' = verdict
  BY DEF Base, receiverVars
<1>14. Ordered'
  <2>1. Scattered(handed', p)
    BY <1>13 DEF Base
  <2>2. Run(InFlight', p)
    BY <1>7
  <2>3. Run(buf', p + Len(InFlight'))
    BY DEF Run
  <2>4. transmit' = p + Len(InFlight') + Len(buf')
    BY <1>1, <1>2, <1>7
  <2> QED BY <2>1, <2>2, <2>3, <2>4, Zenon DEF Ordered
<1>15. Ends'
  <2>1. infile # "ENDING"
    BY DEF Ends, IInv, Base, HasSession
  <2> QED BY <1>8, <1>13, <2>1 DEF Ends
<1>16. Told'
  <2>1. Len(stanzas') # 1
    BY <1>7
  <2> QED BY <1>13, <2>1 DEF Told, Verified, IInv
<1>17. Len(buf') = 0
  OBVIOUS
<1>18. Room(size)
  BY SMTT(30), <1>1, <1>2, <1>7, <1>17 DEF Room
<1> QED BY <1>11, <1>12, <1>13, <1>14, <1>15, <1>16, <1>17, <1>18 DEF IInv

\* Nothing more goes out: what was read stays in the buffer.
LEMMA NothingSent ==
  ASSUME IInv, NEW p \in Nat, Base(p), NEW q \in transmit .. FileSize, NEW data \in Seq(Byte),
         Run(data, p), q = p + Len(data), NEW size \in Nat, Len(data) <= size,
         stanzas' = stanzas, buf' = data, transmit' = q, size_buf' = size,
         state' \in {"ERROR", "STARTING"}, failed' = TRUE
  PROVE  IInv' /\ Room(size)
<1>0. TypeOK
  BY DEF IInv
<1>1. stanzas' = <<>> /\ replies' = 0 /\ HasSession'
  BY DEF Base, HasSession
<1>2. /\ accepted' \in BOOLEAN /\ blocksize' \in 0 .. MaxBlock /\ infile' \in FileState
      /\ aborted' \in BOOLEAN
      /\ handed' \in Seq(Byte) /\ written' \in Nat /\ stanzas' \in Seq(IbbStanza)
      /\ hash' \in SUBSET Seq(Byte)
      /\ verdict' \in {"none", "not verified", "corrupt", "verified"}
  BY <1>0, Types DEF Base, receiverVars
<1>3a. FileSize \in Nat /\ transmit \in 0 .. FileSize
  BY <1>0, Types
<1>3. transmit' \in 0 .. FileSize /\ failed' \in BOOLEAN /\ state' \in FileState /\ replies' \in Nat
  BY <1>1, <1>3a DEF FileState
<1>4. TypeOK'
  BY <1>2, <1>3, Zenon DEF TypeOK
<1>5. Shape'
  BY <1>1 DEF Shape
<1>6. handed' = handed /\ written' = written /\ infile' = infile /\ verdict' = verdict
  BY DEF Base, receiverVars
<1>7. Ordered'
  <2>1. Scattered(handed', p)
    BY <1>6 DEF Base
  <2>2. InFlight' = <<>>
    BY <1>1, Zenon DEF InFlight
  <2>3. Run(InFlight', p)
    BY <2>2 DEF Run
  <2>4. p + Len(InFlight') = p
    BY <2>2
  <2>5. Run(buf', p + Len(InFlight')) /\ transmit' = p + Len(InFlight') + Len(buf')
    BY <2>4
  <2> QED BY <2>1, <2>3, <2>5, Zenon DEF Ordered
<1>8. Ends'
  <2>1. infile # "ENDING" /\ state' # "PENDING" /\ state' # "ENDING"
    BY DEF Ends, IInv, Base, HasSession
  <2> QED BY <1>6, <2>1 DEF Ends
<1>9. Told'
  BY <1>1, <1>6 DEF Told, Verified, IInv
<1>10. Room(size)
  BY <1>1 DEF Room
<1> QED BY <1>4, <1>5, <1>6, <1>7, <1>8, <1>9, <1>10 DEF IInv

LEMMA AllocatedEnough ==
  ASSUME NEW n \in Nat, size_buf \in Nat PROVE Allocated(n) \in Nat /\ n <= Allocated(n)
BY DEF Allocated

\* The mutual recursion of the two sends, however it ends.
LEMMA PumpKeeps ==
  ASSUME IInv, NEW p \in Nat, Base(p), Len(buf) <= blocksize, Pump PROVE IInv' /\ Room(size_buf')
<1>0. TypeOK
  BY DEF IInv
<1>1. /\ handed \in Seq(Byte) /\ blocksize \in Nat /\ FileSize \in Nat /\ transmit \in Nat
      /\ transmit \in 0 .. FileSize /\ size_buf \in Nat /\ buf \in Seq(Byte)
  BY <1>0, Types
<1>2. Len(buf) \in Nat /\ Run(buf, p) /\ transmit = p + Len(buf)
  BY <1>1 DEF Base
<1>3. ASSUME NEW q \in transmit .. FileSize
      PROVE  /\ Filled(q) \in Seq(Byte) /\ Len(Filled(q)) = Len(buf) + (q - transmit)
             /\ Run(Filled(q), p)
  BY <1>0, <1>2, FilledRun
<1>4. ASSUME NEW q \in transmit .. FileSize
      PROVE  /\ Filled(q) \in Seq(Byte) /\ q = p + Len(Filled(q)) /\ Len(Filled(q)) \in Nat
             /\ Allocated(Len(Filled(q))) \in Nat
             /\ Len(Filled(q)) <= Allocated(Len(Filled(q)))
  <2>1. q \in Int /\ Filled(q) \in Seq(Byte) /\ Len(Filled(q)) = Len(buf) + (q - transmit)
    BY <1>3
  <2>2. Len(Filled(q)) \in Nat /\ q = p + Len(Filled(q))
    BY <1>1, <1>2, <2>1
  <2> QED BY <1>1, <2>1, <2>2, AllocatedEnough
<1>5. ReadPoints \subseteq transmit .. FileSize
  BY <1>1 DEF ReadPoints
<1>6. CASE FillsBlock
  <2>1. PICK q \in ReadPoints :
          /\ Enough(q) /\ \A r \in ReadPoints : r < q => ~Enough(r)
          /\ SendBlock(Filled(q))
          /\ transmit' = q /\ size_buf' = Allocated(Len(Filled(q)))
          /\ state' = "STARTING"
          /\ UNCHANGED failed
    BY <1>6, Zenon DEF FillsBlock
  <2>2. q \in transmit .. FileSize
    BY <1>5
  <2> DEFINE data == Filled(q)
  <2> DEFINE size == Allocated(Len(data))
  <2>3. /\ data \in Seq(Byte) /\ Run(data, p) /\ q = p + Len(data)
        /\ Len(data) >= blocksize /\ size \in Nat /\ Len(data) <= size
    BY <1>3, <1>4, <2>1, <2>2 DEF Enough
  <2>4. SendBlock(data) /\ transmit' = q /\ size_buf' = size /\ state' = "STARTING" /\ UNCHANGED failed
    BY <2>1
  <2> HIDE DEF data, size
  <2> QED BY <2>2, <2>3, <2>4, BlockSent
<1>7. CASE ReachesEnd
  <2> DEFINE data == Filled(FileSize)
  <2> DEFINE size == Allocated(Len(data))
  <2>1. FileSize \in transmit .. FileSize
    BY <1>1
  <2>2. /\ data \in Seq(Byte) /\ Run(data, p) /\ FileSize = p + Len(data)
        /\ Len(data) \in Nat /\ size \in Nat /\ Len(data) <= size
    BY <1>3, <1>4, <2>1
  <2>3. Len(data) <= blocksize
    <3>1. CASE transmit = FileSize
      <4>1. Len(data) = Len(buf) + (FileSize - transmit)
        BY <1>3, <2>1
      <4> QED BY <1>1, <1>2, <3>1, <4>1
    <3>2. CASE transmit # FileSize
      <4>1. FileSize \in ReadPoints
        BY <1>1, <3>2 DEF ReadPoints
      <4>2. ~Enough(FileSize)
        BY <1>7, <4>1 DEF ReachesEnd
      <4> QED BY <1>1, <2>2, <4>2 DEF Enough
    <3> QED BY <3>1, <3>2
  <2>4. /\ stanzas' = Last(data) \o Farewell /\ buf' = <<>> /\ transmit' = FileSize /\ size_buf' = size
        /\ state' = "ENDING" /\ UNCHANGED failed
    <3>1. stanzas = <<>>
      BY DEF Base
    <3>2. stanzas' = stanzas \o Last(data) \o Farewell
      BY <1>7 DEF ReachesEnd
    <3>3. Last(data) \in Seq(IbbStanza)
      <4>1. Block(data) \in IbbStanza
        BY <2>2 DEF Block, IbbStanza
      <4> HIDE DEF data
      <4>2. Last(data) = <<>> \/ Last(data) = <<Block(data)>>
        BY Zenon DEF Last
      <4>3. ASSUME NEW S, NEW b \in S PROVE <<>> \in Seq(S) /\ <<b>> \in Seq(S)
        OBVIOUS
      <4> QED BY <4>1, <4>2, <4>3
    <3>4. <<>> \o Last(data) = Last(data)
      BY ONLY <3>3
    <3>5. stanzas' = Last(data) \o Farewell
      BY <3>1, <3>2, <3>4
    <3> QED BY <1>7, <3>5 DEF ReachesEnd
  <2> HIDE DEF data, size
  <2> QED BY <2>2, <2>3, <2>4, EndSent
<1>8. CASE ReadFails
  <2>1. PICK q \in ReadPoints \cup {transmit} :
          /\ \A r \in ReadPoints : r <= q => ~Enough(r)
          /\ buf' = Filled(q) /\ transmit' = q /\ size_buf' = Allocated(Len(Filled(q)))
          /\ state' \in {"ERROR", "STARTING"} /\ failed' = TRUE
          /\ UNCHANGED stanzas
    BY <1>8, Zenon DEF ReadFails
  <2>2. q \in transmit .. FileSize
    BY <1>1, <1>5
  <2> DEFINE data == Filled(q)
  <2> DEFINE size == Allocated(Len(data))
  <2>3. /\ data \in Seq(Byte) /\ size \in Nat /\ Len(data) <= size
        /\ Run(data, p) /\ q = p + Len(data)
    BY <1>3, <1>4, <2>2
  <2>4. /\ stanzas' = stanzas /\ buf' = data /\ transmit' = q /\ size_buf' = size
        /\ state' \in {"ERROR", "STARTING"} /\ failed' = TRUE
    BY <2>1
  <2> HIDE DEF data, size
  <2> QED BY <2>2, <2>3, <2>4, NothingSent
<1> QED BY <1>6, <1>7, <1>8 DEF Pump

LEMMA StartKeeps == ASSUME IInv, start PROVE IInv' /\ Room(size_buf')
<1>0. TypeOK
  BY DEF IInv
<1>1. stanzas = <<>> /\ replies = 0 /\ buf = <<>> /\ transmit = 0 /\ handed = <<>>
  BY DEF IInv, Ends, start
<1>2. HasSession
  BY DEF start, HasSession
<1>3. Base(0)
  BY <1>1, <1>2 DEF Base, start, Run, Scattered
<1>4. Len(buf) <= blocksize
  <2>1. blocksize \in Nat
    BY <1>0, Types
  <2> QED BY <1>1, <2>1
<1> QED BY <1>3, <1>4, PumpKeeps DEF start

\* The answer to a block.
LEMMA AckKeeps ==
  ASSUME IInv, jingle_ibb_handle_ack_iq_send
  PROVE  IInv' /\ (HasSession => Room(size_buf')) /\ (~HasSession => stanzas' = stanzas /\ buf' = buf)
<1>0. TypeOK
  BY DEF IInv
<1>1. replies \in Nat /\ replies > 0 /\ replies' = replies - 1 /\ UNCHANGED receiverVars
  BY <1>0, Types DEF jingle_ibb_handle_ack_iq_send
<1>2. CASE ~HasSession
  <2>1. /\ UNCHANGED <<state, accepted, blocksize, transmit, buf, size_buf, stanzas, failed>>
        /\ aborted' \in BOOLEAN
    BY <1>2 DEF jingle_ibb_handle_ack_iq_send
  <2>2. replies' \in Nat
    BY <1>1
  <2>3. TypeOK'
    BY <1>0, <1>1, <2>1, <2>2, Zenon DEF TypeOK, receiverVars
  <2>4. stanzas' = stanzas /\ HasSession' = HasSession /\ InFlight' = InFlight
    BY <2>1 DEF HasSession, InFlight
  <2>5. Shape'
    BY <1>2, <2>4 DEF Shape, IInv
  <2>6. Ordered'
    BY <1>1, <2>1, <2>4 DEF Ordered, IInv, receiverVars
  <2>7. Ends'
    BY <1>1, <1>2, <2>1 DEF Ends, IInv, receiverVars, HasSession
  <2>8. Told'
    BY <1>1, <2>1, <2>4 DEF Told, Verified, IInv, receiverVars
  <2> QED BY <1>1, <1>2, <2>1, <2>3, <2>5, <2>6, <2>7, <2>8 DEF IInv, receiverVars
<1>3. CASE HasSession
  <2>1. stanzas \in Seq(IbbStanza) /\ Len(stanzas) + replies <= 1 /\ Len(stanzas) \in Nat
    <3>1. stanzas \in Seq(IbbStanza)
      BY <1>0, Types
    <3>2. Len(stanzas) + replies <= 1
      BY <1>3 DEF IInv, Shape
    <3> QED BY <3>1, <3>2
  <2>2. Len(stanzas) = 0 /\ replies' = 0
    BY <1>1, <2>1
  <2>3. stanzas = <<>> /\ InFlight = <<>>
    BY <2>1, <2>2 DEF InFlight
  <2>4. handed \in Seq(Byte) /\ buf \in Seq(Byte) /\ blocksize \in Nat
        /\ transmit \in 0 .. FileSize /\ size_buf \in Nat /\ FileSize \in Nat
    BY <1>0, Types
  <2>5. PICK p \in Nat :
          /\ Scattered(handed, p) /\ Run(InFlight, p) /\ Run(buf, p + Len(InFlight))
          /\ transmit = p + Len(InFlight) + Len(buf)
    BY DEF Ordered, IInv
  <2>6. Scattered(handed, p) /\ Run(buf, p) /\ transmit = p + Len(buf)
    <3>1. p + Len(InFlight) = p
      BY <2>3
    <3> QED BY <2>5, <3>1
  <2>7. UNCHANGED <<accepted, aborted, receiverVars>> /\ UNCHANGED blocksize
    BY <1>3 DEF jingle_ibb_handle_ack_iq_send
  <2>8. Base(p)
    BY <1>3, <2>2, <2>3, <2>6, <2>7 DEF Base
  <2>9. CASE Len(buf) > blocksize
    <3>1. SendBlock(buf) /\ UNCHANGED <<state, accepted, blocksize, transmit, size_buf, aborted, failed>>
      BY <1>3, <2>4, <2>9 DEF jingle_ibb_handle_ack_iq_send
    <3>2. state # "PENDING"
      BY <1>1 DEF IInv, Ends
    <3>3. transmit \in transmit .. FileSize
      BY <2>4
    <3>4. Len(buf) >= blocksize /\ Len(buf) <= size_buf
      BY <2>4, <2>9 DEF IInv
    <3>5. transmit' = transmit /\ size_buf' = size_buf /\ state' \in {state, "STARTING"} /\ failed' = failed
      BY <3>1
    <3>6. IInv' /\ Room(size_buf)
      BY <2>4, <2>6, <2>8, <3>1, <3>2, <3>3, <3>4, <3>5, BlockSent
    <3> QED BY <1>3, <3>5, <3>6
  <2>10. CASE Len(buf) <= blocksize
    <3>1. Pump
      BY <1>3, <2>4, <2>10 DEF jingle_ibb_handle_ack_iq_send
    <3> QED BY <1>3, <2>8, <2>10, <3>1, PumpKeeps
  <2> QED BY <2>4, <2>9, <2>10
<1> QED BY <1>2, <1>3

-----------------------------------------------------------------------------
(* The other steps *)

LEMMA AcceptKeeps == ASSUME IInv, session_accept PROVE IInv'
<1>0. TypeOK
  BY DEF IInv
<1>1. PICK y \in Answers : blocksize' = Negotiated(y)
  BY DEF session_accept
<1>2. blocksize' \in 0 .. MaxBlock
  BY <1>0, <1>1, NegotiatedType
<1>3. /\ UNCHANGED <<state, transmit, buf, size_buf, aborted, stanzas, replies, receiverVars, failed>>
      /\ accepted' = TRUE
  BY DEF session_accept
<1>4. TypeOK'
  BY <1>0, <1>2, <1>3, Zenon DEF TypeOK, receiverVars
<1>5. stanzas' = stanzas /\ HasSession' = HasSession /\ InFlight' = InFlight
  BY <1>3 DEF HasSession, InFlight
<1>6. Shape' /\ Ordered'
  BY <1>3, <1>5 DEF IInv, Shape, Ordered, receiverVars
<1>7. Ends' /\ Told'
  BY <1>3, <1>5 DEF IInv, Ends, Told, Verified, receiverVars
<1> QED BY <1>3, <1>4, <1>6, <1>7 DEF IInv, receiverVars

\* What the first of the stanzas under way and the rest of them are.
LEMMA HeadTail ==
  ASSUME NEW s \in Seq(IbbStanza), s # <<>>
  PROVE  /\ Head(s) = s[1] /\ s[1] \in IbbStanza /\ Len(s) \in Nat \ {0}
         /\ Tail(s) \in Seq(IbbStanza) /\ Len(Tail(s)) = Len(s) - 1
         /\ \A i \in 1 .. Len(s) - 1 : Tail(s)[i] = s[i + 1]
OBVIOUS

\* Whatever is taken off, the shape stays.
LEMMA ShapeTail ==
  ASSUME TypeOK, Shape, stanzas # <<>>, stanzas' = Tail(stanzas), HasSession' = HasSession,
         replies' \in {replies, replies + 1}, ~HasSession => replies' \in Nat,
         HasSession => replies' <= replies + 1
  PROVE  Shape'
<1>1. stanzas \in Seq(IbbStanza) /\ replies \in Nat
  BY Types
<1> DEFINE t == Tail(stanzas)
<1>2. /\ Len(stanzas) \in Nat \ {0} /\ t \in Seq(IbbStanza) /\ Len(t) = Len(stanzas) - 1
      /\ \A i \in 1 .. Len(stanzas) - 1 : t[i] = stanzas[i + 1]
  BY <1>1, HeadTail
<1> HIDE DEF t
<1>3. \A i \in DOMAIN t : i \in 1 .. Len(stanzas) - 1 /\ i + 1 \in DOMAIN stanzas
  BY <1>1, <1>2
<1>4. stanzas' = t
  BY DEF t
<1>5. \A i \in DOMAIN t : t[i].type = "hash" => t[i].data = File
  BY <1>2, <1>3 DEF Shape
<1>6. CASE HasSession
  <2>1. Len(t) = 0 /\ Len(t) + replies' <= 1
    BY <1>1, <1>2, <1>6 DEF Shape
  <2>2. \A i \in DOMAIN t : FALSE
    BY <1>2, <2>1
  <2> QED BY <1>4, <1>6, <2>1, <2>2 DEF Shape
<1>7. CASE ~HasSession
  <2>1. Len(t) <= 3
    BY <1>2, <1>7 DEF Shape
  <2>2. \A i \in DOMAIN t : t[i].type = IF i = Len(t) THEN "session-terminate"
                                         ELSE IF i = Len(t) - 1 THEN "hash" ELSE "data"
    <3> SUFFICES ASSUME NEW i \in DOMAIN t
                 PROVE  t[i].type = IF i = Len(t) THEN "session-terminate"
                                    ELSE IF i = Len(t) - 1 THEN "hash" ELSE "data"
      OBVIOUS
    <3>1. i \in Int /\ t[i] = stanzas[i + 1] /\ i + 1 \in DOMAIN stanzas
      BY <1>2, <1>3
    <3>2. stanzas[i + 1].type = IF i + 1 = Len(stanzas) THEN "session-terminate"
                                ELSE IF i + 1 = Len(stanzas) - 1 THEN "hash" ELSE "data"
      BY <1>7, <3>1 DEF Shape
    <3>3. (i + 1 = Len(stanzas) <=> i = Len(t)) /\ (i + 1 = Len(stanzas) - 1 <=> i = Len(t) - 1)
      BY <1>2, <3>1
    <3> QED BY <3>1, <3>2, <3>3
  <2> QED BY <1>4, <1>5, <1>7, <2>1, <2>2 DEF Shape
<1> QED BY <1>6, <1>7

\* Where a stanza of each type is.
LEMMA FirstIs ==
  ASSUME TypeOK, Shape, stanzas # <<>>
  PROVE  /\ stanzas[1].type = "data" => HasSession \/ Len(stanzas) = 3
         /\ stanzas[1].type = "hash" =>
              ~HasSession /\ Len(stanzas) = 2 /\ stanzas[1].data = File /\ stanzas[2].type # "data"
         /\ stanzas[1].type = "session-terminate" => ~HasSession /\ Len(stanzas) = 1
<1>1. stanzas \in Seq(IbbStanza)
  BY Types
<1>2. Len(stanzas) \in Nat \ {0} /\ 1 \in DOMAIN stanzas
  BY <1>1, HeadTail
<1>3. CASE HasSession
  BY <1>2, <1>3 DEF Shape
<1>4. CASE ~HasSession
  <2>1. Len(stanzas) <= 3
    BY <1>4 DEF Shape
  <2>2. stanzas[1].type = IF 1 = Len(stanzas) THEN "session-terminate"
                          ELSE IF 1 = Len(stanzas) - 1 THEN "hash" ELSE "data"
    BY <1>2, <1>4 DEF Shape
  <2>3. Len(stanzas) = 1 \/ Len(stanzas) = 2 \/ Len(stanzas) = 3
    <3>1. ASSUME NEW n \in Nat \ {0}, n <= 3 PROVE n = 1 \/ n = 2 \/ n = 3
      BY <3>1
    <3> QED BY <1>2, <2>1, <3>1
  <2>4. stanzas[1].type = "hash" => stanzas[1].data = File
    BY <1>2 DEF Shape
  <2>5. Len(stanzas) = 2 => stanzas[2].type = "session-terminate"
    BY <1>1, <1>4 DEF Shape
  <2> QED BY <1>4, <2>2, <2>3, <2>4, <2>5
<1> QED BY <1>3, <1>4

\* Once the block under way is off, no other is behind it.
LEMMA NoneBehind ==
  ASSUME TypeOK, Shape, stanzas # <<>>, Head(stanzas).type = "data", stanzas' = Tail(stanzas)
  PROVE  InFlight' = <<>> /\ (Len(stanzas') = 1 => HasSession)
<1>1. stanzas \in Seq(IbbStanza)
  BY Types
<1>2. /\ stanzas[1].type = "data" /\ Len(stanzas) \in Nat \ {0}
      /\ Tail(stanzas) \in Seq(IbbStanza) /\ Len(Tail(stanzas)) = Len(stanzas) - 1
      /\ \A i \in 1 .. Len(stanzas) - 1 : Tail(stanzas)[i] = stanzas[i + 1]
  BY <1>1, HeadTail
<1>3. InFlight' = <<>>
  <2>1. CASE stanzas' = <<>>
    BY <2>1 DEF InFlight
  <2>2. CASE stanzas' # <<>>
    <3>1. Len(Tail(stanzas)) # 0
      BY <1>2, <2>2
    <3>2. Len(stanzas) > 1
      BY <1>2, <3>1
    <3>3. ~HasSession
      <4>1. HasSession => Len(stanzas) + replies <= 1
        BY DEF Shape
      <4>2. replies \in Nat
        BY Types
      <4> QED BY <1>2, <3>2, <4>1, <4>2
    <3>4. Len(stanzas) = 3 /\ stanzas'[1] = stanzas[2]
      BY <1>2, <3>3, FirstIs
    <3>5. stanzas[2].type = "hash"
      BY <1>1, <3>3, <3>4 DEF Shape
    <3> QED BY <3>4, <3>5, Zenon DEF InFlight
  <2> QED BY <2>1, <2>2
<1>4. Len(stanzas') = 1 => HasSession
  <2>1. HasSession \/ Len(stanzas) = 3
    BY <1>2, FirstIs
  <2>2. Len(stanzas) = 3 => Len(stanzas') # 1
    BY SMTT(30), <1>2
  <2> QED BY <2>1, <2>2, Zenon
<1> QED BY <1>3, <1>4

\* The bytes that come next stay in order behind those handed over.
LEMMA ScatteredRun ==
  ASSUME NEW s \in Seq(Byte), NEW d \in Seq(Byte), NEW p \in Nat, Scattered(s, p), Run(d, p)
  PROVE  Scattered(s \o d, p + Len(d))
<1>1. s \o d \in Seq(Byte) /\ Len(s \o d) = Len(s) + Len(d) /\ Len(s) \in Nat /\ Len(d) \in Nat
  OBVIOUS
<1>2. \A i \in 1 .. Len(s) + Len(d) :
        (s \o d)[i] = IF i <= Len(s) THEN s[i] ELSE d[i - Len(s)]
  OBVIOUS
<1>3. Len(s) <= p
  BY DEF Scattered
<1>4. ASSUME NEW i \in 1 .. Len(s) + Len(d)
      PROVE  i <= (s \o d)[i] /\ (s \o d)[i] + (Len(s) + Len(d)) <= p + Len(d) + i
  <2>1. CASE i <= Len(s)
    <3>1. i \in DOMAIN s /\ s[i] \in Nat
      BY <1>1, <2>1, SizesAssumption DEF Byte
    <3>2. i <= s[i] /\ s[i] + Len(s) <= p + i
      BY <3>1 DEF Scattered
    <3>3. (s \o d)[i] = s[i]
      BY <1>2, <2>1
    <3> QED BY <1>1, <3>1, <3>2, <3>3
  <2>2. CASE i > Len(s)
    <3>1. i - Len(s) \in DOMAIN d
      BY <1>1, <2>2
    <3>2. d[i - Len(s)] = p + (i - Len(s))
      BY <3>1 DEF Run
    <3>3. (s \o d)[i] = p + (i - Len(s))
      BY <1>1, <1>2, <2>2, <3>2
    <3> QED BY <1>1, <1>3, <3>3
  <2> QED BY <1>1, <2>1, <2>2
<1>5. DOMAIN (s \o d) = 1 .. Len(s) + Len(d)
  BY <1>1
<1> QED BY <1>1, <1>3, <1>4, <1>5 DEF Scattered

\* Bytes that pass and are lost.
LEMMA ScatteredMore ==
  ASSUME NEW s \in Seq(Byte), NEW p \in Nat, NEW k \in Nat, Scattered(s, p)
  PROVE  Scattered(s, p + k)
<1>1. Len(s) <= p /\ \A i \in DOMAIN s : i <= s[i] /\ s[i] + Len(s) <= p + i
  BY Zenon DEF Scattered
<1>2. Len(s) <= p + k
  BY <1>1
<1>3. ASSUME NEW i \in DOMAIN s PROVE i <= s[i] /\ s[i] + Len(s) <= p + k + i
  <2>1. i \in Nat /\ s[i] \in Nat
    BY SizesAssumption DEF Byte
  <2> QED BY <1>1, <2>1
<1> QED BY <1>2, <1>3 DEF Scattered

\* The block under way holds bytes of the file.
LEMMA FlightSeq == ASSUME TypeOK PROVE InFlight \in Seq(Byte) /\ Len(InFlight) \in Nat
<1>1. stanzas \in Seq(IbbStanza)
  BY Types
<1>2. CASE stanzas # <<>> /\ stanzas[1].type = "data"
  <2>1. stanzas[1] \in IbbStanza
    BY <1>1, <1>2, HeadTail
  <2> QED BY <1>2, <2>1 DEF InFlight, IbbStanza
<1>3. CASE ~(stanzas # <<>> /\ stanzas[1].type = "data")
  <2>1. InFlight = <<>>
    BY <1>3, Zenon DEF InFlight
  <2> QED BY <2>1
<1> QED BY <1>2, <1>3

\* A block is handed over: the next bytes of the file after some that are before it.
LEMMA ReceiveBlockKeeps ==
  ASSUME IInv, ReceiveBlock
  PROVE  /\ IInv' /\ handed' = handed \o InFlight
         /\ InFlight \in Seq(Byte) /\ written' \in {written, written + Len(InFlight)}
         /\ \E p \in Nat : /\ Scattered(handed, p) /\ Run(InFlight, p)
                           /\ p + Len(InFlight) <= FileSize
         /\ infile # "ENDING" /\ infile' # "ENDING"
<1>0. TypeOK /\ Shape /\ Ordered
  BY DEF IInv
<1>1. /\ stanzas # <<>> /\ Head(stanzas).type = "data" /\ stanzas' = Tail(stanzas)
      /\ replies' = replies + 1 /\ handed' = handed \o Head(stanzas).data
      /\ UNCHANGED <<state, accepted, blocksize, transmit, buf, size_buf, aborted, hash, verdict>>
      /\ infile' \in {infile, "STARTING"} /\ failed' \in {failed, TRUE}
      /\ written' \in {written, written + Len(Head(stanzas).data)}
  BY DEF ReceiveBlock, senderVars
<1>2. stanzas \in Seq(IbbStanza) /\ replies \in Nat /\ handed \in Seq(Byte) /\ buf \in Seq(Byte)
      /\ FileSize \in Nat /\ transmit \in 0 .. FileSize /\ written \in Nat
  BY <1>0, Types
<1> DEFINE d == InFlight
<1>3. /\ Head(stanzas) = stanzas[1] /\ stanzas[1].type = "data" /\ Len(stanzas) \in Nat \ {0}
      /\ Tail(stanzas) \in Seq(IbbStanza) /\ Len(Tail(stanzas)) = Len(stanzas) - 1
      /\ \A i \in 1 .. Len(stanzas) - 1 : Tail(stanzas)[i] = stanzas[i + 1]
      /\ stanzas[1] \in IbbStanza
  BY <1>1, <1>2, HeadTail
<1>4. d = stanzas[1].data /\ d \in Seq(Byte)
  BY <1>1, <1>3 DEF InFlight, IbbStanza
<1>5. PICK p \in Nat :
        /\ Scattered(handed, p) /\ Run(InFlight, p) /\ Run(buf, p + Len(InFlight))
        /\ transmit = p + Len(InFlight) + Len(buf)
  BY <1>0, Zenon DEF Ordered
<1> HIDE DEF d
<1>6. handed' = handed \o d /\ written' \in {written, written + Len(d)}
  BY <1>1, <1>3, <1>4
<1>7. /\ Scattered(handed, p) /\ Run(d, p) /\ Run(buf, p + Len(d))
      /\ transmit = p + Len(d) + Len(buf)
  BY <1>5 DEF d
<1>8. Len(handed) \in Nat /\ Len(d) \in Nat /\ Len(buf) \in Nat
  BY <1>2, <1>4
<1>9. /\ handed' \in Seq(Byte) /\ Len(handed') = Len(handed) + Len(d)
      /\ Scattered(handed', p + Len(d))
  <2>1. handed \o d \in Seq(Byte) /\ Len(handed \o d) = Len(handed) + Len(d)
    BY <1>2, <1>4
  <2>2. Scattered(handed \o d, p + Len(d))
    BY <1>2, <1>4, <1>7, ScatteredRun
  <2> QED BY <1>6, <2>1, <2>2
<1>10. p + Len(d) <= FileSize
  BY <1>2, <1>7, <1>8
<1>11. infile # "ENDING"
  BY <1>1 DEF IInv, Ends
<1>12. infile' # "ENDING"
  BY <1>1, <1>11
<1>13. infile' \in FileState /\ failed' \in BOOLEAN /\ written' \in Nat /\ replies' \in Nat
  <2>1. infile \in FileState /\ failed \in BOOLEAN
    BY <1>0, Types
  <2>2. written' \in Nat /\ replies' \in Nat
    BY <1>1, <1>2, <1>6, <1>8
  <2> QED BY <1>1, <2>1, <2>2 DEF FileState
<1>14. TypeOK'
  BY <1>0, <1>1, <1>3, <1>9, <1>13, Zenon DEF TypeOK
<1>15. HasSession' = HasSession
  BY <1>1 DEF HasSession
<1>16. Shape'
  <2>1. replies' \in {replies, replies + 1} /\ replies' <= replies + 1
    BY <1>1, <1>13
  <2> QED BY <1>0, <1>1, <1>13, <1>15, <2>1, ShapeTail
<1>17. InFlight' = <<>> /\ (Len(stanzas') = 1 => HasSession)
  BY <1>0, <1>1, NoneBehind
<1>18. Ordered'
  <2>1. p + Len(d) \in Nat /\ p + Len(d) + Len(InFlight') = p + Len(d)
    BY <1>8, <1>17
  <2>2. Run(InFlight', p + Len(d))
    BY <1>17 DEF Run
  <2>3. /\ Run(buf', p + Len(d) + Len(InFlight'))
        /\ transmit' = p + Len(d) + Len(InFlight') + Len(buf')
    BY <1>1, <1>7, <2>1
  <2> QED BY <1>9, <2>1, <2>2, <2>3, Zenon DEF Ordered
<1>19. Ends'
  <2>1. state # "PENDING"
    BY <1>1 DEF IInv, Ends
  <2> QED BY <1>1, <1>12, <2>1 DEF IInv, Ends
<1>20. Told'
  BY <1>12, <1>15, <1>17 DEF Told, Verified
<1>21. written' <= Len(handed')
  <2>1. written <= Len(handed)
    BY DEF IInv
  <2> QED BY <1>2, <1>6, <1>8, <1>9, <2>1
<1>22. Len(buf') <= size_buf'
  BY <1>1 DEF IInv
<1>23. IInv'
  BY <1>14, <1>16, <1>18, <1>19, <1>20, <1>21, <1>22 DEF IInv
<1> QED BY <1>4, <1>6, <1>7, <1>10, <1>11, <1>12, <1>23 DEF d

\* A block is lost: what follows it stays where it is.
LEMMA LoseBlockKeeps == ASSUME IInv, LoseBlock PROVE IInv'
<1>0. TypeOK /\ Shape /\ Ordered
  BY DEF IInv
<1>1. /\ stanzas # <<>> /\ Head(stanzas).type = "data" /\ stanzas' = Tail(stanzas)
      /\ replies' = replies + 1 /\ failed' = TRUE
      /\ UNCHANGED <<state, accepted, blocksize, transmit, buf, size_buf, aborted>>
      /\ UNCHANGED <<infile, handed, written, hash, verdict>>
  BY DEF LoseBlock, senderVars, receiverVars
<1>2. stanzas \in Seq(IbbStanza) /\ replies \in Nat /\ handed \in Seq(Byte)
      /\ FileSize \in Nat /\ transmit \in 0 .. FileSize
  BY <1>0, Types
<1>3. Tail(stanzas) \in Seq(IbbStanza) /\ Len(InFlight) \in Nat
  BY <1>0, <1>1, <1>2, FlightSeq, HeadTail
<1>4. PICK p \in Nat :
        /\ Scattered(handed, p) /\ Run(InFlight, p) /\ Run(buf, p + Len(InFlight))
        /\ transmit = p + Len(InFlight) + Len(buf)
  BY <1>0, Zenon DEF Ordered
<1> DEFINE r == p + Len(InFlight)
<1>5. r \in Nat /\ Run(buf, r) /\ transmit = r + Len(buf)
  BY <1>3, <1>4
<1>6. Scattered(handed, r)
  BY <1>2, <1>3, <1>4, ScatteredMore
<1> HIDE DEF r
<1>7. InFlight' = <<>> /\ (Len(stanzas') = 1 => HasSession)
  BY <1>0, <1>1, NoneBehind
<1>8. HasSession' = HasSession
  BY <1>1 DEF HasSession
<1>9. TypeOK'
  <2>1. replies' \in Nat /\ failed' \in BOOLEAN
    BY <1>1, <1>2
  <2> QED BY <1>0, <1>1, <1>3, <2>1, Zenon DEF TypeOK
<1>10. Shape'
  <2>1. replies' \in Nat /\ replies' \in {replies, replies + 1} /\ replies' <= replies + 1
    BY <1>1, <1>2
  <2> QED BY <1>0, <1>1, <1>8, <2>1, ShapeTail
<1>11. Ordered'
  <2>1. r + Len(InFlight') = r /\ Run(InFlight', r)
    BY <1>5, <1>7 DEF Run
  <2>2. Scattered(handed', r) /\ Run(buf', r + Len(InFlight'))
        /\ transmit' = r + Len(InFlight') + Len(buf')
    BY <1>1, <1>5, <1>6, <2>1
  <2> QED BY <1>5, <2>1, <2>2, Zenon DEF Ordered
<1>12. infile # "ENDING" /\ state # "PENDING"
  BY <1>1 DEF IInv, Ends
<1>13. Ends'
  BY <1>1, <1>12 DEF IInv, Ends
<1>14. Told'
  BY <1>1, <1>7, <1>8, <1>12 DEF Told, Verified
<1>15. written' <= Len(handed') /\ Len(buf') <= size_buf'
  BY <1>1 DEF IInv
<1> QED BY <1>9, <1>10, <1>11, <1>13, <1>14, <1>15 DEF IInv

LEMMA ReceiveHashKeeps == ASSUME IInv, ReceiveHash PROVE IInv'
<1>0. TypeOK /\ Shape /\ Ordered
  BY DEF IInv
<1>1. /\ stanzas # <<>> /\ Head(stanzas).type = "hash" /\ stanzas' = Tail(stanzas)
      /\ hash' = {Head(stanzas).data}
      /\ UNCHANGED <<state, accepted, blocksize, transmit, buf, size_buf, aborted>>
      /\ UNCHANGED <<replies, infile, handed, written, verdict, failed>>
  BY DEF ReceiveHash, senderVars
<1>2. stanzas \in Seq(IbbStanza) /\ replies \in Nat
  BY <1>0, Types
<1>3. /\ Head(stanzas) = stanzas[1] /\ stanzas[1].type = "hash"
      /\ Tail(stanzas) \in Seq(IbbStanza) /\ Len(Tail(stanzas)) = Len(stanzas) - 1
      /\ \A i \in 1 .. Len(stanzas) - 1 : Tail(stanzas)[i] = stanzas[i + 1]
  BY <1>1, <1>2, HeadTail
<1>4. ~HasSession /\ Len(stanzas) = 2 /\ stanzas[1].data = File /\ stanzas[2].type # "data"
  BY <1>0, <1>1, <1>3, FirstIs
<1>5. hash' = {File} /\ stanzas'[1].type # "data"
  <2>1. 1 \in 1 .. Len(stanzas) - 1 /\ 1 + 1 = 2
    BY <1>4
  <2>2. Tail(stanzas)[1] = stanzas[2]
    BY <1>3, <2>1
  <2> QED BY <1>1, <1>3, <1>4, <2>2
<1>6. InFlight' = <<>> /\ InFlight = <<>>
  BY <1>3, <1>5, Zenon DEF InFlight
<1>7. HasSession' = HasSession
  BY <1>1 DEF HasSession
<1>8. TypeOK'
  <2>1. hash' \subseteq Seq(Byte)
    BY <1>5, FileSeq
  <2>2. /\ state \in FileState /\ accepted \in BOOLEAN /\ blocksize \in 0 .. MaxBlock
        /\ transmit \in 0 .. FileSize /\ buf \in Seq(Byte) /\ size_buf \in Nat
        /\ aborted \in BOOLEAN /\ replies \in Nat /\ failed \in BOOLEAN
        /\ infile \in FileState /\ handed \in Seq(Byte) /\ written \in Nat
        /\ verdict \in {"none", "not verified", "corrupt", "verified"}
    BY <1>0, Zenon DEF TypeOK
  <2> QED BY <1>1, <1>3, <2>1, <2>2, Zenon DEF TypeOK
<1>9. Shape'
  BY <1>0, <1>1, <1>2, <1>4, <1>7, ShapeTail
<1>10. Ordered'
  BY <1>0, <1>1, <1>6 DEF Ordered
<1>11. Ends'
  BY <1>1 DEF IInv, Ends
<1>12. Told'
  BY <1>1, <1>5 DEF IInv, Told, Verified
<1> QED BY <1>1, <1>8, <1>9, <1>10, <1>11, <1>12 DEF IInv

\* The end of the session arrives: a file that counts as complete is complete.
LEMMA ReceiveTerminateKeeps ==
  ASSUME IInv, ReceiveTerminate
  PROVE  /\ IInv' /\ UNCHANGED <<handed, written>>
         /\ infile # "ENDING"
         /\ infile' = "ENDING" => handed = File /\ written = FileSize
<1>0. TypeOK /\ Shape /\ Ordered /\ Ends /\ Told
  BY DEF IInv
<1>1. /\ stanzas # <<>> /\ Head(stanzas).type = "session-terminate" /\ stanzas' = Tail(stanzas)
      /\ infile' = StopState /\ verdict' = IF StopState = "ENDING" THEN Checked ELSE verdict
      /\ UNCHANGED <<state, accepted, blocksize, transmit, buf, size_buf, aborted>>
      /\ UNCHANGED <<replies, handed, written, hash, failed>>
  BY DEF ReceiveTerminate, senderVars
<1>2. stanzas \in Seq(IbbStanza) /\ replies \in Nat /\ handed \in Seq(Byte) /\ written \in Nat
      /\ FileSize \in Nat
  BY <1>0, Types
<1>3. /\ Head(stanzas) = stanzas[1] /\ stanzas[1].type = "session-terminate"
      /\ Tail(stanzas) \in Seq(IbbStanza) /\ Len(Tail(stanzas)) = Len(stanzas) - 1
  BY <1>1, <1>2, HeadTail
<1>4. ~HasSession /\ Len(stanzas) = 1
  BY <1>0, <1>1, <1>3, FirstIs
<1>5. stanzas' = <<>> /\ InFlight = <<>> /\ InFlight' = <<>>
  <2>1. stanzas' \in Seq(IbbStanza) /\ Len(stanzas') = 0
    BY <1>1, <1>3, <1>4
  <2>2. stanzas' = <<>>
    BY <2>1
  <2> QED BY <1>3, <2>2, Zenon DEF InFlight
<1>6. HasSession' = HasSession /\ state = "ENDING"
  BY <1>1, <1>4 DEF HasSession
<1>7. PICK p \in Nat :
        /\ Scattered(handed, p) /\ Run(InFlight, p) /\ Run(buf, p + Len(InFlight))
        /\ transmit = p + Len(InFlight) + Len(buf)
  BY <1>0, Zenon DEF Ordered
<1>8. infile' = "ENDING" => handed = File /\ written = FileSize
  <2> SUFFICES ASSUME infile' = "ENDING" PROVE handed = File /\ written = FileSize
    OBVIOUS
  <2>1. written >= FileSize
    BY <1>1, <1>2 DEF StopState
  <2>2. written <= Len(handed) /\ Len(handed) <= p
    BY <1>7 DEF IInv, Scattered
  <2>3. p <= FileSize
    <3>0. transmit \in 0 .. FileSize /\ buf \in Seq(Byte)
      BY <1>0, Types
    <3>1. transmit \in 0 .. FileSize /\ Len(buf) \in Nat
      BY <3>0
    <3>2. transmit = p + Len(buf)
      BY <1>5, <1>7
    <3> QED BY <1>2, <3>1, <3>2
  <2>4. written = FileSize /\ Len(handed) = FileSize /\ p = FileSize
    BY <1>2, <2>1, <2>2, <2>3
  <2>5. Run(handed, 0)
    <3>1. ASSUME NEW i \in DOMAIN handed PROVE handed[i] = 0 + i
      <4>1. i \in Nat /\ handed[i] \in Nat
        BY <1>2 DEF Byte
      <4>2. i <= handed[i] /\ handed[i] + Len(handed) <= p + i
        BY <1>7 DEF Scattered
      <4> QED BY <1>2, <2>4, <4>1, <4>2
    <3> QED BY <3>1 DEF Run
  <2>6. handed = SubSeq(File, 1, FileSize)
    BY <1>2, <2>4, <2>5, RunPrefix
  <2>7. SubSeq(File, 1, FileSize) = File
    BY <1>2, FileSeq
  <2> QED BY <2>4, <2>6, <2>7
<1>9. hash = {File}
  BY <1>0, <1>4 DEF Told
<1>10. infile # "ENDING"
  BY <1>0, <1>1 DEF Ends
<1>12. infile' \in {"ENDING", "ERROR"}
  BY <1>1 DEF StopState
<1>13. infile' = "ENDING" /\ FileSize # 0 => verdict' = "verified"
  <2>1. infile' = "ENDING" /\ FileSize # 0 => md5 = {File}
    BY <1>2, <1>8, FileSeq DEF md5
  <2>2. infile' = "ENDING" /\ FileSize # 0 => Checked = "verified"
    BY <1>9, <2>1 DEF Checked
  <2> QED BY <1>1, <2>2 DEF StopState
<1>14. TypeOK'
  <2>1. infile' \in FileState
    BY <1>12 DEF FileState
  <2>2. verdict \in {"none", "not verified", "corrupt", "verified"}
    BY <1>0, Types
  <2>3. Checked \in {"none", "not verified", "corrupt", "verified"}
    BY DEF Checked
  <2>4. verdict' \in {"none", "not verified", "corrupt", "verified"}
    BY <1>1, <2>2, <2>3
  <2> QED BY <1>0, <1>1, <1>3, <2>1, <2>4, Zenon DEF TypeOK
<1>15. Shape'
  BY <1>0, <1>1, <1>2, <1>4, <1>6, ShapeTail
<1>16. Ordered'
  BY <1>0, <1>1, <1>5 DEF Ordered
<1>17. Ends'
  BY <1>0, <1>1, <1>5, <1>6 DEF Ends
<1>18. Told'
  <2>1. Len(stanzas') # 1
    BY <1>5
  <2> QED BY <1>13, <2>1 DEF Told, Verified
<1> QED BY <1>1, <1>8, <1>10, <1>14, <1>15, <1>16, <1>17, <1>18 DEF IInv

LEMMA DisconnectKeeps == ASSUME IInv, Disconnect PROVE IInv'
<1>0. TypeOK
  BY DEF IInv
<1>1. /\ stanzas' = <<>> /\ replies' = 0 /\ failed' = TRUE
      /\ UNCHANGED <<senderVars, receiverVars>>
  BY DEF Disconnect
<1>2. HasSession' = HasSession
  BY <1>1 DEF HasSession, senderVars
<1>3. stanzas' \in Seq(IbbStanza) /\ replies' \in Nat /\ failed' \in BOOLEAN
  BY <1>1
<1>4. TypeOK'
  BY <1>0, <1>1, <1>3, Zenon DEF TypeOK, senderVars, receiverVars
<1>5. Shape'
  BY <1>1, <1>2 DEF Shape
<1>6. Ordered'
  <2>1. PICK p \in Nat :
          /\ Scattered(handed, p) /\ Run(InFlight, p) /\ Run(buf, p + Len(InFlight))
          /\ transmit = p + Len(InFlight) + Len(buf)
    BY Zenon DEF IInv, Ordered
  <2>2. InFlight' = <<>> /\ handed' = handed /\ buf' = buf /\ transmit' = transmit
    BY <1>1 DEF InFlight, senderVars, receiverVars
  <2>3. handed \in Seq(Byte) /\ Len(InFlight) \in Nat
    BY <1>0, FlightSeq, Types
  <2>4. p + Len(InFlight) \in Nat /\ p + Len(InFlight) + Len(InFlight') = p + Len(InFlight)
    BY <2>2, <2>3
  <2>5. Scattered(handed', p + Len(InFlight))
    BY <2>1, <2>2, <2>3, ScatteredMore
  <2>6. Run(InFlight', p + Len(InFlight))
    BY <2>2 DEF Run
  <2>7. /\ Run(buf', p + Len(InFlight) + Len(InFlight'))
        /\ transmit' = p + Len(InFlight) + Len(InFlight') + Len(buf')
    BY <2>1, <2>2, <2>4
  <2> QED BY <2>4, <2>5, <2>6, <2>7, Zenon DEF Ordered
<1>7. Ends'
  BY <1>1 DEF IInv, Ends, senderVars, receiverVars
<1>8. Told'
  BY <1>1 DEF IInv, Told, Verified, receiverVars
<1> QED BY <1>1, <1>4, <1>5, <1>6, <1>7, <1>8 DEF IInv, senderVars, receiverVars

LEMMA StutterKeeps == ASSUME IInv, UNCHANGED vars PROVE IInv'
<1>0. TypeOK
  BY DEF IInv
<1>1. TypeOK'
  BY <1>0, Zenon DEF TypeOK, vars
<1>2. HasSession' = HasSession /\ InFlight' = InFlight
  BY DEF HasSession, InFlight, vars
<1>3. Shape' /\ Ordered'
  BY <1>2 DEF IInv, Shape, Ordered, vars
<1>4. Ends' /\ Told'
  BY <1>2 DEF IInv, Ends, Told, Verified, vars
<1> QED BY <1>1, <1>3, <1>4 DEF IInv, vars

LEMMA Initially == ASSUME Init PROVE IInv
<1>1. /\ state = "PENDING" /\ accepted = FALSE /\ blocksize = MaxBlock /\ transmit = 0
      /\ buf = <<>> /\ size_buf = 0 /\ aborted = FALSE /\ stanzas = <<>> /\ replies = 0
      /\ infile = "PENDING" /\ handed = <<>> /\ written = 0
      /\ hash = {} /\ verdict = "none" /\ failed = FALSE
  BY DEF Init
<1>2. FileSize \in Nat /\ MaxBlock \in Nat
  BY SizesAssumption
<1>3. TypeOK
  <2>1. state \in FileState /\ infile \in FileState /\ accepted \in BOOLEAN
        /\ aborted \in BOOLEAN /\ failed \in BOOLEAN
    BY <1>1 DEF FileState
  <2>2. blocksize \in 0 .. MaxBlock /\ transmit \in 0 .. FileSize /\ size_buf \in Nat
        /\ replies \in Nat /\ written \in Nat
    BY <1>1, <1>2
  <2>3. buf \in Seq(Byte) /\ stanzas \in Seq(IbbStanza) /\ handed \in Seq(Byte)
    BY <1>1
  <2>4. hash \subseteq Seq(Byte) /\ verdict \in {"none", "not verified", "corrupt", "verified"}
    BY <1>1
  <2> QED BY <2>1, <2>2, <2>3, <2>4, Zenon DEF TypeOK
<1>4. HasSession
  BY <1>1 DEF HasSession
<1>5. Shape
  BY <1>1, <1>4 DEF Shape
<1>6. Ordered
  <2>1. InFlight = <<>>
    BY <1>1, Zenon DEF InFlight
  <2>2. Scattered(handed, 0) /\ Run(InFlight, 0) /\ Run(buf, 0 + Len(InFlight))
        /\ transmit = 0 + Len(InFlight) + Len(buf)
    BY <1>1, <2>1 DEF Run, Scattered
  <2> QED BY <2>2 DEF Ordered
<1>7. Ends /\ Told
  BY <1>1, <1>4 DEF Ends, Told, Verified
<1> QED BY <1>1, <1>3, <1>5, <1>6, <1>7 DEF IInv

LEMMA Invariant == Spec => []IInv
<1>1. Init => IInv
  BY Initially
<1>2. IInv /\ [Next]_vars => IInv'
  BY AcceptKeeps, StartKeeps, AckKeeps, ReceiveBlockKeeps, LoseBlockKeeps,
     ReceiveHashKeeps, ReceiveTerminateKeeps, DisconnectKeeps, StutterKeeps, Zenon DEF Next
<1> QED BY <1>1, <1>2, PTL DEF Spec

-----------------------------------------------------------------------------
(* Theorems *)

\* Every variable has its type, whatever the answers about the block size.
THEOREM TypeCorrect == Spec => []TypeOK
<1>1. IInv => TypeOK
  BY DEF IInv
<1> QED BY <1>1, Invariant, PTL

\* One block is under way at a time: the next goes out when the last was answered
\* (jingle_ibb_handle_ack_iq_send).
THEOREM OneBlockInFlight == Spec => []OneInFlight
<1>1. IInv => OneInFlight
  BY DEF IInv, Shape, OneInFlight
<1> QED BY <1>1, Invariant, PTL

\* A file that counts as complete was compared with its hash and found right.
THEOREM CompleteIsVerified == Spec => []Verified
<1>1. IInv => Verified
  BY DEF IInv, Told
<1> QED BY <1>1, Invariant, PTL

\* Nothing is moved or sent from outside the buffer, and no block is longer than
\* the block size the receiver agreed to.
LEMMA StepBounds ==
  ASSUME IInv, [Next]_vars
  PROVE  /\ Len(buf') <= size_buf'
         /\ \A i \in DOMAIN stanzas' :
              i > Len(stanzas) /\ stanzas'[i].type = "data" =>
                Len(stanzas'[i].data) + Len(buf') <= size_buf' /\ Len(stanzas'[i].data) <= blocksize
<1>0. stanzas \in Seq(IbbStanza) /\ Len(buf) <= size_buf
  BY Types DEF IInv
<1>1. CASE UNCHANGED stanzas /\ UNCHANGED <<buf, size_buf>>
  BY <1>0, <1>1
<1>2. CASE start
  BY <1>2, StartKeeps DEF Room
<1>3. CASE jingle_ibb_handle_ack_iq_send /\ HasSession
  BY <1>3, AckKeeps DEF Room
<1>4. CASE jingle_ibb_handle_ack_iq_send /\ ~HasSession
  BY <1>1, <1>4 DEF jingle_ibb_handle_ack_iq_send
<1>5. ASSUME stanzas # <<>>, stanzas' = Tail(stanzas), UNCHANGED <<buf, size_buf>>
      PROVE  /\ Len(buf') <= size_buf' /\ \A i \in DOMAIN stanzas' : ~(i > Len(stanzas))
  <2>1. Tail(stanzas) \in Seq(IbbStanza) /\ Len(Tail(stanzas)) = Len(stanzas) - 1 /\ Len(stanzas) \in Nat
    BY <1>0, <1>5, HeadTail
  <2> QED BY <1>0, <1>5, <2>1
<1>6. CASE ReceiveBlock \/ LoseBlock \/ ReceiveHash \/ ReceiveTerminate
  <2>1. stanzas # <<>> /\ stanzas' = Tail(stanzas) /\ UNCHANGED <<buf, size_buf>>
    BY <1>6 DEF ReceiveBlock, LoseBlock, ReceiveHash, ReceiveTerminate, senderVars
  <2> QED BY <1>5, <2>1
<1>7. CASE Disconnect
  BY <1>0, <1>7 DEF Disconnect, senderVars
<1>8. CASE session_accept
  BY <1>1, <1>8 DEF session_accept
<1>9. CASE UNCHANGED vars
  BY <1>1, <1>9 DEF vars
<1> QED BY <1>2, <1>3, <1>4, <1>6, <1>7, <1>8, <1>9 DEF Next

\* No block that goes out and nothing left behind it is outside the allocated buffer.
THEOREM BufferIsLargeEnough == Spec => BufferBound
<1>1. IInv /\ [Next]_vars =>
        [/\ Len(buf') <= size_buf'
         /\ \A i \in DOMAIN stanzas' :
              i > Len(stanzas) /\ stanzas'[i].type = "data" =>
                Len(stanzas'[i].data) + Len(buf') <= size_buf']_vars
  BY StepBounds, Zenon
<1> QED BY <1>1, Invariant, PTL DEF Spec, BufferBound

\* No block is longer than the receiver agreed to.
THEOREM BlocksAreShortEnough == Spec => BlockBound
<1>1. IInv /\ [Next]_vars =>
        [\A i \in DOMAIN stanzas' :
           i > Len(stanzas) /\ stanzas'[i].type = "data" =>
             Len(stanzas'[i].data) <= blocksize]_vars
  BY StepBounds, Zenon
<1> QED BY <1>1, Invariant, PTL DEF Spec, BlockBound

\* A step of the transfer hands over later bytes, or closes a complete file, or does
\* neither.
LEMMA StepOfStream == ASSUME IInv, [Next]_vars PROVE [Stream!Next]_(Stream!vars)
<1> DEFINE complete == (infile = "ENDING")
<1>0. TypeOK
  BY DEF IInv
<1>1. handed \in Seq(Byte) /\ FileSize \in Nat
  BY <1>0, Types
<1>2. CASE UNCHANGED <<handed, written>> /\ complete' = complete
  BY <1>2 DEF Stream!vars
<1>3. CASE ReceiveBlock
  <2>1. /\ handed' = handed \o InFlight /\ InFlight \in Seq(Byte)
        /\ written' \in {written, written + Len(InFlight)}
        /\ infile # "ENDING" /\ infile' # "ENDING"
    BY <1>3, ReceiveBlockKeeps
  <2>2. PICK p \in Nat : Scattered(handed, p) /\ Run(InFlight, p) /\ p + Len(InFlight) <= FileSize
    BY <1>3, ReceiveBlockKeeps
  <2> DEFINE d == InFlight
  <2>3. Len(d) \in Nat
    BY <2>1
  <2>4. d = Stream!Piece(p, Len(d))
    BY <2>1, <2>2, RunPiece DEF Stream!Piece
  <2>5. p \in 0 .. FileSize /\ Len(d) \in 0 .. FileSize - p
    BY <1>1, <2>2, <2>3
  <2>6. \A i \in DOMAIN handed : handed[i] <= p
    <3>1. ASSUME NEW i \in DOMAIN handed PROVE handed[i] <= p
      <4>1. i \in Nat /\ handed[i] \in Nat /\ i <= Len(handed) /\ Len(handed) \in Nat
        BY <1>1 DEF Byte
      <4>2. handed[i] + Len(handed) <= p + i
        BY <2>2 DEF Scattered
      <4> QED BY <4>1, <4>2
    <3> QED BY <3>1
  <2> HIDE DEF d
  <2>7. handed' = handed \o Stream!Piece(p, Len(d)) /\ written' \in {written, written + Len(d)}
    BY <2>1, <2>4 DEF d
  <2>8. Stream!HandOver
    BY <2>1, <2>5, <2>6, <2>7 DEF Stream!HandOver
  <2> QED BY <2>8 DEF Stream!Next
<1>4. CASE ReceiveTerminate
  <2>1. UNCHANGED <<handed, written>> /\ infile # "ENDING"
        /\ (infile' = "ENDING" => handed = File /\ written = FileSize)
    BY <1>4, ReceiveTerminateKeeps
  <2>2. CASE infile' = "ENDING"
    <3>1. File = Stream!Piece(0, FileSize)
      BY <1>1 DEF File, Byte, Stream!Piece
    <3>2. Stream!Close
      BY <2>1, <2>2, <3>1 DEF Stream!Close
    <3> QED BY <3>2 DEF Stream!Next
  <2>3. CASE infile' # "ENDING"
    BY <1>2, <2>1, <2>3
  <2> QED BY <2>2, <2>3
<1>5. CASE session_accept \/ start \/ jingle_ibb_handle_ack_iq_send \/ LoseBlock \/ Disconnect
  BY <1>2, <1>5
     DEF session_accept, start, jingle_ibb_handle_ack_iq_send, LoseBlock, Disconnect, receiverVars
<1>6. CASE ReceiveHash
  BY <1>2, <1>6 DEF ReceiveHash
<1>7. CASE UNCHANGED vars
  BY <1>2, <1>7 DEF vars
<1> QED BY <1>3, <1>4, <1>5, <1>6, <1>7 DEF Next

\* Bytes are handed over in their order and none twice, also when errors are taken for
\* acknowledgements, and a file is closed as complete only without a hole.
THEOREM TransferIsAStream == Spec => ImplementsStream
<1>1. Init => Stream!Init
  BY DEF Init, Stream!Init
<1>2. IInv /\ [Next]_vars => [Stream!Next]_(Stream!vars)
  BY StepOfStream
<1> QED BY <1>1, <1>2, Invariant, PTL DEF Spec, ImplementsStream, Stream!Spec
=============================================================================
