---------------------------- MODULE IbbTransfer ----------------------------
(***************************************************************************)
(* The transfer of one file over In-Band Bytestreams, from the call of the *)
(* application's start to the session-terminate: the read loop of          *)
(* filetransfer.c, the buffer and the blocks of ibb.c, the stanzas and the *)
(* acknowledgements between the two clients, and the receiving side.       *)
(*                                                                         *)
(* The sender reads ReadSize bytes at a time into the IBB buffer until it  *)
(* holds a block, sends one block, and goes on when the block is answered, *)
(* be it with a result or an error.  At the end it tells the receiver the  *)
(* hash of what it has read, for the receiver to compare with the hash of  *)
(* what it was handed.  A byte is its position in the file; a hash is what *)
(* it was computed from.                                                   *)
(***************************************************************************)
EXTENDS Integers, Sequences

CONSTANTS
  FileSize,      \* bytes in the file
  ReadSize,      \* JINGLE_FT_SIZE_READ
  MaxBlock,      \* IBB_BLOCK_SIZE_MAX
  Answers,       \* values of block-size a session-accept may carry
  Wrap           \* 2^64: what a negative value is taken modulo

ASSUME SizesAssumption    == FileSize \in Nat /\ ReadSize \in Nat \ {0} /\ MaxBlock \in Nat
ASSUME AnswersAssumption  == Answers \subseteq Int /\ Wrap \in Nat \ {0}

VARIABLES
  state,         \* the outgoing JingleFT
  accepted,      \* a session-accept came
  blocksize,     \* of the sender's JingleIBB
  transmit,      \* bytes the sender has read
  buf,           \* the first dataleft bytes of its buffer
  size_buf,      \* how much is allocated for it
  aborted,       \* undefined behaviour has stopped the sender's process
  stanzas,       \* on their way to the receiver, in order
  replies,       \* answers to blocks on their way back, results and errors
  infile,        \* the incoming JingleFT
  handed,        \* bytes handed to its handle_data
  written,       \* bytes it counts as received
  hash,          \* the hash it was told, none or one
  verdict,       \* what it reports about the hash
  failed         \* history: a read, a write, a block or the connection has failed

vars == <<state, accepted, blocksize, transmit, buf, size_buf, aborted, stanzas, replies,
          infile, handed, written, hash, verdict, failed>>
senderVars   == <<state, accepted, blocksize, transmit, buf, size_buf, aborted>>
receiverVars == <<infile, handed, written, hash, verdict>>

Byte == 1 .. FileSize
File == [i \in Byte |-> i]

Block(data) == [type |-> "data", data |-> data]
Hash(data) == [type |-> "hash", data |-> data]
EndOfSession == [type |-> "session-terminate", data |-> <<>>]

\* The session is in the sender's list until the end of the file.
HasSession == state \notin {"ENDING"}

Init ==
  /\ state = "PENDING" /\ accepted = FALSE
  /\ blocksize = MaxBlock
  /\ transmit = 0 /\ buf = <<>> /\ size_buf = 0 /\ aborted = FALSE
  /\ stanzas = <<>> /\ replies = 0
  /\ infile = "PENDING" /\ handed = <<>> /\ written = 0
  /\ hash = {} /\ verdict = "none"
  /\ failed = FALSE

\* Faulty: takes the answer as it is.
Negotiated_Answer(y) == y % Wrap

\* handle of ibb.c: the answer, read as an unsigned number, may only lower the
\* block size.  A missing attribute reads as 0.
Negotiated(y) == IF y % Wrap < blocksize THEN y % Wrap ELSE blocksize

\* A session-accept; nothing stops the peer from sending another one later.
session_accept ==
  /\ HasSession
  /\ \E y \in Answers : blocksize' = Negotiated(y)
  /\ accepted' = TRUE
  /\ UNCHANGED <<state, transmit, buf, size_buf, aborted, stanzas, replies, receiverVars, failed>>

-----------------------------------------------------------------------------
(* The sender *)

\* Where successive reads leave off.
ReadPoints == {q \in transmit + 1 .. FileSize :
                 q = FileSize \/ (q - transmit) % ReadSize = 0}

\* What the buffer holds once the file was read up to q.
Filled(q) == buf \o SubSeq(File, transmit + 1, q)

\* send of ibb.c has enough for a block, otherwise it asks for more.
Enough(q) == Len(Filled(q)) >= blocksize

\* Faulty: room for what was read, not for what was left over.
Allocated_ForRead(n) == IF ReadSize > size_buf THEN ReadSize ELSE size_buf

\* The buffer grows to what it has to hold and never shrinks.
Allocated(n) == IF n > size_buf THEN n ELSE size_buf

\* g_memmove of what follows the block.
Rest(data) == SubSeq(data, blocksize + 1, Len(data))

\* Faulty: all of the buffer goes out.
SendBlock_All(data) ==
  /\ stanzas' = Append(stanzas, Block(data))
  /\ buf' = <<>>

\* One block goes out and its handle is kept, with no timeout.
SendBlock(data) ==
  /\ stanzas' = Append(stanzas, Block(SubSeq(data, 1, blocksize)))
  /\ buf' = Rest(data)

\* Faulty: the end sends only a full block.
Last_IfFull(data) == IF Len(data) >= blocksize /\ data # <<>> THEN <<Block(data)>> ELSE <<>>

\* end of ibb.c: what is left in the buffer, if anything.
Last(data) == IF data # <<>> THEN <<Block(data)>> ELSE <<>>

\* The first read with which the buffer holds a block.
FillsBlock ==
  \E q \in ReadPoints :
    /\ Enough(q) /\ \A r \in ReadPoints : r < q => ~Enough(r)
    /\ SendBlock(Filled(q))
    /\ transmit' = q /\ size_buf' = Allocated(Len(Filled(q)))
    /\ state' = "STARTING"
    /\ UNCHANGED failed

\* Faulty: the session-terminate goes first.
Farewell_Swapped == <<EndOfSession, Hash(File)>>

\* The sender's hash, of all it has read, and the end of the session.
Farewell == <<Hash(File), EndOfSession>>

\* The file ends first: handle_trans_next returns FALSE, end, the hash and
\* session-terminate follow.
ReachesEnd ==
  /\ \A q \in ReadPoints : ~Enough(q)
  /\ stanzas' = stanzas \o Last(Filled(FileSize)) \o Farewell
  /\ buf' = <<>>
  /\ transmit' = FileSize /\ size_buf' = Allocated(Len(Filled(FileSize)))
  /\ state' = "ENDING"
  /\ UNCHANGED failed

\* A read fails, and nothing is sent.
ReadFails ==
  \E q \in ReadPoints \cup {transmit} :
    /\ \A r \in ReadPoints : r <= q => ~Enough(r)
    /\ buf' = Filled(q) /\ transmit' = q /\ size_buf' = Allocated(Len(Filled(q)))
    /\ state' \in {"ERROR", "STARTING"} /\ failed' = TRUE
    /\ UNCHANGED stanzas

\* send of filetransfer.c and of ibb.c call each other until one of these happens.
Pump == FillsBlock \/ ReachesEnd \/ ReadFails

\* Faulty: runs again on another session-accept.
start_Again ==
  /\ state \in {"PENDING", "STARTING"} /\ accepted
  /\ Pump
  /\ UNCHANGED <<accepted, blocksize, aborted, replies, receiverVars>>

\* start of filetransfer.c, once per transfer.
start ==
  /\ state = "PENDING" /\ accepted
  /\ Pump
  /\ UNCHANGED <<accepted, blocksize, aborted, replies, receiverVars>>

\* jingle_ibb_handle_ack_iq_send: the next block from the buffer while it holds
\* more than one, else handle_trans_next.  An error is not told from a result.  Once
\* the session is gone its sid and its jids are freed, and the answer to the last
\* block looks the session up by what was freed: it finds none, if the process lives.
jingle_ibb_handle_ack_iq_send ==
  /\ ~aborted /\ replies > 0 /\ replies' = replies - 1
  /\ \/ /\ ~HasSession /\ aborted' \in BOOLEAN
        /\ UNCHANGED <<state, accepted, blocksize, transmit, buf, size_buf, stanzas, failed>>
     \/ /\ HasSession /\ Len(buf) > blocksize
        /\ SendBlock(buf)
        /\ UNCHANGED <<state, accepted, blocksize, transmit, size_buf, aborted, failed>>
     \/ /\ HasSession /\ Len(buf) <= blocksize
        /\ Pump
        /\ UNCHANGED <<accepted, blocksize, aborted>>
  /\ UNCHANGED receiverVars

-----------------------------------------------------------------------------
(* The receiver *)

\* jingle_ibb_handle_iq acknowledges first; handle_data opens the file on the
\* first block, and counts a block only if all of it could be written.
ReceiveBlock ==
  /\ stanzas # <<>> /\ Head(stanzas).type = "data"
  /\ stanzas' = Tail(stanzas)
  /\ replies' = replies + 1
  /\ handed' = handed \o Head(stanzas).data
  /\ \/ /\ infile' = "STARTING" /\ written' = written + Len(Head(stanzas).data)
        /\ UNCHANGED failed
     \/ /\ infile' \in {infile, "STARTING"} /\ failed' = TRUE
        /\ UNCHANGED written
  /\ UNCHANGED <<senderVars, hash, verdict>>

\* A block nobody takes: an error comes back from the server, as the receiver is not
\* connected, or from the receiver, as the block's sid is unknown there; or it is
\* acknowledged although no content of the receiver has its transport.
LoseBlock ==
  /\ stanzas # <<>> /\ Head(stanzas).type = "data"
  /\ stanzas' = Tail(stanzas)
  /\ replies' = replies + 1 /\ failed' = TRUE
  /\ UNCHANGED <<senderVars, receiverVars>>

\* handle of filetransfer.c, on the session-info: a hash told before is forgotten.
ReceiveHash ==
  /\ stanzas # <<>> /\ Head(stanzas).type = "hash"
  /\ stanzas' = Tail(stanzas)
  /\ hash' = {Head(stanzas).data}
  /\ UNCHANGED <<senderVars, replies, infile, handed, written, verdict, failed>>

\* Faulty: the end of the session is taken for the end of the file.
StopState_Always == "ENDING"

\* stop of filetransfer.c.
StopState == IF written < FileSize THEN "ERROR" ELSE "ENDING"

\* The receiver's own hash; there is none before the first block.
md5 == IF handed = <<>> THEN {} ELSE {handed}

\* _check_hash, for a file that is complete.
Checked == IF hash = {} \/ md5 = {} THEN "not verified"
           ELSE IF hash = md5 THEN "verified" ELSE "corrupt"

ReceiveTerminate ==
  /\ stanzas # <<>> /\ Head(stanzas).type = "session-terminate"
  /\ stanzas' = Tail(stanzas)
  /\ infile' = StopState
  /\ verdict' = IF StopState = "ENDING" THEN Checked ELSE verdict
  /\ UNCHANGED <<senderVars, replies, handed, written, hash, failed>>

\* What is under way is lost; no handle of a block has a timeout.
Disconnect ==
  /\ stanzas # <<>> \/ replies > 0
  /\ stanzas' = <<>> /\ replies' = 0 /\ failed' = TRUE
  /\ UNCHANGED <<senderVars, receiverVars>>

Next == \/ session_accept \/ start \/ jingle_ibb_handle_ack_iq_send
        \/ ReceiveBlock \/ LoseBlock \/ ReceiveHash \/ ReceiveTerminate \/ Disconnect

Spec == Init /\ [][Next]_vars

\* The server delivers, and the main loops run the callbacks of what arrives.
FairSpec == /\ Spec
            /\ WF_vars(jingle_ibb_handle_ack_iq_send)
            /\ WF_vars(ReceiveBlock)
            /\ WF_vars(ReceiveHash)
            /\ WF_vars(ReceiveTerminate)

-----------------------------------------------------------------------------
(* Properties *)

FileState == {"PENDING", "STARTING", "ENDING", "ERROR"}
IbbStanza == [type : {"data", "hash", "session-terminate"}, data : Seq(Byte)]

TypeOK ==
  /\ state \in FileState /\ accepted \in BOOLEAN
  /\ blocksize \in 0 .. MaxBlock
  /\ transmit \in 0 .. FileSize
  /\ buf \in Seq(Byte) /\ size_buf \in Nat /\ aborted \in BOOLEAN
  /\ stanzas \in Seq(IbbStanza) /\ replies \in Nat
  /\ failed \in BOOLEAN
  /\ infile \in FileState /\ handed \in Seq(Byte) /\ written \in Nat
  /\ hash \subseteq Seq(Byte) /\ verdict \in {"none", "not verified", "corrupt", "verified"}

\* What g_memmove and g_memdup touch is inside the allocated buffer, however
\* the sizes of reads, blocks and the file relate and whenever the block size shrinks:
\* the block that goes out and what stays behind it were in the buffer together.
BufferBound ==
  [][/\ Len(buf') <= size_buf'
     /\ \A i \in DOMAIN stanzas' :
          i > Len(stanzas) /\ stanzas'[i].type = "data" =>
            Len(stanzas'[i].data) + Len(buf') <= size_buf']_vars

\* No block is longer than the block size its receiver agreed to, also the one
\* that end() sends without looking at the size.
BlockBound ==
  [][\A i \in DOMAIN stanzas' :
       i > Len(stanzas) /\ stanzas'[i].type = "data" =>
         Len(stanzas'[i].data) <= blocksize]_vars

\* One block is under way at a time: the next is sent when its answer arrives, so a
\* block can neither overtake another nor be sent twice.
OneInFlight == HasSession => Len(stanzas) + replies <= 1

\* A file that is complete was compared with its hash and found right: the hash is
\* there before the end of the session, and sender and receiver have hashed the same
\* bytes, whatever errors the sender took for acknowledgements.  An empty file has no
\* blocks, so the receiver has no hash of it.
Verified == infile = "ENDING" => verdict = "verified" \/ FileSize = 0

\* The receiver is handed the bytes in their order and none of them twice.  Pieces may
\* be missing in the middle, after an error that was taken for an acknowledgement; a
\* file with a hole is never closed as complete.
Stream == INSTANCE ByteStream WITH stored <- written, complete <- (infile = "ENDING")
ImplementsStream == Stream!Spec

\* A transfer that has begun reaches the end on both sides with all of the file,
\* unless something failed on the way or the answer was a block size of 0, with
\* which the sender sends empty blocks for ever.
Completes ==
  state = "STARTING" ~> \/ state = "ENDING" /\ infile = "ENDING" /\ handed = File
                        \/ failed \/ blocksize = 0
=============================================================================
