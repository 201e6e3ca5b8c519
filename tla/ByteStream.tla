----------------------------- MODULE ByteStream -----------------------------
(***************************************************************************)
(* What the receiving application is given of one file by a streaming      *)
(* transport.  register.h promises bytes reliably and in order, in chunks  *)
(* of any size.  Of this the order stays: a piece may be left out when its *)
(* sender takes an error for an acknowledgement, and what is handed over   *)
(* may fail to be stored, but no byte comes twice or after a later one,    *)
(* and the file is closed as complete only when all of it was stored.      *)
(***************************************************************************)
EXTENDS Sequences, Naturals

CONSTANT FileSize    \* bytes in the file, each named by its position

VARIABLES
  handed,            \* what the receiver was given
  stored,            \* how many bytes of it it could store
  complete           \* the file was closed as complete

vars == <<handed, stored, complete>>

\* The piece of so many bytes that follows the first n bytes of the file.
Piece(n, len) == [i \in 1 .. len |-> n + i]

Init == handed = <<>> /\ stored = 0 /\ complete = FALSE

HandOver ==
  /\ \E n \in 0 .. FileSize : \E len \in 0 .. FileSize - n :
       /\ \A i \in DOMAIN handed : handed[i] <= n
       /\ handed' = handed \o Piece(n, len)
       /\ stored' \in {stored, stored + len}
  /\ ~complete /\ UNCHANGED complete

Close ==
  /\ handed = Piece(0, FileSize) /\ stored = FileSize
  /\ complete' = TRUE /\ UNCHANGED <<handed, stored>>

Next == HandOver \/ Close
Spec == Init /\ [][Next]_vars
=============================================================================
