--------------------------- MODULE MCIbbTransfer ---------------------------
(* Values of the constants of IbbTransfer for TLC. *)
EXTENDS IbbTransfer

\* Negative, 0 (also a missing attribute), smaller than, equal to and larger than
\* the maximum.
AllAnswers == -1 .. 5
=============================================================================
