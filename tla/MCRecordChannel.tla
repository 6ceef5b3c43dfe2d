--------------------------- MODULE MCRecordChannel ---------------------------
(***************************************************************************)
(* RecordChannel with a window of 4 and 9 record numbers: enough for       *)
(* shifts inside, of exactly, and past the width, and for the last number. *)
(***************************************************************************)
EXTENDS RecordChannel

=============================================================================
