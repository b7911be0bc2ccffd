------------------------------ MODULE MCTransfer ------------------------------
(***************************************************************************)
(* Small instance of Transfer: all files of at most four bytes, of line    *)
(* ends, carriage returns and one other byte.                              *)
(***************************************************************************)
EXTENDS Transfer

SmallBytes == {CR, LF, "x"}
SmallTexts == SeqOf(SmallBytes, 4)
================================================================================
