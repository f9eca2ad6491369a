--------------------------- MODULE MCResultReceipts ---------------------------
(* Small instances of ResultReceipts for TLC.                              *)
EXTENDS ResultReceipts
=============================================================================
