---------------------------- MODULE MCResultPages ----------------------------
(* A small instance of ResultPages for TLC.                                *)
EXTENDS ResultPages
=============================================================================
