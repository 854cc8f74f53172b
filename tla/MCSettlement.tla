---------------------------- MODULE MCSettlement ----------------------------
(***************************************************************************)
(* Settlement on small instances.  The configurations differ in what they  *)
(* leave out: the proof runs have two of the desk and two receipts, the    *)
(* money runs two payment keys, a bill and a shortage.  Forfeit = 1 stands  *)
(* for forty days, Tat = 0 for twenty.                                     *)
(***************************************************************************)
EXTENDS Settlement
=============================================================================
