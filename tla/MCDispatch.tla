----------------------------- MODULE MCDispatch -----------------------------
(* Dispatch with two interchangeable trucks and one loading supervisor.    *)
EXTENDS Dispatch, TLC

Symmetric == Permutations(Trucks)
=============================================================================
