------------------------------- MODULE MCPool -------------------------------
(* Small instances of MshmPool for TLC; the cfg files give the sizes. *)
EXTENDS MshmPool, TLC

(* One step back and one step forward. *)
StepBackOrOn == {-1, 1}

(* The readers are interchangeable. *)
ReaderSymmetry == Permutations(Readers)
=============================================================================
