---------------------------- MODULE MCOfficialRun ----------------------------
(***************************************************************************)
(* Instances of OfficialRun for TLC: clock units of 5 s, scores in tenths. *)
(***************************************************************************)
EXTENDS OfficialRun

MCPool == <<0, 5, 7, 9>>

=============================================================================
