--------------------------- MODULE MCSettingsForm ---------------------------
(* Options of two stored values; the third value is stored as the second. *)
EXTENDS SettingsForm, TLC

MCStored == 0 :> 0 @@ 1 :> 1 @@ 2 :> 1
MCAsTyped == 0 :> 0 @@ 1 :> 1
KeySymmetry == Permutations(Keys)
=============================================================================
