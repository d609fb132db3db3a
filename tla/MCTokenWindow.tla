--------------------------- MODULE MCTokenWindow ---------------------------
(* Small instances of TokenWindow for TLC. *)
EXTENDS TokenWindowProperties, TLC

CONSTANTS r1, r2

RequestSymmetry == Permutations(Requests)

\* Windows of one tick and cycles of two; what the owner may change them to: a quota
\* below what may have been used; windows with another anchor and shorter cycles.
Usual ==
  [anchor |-> 0, windowLen |-> 1, cycleLen |-> 2, windowQuota |-> 3, cycleQuota |-> 4]
Lowered == [Usual EXCEPT !.windowQuota = 2]
Shifted == [Usual EXCEPT !.anchor = 1, !.cycleLen = 1]
MCSettings == {Usual, Lowered, Shifted}
OneSetting == {Usual}
=============================================================================
