----------------------------- MODULE MCRotation -----------------------------
(***************************************************************************)
(* Values for the constants of Rotation in its run.                        *)
(***************************************************************************)
EXTENDS Rotation

\* A heavier validator and two that tie.
TwoOneOne == <<2, 1, 1>>

\* Nothing is delegated, or enough to the last to make it the heaviest.
MaybeHeaviest == {NoBond, [NoBond EXCEPT ![N] = 3]}
=============================================================================
