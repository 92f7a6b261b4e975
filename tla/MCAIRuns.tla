------------------------------ MODULE MCAIRuns ------------------------------
(***************************************************************************)
(* Values of the constants of AIRuns for TLC.                              *)
(***************************************************************************)
EXTENDS AIRuns, TLC

CONSTANTS u1, u2, u3, x1, k1, k2, c1, text, edit

MCPrice == [t \in Tools |-> IF t \in ImageTools THEN 2 ELSE 1]
MCUploadOwner == [x \in Uploads |-> u1]

\* Keys only tell requests apart; without uploads, users are alike as well.
KeySymmetry == Permutations(Keys)
QueueSymmetry == Permutations(Keys) \cup Permutations(Users)
=============================================================================
