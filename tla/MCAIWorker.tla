----------------------------- MODULE MCAIWorker -----------------------------
(***************************************************************************)
(* Values of the constants of AIWorker for TLC.                            *)
(***************************************************************************)
EXTENDS AIWorker, TLC

CONSTANTS u1, x1, k1, k2, c1, text, edit, w1, w2

MCPrice == [t \in Tools |-> 1]
MCUploadOwner == [x \in Uploads |-> u1]

CallSymmetry == Permutations(Workers) \cup Permutations(Keys)
=============================================================================
