----------------------------- MODULE MCOrderDesk ----------------------------
(* OrderDesk for TLC: workers are interchangeable.                           *)
EXTENDS OrderDesk, TLC

WorkerSymmetry == Permutations(Workers)
=============================================================================
