---------------------------- MODULE MCSolveSlots ----------------------------
(* Requests and accounts for TLC: which request or account is which does not *)
(* matter.                                                                   *)
EXTENDS SolveSlots, TLC

CONSTANTS r1, r2, r3, r4, r5, ann, bob, cyd

MCRequest == {r1, r2, r3, r4, r5}
MCAccount == {ann, bob, cyd}
Symmetry  == Permutations(MCRequest) \cup Permutations(MCAccount)
============================================================================
