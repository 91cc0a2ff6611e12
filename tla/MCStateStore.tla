----------------------------- MODULE MCStateStore -----------------------------
(* Symmetry for StateStore: the requests are alike, and so are the items. *)
EXTENDS StateStore, TLC

Alike == Permutations(Requests) \cup Permutations(Items)
===============================================================================
