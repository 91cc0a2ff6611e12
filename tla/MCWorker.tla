------------------------------- MODULE MCWorker -------------------------------
(* Values of Worker's constants that a .cfg cannot write. *)
EXTENDS Worker, TLC

\* Two delays for a budget of two or three: the last one repeats.
ShortBackoff == <<1, 2>>

OneBackoff == <<1>>

\* The items are alike, and so are the titles.
TwoItems == Permutations(Items) \cup Permutations(Titles)

\* Failures that say something about the item.
ItemFaults == Exceptions \ {"lock", "llm_account"}
===============================================================================
