----------------------------- MODULE MCVaultNotes -----------------------------
(* A reel and the link its bot sends, two titles they may share, two folders. *)
EXTENDS VaultNotes

CONSTANT a

SameTitle == [i \in Items |-> a]
===============================================================================
