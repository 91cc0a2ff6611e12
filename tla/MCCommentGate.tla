---------------------------- MODULE MCCommentGate ----------------------------
(* Two posts of one creator, whose answers come in one thread. *)
EXTENDS CommentGate

CONSTANTS p1, p2, creator

MCPost == <<p1, p2>>
MCCreator == <<creator, creator>>
==============================================================================
