----------------------------- MODULE MCMediaFetch -----------------------------
(* One item with any kind of link beside one whose document may have the same name. *)
EXTENDS MediaFetch

CONSTANTS i1, i2

MCLinks == {[i \in Items |-> IF i = i1 THEN kind ELSE "drive_file"] : kind \in AllLinks}
MCListed == {"video"}
===============================================================================
