-------------------------- MODULE MCCollectionSync --------------------------
(* Two calendars, one of them mirrored by two replicas that pull at         *)
(* different times; two hrefs, two UIDs and both component types, so that   *)
(* UID conflicts and component swaps are refused on the way.                *)
EXTENDS CollectionSync, TLC

CONSTANTS work, home, r1, r2

MCFollows == r1 :> work @@ r2 :> work

Symmetry == Permutations({r1, r2}) \cup Permutations(Hrefs) \cup Permutations(Uids)
=============================================================================
