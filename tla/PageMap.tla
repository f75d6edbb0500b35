------------------------------ MODULE PageMap ------------------------------
(***************************************************************************)
(* What the flash translation layer promises LayerModule: it maps each      *)
(* stored address to a page that no other address has.  A write gives the   *)
(* address a fresh page, a delete drops it, and garbage collection moves it *)
(* to a fresh page, one address at a time.                                  *)
(***************************************************************************)
CONSTANTS LBA, Locs, NULL

VARIABLE map

Used == {map[l] : l \in LBA} \ {NULL}

Fresh == Locs \ Used

Init == map = [l \in LBA |-> NULL]

\* A write of l, and a copy of l by garbage collection.
Place(l) == \E loc \in Fresh : map' = [map EXCEPT ![l] = loc]

Delete(l) == map[l] # NULL /\ map' = [map EXCEPT ![l] = NULL]

Next == \E l \in LBA : Place(l) \/ Delete(l)

Spec == Init /\ [][Next]_map

\* No two addresses are read from one page.
PagesAreDistinct ==
    \A k, l \in LBA : map[k] = map[l] /\ map[k] # NULL => k = l
=============================================================================
