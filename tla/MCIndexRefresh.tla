--------------------------- MODULE MCIndexRefresh ---------------------------
(***************************************************************************)
(* An instance of IndexRefresh: an ordinary note, a wiki note, a note of   *)
(* the denylist and a file that is no note, versions of one or two chunks. *)
(***************************************************************************)
EXTENDS IndexRefresh

CONSTANTS n1, w1, d1, x1

MCPlace == n1 :> 1 @@ d1 :> 2 @@ w1 :> 3
MCLists == {<<n1, x1, n1>>, <<n1, w1>>, <<d1>>}
MCTexts == [v \in 1..(MaxEdits + 1) |-> IF v = 1 THEN 1 ELSE 2]
=============================================================================
