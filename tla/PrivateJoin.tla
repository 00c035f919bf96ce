---------------------------- MODULE PrivateJoin ----------------------------
(***************************************************************************)
(* What the whole protocol promises to the receiver, with no helper, no    *)
(* encryption and no concurrency in it: at most once, a table is published *)
(* and it is the join the plain algorithm (IntersectSimple of table.go)    *)
(* computes: one row for each key that every source holds, with the value  *)
(* of each source in the column of that source.                            *)
(***************************************************************************)

CONSTANTS Client,     \* the ids of the sources
          TableOf,    \* TableOf[c] : the plain table of c, from keys to values
          Unpublished

VARIABLE out

(* The values each key has, by source: partJoin of IntersectSimple.        *)
Keys == UNION {DOMAIN TableOf[c] : c \in Client}
Holders(k) == {c \in Client : k \in DOMAIN TableOf[c]}

(* A joined row is kept with its key, which the receiver never learns, so  *)
(* that two keys with equal values give two rows.                          *)
Join == {<<k, [c \in Client |-> TableOf[c][k]]>> : k \in {k \in Keys : Holders(k) = Client}}

Init == out = Unpublished

Publish == out = Unpublished /\ out' = Join

Spec == Init /\ [][Publish]_out
=============================================================================
