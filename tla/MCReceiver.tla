----------------------------- MODULE MCReceiver -----------------------------
(* Small instances of ReceiverPipeline: two sources, "A" and "B".          *)
EXTENDS ReceiverPipeline, TLC

CONSTANTS A, B,        \* the sources
          k1, k2, k3,  \* keys
          w1, w2, w3   \* goroutines

TwoSources == <<A, B>>

Item(k, s, v) == [key |-> k, src |-> s, val |-> v]

(* A = {k1, k2}, B = {k1, k3}: one key in common. *)
Overlap == << Item(k2, 1, "a2"), Item(k1, 2, "b1"), Item(k1, 1, "a1"), Item(k3, 2, "b3") >>

(* A = {k1}, B = {k1}: the whole tables. *)
Common == << Item(k1, 2, "b1"), Item(k1, 1, "a1") >>
=============================================================================
