------------------------------ MODULE MCSystem ------------------------------
(* Small instances of System: two sources, "A" and "B".                    *)
EXTENDS System, TLC

CONSTANTS A, B,                \* the sources
          a1, a2, b1, n1,      \* the PushRows calls; n1 carries no source id
          q1, q2,              \* the PullRows calls, each of its receiver
          w1, w2               \* the workers

TwoSources == <<A, B>>
PermOf4 == 0 :> 2 @@ 1 :> 1 @@ 2 :> 3 @@ 3 :> 0
PermOf2 == 0 :> 1 @@ 1 :> 0

OneInCommon == A :> {1, 2} @@ B :> {2, 3}
OneRowEach == A :> {1} @@ B :> {1}
ShortTable == A :> {1, 2} @@ B :> {1}

Origin == a1 :> A @@ a2 :> A @@ b1 :> B @@ n1 :> NoID
=============================================================================
