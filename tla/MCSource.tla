------------------------------ MODULE MCSource ------------------------------
(* Small instances of SourcePrepare.                                       *)
EXTENDS SourcePrepare

CONSTANTS u1, u2, u3, u4,  \* rows
          w1, w2, w3       \* goroutines
=============================================================================
