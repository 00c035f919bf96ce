----------------------------- MODULE JoinRelay -----------------------------
(***************************************************************************)
(* What the helper of the private join promises to the sources and to the  *)
(* receiver, with no streams, workers, channels or faults in it:           *)
(*                                                                         *)
(*   - a source is recorded once, when its whole table has been received;  *)
(*   - nothing reaches the receiver before every source is recorded;       *)
(*   - each row of each table reaches the receiver at most once, and no    *)
(*     other row ever does;                                                *)
(*   - the helper signals the end only when every row has been sent.       *)
(*                                                                         *)
(* HelperServer implements this specification: see Relay there.            *)
(***************************************************************************)
EXTENDS Sequences, Functions

CONSTANTS Client,  \* the ids of the sources
          Row,     \* every row of every source, as <<id, uid>>
          Total    \* the number of rows the helper is to send

VARIABLES recorded,   \* the sources whose table has been received
          delivered,  \* the rows sent to the receiver, in order
          over        \* the helper has signalled the end of processing

vars == <<recorded, delivered, over>>

Init == /\ recorded = {}
        /\ delivered = <<>>
        /\ over = FALSE

(* The whole table of source c has arrived. *)
Record(c) == /\ c \notin recorded
             /\ recorded' = recorded \union {c}
             /\ UNCHANGED <<delivered, over>>

(* The next row leaves for the receiver. *)
Deliver(r) == /\ recorded = Client
              /\ r \notin Range(delivered)
              /\ delivered' = Append(delivered, r)
              /\ UNCHANGED <<recorded, over>>

(* The helper is done. *)
Finish == /\ ~over
          /\ Len(delivered) = Total
          /\ over' = TRUE
          /\ UNCHANGED <<recorded, delivered>>

Next == \/ \E c \in Client : Record(c)
        \/ \E r \in Row : Deliver(r)
        \/ Finish

Spec == Init /\ [][Next]_vars
=============================================================================
