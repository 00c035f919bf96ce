---------------------------- MODULE MCReference ----------------------------
(* Three sources and tables of up to three rows; the strange rows have     *)
(* values that contain the separator, or of another key; the headings are  *)
(* that of the join and one in another order.                              *)
EXTENDS ReferenceJoins

CONSTANTS A, B, C

ThreeSources == <<A, B, C>>

V(i) == <<<<"value", i>>>>
TwoHeadings == {ThreeSources, <<A, C, B>>}
StrangeRows == {<<V(0) \o <<Bar>> \o V(0), V(0), <<>>>>, <<V(0), V(1), V(0)>>}
=============================================================================
