----------------------------- MODULE MCEncoding -----------------------------
(* Small instances of ValueEncoding: bytes are digits in base 6, which has *)
(* room for the prefix byte 4 and a carry.                                 *)
EXTENDS ValueEncoding

UpTo(n) == UNION {[1 .. k -> 0 .. 5] : k \in 0 .. n}

ShortValues == UpTo(2)
LongValues == UpTo(4)
=============================================================================
