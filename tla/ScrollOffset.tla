---------------------------- MODULE ScrollOffset ----------------------------
(* The number of rows, or of characters, that the lists and the edit boxes of        *)
(* menuconfig.py keep between the cursor and the edge where they can.              *)
EXTENDS Integers

CONSTANT SCROLL_OFFSET   \* _SCROLL_OFFSET
ASSUME OffsetAssumption == SCROLL_OFFSET \in Nat

Max2(a, b) == IF a < b THEN b ELSE a
Min2(a, b) == IF a < b THEN a ELSE b
=============================================================================
