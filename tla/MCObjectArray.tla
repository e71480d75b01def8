--------------------------- MODULE MCObjectArray ---------------------------
(* Model checking ObjectArray: handles with gaps, so that every insertion    *)
(* point (front, middle, end) and every parity of the bracket occurs.        *)
EXTENDS ObjectArray

MCHandle == {2, 3, 5, 8, 13}
=============================================================================
