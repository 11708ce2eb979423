--------------------------- MODULE MCStripeBilling ---------------------------
(* Request slots for the model checker *)
EXTENDS StripeBilling

CONSTANTS r1, r2, r3
=============================================================================
