------------------------- MODULE MCNodeSupervision -------------------------
(* NodeSupervision on small instances; the constants are model values.     *)
EXTENDS NodeSupervision
=============================================================================
