--------------------------- MODULE MCCoordClient ---------------------------
(* CoordClient on small instances.                                         *)
EXTENDS CoordClient
=============================================================================
