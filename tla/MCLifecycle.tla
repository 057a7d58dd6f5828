---------------------------- MODULE MCLifecycle ----------------------------
(* Lifecycle, and the front end beside it, on small instances.             *)
EXTENDS FrontEnd
=============================================================================
