------------------------------- MODULE MCRail -------------------------------
(* The rail on small instances: the cfg files give the constants. *)
EXTENDS Rail
=============================================================================
