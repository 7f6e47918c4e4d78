--------------------------- MODULE MCReferencePrice ---------------------------
(* The price watcher alone, with a range that is read again. *)
EXTENDS ReferencePrice
===============================================================================
