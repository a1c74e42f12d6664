--------------------------- MODULE MCNameResolution ---------------------------
(* Instances of NameResolution for TLC. *)
EXTENDS NameResolution

CONSTANTS v1, v2

TwoResolvers == {v1, v2}
===============================================================================
