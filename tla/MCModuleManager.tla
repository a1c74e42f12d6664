--------------------------- MODULE MCModuleManager ---------------------------
(* Instances of ModuleManager for TLC. *)
EXTENDS ModuleManager

CONSTANT lib1

OneLibrary == {lib1}
Text == {"{", "}", "name", "=", "number", "quote", "text", ";", "[", ",", "]", "/* line", "line */"}
==============================================================================
