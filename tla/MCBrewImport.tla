---------------------------- MODULE MCBrewImport ----------------------------
(* Platform 3 is not in the allowlist of any package; the allowlist names  *)
(* no pin or an old release.                                               *)
EXTENDS BrewImport

MCKeys == [p \in Package |-> {1, 2}]
MCPins == {NoTag, [version |-> 1, v |-> FALSE]}
=============================================================================
