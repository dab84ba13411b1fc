--------------------------- MODULE MCAppPipelines ---------------------------
(* Package rg is allowlisted for one platform of two, jq is not.           *)
EXTENDS AppPipelines

CONSTANTS rg, jq

MCKeys == [x \in Package |-> IF x = rg THEN {1} ELSE {}]
=============================================================================
