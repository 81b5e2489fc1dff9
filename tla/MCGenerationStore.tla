--------------------------- MODULE MCGenerationStore ---------------------------
(* Model-checking instance of GenerationStore; its constants are model     *)
(* values and small numbers, given by the configuration.                   *)
EXTENDS GenerationStore
=============================================================================
