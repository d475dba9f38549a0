-------------------------- MODULE MCCurlInputStream --------------------------
(* CurlInputStream for model checking; the constants are in the .cfg.      *)
EXTENDS CurlInputStream
=============================================================================
