---------------------------- MODULE MCThreadQueue ----------------------------
(* Values of the constants of ThreadQueue for model checking.              *)
EXTENDS ThreadQueue

CONSTANTS r1, r2, r3

MCRunnables == {r1, r2, r3}
MCSpawners  == {r1}
=============================================================================
