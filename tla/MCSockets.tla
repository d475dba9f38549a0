------------------------------ MODULE MCSockets ------------------------------
(***************************************************************************)
(* A connection's bursts, and a server with its clients, for model         *)
(* checking: one of them moves in a behaviour, and the other stays where   *)
(* it begins.  After a clash nothing is claimed of the server and its      *)
(* pairs, and no state is looked at beyond it.                             *)
(***************************************************************************)
EXTENDS MCSocketBurst, SocketServer

VARIABLE side

SocketsInit ==
    /\ side \in {"bursts", "server"}
    /\ Init
    /\ ServerInit /\ (side = "bursts" => ~pairing /\ table[0] = "other")

SocketsNext ==
    /\ \/ side = "bursts" /\ Next /\ UNCHANGED ssvars
       \/ side = "server" /\ ~clash /\ ServerNext /\ UNCHANGED vars
    /\ UNCHANGED side

SocketsSpec ==
    /\ SocketsInit /\ [][SocketsNext]_<<vars, ssvars, side>>
    /\ Fairness /\ PairFairness
=============================================================================
