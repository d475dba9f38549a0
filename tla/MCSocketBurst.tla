---------------------------- MODULE MCSocketBurst ----------------------------
(* Values of the constants of SocketBurst for model checking.              *)
EXTENDS SocketBurst

\* Bursts of two bytes: one that is not full, a full one, and payloads whose last
\* burst is not full, full, and the third.
MCPayloads == {<<1>>, <<0, 1>>, <<2, 0, 1>>, <<1, 2, 0, 1>>, <<0, 2, 1, 0, 2>>}
=============================================================================
