-------------------------- MODULE MCCircularBuffer --------------------------
(* Values of the constants of CircularBuffer for model checking.           *)
EXTENDS CircularBuffer

\* Every sequence of one or two bytes, one that fills the buffer, and one that
\* goes round it once and overwrites its own first bytes.
MCWrites ==
    [1 .. 1 -> Bytes] \cup [1 .. 2 -> Bytes]
        \cup {[k \in 1 .. Capacity |-> k % 2], [k \in 1 .. Capacity + 2 |-> (k \div 2) % 2]}
=============================================================================
