---------------------------- MODULE SocketServer ----------------------------
(***************************************************************************)
(* socket_server, its socket_pairs and their threads, around the           *)
(* descriptors of the process: the accept loop makes a pair of each        *)
(* connection, a detached thread reads from it and deletes it, and other   *)
(* threads of the program may disconnect it or, having called adopt, go on *)
(* with its descriptor.  The kernel gives out the lowest descriptor that   *)
(* is free.                                                                *)
(*                                                                         *)
(* The bursts on a connection are SocketBurst's; here a read is one of the *)
(* descriptor's connection, whosever it is.  What a thread does to a pair  *)
(* that has been deleted is not followed.                                  *)
(***************************************************************************)
EXTENDS Integers, FiniteSets, Functions

CONSTANTS Conn,  \* connections, each of another client
          MaxFd  \* the process's limit of descriptors

ASSUME ConnAssumption == "free" \notin Conn /\ "other" \notin Conn
ASSUME MaxFdAssumption == MaxFd \in Nat

VARIABLES server,  \* "new", "bound", "listening", or "dead" after an exception
          pairing, \* create_pair is set
          table,   \* the kernel's: descriptor -> a connection, "free" or "other"
          client,  \* "away", "waiting", "connected" or "hung_up"
          pair,    \* the socket_pair of a connection: life, fd, adopted
          inside,  \* where a thread is in the pair's disconnect
          heirs,   \* connections whose descriptor a thread has adopted
          meddled, \* history: connections that another thread disconnected
          foreign, \* history: pairs whose read or close met another connection
          clash    \* history: two threads have been in one pair's disconnect

ssvars == <<server, pairing, table, client, pair, inside, heirs, meddled, foreign, clash>>

Fd == 0 .. MaxFd

Threads == {"pair", "other"}

FreeFds == {f \in Fd : table[f] = "free"}
Lowest == CHOOSE f \in FreeFds : \A g \in FreeFds : f <= g

ServerInit ==
    /\ server = "new" /\ pairing \in BOOLEAN
    /\ \E stdin \in {"other", "free"} : table = [f \in Fd |-> IF f = 0 THEN stdin ELSE "free"]
    /\ client = [c \in Conn |-> "away"]
    /\ pair = [c \in Conn |-> [life |-> "none", fd |-> 0, adopted |-> FALSE]]
    /\ inside = [c \in Conn |-> [t \in Threads |-> "out"]]
    /\ heirs = {} /\ meddled = {} /\ foreign = {} /\ clash = FALSE

-----------------------------------------------------------------------------
(* The server's thread.                                                    *)

\* connect: a descriptor that fails to bind is kept; nothing ever closes it.
Bind ==
    /\ server = "new"
    /\ IF FreeFds = {} THEN server' = "dead" /\ UNCHANGED table
       ELSE /\ table' = [table EXCEPT ![Lowest] = "other"]
            /\ server' \in {"bound", "dead"}
    /\ UNCHANGED <<pairing, client, pair, inside, heirs, meddled, foreign, clash>>

Listen ==
    /\ server = "bound" /\ server' = "listening"
    /\ UNCHANGED <<pairing, table, client, pair, inside, heirs, meddled, foreign, clash>>

\* accept finds no descriptor, or create_pair gives no pair: an exception leaves
\* the loop, and no more connections are accepted.
AcceptFails(c) ==
    /\ server = "listening" /\ client[c] = "waiting"
    /\ FreeFds = {} \/ pairing
    /\ server' = "dead"
    /\ client' = IF FreeFds = {} THEN client ELSE [client EXCEPT ![c] = "away"]
    /\ UNCHANGED <<pairing, table, pair, inside, heirs, meddled, foreign, clash>>

AcceptUnpaired(c) ==
    /\ server = "listening" /\ client[c] = "waiting" /\ FreeFds # {} /\ ~pairing
    /\ client' = [client EXCEPT ![c] = "away"]
    /\ UNCHANGED <<server, pairing, table, pair, inside, heirs, meddled, foreign, clash>>

\* adopted is not initialised; a pair without a thread belongs to nobody.
Accept(c) ==
    /\ server = "listening" /\ client[c] = "waiting" /\ FreeFds # {} /\ pairing
    /\ table' = [table EXCEPT ![Lowest] = c]
    /\ client' = [client EXCEPT ![c] = "connected"]
    /\ \E junk \in BOOLEAN, thread \in {"reading", "orphan"} :
        pair' = [pair EXCEPT ![c] = [life |-> thread, fd |-> Lowest, adopted |-> junk]]
    /\ UNCHANGED <<server, pairing, inside, heirs, meddled, foreign, clash>>

-----------------------------------------------------------------------------
(* The clients.                                                            *)

Connect(c) ==
    /\ client[c] = "away" /\ pair[c].life = "none"
    /\ client' = [client EXCEPT ![c] = "waiting"]
    /\ UNCHANGED <<server, pairing, table, pair, inside, heirs, meddled, foreign, clash>>

HangUp(c) ==
    /\ client[c] = "connected"
    /\ client' = [client EXCEPT ![c] = "hung_up"]
    /\ UNCHANGED <<server, pairing, table, pair, inside, heirs, meddled, foreign, clash>>

-----------------------------------------------------------------------------
(* The pair's thread.                                                      *)

Reads(c) == pair[c].life = "reading"

Note(c) == foreign' = IF table[pair[c].fd] \in {c, "free"} THEN foreign ELSE foreign \union {c}

Ends(c) == pair' = [pair EXCEPT ![c].life = "ending"]

\* acknak answers 0.
Answer(c) ==
    /\ Reads(c) /\ table[pair[c].fd] = c /\ client[c] = "connected"
    /\ Ends(c)
    /\ UNCHANGED <<server, pairing, table, client, inside, heirs, meddled, foreign, clash>>

\* Mutant of ReadEnd: a read of nothing is tried again.
ReadEndRetried(c) ==
    /\ Reads(c) /\ table[pair[c].fd] = "free"
    /\ Ends(c)
    /\ UNCHANGED <<server, pairing, table, client, inside, heirs, meddled, foreign, clash>>

\* read returns 0: the client has hung up, or the descriptor is none.
ReadEnd(c) ==
    /\ Reads(c)
    /\ \/ table[pair[c].fd] = c /\ client[c] = "hung_up"
       \/ table[pair[c].fd] = "free"
    /\ Ends(c)
    /\ UNCHANGED <<server, pairing, table, client, inside, heirs, meddled, foreign, clash>>

\* The descriptor has become another's, and its bytes are read.
ReadOther(c) ==
    /\ Reads(c) /\ table[pair[c].fd] \notin {c, "free"}
    /\ Note(c)
    /\ pair' \in {pair, [pair EXCEPT ![c].life = "ending"]}
    /\ UNCHANGED <<server, pairing, table, client, inside, heirs, meddled, clash>>

\* Mutant of Delete: disconnect whether adopted or not.
DeleteAdopted(c) ==
    /\ pair[c].life = "ending" /\ inside[c]["pair"] = "out"
    /\ IF pair[c].fd # 0
       THEN inside' = [inside EXCEPT ![c]["pair"] = "close"] /\ UNCHANGED pair
       ELSE pair' = [pair EXCEPT ![c].life = "deleted"] /\ UNCHANGED inside
    /\ clash' = (clash \/ (inside[c]["other"] # "out" /\ inside'[c]["pair"] # "out"))
    /\ UNCHANGED <<server, pairing, table, client, heirs, meddled, foreign>>

\* delete socket: disconnect, unless adopted.
Delete(c) ==
    /\ pair[c].life = "ending" /\ inside[c]["pair"] = "out"
    /\ IF pair[c].fd # 0 /\ ~pair[c].adopted
       THEN inside' = [inside EXCEPT ![c]["pair"] = "close"] /\ UNCHANGED pair
       ELSE pair' = [pair EXCEPT ![c].life = "deleted"] /\ UNCHANGED inside
    /\ clash' = (clash \/ (inside[c]["other"] # "out" /\ inside'[c]["pair"] # "out"))
    /\ UNCHANGED <<server, pairing, table, client, heirs, meddled, foreign>>

-----------------------------------------------------------------------------
(* disconnect tests fd, closes it and clears it, in three steps.           *)

\* Another thread disconnects the pair, which was not adopted; the destructor's
\* test is in Delete.
DisconnectPair(c) ==
    /\ pair[c].life \in {"reading", "orphan"} /\ inside[c]["other"] = "out"
    /\ pair[c].fd # 0 /\ c \notin heirs
    /\ inside' = [inside EXCEPT ![c]["other"] = "close"]
    /\ meddled' = meddled \union {c}
    /\ UNCHANGED <<server, pairing, table, client, pair, heirs, foreign, clash>>

Close(c, t) ==
    /\ inside[c][t] = "close" /\ pair[c].life # "deleted"
    /\ Note(c)
    /\ table' = [table EXCEPT ![pair[c].fd] = "free"]
    /\ inside' = [inside EXCEPT ![c][t] = "clear"]
    /\ UNCHANGED <<server, pairing, client, pair, heirs, meddled, clash>>

\* fd = 0; in the destructor the pair is deleted with it.
ClearFd(c, t) ==
    /\ inside[c][t] = "clear" /\ pair[c].life # "deleted"
    /\ pair' = [pair EXCEPT ![c].fd = 0, ![c].life = IF t = "pair" THEN "deleted" ELSE @]
    /\ inside' = [inside EXCEPT ![c][t] = "out"]
    /\ UNCHANGED <<server, pairing, table, client, heirs, meddled, foreign, clash>>

-----------------------------------------------------------------------------
(* The thread that has adopted a descriptor.                               *)

Adopt(c) ==
    /\ Reads(c) /\ c \notin heirs \union meddled
    /\ pair' = [pair EXCEPT ![c].adopted = TRUE]
    /\ heirs' = heirs \union {c}
    /\ UNCHANGED <<server, pairing, table, client, inside, meddled, foreign, clash>>

\* It closes the descriptor, after the pair is gone.
CloseAdopted(c) ==
    /\ pair[c].life = "deleted" /\ c \in heirs /\ pair[c].fd # 0
    /\ Note(c)
    /\ table' = [table EXCEPT ![pair[c].fd] = "free"]
    /\ pair' = [pair EXCEPT ![c].fd = 0]
    /\ UNCHANGED <<server, pairing, client, inside, heirs, meddled, clash>>

ServerNext ==
    \/ Bind \/ Listen
    \/ \E c \in Conn :
        \/ AcceptFails(c) \/ AcceptUnpaired(c) \/ Accept(c) \/ Connect(c) \/ HangUp(c)
        \/ Answer(c) \/ ReadEnd(c) \/ ReadOther(c) \/ Delete(c) \/ DisconnectPair(c)
        \/ Adopt(c) \/ CloseAdopted(c)
        \/ \E t \in Threads : Close(c, t) \/ ClearFd(c, t)

\* Threads that can run do: reads return, destructors go on.
PairFairness == \A c \in Conn :
    /\ WF_ssvars(ReadEnd(c)) /\ WF_ssvars(Delete(c))
    /\ \A t \in Threads : WF_ssvars(Close(c, t)) /\ WF_ssvars(ClearFd(c, t))

ServerSpec == ServerInit /\ [][ServerNext]_ssvars /\ PairFairness

-----------------------------------------------------------------------------
\* A pair reads and closes no other connection than its own, unless another
\* thread has disconnected it; while a pair reads, and until the thread that
\* adopted its descriptor closes it, the descriptor is its connection's; and a
\* connection keeps its descriptor only for a pair that is not deleted, one that
\* was adopted (or whose flag happened to say so), or because the descriptor is
\* 0.  All this until two threads disconnect one pair at the same time.
DescriptorsOwned == clash \/
    /\ foreign \subseteq meddled
    /\ \A f \in Fd : table[f] \in Conn =>
        LET c == table[f] IN f = 0 \/ pair[c].life # "deleted" \/ pair[c].adopted
    /\ \A c \in Conn \ meddled :
        Reads(c) \/ (c \in heirs /\ pair[c].fd # 0) => table[pair[c].fd] = c

\* When the client has hung up, its pair's thread ends and deletes the pair, and
\* the descriptor is free again but for the reasons above.
HangUpReleases == \A c \in Conn :
    (Reads(c) /\ client[c] = "hung_up") ~>
        \/ c \in meddled \/ clash
        \/ pair[c].life = "deleted" /\ \/ c \notin Range(table)
                                       \/ pair[c].adopted \/ table[0] = c
=============================================================================
