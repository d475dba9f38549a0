------------------------------- MODULE Chunker -------------------------------
(***************************************************************************)
(* chunker and curler::download: a transfer whose bytes are written to     *)
(* files of chunk_size bytes.  A received byte is named by its number.     *)
(* libcurl gives chunk_write one block after another and ends the transfer *)
(* when it likes.                                                          *)
(*                                                                         *)
(* The overflow of a block goes to the FILE that create_new_chunk closed:  *)
(* it is lost, or ends up in the new file when fopen has reused that FILE. *)
(***************************************************************************)
EXTENDS Integers, SequencesExt

CONSTANTS ChunkSize,  \* chunk_size
          Block,      \* the sizes of the blocks libcurl delivers
          MaxBytes,   \* bound: the bytes of a transfer
          MaxChunks   \* bound: the chunks

ASSUME ChunkSizeAssumption == ChunkSize \in Nat \ {0}
ASSUME BlockAssumption == Block \subseteq Nat \ {0}
ASSUME MaxBytesAssumption == MaxBytes \in Nat

VARIABLES phase,     \* "idle", "perform" or "over": download has returned 1
          file_id, size,  \* as in the code
          disk,      \* the contents of the files, in order of their ids
          received,  \* history: bytes received in this transfer
          first,     \* the file_id this transfer began with
          crossed,   \* history: a block has overflowed
          large,     \* history: a block was larger than a chunk
          wild       \* a negative count was given to fwrite: nothing is defined from here on

cvars == <<phase, file_id, size, disk, received, first, crossed, large, wild>>

ChunkerInit ==
    /\ phase = "idle" /\ file_id = 0 /\ size = 0 /\ disk = << >> /\ received = 0
    /\ first = 0 /\ crossed = FALSE /\ large = FALSE /\ wild = FALSE

\* curl_easy_init fails, download returns 0; or init opens a chunk.  After an
\* earlier download file is null, so that file_id stays and its chunk is emptied.
Download ==
    /\ phase \in {"idle", "over"} /\ ~wild
    /\ phase' = "perform"
    /\ disk' = Append(SubSeq(disk, 1, file_id), << >>)
    /\ size' = 0 /\ received' = 0 /\ first' = file_id /\ crossed' = FALSE /\ large' = FALSE
    /\ UNCHANGED <<file_id, wild>>

\* Mutant of Overflow: size is forgotten.
OverflowOfBlock(n) == IF ChunkSize >= n THEN 0 ELSE n - ChunkSize

Overflow(n) == IF ChunkSize >= size + n THEN 0 ELSE size + n - ChunkSize

Bytes(from, n) == [i \in 1 .. n |-> from + i]

\* chunk_write of a block that fits.
Write(n) ==
    /\ phase = "perform" /\ received + n <= MaxBytes /\ ~wild
    /\ Overflow(n) = 0
    /\ size' = size + n
    /\ disk' = [disk EXCEPT ![file_id + 1] = @ \o Bytes(received, n)]
    /\ received' = received + n
    /\ large' = (large \/ n > ChunkSize)
    /\ UNCHANGED <<phase, file_id, first, crossed, wild>>

\* chunk_write of one that does not: the second fwrite begins with the block's
\* first byte again.
WriteOver(n) ==
    /\ phase = "perform" /\ received + n <= MaxBytes /\ ~wild
    /\ Overflow(n) > 0 /\ n >= Overflow(n)
    /\ file_id + 1 < MaxChunks
    /\ file_id' = file_id + 1
    /\ size' = Overflow(n)
    /\ \E reused \in BOOLEAN :
        disk' = Append([disk EXCEPT ![file_id + 1] = @ \o Bytes(received, n - Overflow(n))],
                       IF reused THEN Bytes(received, Overflow(n)) ELSE << >>)
    /\ received' = received + n
    /\ large' = (large \/ n > ChunkSize)
    /\ crossed' = TRUE
    /\ UNCHANGED <<phase, first, wild>>

\* The chunk holds more than chunk_size already: available is negative.
WriteWild(n) ==
    /\ phase = "perform" /\ received + n <= MaxBytes /\ ~wild
    /\ Overflow(n) > n
    /\ wild' = TRUE /\ large' = (large \/ n > ChunkSize)
    /\ UNCHANGED <<phase, file_id, size, disk, received, first, crossed>>

\* The transfer succeeds or fails: download returns 1.
Cleanup ==
    /\ phase = "perform"
    /\ phase' = "over"
    /\ UNCHANGED <<file_id, size, disk, received, first, crossed, large, wild>>

ChunkerNext ==
    \/ Download \/ Cleanup
    \/ \E n \in Block : Write(n) \/ WriteOver(n) \/ WriteWild(n)

ChunkerSpec == ChunkerInit /\ [][ChunkerNext]_cvars

-----------------------------------------------------------------------------
\* No chunk is taken to hold more than it may, and no count is negative.
SizeInRange == size \in 0 .. ChunkSize /\ ~wild

\* As long as no block is larger than a chunk, no chunk holds more than it may;
\* the sizes of the chunks add up to the bytes received; and until a block first
\* overflows the file holds exactly these bytes.
ChunksExact ==
    /\ large \/ SizeInRange
    /\ phase # "idle" =>
        /\ received = (file_id - first) * ChunkSize + size
        /\ Len(disk) = file_id + 1
        /\ IF crossed THEN disk[first + 1] = Bytes(0, ChunkSize)
                      ELSE disk[file_id + 1] = Bytes(0, received)
=============================================================================
