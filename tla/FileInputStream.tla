--------------------------- MODULE FileInputStream ---------------------------
(***************************************************************************)
(* file_input_stream: a file opened by the first read and closed by the    *)
(* read that finds its end.  A read holds the mutex from start to end, so  *)
(* it is one step, whatever the threads; the destructor does not, and runs *)
(* when no read does.                                                      *)
(***************************************************************************)
EXTENDS Integers, Sequences

CONSTANTS FileSize,  \* bytes in the file
          Lengths    \* lengths asked for

ASSUME FileSizeAssumption == FileSize \in Nat
ASSUME LengthsAssumption == Lengths \subseteq Int

VARIABLES stream_state,  \* "CLOSED", "OPEN" or "EOS"
          file,      \* the field: "junk" until it is assigned, "null" or "handle"
          at,        \* the place in the file
          opened,    \* the handle is open
          results,   \* history: what the last two reads of a positive length returned
          gone       \* "no", or what the destructor did: "fine" or "junk_closed"

fvars == <<stream_state, file, at, opened, results, gone>>

FileInit ==
    /\ stream_state = "CLOSED" /\ file = "junk" /\ at = 0
    /\ opened = FALSE /\ results = <<1, 1>> /\ gone = "no"

Returns(r) == results' = <<results[2], r>>

\* A length that is not positive: 0, and nothing else.
ReadNothing == gone = "no" /\ (\E n \in Lengths : n <= 0) /\ UNCHANGED fvars

ReadEnded ==
    /\ gone = "no" /\ stream_state = "EOS"
    /\ Returns(-1)
    /\ UNCHANGED <<stream_state, file, at, opened, gone>>

\* fopen fails.
OpenFails ==
    /\ gone = "no" /\ stream_state = "CLOSED"
    /\ stream_state' = "EOS" /\ file' = "null"
    /\ Returns(-1)
    /\ UNCHANGED <<at, opened, gone>>

\* Mutant of ReadFile: the end is not remembered.
ReadFileOn(n) ==
    /\ gone = "no" /\ stream_state # "EOS" /\ n > 0
    /\ \E r \in 0 .. n :
        /\ r <= FileSize - at
        /\ at' = at + r
        /\ Returns(r)
        /\ stream_state' = "OPEN"
        /\ IF r = 0 THEN file' = "null" /\ opened' = FALSE
                    ELSE file' = "handle" /\ opened' = TRUE
    /\ UNCHANGED gone

\* fread gives what there is, or less when the device fails.
ReadFile(n) ==
    /\ gone = "no" /\ stream_state # "EOS" /\ n > 0
    /\ \E r \in 0 .. n :
        /\ r <= FileSize - at
        /\ at' = at + r
        /\ Returns(r)
        /\ IF r = 0 THEN stream_state' = "EOS" /\ file' = "null" /\ opened' = FALSE
                    ELSE stream_state' = "OPEN" /\ file' = "handle" /\ opened' = TRUE
    /\ UNCHANGED gone

\* if (file) fclose(file): what the field holds before the first read may be any
\* pointer.
Destroy ==
    /\ gone = "no"
    /\ gone' \in (IF file = "junk" THEN {"fine", "junk_closed"} ELSE {"fine"})
    /\ opened' = (opened /\ file # "handle")
    /\ UNCHANGED <<stream_state, at, results>>
    /\ file' = "null"

FileNext ==
    \/ ReadNothing \/ ReadEnded \/ OpenFails
    \/ \E n \in Lengths : ReadFile(n)
    \/ Destroy

FileSpec == FileInit /\ [][FileNext]_fvars

\* After the end, which a read announces by 0 or -1, every read returns -1, and
\* the handle is closed; no handle outlives the stream, and none is closed that
\* was never opened unless the stream was never read.
FileExact ==
    /\ results[1] <= 0 => results[2] = -1
    /\ opened <=> (file = "handle")
    /\ stream_state = "OPEN" /\ gone = "no" <=> opened
    /\ gone = "junk_closed" => stream_state = "CLOSED"
=============================================================================
