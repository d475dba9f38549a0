--------------------------- MODULE CurlInputStream ---------------------------
(***************************************************************************)
(* hbc::curl_input_stream: a client reads a transfer as a stream.  The     *)
(* first read starts a thread, here the fetcher, that runs                 *)
(* curl_easy_perform and puts what libcurl delivers into a deque; read     *)
(* takes it out.  Each waits for the other on a condition variable.        *)
(*                                                                         *)
(* The tests that decide to wait are made outside the mutex, and neither   *)
(* side tests again after its wait.  So a test, the wait it leads to (lock, *)
(* signal the other side, wait: one step, nobody holds the mutex between   *)
(* steps) and what follows the wait are separate steps here.  A signal     *)
(* moves the thread that waits, if it does, to the statement after its     *)
(* wait; a signal with nobody waiting is lost.                             *)
(*                                                                         *)
(* Bytes are counted, not named: the deque keeps them in order.  It is not *)
(* protected by the mutex, so two overlapping accesses may leave it        *)
(* corrupt; the model ends there.                                          *)
(*                                                                         *)
(* Faults: pthread_create may fail (fetcher = "unborn"), waits may end     *)
(* without a signal, and a transfer may end before all its bytes came.     *)
(***************************************************************************)
EXTENDS Integers

CONSTANTS BufferSize,  \* BUFFERSIZE
          Lengths,     \* the lengths clients pass to read
          CreateFails, \* whether pthread_create can fail
          MaxBytes     \* bound: how many bytes a transfer delivers at most

ASSUME BufferSizeAssumption == BufferSize \in Nat \ {0}
ASSUME LengthsAssumption    == Lengths \subseteq Nat \ {0}
ASSUME CreateAssumption     == CreateFails \in BOOLEAN
ASSUME MaxBytesAssumption   == MaxBytes \in Nat

VARIABLES
    streamState,  \* stream_state
    sent,         \* bytes pushed to the deque so far
    taken,        \* bytes popped from it so far
    reader,       \* where the client's thread is in read
    want,         \* the argument length of the read going on
    got,          \* its local i
    answer,       \* what the last read returned; -2 before the first
    fetcher,      \* where the fetcher is
    left,         \* bytes of the block libcurl delivered not yet pushed
    alive,        \* the stream was not destroyed
    corrupt       \* accesses to the deque overlapped and broke it

vars == <<streamState, sent, taken, reader, want, got, answer, fetcher, left,
          alive, corrupt>>

readVars  == <<want, got, answer>>
lifeVars  == <<alive, corrupt>>

Size  == sent - taken
Empty == Size = 0

ReaderWaits == {"openWait", "wait"}

TypeOK ==
    /\ streamState \in {"CLOSED", "OPEN", "INITIAL_READ", "READING", "EOS"}
    /\ sent \in 0 .. MaxBytes
    /\ taken \in 0 .. sent
    /\ reader \in {"idle", "open", "check", "lock", "take", "signal"} \cup ReaderWaits
    /\ want \in Lengths \cup {0}
    /\ got \in 0 .. want
    /\ answer \in {-2, -1} \cup 0 .. MaxBytes
    /\ fetcher \in {"none", "unborn", "start", "perform", "full", "lock", "wait", "push",
                    "signal", "last", "done", "crashed"}
    /\ left \in 0 .. MaxBytes - sent
    /\ alive \in BOOLEAN
    /\ corrupt \in BOOLEAN

Init ==
    /\ streamState = "CLOSED"
    /\ sent = 0
    /\ taken = 0
    /\ reader = "idle"
    /\ want = 0
    /\ got = 0
    /\ answer = -2
    /\ fetcher = "none"
    /\ left = 0
    /\ alive = TRUE
    /\ corrupt = FALSE

\* pthread_cond_signal: the waiting side goes on after its wait.
SignalRead ==
    reader' = CASE reader = "openWait" -> "check"
                [] reader = "wait"     -> "take"
                [] OTHER               -> reader

SignalWrite == fetcher' = IF fetcher = "wait" THEN "push" ELSE fetcher

-----------------------------------------------------------------------------
(* read, in the client's thread.                                           *)

\* Mutants of AtEnd: what is buffered does not matter; or nothing but that does.
AtEndEarly  == streamState = "EOS"
AtEndEmpty  == streamState # "CLOSED" /\ Empty

\* The test for the end of the stream.
AtEnd == streamState = "EOS" /\ Empty

\* What pthread_create, whose result read ignores, leaves behind: a thread about
\* to run, or none, now and for ever, since the state is no longer CLOSED.
Created == {"start"} \cup IF CreateFails THEN {"unborn"} ELSE {}

\* From the call to the first wait, or to the loop.
Call(n) ==
    /\ reader = "idle" /\ alive /\ ~corrupt
    /\ want' = n
    /\ got' = 0
    /\ \/ /\ AtEnd
          /\ answer' = -1
          /\ UNCHANGED <<streamState, reader, fetcher>>
       \/ /\ streamState = "CLOSED"
          /\ streamState' = "OPEN"
          /\ fetcher' \in Created
          /\ reader' = "open"
          /\ UNCHANGED answer
       \/ /\ streamState # "CLOSED"
          /\ ~AtEnd
          /\ reader' = "check"
          /\ UNCHANGED <<streamState, fetcher, answer>>
    /\ UNCHANGED <<sent, taken, left, lifeVars>>

\* The wait of the read that opened the stream, whatever the fetcher has done.
OpenWait ==
    /\ reader = "open" /\ ~corrupt
    /\ SignalWrite
    /\ reader' = "openWait"
    /\ UNCHANGED <<streamState, sent, taken, readVars, left, lifeVars>>

\* The head of the loop: wait if there is nothing and more can come.
Check ==
    /\ reader = "check" /\ ~corrupt
    /\ reader' = IF streamState # "EOS" /\ Empty THEN "lock" ELSE "take"
    /\ UNCHANGED <<streamState, sent, taken, readVars, fetcher, left, lifeVars>>

\* Mutant of ReadWait: the fetcher is not told that there is room.
ReadWaitSilent ==
    /\ reader = "lock" /\ ~corrupt
    /\ reader' = "wait"
    /\ UNCHANGED <<streamState, sent, taken, readVars, fetcher, left, lifeVars>>

ReadWait ==
    /\ reader = "lock" /\ ~corrupt
    /\ SignalWrite
    /\ reader' = "wait"
    /\ UNCHANGED <<streamState, sent, taken, readVars, left, lifeVars>>

\* Mutant of Take: the second test for an empty buffer is missing.
TakeUntested ==
    /\ reader = "take" /\ ~corrupt
    /\ taken' = taken + 1
    /\ got' = got + 1
    /\ reader' = IF got + 1 = want THEN "signal" ELSE "check"
    /\ UNCHANGED <<streamState, sent, want, answer, fetcher, left, lifeVars>>

\* The rest of the loop: leave it if there is still nothing.
Take ==
    /\ reader = "take" /\ ~corrupt
    /\ \/ /\ Empty
          /\ reader' = "signal"
          /\ UNCHANGED <<taken, got>>
       \/ /\ ~Empty
          /\ taken' = taken + 1
          /\ got' = got + 1
          /\ reader' = IF got + 1 = want THEN "signal" ELSE "check"
    /\ UNCHANGED <<streamState, sent, want, answer, fetcher, left, lifeVars>>

Return ==
    /\ reader = "signal" /\ ~corrupt
    /\ SignalWrite
    /\ answer' = got
    /\ reader' = "idle"
    /\ UNCHANGED <<streamState, sent, taken, want, got, left, lifeVars>>

\* A client that has read to the end destroys the stream.
Destroy ==
    /\ reader = "idle" /\ answer = -1 /\ alive
    /\ alive' = FALSE
    /\ UNCHANGED <<streamState, sent, taken, reader, readVars, fetcher, left, corrupt>>

-----------------------------------------------------------------------------
(* thread_this and the callback buffer_input, in the fetcher.              *)

Start ==
    /\ fetcher = "start" /\ ~corrupt
    /\ streamState' = "INITIAL_READ"
    /\ fetcher' = "perform"
    /\ UNCHANGED <<sent, taken, reader, readVars, left, lifeVars>>

\* libcurl calls buffer_input with a block of n bytes.
Deliver(n) ==
    /\ fetcher = "perform" /\ ~corrupt
    /\ streamState' = IF streamState = "INITIAL_READ" THEN "READING" ELSE streamState
    /\ left' = n
    /\ fetcher' = "full"
    /\ UNCHANGED <<sent, taken, reader, readVars, lifeVars>>

\* The test for a full buffer, before each byte.
TestFull ==
    /\ fetcher = "full" /\ ~corrupt
    /\ fetcher' = IF Size = BufferSize THEN "lock" ELSE "push"
    /\ UNCHANGED <<streamState, sent, taken, reader, readVars, left, lifeVars>>

\* Mutant of FullWait: the reader is not told that there are bytes.
FullWaitSilent ==
    /\ fetcher = "lock" /\ ~corrupt
    /\ fetcher' = "wait"
    /\ UNCHANGED <<streamState, sent, taken, reader, readVars, left, lifeVars>>

FullWait ==
    /\ fetcher = "lock" /\ ~corrupt
    /\ SignalRead
    /\ fetcher' = "wait"
    /\ UNCHANGED <<streamState, sent, taken, readVars, left, lifeVars>>

PushByte ==
    /\ fetcher = "push" /\ ~corrupt
    /\ sent' = sent + 1
    /\ left' = left - 1
    /\ fetcher' = IF left = 1 THEN "signal" ELSE "full"
    /\ UNCHANGED <<streamState, taken, reader, readVars, lifeVars>>

BlockDone ==
    /\ fetcher = "signal" /\ ~corrupt
    /\ SignalRead
    /\ fetcher' = "perform"
    /\ UNCHANGED <<streamState, sent, taken, readVars, left, lifeVars>>

\* curl_easy_perform returns: everything arrived, or the transfer failed.
End ==
    /\ fetcher = "perform" /\ ~corrupt
    /\ streamState' = "EOS"
    /\ fetcher' = "last"
    /\ UNCHANGED <<sent, taken, reader, readVars, left, lifeVars>>

\* The last signal, through a mutex that a client may have destroyed.
LastSignal ==
    /\ fetcher = "last" /\ ~corrupt
    /\ IF alive
       THEN SignalRead /\ fetcher' = "done"
       ELSE fetcher' = "crashed" /\ UNCHANGED reader
    /\ UNCHANGED <<streamState, sent, taken, readVars, left, lifeVars>>

-----------------------------------------------------------------------------

\* pthread_cond_wait may return without a signal.
SpuriousRead ==
    /\ reader \in ReaderWaits /\ ~corrupt
    /\ SignalRead
    /\ UNCHANGED <<streamState, sent, taken, readVars, fetcher, left, lifeVars>>

SpuriousWrite ==
    /\ fetcher = "wait" /\ ~corrupt
    /\ SignalWrite
    /\ UNCHANGED <<streamState, sent, taken, reader, readVars, left, lifeVars>>

\* Both threads are at the deque, and one of them changes it.
DequeRace ==
    /\ ~corrupt
    /\ \/ fetcher = "push" /\ reader \in {"check", "take"}
       \/ fetcher = "full" /\ reader = "take"
    /\ corrupt' = TRUE
    /\ UNCHANGED <<streamState, sent, taken, reader, readVars, fetcher, left, alive>>

Reading == OpenWait \/ Check \/ ReadWait \/ Take \/ Return

Fetching ==
    \/ Start \/ TestFull \/ FullWait \/ PushByte \/ BlockDone \/ End \/ LastSignal
    \/ \E n \in 1 .. MaxBytes - sent : Deliver(n)

Next ==
    \/ \E n \in Lengths : Call(n)
    \/ Reading
    \/ Fetching
    \/ Destroy
    \/ SpuriousRead \/ SpuriousWrite
    \/ DequeRace

\* Both threads are scheduled, transfers end (libcurl has its timeouts), and the
\* client reads again until it is told -1.
Fairness ==
    /\ WF_vars(Reading)
    /\ WF_vars(Fetching)
    /\ WF_vars(\E n \in Lengths : Call(n) /\ answer # -1)

Spec == Init /\ [][Next]_vars /\ Fairness

-----------------------------------------------------------------------------
(* Properties.                                                             *)

\* read returns -1 only when the transfer is over and every byte was read.
EndIsReal == answer = -1 => Empty /\ fetcher \in {"last", "done", "crashed"}

\* After -1 there is nothing more, however often the client asks.
EndIsFinal == [][answer = -1 => answer' = -1 /\ taken' = taken]_vars

\* The two sides never wait for each other: each signals before it waits.
NoMutualWait == ~(reader \in ReaderWaits /\ fetcher = "wait")

\* A read returns, unless it waits for a signal and nobody is left to give it:
\* the fetcher has given its last one, or pthread_create failed and there never
\* was a fetcher.
Silent == {"unborn", "done", "crashed"}

ReadReturns ==
    reader # "idle" ~> \/ reader = "idle"
                       \/ reader \in ReaderWaits /\ fetcher \in Silent
                       \/ corrupt

\* A fetcher that waits for room goes on, as long as the client reads.
FetcherResumes == fetcher = "wait" ~> fetcher # "wait" \/ corrupt

(* What the repository says of read, and the code does not do.             *)

\* The test's loop: a client that keeps reading is told -1 in the end.
StreamEnds == <>(answer = -1 \/ corrupt)
=============================================================================
