----------------------------- MODULE SocketBurst -----------------------------
(***************************************************************************)
(* hbc::write and hbc::socket::read at the two ends of a connection.  A    *)
(* payload goes out in bursts of two header bytes and up to PayloadMax     *)
(* bytes; one longer than that is announced by a burst with its length in  *)
(* digits.  One thread writes, one reads.                                  *)
(*                                                                         *)
(* A byte on its way has a name: the payload it belongs to (m), the offset *)
(* of its burst (o, -1 for the burst that announces the length) and its    *)
(* place in the burst (j).  Value gives what the reader finds in it.       *)
(*                                                                         *)
(* The digits of a length take one byte here.  What follows them in that   *)
(* burst comes from beyond the writer's buffer, and atoi never sees it.    *)
(***************************************************************************)
EXTENDS Integers, Sequences

CONSTANTS PayloadMax,   \* PAYLOAD_MAX
          Payloads,     \* what the client writes; a payload of no bytes sends nothing
          MaxMessages,  \* bound: how many payloads the client writes
          ShortWrites   \* ::write may take fewer bytes than it is given

EOH == 2

ASSUME PayloadMaxAssumption  == PayloadMax \in Nat \ {0}
ASSUME PayloadsAssumption    == Payloads \subseteq Seq(Nat) \ {<< >>}
ASSUME MaxMessagesAssumption == MaxMessages \in Nat
ASSUME ShortWritesAssumption == ShortWrites \in BOOLEAN

VARIABLES
    sent,          \* history: the payloads the client began to write
    writer,        \* where the writing thread is
    off,           \* the offset of the burst it writes
    stream,        \* the bytes written and not yet handled by the reader
    got,           \* how many of them are in read_buffer
    announced,     \* payload_size while a chunked payload is read, -1 otherwise
    payload,       \* what was read of it
    delivered,     \* history: the payloads given to acknak
    conversation,  \* "on" until read returns 0; "overrun" after memcpy left payload
    link           \* the state of the connection

vars == <<sent, writer, off, stream, got, announced, payload, delivered,
          conversation, link>>

writeVars == <<sent, writer, off>>
readVars  == <<got, announced, payload, delivered, conversation>>

-----------------------------------------------------------------------------
(* Bursts.                                                                 *)

\* payload_size in write: what is left, or PayloadMax.  The burst that announces
\* the length is written with the length of the payload, so it is a full one.
BurstSize(length, offset) ==
    IF offset # -1 /\ offset + PayloadMax > length THEN length - offset ELSE PayloadMax

\* Mutant of Chunked: the last burst says that another follows.
ChunkedAtEnd(length, offset) == offset + BurstSize(length, offset) <= length

\* The flag of a burst: more follow.
Chunked(length, offset) == offset = -1 \/ offset + BurstSize(length, offset) < length

FirstOffset(length) == IF length > PayloadMax THEN -1 ELSE 0

Length(m) == Len(sent[m])

Value(b) ==
    CASE b.j = 1             -> BurstSize(Length(b.m), b.o)
      [] b.j = 2             -> IF Chunked(Length(b.m), b.o) THEN 1 ELSE 0
      [] b.j > 2 /\ b.o = -1 -> IF b.j = 3 THEN Length(b.m) ELSE 0
      [] OTHER               -> sent[b.m][b.o + b.j - EOH]

Names == [m : 1 .. MaxMessages, o : Nat \cup {-1}, j : Nat \ {0}]

TypeOK ==
    /\ sent \in Seq(Payloads) /\ Len(sent) <= MaxMessages
    /\ writer \in {"idle", "head", "body", "failed"}
    /\ off \in Nat \cup {-1}
    /\ stream \in Seq(Names)
    /\ got \in 0 .. Len(stream)
    /\ announced \in Nat \cup {-1}
    /\ payload \in Seq(Nat)
    /\ delivered \in Seq(Seq(Nat))
    /\ conversation \in {"on", "ended", "overrun"}
    /\ link \in {"up", "closed", "reset"}

Init ==
    /\ sent = << >>
    /\ writer = "idle"
    /\ off = 0
    /\ stream = << >>
    /\ got = 0
    /\ announced = -1
    /\ payload = << >>
    /\ delivered = << >>
    /\ conversation = "on"
    /\ link = "up"

-----------------------------------------------------------------------------
(* The writer.                                                             *)

Write(p) ==
    /\ writer = "idle"
    /\ link # "closed"
    /\ Len(sent) < MaxMessages
    /\ sent' = Append(sent, p)
    /\ off' = FirstOffset(Len(p))
    /\ writer' = "head"
    /\ UNCHANGED <<stream, readVars, link>>

\* One call of ::write for n bytes from place j of the current burst.
Put(j, n) ==
    \E k \in IF ShortWrites THEN 1 .. n ELSE {n} :
        stream' = stream \o
            [i \in 1 .. k |-> [m |-> Len(sent), o |-> off, j |-> j + i - 1]]

WriteHead ==
    /\ writer = "head"
    /\ link = "up"
    /\ Put(1, EOH)
    /\ writer' = "body"
    /\ UNCHANGED <<sent, off, readVars, link>>

\* The offset of the burst after this one.
NextOffset == IF off = -1 THEN 0 ELSE off + BurstSize(Length(Len(sent)), off)

WriteBody ==
    /\ writer = "body"
    /\ link = "up"
    /\ Put(1 + EOH, BurstSize(Length(Len(sent)), off))
    /\ off' = NextOffset
    /\ writer' = IF NextOffset < Length(Len(sent)) THEN "head" ELSE "idle"
    /\ UNCHANGED <<sent, readVars, link>>

\* ::write fails, and the exception leaves hbc::write in the middle.
WriteFails ==
    /\ writer \in {"head", "body"}
    /\ link = "reset"
    /\ writer' = "failed"
    /\ UNCHANGED <<sent, off, stream, readVars, link>>

\* disconnect: what was written still arrives.
Disconnect ==
    /\ writer = "idle"
    /\ link = "up"
    /\ link' = "closed"
    /\ UNCHANGED <<writeVars, stream, readVars>>

\* The connection is lost, with what was on its way.
Reset ==
    /\ link = "up"
    /\ link' = "reset"
    /\ stream' = SubSeq(stream, 1, got)
    /\ UNCHANGED <<writeVars, readVars>>

-----------------------------------------------------------------------------
(* The reader.                                                             *)

\* packet_size in read_packet, from the first byte.
PacketSize == Value(stream[1]) + EOH

Size       == Value(stream[1])
IsChunked  == Value(stream[2]) # 0
Data       == [i \in 1 .. Size |-> Value(stream[EOH + i])]

\* read_packet asks for one byte, then for the rest; ::read returns from one
\* byte up to what there is.  This is not the one that completes the packet.
ReadSome ==
    /\ conversation = "on"
    /\ \E n \in 1 .. Len(stream) - got :
           /\ got = 0 => n = 1
           /\ got > 0 => got + n < PacketSize
           /\ got' = got + n
    /\ UNCHANGED <<writeVars, stream, announced, payload, delivered, conversation, link>>

\* Mutant of Complete: the next packet is read behind this one.
CompleteNoRewind ==
    /\ conversation = "on"
    /\ got > 0
    /\ Len(stream) >= PacketSize
    /\ stream' = SubSeq(stream, PacketSize + 1, Len(stream))
    /\ UNCHANGED <<writeVars, got, link>>

\* The ::read that completes the packet, which is then handled in read_buffer.
Complete ==
    /\ conversation = "on"
    /\ got > 0
    /\ Len(stream) >= PacketSize
    /\ got' = 0
    /\ stream' = SubSeq(stream, PacketSize + 1, Len(stream))
    /\ UNCHANGED <<writeVars, link>>

\* acknak takes the payload, and says whether the conversation goes on.
Deliver(p) ==
    /\ delivered' = Append(delivered, p)
    /\ conversation' \in {"on", "ended"}
    /\ announced' = -1
    /\ payload' = << >>

\* A payload in one burst.
OneBurst ==
    /\ Complete
    /\ announced = -1 /\ ~IsChunked
    /\ Deliver(Data)

\* The burst that announces the length.
Announce ==
    /\ Complete
    /\ announced = -1 /\ IsChunked
    /\ announced' = IF Size > 0 THEN Data[1] ELSE 0
    /\ payload' = << >>
    /\ UNCHANGED <<delivered, conversation>>

\* There are payload_size + 1 bytes at payload; memcpy does not ask.
Copied == payload \o Data
Room   == Len(Copied) <= announced + 1

Chunk ==
    /\ Complete
    /\ announced # -1 /\ IsChunked
    /\ payload' = Copied
    /\ conversation' = IF Room THEN "on" ELSE "overrun"
    /\ UNCHANGED <<announced, delivered>>

\* The sum of the chunks is compared with the announced length at last.
LastChunk ==
    /\ Complete
    /\ announced # -1 /\ ~IsChunked
    /\ IF Len(Copied) = announced
       THEN Deliver(Copied)
       ELSE /\ payload' = Copied
            /\ conversation' = IF Room THEN "ended" ELSE "overrun"
            /\ UNCHANGED <<announced, delivered>>

\* Mutant of ReadEnds: the loop over the chunks ends, and what there is is delivered.
ReadEndsWithPart ==
    /\ conversation = "on"
    /\ link # "up"
    /\ got = Len(stream)
    /\ IF announced # -1
       THEN Deliver(payload)
       ELSE conversation' = "ended" /\ UNCHANGED <<announced, payload, delivered>>
    /\ UNCHANGED <<writeVars, stream, got, link>>

\* ::read returns 0 or -1: read returns 0, whatever it was in the middle of.
ReadEnds ==
    /\ conversation = "on"
    /\ link # "up"
    /\ got = Len(stream)
    /\ conversation' = "ended"
    /\ UNCHANGED <<writeVars, stream, got, announced, payload, delivered, link>>

-----------------------------------------------------------------------------

Writing == WriteHead \/ WriteBody \/ WriteFails

Reading ==
    \/ ReadSome
    \/ OneBurst \/ Announce \/ Chunk \/ LastChunk
    \/ ReadEnds

Next ==
    \/ \E p \in Payloads : Write(p)
    \/ Writing
    \/ Reading
    \/ Disconnect \/ Reset

\* Both threads are scheduled; acknak returns.  When the client writes or
\* disconnects, and whether the connection holds, is left open.
Fairness == WF_vars(Writing) /\ WF_vars(Reading)

Spec     == Init /\ [][Next]_vars
FairSpec == Spec /\ Fairness

-----------------------------------------------------------------------------
(* Properties.                                                             *)

\* The payloads acknak gets are those write was given, in order and complete,
\* however the stream was cut into reads and wherever it broke off.
DeliveredIsSent ==
    /\ Len(delivered) <= Len(sent)
    /\ \A k \in 1 .. Len(delivered) : delivered[k] = sent[k]

\* The chunks never come to more than the length that announced them: memcpy
\* stays in payload, although the sum is tested only after the last chunk.
AssemblyFits ==
    /\ conversation # "overrun"
    /\ announced # -1 => Len(payload) < announced

\* What was written arrives, unless one side ended the conversation or the
\* connection was lost.
Arrives ==
    \A k \in 1 .. MaxMessages :
        Len(sent) >= k ~> \/ Len(delivered) >= k
                          \/ conversation # "on"
                          \/ link = "reset"
=============================================================================
