------------------------ MODULE CurlInputStreamProofs ------------------------
(* What holds of curl_input_stream for every buffer size and transfer.     *)
EXTENDS CurlInputStream, TLAPS

\* A block is left while the fetcher is inside buffer_input's loop, a read has
\* bytes to go while the reader is inside its own, and got counts taken bytes.
CountInv ==
    /\ fetcher \in {"full", "lock", "wait", "push"} => left > 0
    /\ reader \in {"open", "check", "lock", "take"} \cup ReaderWaits => got < want
    /\ got <= taken

TypeInv == TypeOK /\ CountInv

LEMMA TypeInvInit == Init => TypeInv
<1> SUFFICES ASSUME Init  PROVE TypeInv
  OBVIOUS
<1>1. sent \in 0 .. MaxBytes /\ taken \in 0 .. sent /\ left \in 0 .. MaxBytes - sent
  BY MaxBytesAssumption DEF Init
<1>2. want \in Lengths \cup {0} /\ got \in 0 .. want /\ answer \in {-2, -1} \cup 0 .. MaxBytes
  BY DEF Init
<1>3. alive \in BOOLEAN /\ corrupt \in BOOLEAN
  BY DEF Init
<1>4. CountInv
  BY DEF Init, CountInv, ReaderWaits
<1> QED  BY <1>1, <1>2, <1>3, <1>4 DEF Init, TypeInv, TypeOK

LEMMA TypeInvStep == TypeInv /\ [Next]_vars => TypeInv'
<1> SUFFICES ASSUME TypeInv, [Next]_vars  PROVE TypeInv'
  OBVIOUS
<1>0. MaxBytes \in Nat /\ Lengths \subseteq Nat \ {0}
  BY MaxBytesAssumption, LengthsAssumption
<1> USE <1>0 DEF TypeInv, TypeOK, CountInv, ReaderWaits, readVars, lifeVars
<1>1. ASSUME NEW n \in Lengths, Call(n)  PROVE TypeInv'
  BY <1>1 DEF Call, Created, AtEnd, Empty, Size
<1>2. CASE OpenWait
  BY <1>2 DEF OpenWait, SignalWrite
<1>3. CASE Check
  BY <1>3 DEF Check
<1>4. CASE ReadWait
  BY <1>4 DEF ReadWait, SignalWrite
<1>5. CASE Take
  BY <1>5 DEF Take, Empty, Size
<1>6. CASE Return
  BY <1>6 DEF Return, SignalWrite
<1>7. CASE Start
  BY <1>7 DEF Start
<1>8. CASE TestFull
  BY <1>8 DEF TestFull
<1>9. CASE FullWait
  BY <1>9 DEF FullWait, SignalRead
<1>10. CASE PushByte
  BY <1>10 DEF PushByte
<1>11. CASE BlockDone
  BY <1>11 DEF BlockDone, SignalRead
<1>12. CASE End
  BY <1>12 DEF End
<1>13. CASE LastSignal
  BY <1>13 DEF LastSignal, SignalRead
<1>14. ASSUME NEW n \in 1 .. MaxBytes - sent, Deliver(n)  PROVE TypeInv'
  BY <1>14 DEF Deliver
<1>15. CASE Destroy
  BY <1>15 DEF Destroy
<1>16. CASE SpuriousRead
  BY <1>16 DEF SpuriousRead, SignalRead
<1>17. CASE SpuriousWrite
  BY <1>17 DEF SpuriousWrite, SignalWrite
<1>18. CASE DequeRace
  BY <1>18 DEF DequeRace
<1>19. CASE UNCHANGED vars
  BY <1>19 DEF vars
<1> QED
  BY <1>1, <1>2, <1>3, <1>4, <1>5, <1>6, <1>7, <1>8, <1>9, <1>10, <1>11, <1>12,
     <1>13, <1>14, <1>15, <1>16, <1>17, <1>18, <1>19
  DEF Next, Reading, Fetching

\* The variables hold values of their types: in particular a read never counts
\* past the length it was given, nor the client past what the fetcher pushed.
THEOREM TypeCorrect == Spec => []TypeOK
<1>1. Spec => []TypeInv
  BY TypeInvInit, TypeInvStep, PTL DEF Spec
<1> QED  BY <1>1, PTL DEF TypeInv

-----------------------------------------------------------------------------
(* The two sides never wait for each other.                                *)

LEMMA WaitStep == NoMutualWait /\ [Next]_vars => NoMutualWait'
<1> SUFFICES ASSUME NoMutualWait, [Next]_vars  PROVE NoMutualWait'
  OBVIOUS
<1> USE DEF NoMutualWait, ReaderWaits
<1>1. CASE OpenWait \/ ReadWait
  BY <1>1 DEF OpenWait, ReadWait, SignalWrite
<1>2. CASE FullWait
  BY <1>2 DEF FullWait, SignalRead
<1>3. ASSUME reader' \in ReaderWaits => reader' = reader,
             fetcher' = "wait" => fetcher' = fetcher
      PROVE  NoMutualWait'
  BY <1>3
<1>4. ASSUME NEW n \in Lengths, Call(n)  PROVE NoMutualWait'
  BY <1>3, <1>4 DEF Call
<1>5. CASE Check \/ Take \/ Return \/ Destroy
  BY <1>3, <1>5 DEF Check, Take, Return, SignalWrite, Destroy
<1>6. CASE Start \/ TestFull \/ PushByte \/ End
  BY <1>3, <1>6 DEF Start, TestFull, PushByte, End
<1>7. CASE BlockDone \/ LastSignal
  BY <1>3, <1>7 DEF BlockDone, LastSignal, SignalRead
<1>8. ASSUME NEW n \in 1 .. MaxBytes - sent, Deliver(n)  PROVE NoMutualWait'
  BY <1>3, <1>8 DEF Deliver
<1>9. CASE SpuriousRead \/ SpuriousWrite \/ DequeRace
  BY <1>3, <1>9 DEF SpuriousRead, SpuriousWrite, DequeRace, SignalRead, SignalWrite
<1>10. CASE UNCHANGED vars
  BY <1>3, <1>10 DEF vars
<1> QED
  BY <1>1, <1>2, <1>4, <1>5, <1>6, <1>7, <1>8, <1>9, <1>10 DEF Next, Reading, Fetching

\* The reader waiting for bytes and the fetcher waiting for room exclude each
\* other, so the hang of a read is never a deadlock of the two.
THEOREM NeverBothWait == Spec => []NoMutualWait
<1>1. Init => NoMutualWait
  BY DEF Init, NoMutualWait, ReaderWaits
<1> QED  BY <1>1, WaitStep, PTL DEF Spec

-----------------------------------------------------------------------------
(* The end of the stream.                                                  *)

Over == {"last", "done", "crashed"}

\* The state says EOS only once the fetcher is past its last byte, and CLOSED
\* only before there is a fetcher; -1 is returned in the former and ends it all.
EndInv ==
    /\ streamState = "EOS" => fetcher \in Over
    /\ streamState = "CLOSED" => fetcher = "none"
    /\ answer = -1 => Empty /\ streamState = "EOS" /\ reader = "idle"

LEMMA EndStep == TypeInv /\ EndInv /\ [Next]_vars => EndInv'
<1> SUFFICES ASSUME TypeInv, EndInv, [Next]_vars  PROVE EndInv'
  OBVIOUS
<1>0. got \in Nat
  BY LengthsAssumption DEF TypeInv, TypeOK
<1> USE DEF EndInv, Over, AtEnd, Empty, Size, readVars, lifeVars
<1>1. ASSUME NEW n \in Lengths, Call(n)  PROVE EndInv'
  BY <1>1 DEF Call
<1>2. CASE OpenWait \/ ReadWait \/ Check
  BY <1>2 DEF OpenWait, ReadWait, Check, SignalWrite
<1>3. CASE Take
  BY <1>3 DEF Take
<1>4. CASE Return
  BY <1>0, <1>4 DEF Return, SignalWrite
<1>5. CASE Start \/ TestFull \/ PushByte \/ End
  BY <1>5 DEF Start, TestFull, PushByte, End
<1>6. CASE FullWait \/ BlockDone \/ LastSignal
  BY <1>6 DEF FullWait, BlockDone, LastSignal, SignalRead
<1>7. ASSUME NEW n \in 1 .. MaxBytes - sent, Deliver(n)  PROVE EndInv'
  BY <1>7 DEF Deliver
<1>8. CASE Destroy \/ DequeRace
  BY <1>8 DEF Destroy, DequeRace
<1>9. CASE SpuriousRead \/ SpuriousWrite
  BY <1>9 DEF SpuriousRead, SpuriousWrite, SignalRead, SignalWrite, ReaderWaits
<1>10. CASE UNCHANGED vars
  BY <1>10 DEF vars
<1> QED
  BY <1>1, <1>2, <1>3, <1>4, <1>5, <1>6, <1>7, <1>8, <1>9, <1>10
  DEF Next, Reading, Fetching

LEMMA EndInvariant == Spec => [](TypeInv /\ EndInv)
<1>1. Init => EndInv
  BY DEF Init, EndInv
<1> QED  BY <1>1, TypeInvInit, TypeInvStep, EndStep, PTL DEF Spec

\* -1 is returned only after the last byte of a finished transfer was read.
THEOREM EndIsTrue == Spec => []EndIsReal
<1>1. EndInv => EndIsReal
  BY DEF EndInv, EndIsReal, Over
<1> QED  BY <1>1, EndInvariant, PTL

\* A client that was told -1 is told -1 from then on.
THEOREM EndStays == Spec => EndIsFinal
<1>1. TypeInv /\ EndInv /\ [Next]_vars
        => [answer = -1 => answer' = -1 /\ taken' = taken]_vars
  <2> SUFFICES ASSUME EndInv, [Next]_vars, answer = -1
               PROVE  answer' = -1 /\ taken' = taken
    OBVIOUS
  <2>1. reader = "idle" /\ streamState = "EOS" /\ Empty
    BY DEF EndInv
  <2>2. ASSUME NEW n \in Lengths, Call(n)  PROVE answer' = -1 /\ taken' = taken
    BY <2>1, <2>2 DEF Call, AtEnd
  <2>3. CASE Reading
    BY <2>1, <2>3 DEF Reading, OpenWait, Check, ReadWait, Take, Return
  <2>4. CASE Fetching
    BY <2>4
    DEF Fetching, Start, TestFull, FullWait, PushByte, BlockDone, End, LastSignal,
        Deliver, readVars
  <2>5. CASE Destroy \/ SpuriousRead \/ SpuriousWrite \/ DequeRace \/ UNCHANGED vars
    BY <2>5 DEF Destroy, SpuriousRead, SpuriousWrite, DequeRace, readVars, vars
  <2> QED  BY <2>2, <2>3, <2>4, <2>5 DEF Next
<1> QED  BY <1>1, EndInvariant, PTL DEF Spec, EndIsFinal
=============================================================================
