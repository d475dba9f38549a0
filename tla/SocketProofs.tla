---------------------------- MODULE SocketProofs ----------------------------
(***************************************************************************)
(* What holds of the framing for every PAYLOAD_MAX and every payload, as   *)
(* long as ::write takes all it is given, and of socket_server for every   *)
(* number of connections and descriptors.                                  *)
(***************************************************************************)
EXTENDS SocketBurst, SocketServer, SequenceTheorems, WellFoundedInduction, TLAPS

-----------------------------------------------------------------------------
(* The framing of bursts.                                                  *)

\* A burst that write makes of payload m.
Burst(m, o) ==
    /\ m \in 1 .. Len(sent)
    /\ \/ o = -1 /\ Length(m) > PayloadMax
       \/ o \in 0 .. Length(m) - 1 /\ (o # 0 => Length(m) > PayloadMax)

SizeOf(m, o) == BurstSize(Length(m), o)

Valid(b) == Burst(b.m, b.o) /\ b.j \in 1 .. SizeOf(b.m, b.o) + EOH

EndsBurst(b) == b.j = SizeOf(b.m, b.o) + EOH

\* b begins the burst that follows the burst of a.
After(a, b) ==
    /\ b.j = 1
    /\ a.o = -1 => b.m = a.m /\ b.o = 0
    /\ a.o # -1 /\ Chunked(Length(a.m), a.o) =>
          b.m = a.m /\ b.o = a.o + SizeOf(a.m, a.o)
    /\ a.o # -1 /\ ~Chunked(Length(a.m), a.o) =>
          b.m = a.m + 1 /\ b.o = FirstOffset(Length(b.m))

\* The reader is at b: in the payload after those delivered, at its beginning or
\* behind what was read of it.
At(b) ==
    /\ b.j = 1
    /\ b.m = Len(delivered) + 1
    /\ announced = -1 => b.o = FirstOffset(Length(b.m))
    /\ announced # -1 =>
          /\ announced = Length(b.m)
          /\ announced > PayloadMax
          /\ b.o = Len(payload)
          /\ payload = SubSeq(sent[b.m], 1, b.o)

\* The first byte of what the writer writes next.
Coming == [m |-> Len(sent), o |-> off, j |-> IF writer = "head" THEN 1 ELSE 1 + EOH]

\* The stream is made of whole bursts, but for the last.
ValidStream == \A i \in 1 .. Len(stream) : Valid(stream[i])

Whole ==
    \A i \in 1 .. Len(stream) : stream[i].j = 1 =>
       \A d \in 0 .. SizeOf(stream[i].m, stream[i].o) + 1 :
          i + d <= Len(stream) =>
             stream[i + d] = [m |-> stream[i].m, o |-> stream[i].o, j |-> 1 + d]

Ordered == \A i \in 1 .. Len(stream) - 1 : EndsBurst(stream[i]) => After(stream[i], stream[i + 1])

Bursts == ValidStream /\ Whole /\ Ordered

\* Where the stream ends, the writer goes on.
Last == stream[Len(stream)]

BetweenPayloads ==
    IF stream = << >> THEN announced = -1 /\ Len(delivered) = Len(sent)
    ELSE /\ EndsBurst(Last)
         /\ Last.m = Len(sent)
         /\ Last.o # -1
         /\ ~Chunked(Length(Last.m), Last.o)

BetweenBursts ==
    /\ Valid(Coming)
    /\ IF stream = << >> THEN At(Coming) ELSE EndsBurst(Last) /\ After(Last, Coming)

InBurst ==
    /\ Valid(Coming)
    /\ stream # << >>
    /\ Last = [m |-> Len(sent), o |-> off, j |-> EOH]

WriterInv ==
    /\ link = "closed" => writer = "idle"
    /\ link # "reset" =>
          /\ writer # "failed"
          /\ writer = "idle" => BetweenPayloads
          /\ writer = "head" => BetweenBursts
          /\ writer = "body" => InBurst

ReaderInv ==
    /\ DeliveredIsSent
    /\ AssemblyFits
    /\ stream # << >> => At(stream[1])

FrameInv == Bursts /\ WriterInv /\ ReaderInv

-----------------------------------------------------------------------------
(* Bursts.                                                                 *)

LEMMA MaxIsPositive == PayloadMax \in Nat /\ PayloadMax > 0
  BY PayloadMaxAssumption

LEMMA SentTypes ==
  ASSUME TypeOK, NEW m \in 1 .. Len(sent)
  PROVE  /\ sent[m] \in Seq(Nat)
         /\ Length(m) \in Nat
         /\ Length(m) > 0
<1>1. sent[m] \in Payloads
  BY ElementOfSeq DEF TypeOK
<1>2. sent[m] \in Seq(Nat) /\ sent[m] # << >>
  BY <1>1, PayloadsAssumption
<1> QED  BY <1>2, EmptySeq DEF Length

LEMMA SizeFacts ==
  ASSUME TypeOK, NEW m, NEW o, Burst(m, o)
  PROVE  /\ o \in Nat \cup {-1}
         /\ SizeOf(m, o) \in 1 .. PayloadMax
         /\ o = -1 => SizeOf(m, o) = PayloadMax /\ Chunked(Length(m), o)
         /\ o # -1 => o + SizeOf(m, o) <= Length(m)
         /\ o # -1 => (Chunked(Length(m), o) <=> o + SizeOf(m, o) # Length(m))
         /\ o # -1 /\ Chunked(Length(m), o) => Length(m) > PayloadMax
<1>1. Length(m) \in Nat /\ m \in 1 .. Len(sent)
  BY SentTypes DEF Burst
<1> QED  BY <1>1, MaxIsPositive DEF Burst, SizeOf, BurstSize, Chunked

LEMMA FirstIsBurst ==
  ASSUME TypeOK, NEW m \in 1 .. Len(sent)
  PROVE  Burst(m, FirstOffset(Length(m)))
  BY SentTypes, MaxIsPositive DEF Burst, FirstOffset

LEMMA FunctionIsSeq ==
  ASSUME NEW S, NEW n \in Nat, NEW f \in [1 .. n -> S]
  PROVE  f \in Seq(S) /\ Len(f) = n
  OBVIOUS

\* n bytes of burst o of payload m, from place j, came onto the stream.
Added(m, o, j, n) ==
    /\ Len(stream') = Len(stream) + n
    /\ \A i \in 1 .. Len(stream) : stream'[i] = stream[i]
    /\ \A i \in Len(stream) + 1 .. Len(stream) + n :
          stream'[i] = [m |-> m, o |-> o, j |-> j + (i - Len(stream)) - 1]

\* Without short writes, a call of ::write puts all of its bytes.
LEMMA PutAll ==
  ASSUME TypeOK, ~ShortWrites, Len(sent) > 0,
         NEW j \in Nat \ {0}, NEW n \in Nat, Put(j, n)
  PROVE  /\ stream' \in Seq(Names)
         /\ Len(stream') = Len(stream) + n
         /\ \A i \in 1 .. Len(stream) : stream'[i] = stream[i]
         /\ \A i \in Len(stream) + 1 .. Len(stream) + n :
               stream'[i] = [m |-> Len(sent), o |-> off, j |-> j + (i - Len(stream)) - 1]
<1> DEFINE new == [i \in 1 .. n |-> [m |-> Len(sent), o |-> off, j |-> j + i - 1]]
<1>1. stream' = stream \o new
  BY DEF Put
<1>2. \A i \in 1 .. n : new[i] \in Names
  BY MaxMessagesAssumption, LenProperties DEF TypeOK, Names
<1>3. new \in Seq(Names) /\ Len(new) = n
  <2>1. new \in [1 .. n -> Names]
    BY <1>2
  <2> HIDE DEF new
  <2> QED  BY <2>1, FunctionIsSeq
<1>4. stream \in Seq(Names)
  BY DEF TypeOK
<1>5. Len(stream) \in Nat
  BY <1>4, LenProperties
<1>6. /\ stream \o new \in Seq(Names)
      /\ Len(stream \o new) = Len(stream) + n
      /\ \A i \in 1 .. Len(stream) + n :
            (stream \o new)[i] = IF i <= Len(stream) THEN stream[i] ELSE new[i - Len(stream)]
  BY <1>3, <1>4, ConcatProperties
<1>7. \A i \in 1 .. Len(stream) : stream'[i] = stream[i]
  BY <1>1, <1>5, <1>6
<1>8. ASSUME NEW i \in Len(stream) + 1 .. Len(stream) + n
      PROVE  stream'[i] = [m |-> Len(sent), o |-> off, j |-> j + (i - Len(stream)) - 1]
  <2>1. stream'[i] = new[i - Len(stream)] /\ i - Len(stream) \in 1 .. n
    BY <1>1, <1>5, <1>6
  <2> QED  BY <2>1
<1> QED  BY <1>1, <1>6, <1>7, <1>8

-----------------------------------------------------------------------------
(* The writer.                                                             *)

\* One more piece of a burst, at its beginning or behind its header, where the
\* stream expects it, leaves a stream of bursts.
LEMMA PutKeepsBursts ==
  ASSUME TypeOK, TypeOK', Bursts, UNCHANGED sent,
         NEW m, NEW o, Burst(m, o),
         NEW j \in {1, 1 + EOH}, NEW n \in Nat, j + n - 1 <= SizeOf(m, o) + EOH,
         Added(m, o, j, n),
         j = 1 => \/ stream = << >>
                  \/ EndsBurst(Last) /\ After(Last, [m |-> m, o |-> o, j |-> 1]),
         j # 1 => stream # << >> /\ Last = [m |-> m, o |-> o, j |-> EOH]
  PROVE  Bursts'
<1> DEFINE L == Len(stream)
<1>0. /\ L \in Nat /\ Len(stream') \in Nat /\ Len(stream') = L + n
      /\ stream # << >> => L > 0
      /\ j \in Nat
  BY LenProperties, EmptySeq DEF TypeOK, EOH, Added
<1> USE DEF Added
<1>1. SizeOf(m, o) \in Nat /\ SizeOf(m, o) > 0
  BY SizeFacts, MaxIsPositive
<1>2. ASSUME NEW i \in 1 .. Len(stream')  PROVE Valid(stream[i])'
  <2>1. CASE i <= L
    <3>1. Valid(stream[i]) /\ stream'[i] = stream[i]
      BY <1>0, <2>1 DEF Bursts, ValidStream
    <3> QED  BY <3>1 DEF Valid, Burst, SizeOf, Length
  <2>2. CASE i > L
    <3>0. i \in L + 1 .. L + n
      BY <1>0, <2>2
    <3>1. stream'[i] = [m |-> m, o |-> o, j |-> j + (i - L) - 1]
      BY <3>0
    <3>2. j + (i - L) - 1 \in 1 .. SizeOf(m, o) + EOH
      BY <1>0, <1>1, <2>2 DEF EOH
    <3> QED  BY <3>1, <3>2 DEF Valid, Burst, SizeOf, Length
  <2> QED  BY <1>0, <2>1, <2>2
<1>3. ASSUME NEW i \in 1 .. Len(stream'), stream'[i].j = 1,
             NEW d \in 0 .. SizeOf(stream'[i].m, stream'[i].o) + 1, i + d <= Len(stream')
      PROVE  stream'[i + d] = [m |-> stream'[i].m, o |-> stream'[i].o, j |-> 1 + d]
  <2>0. i \in Nat /\ i > 0 /\ d \in Int
    BY <1>0
  <2>1. CASE i > L
    <3>0. i \in L + 1 .. L + n
      BY <1>0, <2>0, <2>1
    <3>1. stream'[i] = [m |-> m, o |-> o, j |-> j + (i - L) - 1]
      BY <3>0
    <3>2. j = 1 /\ i = L + 1
      BY <1>0, <2>1, <3>1, <1>3 DEF EOH
    <3>3. SizeOf(stream'[i].m, stream'[i].o) = SizeOf(m, o)
      BY <3>1
    <3>4. d \in Nat /\ i + d \in L + 1 .. L + n
      BY <1>0, <1>1, <1>3, <3>2, <3>3
    <3>5. stream'[i + d] = [m |-> m, o |-> o, j |-> j + ((i + d) - L) - 1]
      BY <3>4
    <3> QED  BY <1>0, <3>1, <3>2, <3>4, <3>5
  <2>2. CASE i <= L
    <3>0. i \in 1 .. L /\ stream'[i] = stream[i] /\ Valid(stream[i])
      BY <1>0, <2>0, <2>2 DEF Bursts, ValidStream
    <3>1. SizeOf(stream[i].m, stream[i].o) \in Nat
      BY <3>0, SizeFacts, MaxIsPositive DEF Valid
    <3>2. d \in Nat
      BY <3>0, <3>1
    <3>3. ASSUME NEW e \in 0 .. SizeOf(stream[i].m, stream[i].o) + 1, i + e <= L
          PROVE  stream[i + e] = [m |-> stream[i].m, o |-> stream[i].o, j |-> 1 + e]
      BY <3>0, <3>3, <1>3 DEF Bursts, Whole
    <3>4. CASE i + d <= L
      <4>1. stream'[i + d] = stream[i + d]
        BY <1>0, <2>0, <3>2, <3>4
      <4> QED  BY <3>0, <3>3, <3>4, <4>1
    <3>5. CASE i + d > L
      <4>0. d <= SizeOf(stream[i].m, stream[i].o) + 1
        BY <3>0, <3>1
      <4>1. L - i \in 0 .. SizeOf(stream[i].m, stream[i].o) + 1 /\ i + (L - i) <= L
        BY <1>0, <2>0, <2>2, <3>1, <3>2, <3>5, <4>0
      <4>2. Last = [m |-> stream[i].m, o |-> stream[i].o, j |-> 1 + (L - i)]
        BY <1>0, <2>0, <3>3, <4>1 DEF Last
      <4>3. j # 1
        BY <1>0, <2>0, <3>0, <3>1, <3>2, <3>5, <4>2 DEF EndsBurst, EOH
      <4>4. stream[i].m = m /\ stream[i].o = o /\ L - i = 1
        BY <1>0, <2>0, <4>2, <4>3 DEF EOH
      <4>5. stream'[i + d] = [m |-> m, o |-> o, j |-> j + ((i + d) - L) - 1]
        BY <1>0, <1>3, <2>0, <3>2, <3>5
      <4> QED  BY <1>0, <2>0, <3>0, <3>2, <4>3, <4>4, <4>5 DEF EOH
    <3> QED  BY <1>0, <2>0, <3>2, <3>4, <3>5
  <2> QED  BY <1>0, <2>0, <2>1, <2>2
<1>4. ASSUME NEW i \in 1 .. Len(stream') - 1, EndsBurst(stream'[i])
      PROVE  After(stream'[i], stream'[i + 1])
  <2>0. i \in Nat /\ i > 0
    BY <1>0
  <2>1. CASE i < L
    <3>1. stream'[i] = stream[i] /\ stream'[i + 1] = stream[i + 1] /\ i \in 1 .. L - 1
      BY <1>0, <2>0, <2>1
    <3> QED  BY <1>4, <3>1 DEF Bursts, Ordered
  <2>2. CASE i = L
    <3>1. stream'[i] = Last /\ stream'[i + 1] = [m |-> m, o |-> o, j |-> j]
      BY <1>0, <2>0, <2>2 DEF Last
    <3>2. j = 1
      BY <1>1, <1>4, <3>1 DEF EndsBurst, EOH
    <3> QED  BY <1>0, <2>0, <2>2, <3>1, <3>2, EmptySeq
  <2>3. CASE i > L
    <3>1. stream'[i] = [m |-> m, o |-> o, j |-> j + (i - L) - 1]
      BY <1>0, <2>0, <2>3
    <3>2. j + (i - L) - 1 < SizeOf(m, o) + EOH
      BY <1>0, <1>1, <2>0, <2>3 DEF EOH
    <3> QED  BY <1>4, <3>1, <3>2 DEF EndsBurst
  <2> QED  BY <1>0, <2>0, <2>1, <2>2, <2>3
<1>5. Whole'
  BY <1>3 DEF Whole, SizeOf, Length
<1>6. Ordered'
  BY <1>4 DEF Ordered, EndsBurst, After, SizeOf, Length
<1> QED  BY <1>2, <1>5, <1>6 DEF Bursts, ValidStream

-----------------------------------------------------------------------------
(* The inductive invariant, and the steps of the writer.                   *)

\* Types and framing: inductive.
Inv == TypeOK /\ FrameInv

LEMMA InvInit == Init => Inv
<1> SUFFICES ASSUME Init  PROVE Inv
  OBVIOUS
<1>1. TypeOK
  BY MaxMessagesAssumption DEF Init, TypeOK
<1>2. Bursts
  BY DEF Init, Bursts, ValidStream, Whole, Ordered
<1>3. WriterInv
  BY DEF Init, WriterInv, BetweenPayloads
<1>4. ReaderInv
  BY DEF Init, ReaderInv, DeliveredIsSent, AssemblyFits
<1> QED  BY <1>1, <1>2, <1>3, <1>4 DEF Inv, FrameInv

LEMMA WriteHeadStep ==
  ASSUME Inv, ~ShortWrites, WriteHead
  PROVE  Inv'
<1> DEFINE m == Len(sent)  n == SizeOf(m, off)  L == Len(stream)
<1>1. TypeOK /\ Bursts /\ ReaderInv /\ BetweenBursts
  BY DEF Inv, FrameInv, WriteHead, WriterInv
<1>2. /\ writer = "head" /\ writer' = "body" /\ link' = link /\ link = "up"
      /\ Put(1, EOH)
      /\ UNCHANGED <<sent, off, got, announced, payload, delivered, conversation>>
  BY DEF WriteHead, readVars
<1>3. Burst(m, off) /\ Coming = [m |-> m, o |-> off, j |-> 1]
  BY <1>1, <1>2 DEF BetweenBursts, Valid, Coming
<1>4. n \in Nat /\ n > 0 /\ L \in Nat /\ m > 0
  <2>1. n \in Nat /\ n > 0
    BY <1>1, <1>3, SizeFacts, MaxIsPositive
  <2>2. L \in Nat /\ m \in Nat
    BY <1>1, LenProperties DEF TypeOK
  <2> QED  BY <1>3, <2>1, <2>2 DEF Burst
<1>5. /\ stream' \in Seq(Names)
      /\ Len(stream') = L + EOH
      /\ \A i \in 1 .. L : stream'[i] = stream[i]
      /\ \A i \in L + 1 .. L + EOH :
            stream'[i] = [m |-> m, o |-> off, j |-> 1 + (i - L) - 1]
  BY <1>1, <1>2, <1>4, PutAll DEF EOH
<1>6. TypeOK'
  BY <1>1, <1>2, <1>4, <1>5 DEF TypeOK, EOH
<1>7. Bursts'
  <2>1. Added(m, off, 1, EOH)
    BY <1>5 DEF Added
  <2> QED  BY <1>1, <1>2, <1>3, <1>4, <1>6, <2>1, PutKeepsBursts DEF BetweenBursts, EOH
<1>8. stream' # << >> /\ Last' = [m |-> m, o |-> off, j |-> EOH]
  <2>1. L + 2 \in L + 1 .. L + EOH /\ Len(stream') = L + 2
    BY <1>4, <1>5 DEF EOH
  <2> QED  BY <1>4, <1>5, <2>1, EmptySeq DEF Last, EOH
<1>9. Valid(Coming)'
  BY <1>2, <1>3, <1>4 DEF Valid, Burst, Coming, SizeOf, Length, EOH
<1>10. WriterInv'
  BY <1>2, <1>8, <1>9 DEF WriterInv, InBurst
<1>11. At(stream[1])'
  <2>1. CASE stream # << >>
    <3>1. stream'[1] = stream[1]
      BY <1>1, <1>4, <1>5, <2>1, EmptySeq DEF TypeOK
    <3> QED  BY <1>1, <1>2, <2>1, <3>1 DEF ReaderInv, At, Length
  <2>2. CASE stream = << >>
    <3>1. stream'[1] = Coming /\ At(Coming)
      BY <1>1, <1>3, <1>5, <2>2 DEF BetweenBursts, EOH
    <3> QED  BY <1>2, <3>1 DEF At, Length
  <2> QED  BY <2>1, <2>2
<1>12. ReaderInv'
  BY <1>1, <1>2, <1>11 DEF ReaderInv, DeliveredIsSent, AssemblyFits
<1> QED  BY <1>6, <1>7, <1>10, <1>12 DEF Inv, FrameInv

LEMMA WriteBodyStep ==
  ASSUME Inv, ~ShortWrites, WriteBody
  PROVE  Inv'
<1> DEFINE m == Len(sent)  n == SizeOf(m, off)  L == Len(stream)
<1>1. TypeOK /\ Bursts /\ ReaderInv /\ InBurst
  BY DEF Inv, FrameInv, WriteBody, WriterInv
<1>2. /\ writer = "body" /\ link' = link /\ link = "up"
      /\ Put(1 + EOH, n)
      /\ off' = NextOffset
      /\ writer' = IF NextOffset < Length(m) THEN "head" ELSE "idle"
      /\ UNCHANGED <<sent, got, announced, payload, delivered, conversation>>
  BY DEF WriteBody, readVars, SizeOf
<1>3. Burst(m, off)
  BY <1>1, <1>2 DEF InBurst, Valid, Coming
<1>4. n \in Nat /\ n > 0 /\ L \in Nat /\ L > 0 /\ m > 0
  <2>1. n \in Nat /\ n > 0
    BY <1>1, <1>3, SizeFacts, MaxIsPositive
  <2>2. L \in Nat /\ L > 0 /\ m \in Nat
    BY <1>1, LenProperties, EmptySeq DEF TypeOK, InBurst
  <2> QED  BY <1>3, <2>1, <2>2 DEF Burst
<1>5. /\ stream' \in Seq(Names)
      /\ Len(stream') = L + n
      /\ \A i \in 1 .. L : stream'[i] = stream[i]
      /\ \A i \in L + 1 .. L + n :
            stream'[i] = [m |-> m, o |-> off, j |-> 1 + EOH + (i - L) - 1]
  <2>1. 1 + EOH \in Nat \ {0} /\ ~ShortWrites /\ Len(sent) > 0
    BY <1>4 DEF EOH
  <2> QED  BY <1>1, <1>2, <1>4, <2>1, PutAll
<1>6. NextOffset \in Nat
  BY <1>3, <1>4, <1>1, SizeFacts DEF NextOffset, SizeOf
<1>7. TypeOK'
  BY <1>1, <1>2, <1>4, <1>5, <1>6 DEF TypeOK
<1>8. Bursts'
  <2>1. 1 + EOH + n - 1 <= n + EOH /\ 1 + EOH \in {1, 1 + EOH} /\ 1 + EOH # 1
    BY <1>4 DEF EOH
  <2>2. stream # << >> /\ Last = [m |-> m, o |-> off, j |-> EOH]
    BY <1>1 DEF InBurst
  <2>3. UNCHANGED sent /\ n \in Nat
    BY <1>2, <1>4
  <2>4. Added(m, off, 1 + EOH, n)
    BY <1>5 DEF Added
  <2> QED  BY <1>1, <1>3, <1>7, <2>1, <2>2, <2>3, <2>4, PutKeepsBursts
<1>9. stream' # << >> /\ Last' = [m |-> m, o |-> off, j |-> n + EOH]
  <2>1. L + n \in L + 1 .. L + n /\ Len(stream') = L + n
    BY <1>4, <1>5
  <2>2. stream'[L + n] = [m |-> m, o |-> off, j |-> 1 + EOH + ((L + n) - L) - 1]
    BY <1>5, <2>1
  <2> QED  BY <1>4, <2>1, <2>2, EmptySeq DEF Last, EOH
<1>10. EndsBurst(Last)'
  BY <1>2, <1>9 DEF EndsBurst, SizeOf, Length
<1>11. ASSUME NextOffset < Length(m)  PROVE WriterInv'
  <2>1. writer' = "head" /\ Coming' = [m |-> m, o |-> NextOffset, j |-> 1]
    BY <1>2, <1>11 DEF Coming
  <2>2. Burst(m, NextOffset)
    BY <1>1, <1>3, <1>4, <1>6, <1>11, SizeFacts, SentTypes DEF Burst, NextOffset, SizeOf
  <2>3. SizeOf(m, NextOffset) \in Nat
    BY <1>1, <2>2, SizeFacts, MaxIsPositive
  <2>4. Valid(Coming)'
    BY <1>2, <2>1, <2>2, <2>3 DEF Valid, Burst, SizeOf, Length, EOH
  <2>5. off # -1 => Chunked(Length(m), off)
    BY <1>2, <1>11 DEF NextOffset, Chunked
  <2>6. After(Last, Coming)'
    BY <1>2, <1>9, <2>1, <2>5 DEF After, NextOffset, SizeOf, Length
  <2>7. BetweenBursts'
    BY <1>9, <1>10, <2>4, <2>6 DEF BetweenBursts
  <2> QED  BY <1>2, <2>1, <2>7 DEF WriterInv
<1>12. ASSUME ~(NextOffset < Length(m))  PROVE WriterInv'
  <2>1. off # -1 /\ ~Chunked(Length(m), off)
    BY <1>1, <1>3, <1>12, SentTypes DEF NextOffset, Chunked, Burst
  <2>2. BetweenPayloads'
    BY <1>2, <1>9, <1>10, <2>1 DEF BetweenPayloads, Length
  <2> QED  BY <1>2, <1>12, <2>2 DEF WriterInv
<1>13. WriterInv'
  BY <1>11, <1>12
<1>14. ReaderInv'
  <2>1. stream'[1] = stream[1] /\ stream # << >>
    BY <1>1, <1>4, <1>5 DEF InBurst
  <2> QED  BY <1>1, <1>2, <2>1 DEF ReaderInv, At, Length, DeliveredIsSent, AssemblyFits
<1> QED  BY <1>7, <1>8, <1>13, <1>14 DEF Inv, FrameInv

LEMMA WriteStep ==
  ASSUME Inv, NEW p \in Payloads, Write(p)
  PROVE  Inv'
<1>1. TypeOK /\ Bursts /\ ReaderInv /\ WriterInv
  BY DEF Inv, FrameInv
<1>0. PICK m : m = Len(sent) + 1
  OBVIOUS
<1>2. /\ writer = "idle" /\ writer' = "head" /\ link' = link /\ link # "closed"
      /\ Len(sent) < MaxMessages
      /\ sent' = Append(sent, p) /\ off' = FirstOffset(Len(p))
      /\ UNCHANGED <<stream, got, announced, payload, delivered, conversation>>
  BY DEF Write, readVars
<1>3. /\ Len(sent) \in Nat /\ Len(sent') = m /\ sent' \in Seq(Payloads)
      /\ sent'[m] = p
      /\ \A k \in 1 .. Len(sent) : sent'[k] = sent[k] /\ k \in 1 .. Len(sent')
  BY <1>0, <1>1, <1>2, AppendProperties, LenProperties DEF TypeOK
<1>4. Len(p) \in Nat /\ Len(p) > 0
  BY PayloadsAssumption, LenProperties, EmptySeq
<1>5. off' \in {-1, 0} /\ (off' = -1 <=> Len(p) > PayloadMax)
  BY <1>2 DEF FirstOffset
<1>6. TypeOK'
  BY <1>1, <1>2, <1>3, <1>5, MaxMessagesAssumption DEF TypeOK
<1>7. \A k \in 1 .. Len(sent) : Length(k)' = Length(k)
  BY <1>3 DEF Length
<1>8. ASSUME NEW i \in 1 .. Len(stream)
      PROVE  /\ Valid(stream[i])'
             /\ stream[i].m \in 1 .. Len(sent)
             /\ Length(stream[i].m)' = Length(stream[i].m)
             /\ stream'[i] = stream[i]
  <2>1. Valid(stream[i]) /\ stream'[i] = stream[i]
    BY <1>1, <1>2 DEF Bursts, ValidStream
  <2>2. stream[i].m \in 1 .. Len(sent)
    BY <2>1 DEF Valid, Burst
  <2>3. Length(stream[i].m)' = Length(stream[i].m) /\ stream[i].m \in 1 .. Len(sent')
    BY <1>2, <1>3, <2>2 DEF Length
  <2> QED  BY <2>1, <2>2, <2>3, <1>2 DEF Valid, Burst, SizeOf
<1>9. Bursts'
  <2>1. Whole'
    BY <1>1, <1>2, <1>8 DEF Bursts, Whole, SizeOf
  <2>2. ASSUME NEW i \in 1 .. Len(stream) - 1, EndsBurst(stream[i])'
        PROVE  After(stream[i], stream[i + 1])'
    <3>1. i \in 1 .. Len(stream) /\ i + 1 \in 1 .. Len(stream)
      BY <1>1, LenProperties DEF TypeOK
    <3>2. EndsBurst(stream[i])
      BY <1>8, <2>2, <3>1 DEF EndsBurst, SizeOf
    <3>3. After(stream[i], stream[i + 1])
      BY <1>1, <3>2 DEF Bursts, Ordered
    <3> QED  BY <1>8, <3>1, <3>3 DEF After, SizeOf
  <2>3. Ordered'
    BY <1>2, <2>2 DEF Ordered
  <2> QED  BY <1>2, <1>8, <2>1, <2>3 DEF Bursts, ValidStream
<1>10. ASSUME link # "reset"  PROVE BetweenBursts'
  <2>1. BetweenPayloads
    BY <1>1, <1>2, <1>10 DEF WriterInv
  <2>2. Coming' = [m |-> m, o |-> FirstOffset(Len(p)), j |-> 1] /\ Length(m)' = Len(p)
    BY <1>2, <1>3 DEF Coming, Length
  <2>3. Burst(m, off)'
    <3>1. m \in 1 .. Len(sent') /\ Len(sent'[m]) = Len(p)
      BY <1>0, <1>3
    <3>2. \/ off' = -1 /\ Len(p) > PayloadMax
          \/ off' \in 0 .. Len(p) - 1 /\ off' = 0
      BY <1>4, <1>5
    <3> QED  BY <3>1, <3>2 DEF Burst, Length
  <2>4. SizeOf(m, off)' \in Nat
    BY <1>4, <1>5, <2>2, MaxIsPositive DEF SizeOf, BurstSize
  <2>5. Valid(Coming)'
    <3>1. Coming'.m = m /\ Coming'.o = off' /\ Coming'.j = 1
      BY <1>2, <2>2
    <3>2. 1 \in 1 .. SizeOf(m, off)' + EOH
      BY <2>4 DEF EOH
    <3> QED  BY <1>3, <2>3, <3>1, <3>2 DEF Valid, SizeOf, Burst, Length
  <2>6. CASE stream = << >>
    <3>1. announced' = -1 /\ Len(delivered') + 1 = m
      BY <1>0, <1>2, <2>1, <2>6 DEF BetweenPayloads
    <3>2. Coming'.m = m /\ Coming'.j = 1 /\ Coming'.o = FirstOffset(Len(sent'[m]))
      BY <1>3, <2>2
    <3>3. At(Coming)'
      BY <3>1, <3>2 DEF At, Length
    <3> QED  BY <1>2, <2>5, <2>6, <3>3 DEF BetweenBursts
  <2>7. CASE stream # << >>
    <3>1. Len(stream) \in 1 .. Len(stream)
      BY <1>1, <2>7, LenProperties, EmptySeq DEF TypeOK
    <3>2. /\ Last' = Last /\ Last.m = Len(sent) /\ Last.o # -1 /\ EndsBurst(Last)
          /\ ~Chunked(Length(Last.m), Last.o)
          /\ sent'[Last.m] = sent[Last.m]
      BY <1>2, <1>3, <1>8, <2>1, <2>7, <3>1 DEF BetweenPayloads, Last
    <3>3. EndsBurst(Last)'
      BY <3>2 DEF EndsBurst, SizeOf, Length
    <3>4. Coming'.m = m /\ Coming'.j = 1 /\ Coming'.o = FirstOffset(Len(sent'[m]))
      BY <1>3, <2>2
    <3>5. After(Last, Coming)'
      BY <1>0, <3>2, <3>4 DEF After, Length
    <3> QED  BY <1>2, <2>5, <2>7, <3>3, <3>5 DEF BetweenBursts
  <2> QED  BY <2>6, <2>7
<1>11. WriterInv'
  BY <1>2, <1>10 DEF WriterInv
<1>12. ReaderInv'
  <2>1. DeliveredIsSent'
    <3>1. Len(delivered) \in Nat
      BY <1>1, LenProperties DEF TypeOK
    <3> QED  BY <1>1, <1>2, <1>3, <3>1 DEF ReaderInv, DeliveredIsSent
  <2>2. ASSUME stream # << >>  PROVE At(stream[1])'
    <3>1. 1 \in 1 .. Len(stream)
      BY <1>1, <2>2, LenProperties, EmptySeq DEF TypeOK
    <3> QED  BY <1>1, <1>2, <1>3, <1>8, <2>2, <3>1 DEF ReaderInv, At
  <2> QED  BY <1>1, <1>2, <2>1, <2>2 DEF ReaderInv, AssemblyFits
<1> QED  BY <1>6, <1>9, <1>11, <1>12 DEF Inv, FrameInv

\* The steps that move no byte: a partial read, the end of either side.
LEMMA QuietSteps ==
  ASSUME Inv, ReadSome \/ ReadEnds \/ WriteFails \/ Disconnect
  PROVE  Inv'
<1>1. TypeOK /\ Bursts /\ ReaderInv /\ WriterInv
  BY DEF Inv, FrameInv
<1>2. UNCHANGED <<sent, off, stream, announced, payload, delivered>>
  BY DEF ReadSome, ReadEnds, WriteFails, Disconnect, readVars, writeVars
<1>3. got' \in 0 .. Len(stream)
  <2>1. Len(stream) \in Nat /\ got \in 0 .. Len(stream)
    BY <1>1, LenProperties DEF TypeOK
  <2>2. got' = got \/ \E n \in 1 .. Len(stream) - got : got' = got + n
    BY DEF ReadSome, ReadEnds, WriteFails, Disconnect, readVars
  <2> QED  BY <2>1, <2>2
<1>4. TypeOK'
  <2>1. conversation' \in {"on", "ended", "overrun"}
    BY <1>1 DEF TypeOK, ReadSome, ReadEnds, WriteFails, Disconnect, readVars
  <2>2. writer' \in {"idle", "head", "body", "failed"} /\ link' \in {"up", "closed", "reset"}
    BY <1>1 DEF TypeOK, ReadSome, ReadEnds, WriteFails, Disconnect, writeVars
  <2> QED  BY <1>1, <1>2, <1>3, <2>1, <2>2 DEF TypeOK
<1>5. Bursts'
  BY <1>1, <1>2 DEF Bursts, ValidStream, Valid, Burst, Whole, Ordered, EndsBurst, After,
                    SizeOf, Length
<1>6. WriterInv'
  <2>1. CASE writer' = writer /\ link' = link
    BY <1>1, <1>2, <2>1 DEF WriterInv, BetweenPayloads, BetweenBursts, InBurst, Valid,
                            Burst, Coming, At, EndsBurst, After, Last, SizeOf, Length
  <2>2. CASE WriteFails
    BY <2>2 DEF WriterInv, WriteFails
  <2>3. CASE Disconnect
    BY <1>1, <1>2, <2>3 DEF WriterInv, Disconnect, writeVars, BetweenPayloads, Last,
                            EndsBurst, SizeOf, Length
  <2> QED  BY <2>1, <2>2, <2>3 DEF ReadSome, ReadEnds, writeVars
<1>7. ReaderInv'
  <2>1. conversation' = conversation \/ conversation' = "ended"
    BY DEF ReadSome, ReadEnds, WriteFails, Disconnect, readVars
  <2> QED  BY <1>1, <1>2, <2>1 DEF ReaderInv, DeliveredIsSent, AssemblyFits, At, Length
<1> QED  BY <1>4, <1>5, <1>6, <1>7 DEF Inv, FrameInv

\* A connection that is lost cuts the stream anywhere behind what was read.
LEMMA ResetStep ==
  ASSUME Inv, Reset
  PROVE  Inv'
<1>1. TypeOK /\ Bursts /\ ReaderInv
  BY DEF Inv, FrameInv
<1>2. /\ link' = "reset" /\ stream' = SubSeq(stream, 1, got)
      /\ UNCHANGED <<sent, writer, off, got, announced, payload, delivered, conversation>>
  BY DEF Reset, writeVars, readVars
<1>3. stream \in Seq(Names) /\ Len(stream) \in Nat /\ got \in 0 .. Len(stream)
  BY <1>1, LenProperties DEF TypeOK
<1>4. /\ stream' \in Seq(Names) /\ Len(stream') = got
      /\ \A i \in 1 .. got : stream'[i] = stream[i] /\ i \in 1 .. Len(stream)
  BY <1>2, <1>3, SubSeqProperties
<1>5. TypeOK'
  BY <1>1, <1>2, <1>3, <1>4 DEF TypeOK
<1>6. Bursts'
  <2>1. ASSUME NEW i \in 1 .. got  PROVE Valid(stream[i])'
    BY <1>1, <1>2, <1>4 DEF Bursts, ValidStream, Valid, Burst, SizeOf, Length
  <2>2. ASSUME NEW i \in 1 .. got, stream[i].j = 1,
               NEW d \in 0 .. SizeOf(stream[i].m, stream[i].o) + 1, i + d <= got
        PROVE  stream'[i + d] = [m |-> stream[i].m, o |-> stream[i].o, j |-> 1 + d]
    <3>1. Valid(stream[i])
      BY <1>1, <1>4 DEF Bursts, ValidStream
    <3>2. d \in Nat
      BY <1>1, <3>1, SizeFacts, MaxIsPositive DEF Valid
    <3>3. i + d \in 1 .. got /\ i + d <= Len(stream)
      BY <1>3, <2>2, <3>2
    <3> QED  BY <1>1, <1>4, <2>2, <3>3 DEF Bursts, Whole
  <2>3. Whole'
    <3>1. ASSUME NEW i \in 1 .. got, stream'[i].j = 1,
                 NEW d \in 0 .. SizeOf(stream[i].m, stream[i].o) + 1, i + d <= got
          PROVE  stream'[i + d] = [m |-> stream'[i].m, o |-> stream'[i].o, j |-> 1 + d]
      BY <1>4, <2>2, <3>1
    <3>2. \A i \in 1 .. got :
             SizeOf(stream[i].m, stream[i].o)' = SizeOf(stream[i].m, stream[i].o)
      BY <1>2, <1>4 DEF SizeOf, Length
    <3> QED  BY <1>4, <3>1, <3>2 DEF Whole
  <2>4. ASSUME NEW i \in 1 .. got - 1, EndsBurst(stream[i])
        PROVE  After(stream'[i], stream'[i + 1])
    <3>1. i \in 1 .. got /\ i + 1 \in 1 .. got /\ i \in 1 .. Len(stream) - 1
      BY <1>3
    <3> QED  BY <1>1, <1>4, <2>4, <3>1 DEF Bursts, Ordered
  <2>5. Ordered'
    <3>1. \A i \in 1 .. got - 1 : i \in 1 .. got
      BY <1>3
    <3>2. \A i \in 1 .. got : EndsBurst(stream[i])' = EndsBurst(stream[i])
      BY <1>2, <1>4 DEF EndsBurst, SizeOf, Length
    <3>3. \A i \in 1 .. got - 1 : i + 1 \in 1 .. got
      BY <1>3
    <3>4. ASSUME NEW i \in 1 .. got - 1, EndsBurst(stream[i])'
          PROVE  After(stream[i], stream[i + 1])'
      BY <1>2, <1>4, <2>4, <3>1, <3>2, <3>3, <3>4 DEF After, SizeOf, Length
    <3> QED  BY <1>4, <3>4 DEF Ordered
  <2> QED  BY <1>4, <2>1, <2>3, <2>5 DEF Bursts, ValidStream
<1>7. WriterInv'
  BY <1>2 DEF WriterInv
<1>8. ReaderInv'
  <2>1. ASSUME stream' # << >>  PROVE stream # << >> /\ stream'[1] = stream[1]
    BY <1>3, <1>4, <2>1, EmptySeq
  <2> QED  BY <1>1, <1>2, <2>1 DEF ReaderInv, At, Length, DeliveredIsSent, AssemblyFits
<1> QED  BY <1>5, <1>6, <1>7, <1>8 DEF Inv, FrameInv

-----------------------------------------------------------------------------
(* The steps of the reader that handle a packet.                           *)

\* The bytes behind the header of the first packet are those of burst o of payload m.
HoldsBurst(m, o) ==
    \A i \in 1 .. SizeOf(m, o) :
       Value(stream[EOH + i]) =
          IF o = -1 THEN (IF i = 1 THEN Length(m) ELSE 0) ELSE sent[m][o + i]

\* The packet in read_buffer is a whole burst, the one the reader is at, with the
\* bytes of its payload; what follows it in the stream is behind it.
LEMMA PacketIsBurst ==
  ASSUME Inv, Complete,
         NEW m, NEW o, stream[1].m = m, stream[1].o = o
  PROVE  /\ stream # << >> /\ At(stream[1]) /\ Burst(m, o)
         /\ Size = SizeOf(m, o)
         /\ PacketSize = SizeOf(m, o) + EOH
         /\ PacketSize <= Len(stream)
         /\ IsChunked <=> Chunked(Length(m), o)
         /\ stream[PacketSize] = [m |-> m, o |-> o, j |-> SizeOf(m, o) + EOH]
         /\ HoldsBurst(m, o)
<1> DEFINE n == SizeOf(m, o)
<1>1. TypeOK /\ Bursts /\ ReaderInv
  BY DEF Inv, FrameInv
<1>2. stream # << >> /\ Len(stream) \in Nat /\ 1 \in 1 .. Len(stream)
  BY <1>1, LenProperties, EmptySeq DEF TypeOK, Complete
<1>3. At(stream[1]) /\ Burst(m, o) /\ stream[1].j = 1
  BY <1>1, <1>2 DEF ReaderInv, At, Bursts, ValidStream, Valid
<1>4. n \in Nat /\ n > 0
  BY <1>1, <1>3, SizeFacts, MaxIsPositive
<1>5. Value(stream[1]) = n
  BY <1>3 DEF Value, SizeOf
<1>6. PacketSize = n + 2 /\ Size = n /\ n + 2 <= Len(stream)
  BY <1>5 DEF PacketSize, Size, Complete, EOH
<1>7. ASSUME NEW d \in 0 .. n + 1
      PROVE  stream[1 + d] = [m |-> m, o |-> o, j |-> 1 + d]
  <2>1. 1 + d <= Len(stream)
    BY <1>2, <1>4, <1>6
  <2> QED  BY <1>1, <1>2, <1>3, <2>1 DEF Bursts, Whole
<1>8. stream[2] = [m |-> m, o |-> o, j |-> 2]
  <2>1. 1 \in 0 .. n + 1
    BY <1>4
  <2>2. stream[1 + 1] = [m |-> m, o |-> o, j |-> 1 + 1]
    BY <1>7, <2>1
  <2> QED  BY <2>2
<1>9. IsChunked <=> Chunked(Length(m), o)
  BY <1>8 DEF IsChunked, Value
<1>10. stream[PacketSize] = [m |-> m, o |-> o, j |-> n + EOH]
  <2>1. n + 1 \in 0 .. n + 1
    BY <1>4
  <2>2. stream[1 + (n + 1)] = [m |-> m, o |-> o, j |-> 1 + (n + 1)]
    BY <1>7, <2>1
  <2>3. 1 + (n + 1) = n + 2
    BY <1>4
  <2> QED  BY <1>6, <2>2, <2>3 DEF EOH
<1>11. ASSUME NEW i \in 1 .. n
       PROVE  Value(stream[EOH + i]) =
                 IF o = -1 THEN (IF i = 1 THEN Length(m) ELSE 0) ELSE sent[m][o + i]
  <2>1. 1 + i \in 0 .. n + 1 /\ EOH + i = 1 + (1 + i)
    BY <1>4 DEF EOH
  <2>2. stream[EOH + i] = [m |-> m, o |-> o, j |-> EOH + i]
    BY <1>7, <2>1
  <2>3. o \in Int
    BY <1>1, <1>3, SizeFacts
  <2>4. EOH + i > 2 /\ (EOH + i = 3 <=> i = 1) /\ o + (EOH + i) - EOH = o + i
    BY <1>4, <2>3 DEF EOH
  <2> QED  BY <2>2, <2>4 DEF Value
<1>12. HoldsBurst(m, o)
  BY <1>11 DEF HoldsBurst
<1> QED  BY <1>2, <1>3, <1>6, <1>9, <1>10, <1>12 DEF EOH

\* What is behind the packet is a stream of bursts too, and it goes on where the
\* packet ended.
LEMMA RestIsBursts ==
  ASSUME Inv, Complete,
         NEW m, NEW o, stream[1].m = m, stream[1].o = o
  PROVE  /\ stream' \in Seq(Names)
         /\ Bursts'
         /\ stream' # << >> => /\ Last' = Last
                               /\ After(stream[1], stream'[1])
                               /\ Burst(stream'[1].m, stream'[1].o)
         /\ stream' = << >> => Last = [m |-> m, o |-> o, j |-> SizeOf(m, o) + EOH]
<1> DEFINE k == PacketSize  L == Len(stream)
<1>1. TypeOK /\ Bursts
  BY DEF Inv, FrameInv
<1>2. /\ stream' = SubSeq(stream, k + 1, L)
      /\ UNCHANGED sent
  BY DEF Complete, writeVars
<1>3. Burst(m, o) /\ k = SizeOf(m, o) + 2 /\ k <= L
      /\ stream[k] = [m |-> m, o |-> o, j |-> SizeOf(m, o) + EOH]
  BY PacketIsBurst DEF EOH
<1>4. stream \in Seq(Names) /\ L \in Nat /\ k \in Nat /\ k > 2
  BY <1>1, <1>3, LenProperties, SizeFacts, MaxIsPositive DEF TypeOK
<1> HIDE DEF k
<1>5. /\ stream' \in Seq(Names) /\ Len(stream') = L - k
      /\ \A i \in 1 .. L - k : stream'[i] = stream[k + i]
  <2>1. k + 1 \in 1 .. L + 1 /\ L \in k .. L
    BY <1>3, <1>4
  <2>2. \A i \in 1 .. L - k : (k + 1) + i - 1 = k + i
    BY <1>4
  <2>3. /\ Len(stream') = IF k + 1 <= L THEN L - (k + 1) + 1 ELSE 0
        /\ stream' \in Seq(Names)
        /\ \A i \in 1 .. L - (k + 1) + 1 : stream'[i] = stream[(k + 1) + i - 1]
    BY <1>2, <1>3, <1>4, <2>1, SubSeqProperties
  <2> QED  BY <1>3, <1>4, <2>2, <2>3
<1>6. \A i \in 1 .. L - k : k + i \in 1 .. L /\ i \in Nat
  BY <1>4
<1>7. \A i \in 1 .. L : /\ Valid(stream[i])
                        /\ SizeOf(stream[i].m, stream[i].o) \in Nat
  BY <1>1, SizeFacts, MaxIsPositive DEF Bursts, ValidStream, Valid
<1>8. \A i \in 1 .. L - k : Valid(stream[i])'
  BY <1>2, <1>5, <1>6, <1>7 DEF Valid, Burst, SizeOf, Length
<1>9. Whole'
  <2>1. ASSUME NEW i \in 1 .. L - k, stream'[i].j = 1,
               NEW d \in 0 .. SizeOf(stream'[i].m, stream'[i].o) + 1, i + d <= L - k
        PROVE  stream'[i + d] = [m |-> stream'[i].m, o |-> stream'[i].o, j |-> 1 + d]
    <3>1. stream'[i] = stream[k + i] /\ k + i \in 1 .. L /\ i \in Nat
      BY <1>5, <1>6
    <3>2. SizeOf(stream[k + i].m, stream[k + i].o) \in Nat
      BY <1>7, <3>1
    <3>3. d \in Nat /\ d \in 0 .. SizeOf(stream[k + i].m, stream[k + i].o) + 1
      BY <3>1, <3>2
    <3>4. i + d \in 1 .. L - k /\ (k + i) + d <= L /\ k + (i + d) = (k + i) + d
      BY <1>4, <2>1, <3>1, <3>3
    <3>5. stream'[i + d] = stream[(k + i) + d]
      BY <1>5, <3>4
    <3>6. stream[(k + i) + d] =
             [m |-> stream[k + i].m, o |-> stream[k + i].o, j |-> 1 + d]
      BY <1>1, <2>1, <3>1, <3>3, <3>4 DEF Bursts, Whole
    <3> QED  BY <3>1, <3>5, <3>6
  <2>2. \A i \in 1 .. L - k :
           SizeOf(stream[i].m, stream[i].o)' = SizeOf(stream'[i].m, stream'[i].o)
    BY <1>2 DEF SizeOf, Length
  <2> QED  BY <1>5, <2>1, <2>2 DEF Whole
<1>10. Ordered'
  <2>1. ASSUME NEW i \in 1 .. (L - k) - 1, EndsBurst(stream[i])'
        PROVE  After(stream[i], stream[i + 1])'
    <3>1. i \in 1 .. L - k /\ i + 1 \in 1 .. L - k /\ k + (i + 1) = (k + i) + 1
          /\ k + i \in 1 .. L - 1
      BY <1>4
    <3>2. stream'[i] = stream[k + i] /\ stream'[i + 1] = stream[(k + i) + 1]
      BY <1>5, <3>1
    <3>3. EndsBurst(stream[k + i])
      BY <1>2, <2>1, <3>2 DEF EndsBurst, SizeOf, Length
    <3>4. After(stream[k + i], stream[(k + i) + 1])
      BY <1>1, <3>1, <3>3 DEF Bursts, Ordered
    <3> QED  BY <1>2, <3>2, <3>4 DEF After, SizeOf, Length
  <2> QED  BY <1>5, <2>1 DEF Ordered
<1>11. Bursts'
  BY <1>5, <1>8, <1>9, <1>10 DEF Bursts, ValidStream
<1>12. ASSUME stream' # << >>
       PROVE  /\ Last' = Last
              /\ After(stream[1], stream'[1])
              /\ Burst(stream'[1].m, stream'[1].o)
  <2>1. L - k > 0
    BY <1>4, <1>3, <1>5, <1>12, EmptySeq
  <2>2. L - k \in 1 .. L - k /\ 1 \in 1 .. L - k /\ k + (L - k) = L
        /\ k \in 1 .. L - 1 /\ k + 1 \in 1 .. L
    BY <1>4, <2>1
  <2>3. Last' = Last
    BY <1>5, <2>2 DEF Last
  <2>4. stream'[1] = stream[k + 1]
    BY <1>5, <2>2
  <2>5. EndsBurst(stream[k])
    BY <1>3 DEF EndsBurst, EOH
  <2>6. After(stream[k], stream[k + 1])
    BY <1>1, <2>2, <2>5 DEF Bursts, Ordered
  <2>7. After(stream[1], stream[k + 1])
    BY <1>3, <2>6 DEF After
  <2> QED  BY <1>7, <2>2, <2>3, <2>4, <2>7 DEF Valid
<1>13. ASSUME stream' = << >>
       PROVE  Last = [m |-> m, o |-> o, j |-> SizeOf(m, o) + EOH]
  <2>1. L = k
    BY <1>3, <1>4, <1>5, <1>13, EmptySeq
  <2> QED  BY <1>3, <2>1 DEF Last
<1> QED  BY <1>5, <1>11, <1>12, <1>13

\* A packet is handled well if the reader is then at whatever may follow the burst
\* it was, and if after the last burst of a payload the payload is delivered.
LEMMA HandledStep ==
  ASSUME Inv, Complete,
         NEW m, NEW o, stream[1].m = m, stream[1].o = o,
         announced' \in Nat \cup {-1}, payload' \in Seq(Nat),
         delivered' \in Seq(Seq(Nat)), conversation' \in {"on", "ended"},
         DeliveredIsSent', AssemblyFits',
         \A x : After(stream[1], x) /\ Burst(x.m, x.o) => At(x)',
         o # -1 /\ ~Chunked(Length(m), o) => announced' = -1 /\ Len(delivered') = m
  PROVE  Inv'
<1>1. TypeOK /\ WriterInv
  BY DEF Inv, FrameInv
<1>2. got' = 0 /\ UNCHANGED <<sent, writer, off, link>>
  BY DEF Complete, writeVars
<1>3. /\ stream' \in Seq(Names)
      /\ Bursts'
      /\ stream' # << >> => /\ Last' = Last
                            /\ After(stream[1], stream'[1])
                            /\ Burst(stream'[1].m, stream'[1].o)
      /\ stream' = << >> => Last = [m |-> m, o |-> o, j |-> SizeOf(m, o) + EOH]
  BY RestIsBursts
<1>4. stream # << >> /\ Burst(m, o)
  BY PacketIsBurst
<1>5. SizeOf(m, o) \in Nat /\ SizeOf(m, o) > 0
  BY <1>1, <1>4, SizeFacts, MaxIsPositive
<1>6. TypeOK'
  <2>1. 0 \in 0 .. Len(stream')
    BY <1>3, LenProperties
  <2> QED  BY <1>1, <1>2, <1>3, <2>1 DEF TypeOK
<1>7. Coming' = Coming /\ (Valid(Coming) => Valid(Coming)')
  BY <1>2 DEF Coming, Valid, Burst, SizeOf, Length
<1>8. ASSUME stream' = << >>, After(Last, Coming), Valid(Coming)
      PROVE  At(Coming)'
  <2>1. After(stream[1], Coming) /\ Burst(Coming.m, Coming.o)
    BY <1>3, <1>8 DEF After, Valid
  <2>2. Coming.m = Len(sent) /\ Coming.o = off /\ Coming.j = 1
    BY <1>8 DEF Coming, After
  <2>3. \A x : x = Coming => At(x)'
    BY <2>1
  <2>4. PICK x : x = Coming
    OBVIOUS
  <2>5. At(x)'
    BY <2>3, <2>4
  <2> QED  BY <1>7, <2>4, <2>5 DEF At
<1>9. WriterInv'
  <2>1. ASSUME link # "reset", writer = "idle"  PROVE BetweenPayloads'
    <3>1. BetweenPayloads
      BY <1>1, <2>1 DEF WriterInv
    <3> QED  BY <1>2, <1>3, <1>4, <3>1 DEF BetweenPayloads, EndsBurst, SizeOf, Length
  <2>2. ASSUME link # "reset", writer = "head"  PROVE BetweenBursts'
    <3>1. BetweenBursts
      BY <1>1, <2>2 DEF WriterInv
    <3>2. Valid(Coming)' /\ EndsBurst(Last) /\ After(Last, Coming)
      BY <1>4, <1>7, <3>1 DEF BetweenBursts
    <3>3. CASE stream' = << >>
      BY <1>8, <3>1, <3>2, <3>3 DEF BetweenBursts
    <3>4. CASE stream' # << >>
      <4>1. EndsBurst(Last)' /\ After(Last, Coming)'
        BY <1>2, <1>3, <1>7, <3>2, <3>4 DEF EndsBurst, After, SizeOf, Length
      <4> QED  BY <3>2, <3>4, <4>1 DEF BetweenBursts
    <3> QED  BY <3>3, <3>4
  <2>3. ASSUME link # "reset", writer = "body"  PROVE InBurst'
    <3>1. InBurst
      BY <1>1, <2>3 DEF WriterInv
    <3>2. stream' # << >>
      BY <1>3, <1>5, <3>1 DEF InBurst, EOH
    <3> QED  BY <1>2, <1>3, <1>7, <3>1, <3>2 DEF InBurst
  <2> QED  BY <1>1, <1>2, <2>1, <2>2, <2>3 DEF WriterInv
<1>10. ASSUME stream' # << >>  PROVE At(stream[1])'
  <2>1. PICK x : x = stream'[1]
    OBVIOUS
  <2>2. At(x)'
    BY <1>3, <1>10, <2>1
  <2> QED  BY <2>1, <2>2 DEF At
<1> QED  BY <1>3, <1>6, <1>9, <1>10 DEF Inv, FrameInv, ReaderInv

\* The bytes of a packet, as Deliver and memcpy take them.
LEMMA DataFacts ==
  ASSUME Inv, Complete,
         NEW m, NEW o, stream[1].m = m, stream[1].o = o
  PROVE  /\ Data \in Seq(Nat) /\ Len(Data) = SizeOf(m, o)
         /\ o = -1 => Data[1] = Length(m)
         /\ o # -1 => Data = SubSeq(sent[m], o + 1, o + SizeOf(m, o))
<1>1. TypeOK
  BY DEF Inv
<1>2. Burst(m, o) /\ Size = SizeOf(m, o) /\ HoldsBurst(m, o)
  BY PacketIsBurst
<1>3. sent[m] \in Seq(Nat) /\ Length(m) \in Nat
  BY <1>1, <1>2, SentTypes DEF Burst
<1> DEFINE n == SizeOf(m, o)
<1>4. /\ o \in Nat \cup {-1} /\ n \in Nat /\ n > 0
      /\ o # -1 => o + n <= Length(m)
  BY <1>1, <1>2, SizeFacts, MaxIsPositive
<1>11. \A i \in 1 .. n :
         Value(stream[EOH + i]) =
            IF o = -1 THEN (IF i = 1 THEN Length(m) ELSE 0) ELSE sent[m][o + i]
  BY <1>2 DEF HoldsBurst
<1> HIDE DEF n
<1>5. ASSUME NEW i \in 1 .. n  PROVE Value(stream[EOH + i]) \in Nat
  <2>1. CASE o = -1
    BY <1>11, <1>3, <2>1
  <2>2. CASE o # -1
    <3>1. o + i \in 1 .. Len(sent[m])
      BY <1>4, <2>2 DEF Length
    <3> QED  BY <1>11, <1>3, <2>2, <3>1, ElementOfSeq
  <2> QED  BY <2>1, <2>2
<1>6. Data = [i \in 1 .. n |-> Value(stream[EOH + i])]
  BY <1>2 DEF Data, n
<1>7. Data \in [1 .. n -> Nat]
  BY <1>5, <1>6
<1>8. Data \in Seq(Nat) /\ Len(Data) = n
  BY <1>4, <1>7, FunctionIsSeq
<1>9. ASSUME o = -1  PROVE Data[1] = Length(m)
  <2>1. 1 \in 1 .. n
    BY <1>4
  <2> QED  BY <1>11, <1>6, <1>9, <2>1
<1>10. ASSUME o # -1  PROVE Data = SubSeq(sent[m], o + 1, o + n)
  <2>1. o + 1 \in 1 .. Len(sent[m]) + 1 /\ o + n \in 0 .. Len(sent[m])
        /\ (o + n) - (o + 1) + 1 = n /\ o + 1 <= o + n
        /\ \A i \in 1 .. n : (o + 1) + i - 1 = o + i
    BY <1>4, <1>10 DEF Length
  <2> DEFINE part == SubSeq(sent[m], o + 1, o + n)
  <2>2. /\ part \in Seq(Nat) /\ Len(part) = n
        /\ \A i \in 1 .. n : part[i] = sent[m][o + i]
    BY <1>3, <1>4, <1>10, <2>1, SubSeqProperties DEF Length
  <2>3. \A i \in 1 .. n : part[i] = Data[i]
    BY <1>11, <1>6, <1>10, <2>2
  <2> HIDE DEF part
  <2>4. Data = part
    BY <1>8, <2>2, <2>3, SeqEqual
  <2> QED  BY <2>4 DEF part
<1> QED  BY <1>8, <1>9, <1>10 DEF n

\* acknak gets the payload after those it got before.
LEMMA DeliverFacts ==
  ASSUME Inv, NEW m \in 1 .. Len(sent), m = Len(delivered) + 1,
         NEW p, p = sent[m], Deliver(p), UNCHANGED sent
  PROVE  /\ announced' = -1 /\ payload' = << >> /\ Len(delivered') = m
         /\ delivered' \in Seq(Seq(Nat)) /\ conversation' \in {"on", "ended"}
         /\ DeliveredIsSent' /\ AssemblyFits'
<1>1. TypeOK /\ ReaderInv
  BY DEF Inv, FrameInv
<1>2. p \in Seq(Nat)
  BY <1>1, SentTypes
<1>3. Len(delivered) \in Nat /\ delivered \in Seq(Seq(Nat))
  BY <1>1, LenProperties DEF TypeOK
<1>4. /\ delivered' = Append(delivered, p) /\ conversation' \in {"on", "ended"}
      /\ announced' = -1 /\ payload' = << >>
  BY DEF Deliver
<1>5. /\ delivered' \in Seq(Seq(Nat)) /\ Len(delivered') = m
      /\ delivered'[m] = p
      /\ \A k \in 1 .. Len(delivered) : delivered'[k] = delivered[k]
  BY <1>2, <1>3, <1>4, AppendProperties
<1>6. DeliveredIsSent'
  <2>1. \A k \in 1 .. m : k = m \/ k \in 1 .. Len(delivered)
    BY <1>3
  <2>2. m <= Len(sent)
    OBVIOUS
  <2> QED  BY <1>1, <1>5, <2>1, <2>2 DEF ReaderInv, DeliveredIsSent
<1>7. AssemblyFits'
  BY <1>4 DEF AssemblyFits
<1> QED  BY <1>4, <1>5, <1>6, <1>7

LEMMA OneBurstStep ==
  ASSUME Inv, OneBurst
  PROVE  Inv'
<1>1. TypeOK /\ Complete /\ announced = -1 /\ ~IsChunked /\ Deliver(Data) /\ sent' = sent
  BY DEF Inv, OneBurst, Complete, writeVars
<1>2. PICK m, o : stream[1].m = m /\ stream[1].o = o
  OBVIOUS
<1>3. At(stream[1]) /\ Burst(m, o) /\ ~Chunked(Length(m), o)
  BY <1>1, <1>2, PacketIsBurst
<1>4. m \in 1 .. Len(sent) /\ m = Len(delivered) + 1 /\ o = FirstOffset(Length(m))
  BY <1>1, <1>2, <1>3 DEF At, Burst
<1>5. sent[m] \in Seq(Nat) /\ Length(m) \in Nat
  BY <1>1, <1>4, SentTypes
<1>6. o = 0 /\ SizeOf(m, o) = Length(m)
  BY <1>1, <1>3, <1>4, SizeFacts DEF FirstOffset
<1>7. Data = sent[m]
  <2>1. Data = SubSeq(sent[m], 1, Len(sent[m]))
    BY <1>1, <1>2, <1>6, DataFacts DEF Length
  <2> QED  BY <1>5, <2>1, SubSeqFull
<1>8. /\ announced' = -1 /\ payload' = << >> /\ Len(delivered') = m
      /\ delivered' \in Seq(Seq(Nat)) /\ conversation' \in {"on", "ended"}
      /\ DeliveredIsSent' /\ AssemblyFits'
  BY <1>1, <1>4, <1>7, DeliverFacts
<1>9. ASSUME NEW x, After(stream[1], x), Burst(x.m, x.o)  PROVE At(x)'
  BY <1>1, <1>2, <1>3, <1>4, <1>6, <1>8, <1>9 DEF After, At, Length
<1> QED  BY <1>1, <1>2, <1>8, <1>9, HandledStep

LEMMA AnnounceStep ==
  ASSUME Inv, Announce
  PROVE  Inv'
<1>1. /\ TypeOK /\ ReaderInv /\ Complete /\ announced = -1 /\ IsChunked
      /\ announced' = IF Size > 0 THEN Data[1] ELSE 0
      /\ payload' = << >> /\ UNCHANGED <<sent, delivered, conversation>>
  BY DEF Inv, FrameInv, Announce, Complete, writeVars
<1>2. PICK m, o : stream[1].m = m /\ stream[1].o = o
  OBVIOUS
<1>3. At(stream[1]) /\ Burst(m, o) /\ Chunked(Length(m), o) /\ Size = SizeOf(m, o)
  BY <1>1, <1>2, PacketIsBurst
<1>4. m \in 1 .. Len(sent) /\ m = Len(delivered) + 1 /\ o = FirstOffset(Length(m))
  BY <1>1, <1>2, <1>3 DEF At, Burst
<1>5. sent[m] \in Seq(Nat) /\ Length(m) \in Nat /\ Length(m) > 0
  BY <1>1, <1>4, SentTypes
<1>6. o = -1 /\ Length(m) > PayloadMax /\ Size > 0
  BY <1>1, <1>3, <1>4, <1>5, SizeFacts, MaxIsPositive DEF FirstOffset
<1>7. announced' = Length(m)
  BY <1>1, <1>2, <1>6, DataFacts
<1>8. /\ conversation = "on"
      /\ AssemblyFits' /\ DeliveredIsSent'
  BY <1>1, <1>5, <1>7, EmptySeq DEF Complete, ReaderInv, AssemblyFits, DeliveredIsSent
<1>9. ASSUME NEW x, After(stream[1], x), Burst(x.m, x.o)  PROVE At(x)'
  <2>1. x.m = m /\ x.o = 0 /\ x.j = 1
    BY <1>2, <1>6, <1>9 DEF After
  <2>2. SubSeq(sent[m], 1, 0) = << >>
    BY SubSeqEmpty
  <2> QED  BY <1>1, <1>4, <1>5, <1>6, <1>7, <2>1, <2>2, EmptySeq, MaxIsPositive
              DEF At, Length
<1>10. /\ announced' \in Nat \cup {-1} /\ payload' \in Seq(Nat)
       /\ delivered' \in Seq(Seq(Nat)) /\ conversation' \in {"on", "ended"}
  BY <1>1, <1>5, <1>7, <1>8 DEF TypeOK
<1> QED  BY <1>1, <1>2, <1>6, <1>8, <1>9, <1>10, HandledStep

\* memcpy appends the burst to what was read of the payload.
LEMMA CopiedFacts ==
  ASSUME Inv, Complete, announced # -1,
         NEW m, NEW o, stream[1].m = m, stream[1].o = o
  PROVE  /\ m \in 1 .. Len(sent) /\ m = Len(delivered) + 1
         /\ announced = Length(m) /\ announced > PayloadMax
         /\ o \in Nat /\ Burst(m, o)
         /\ Copied = SubSeq(sent[m], 1, o + SizeOf(m, o))
         /\ Copied \in Seq(Nat) /\ Len(Copied) = o + SizeOf(m, o)
<1>1. TypeOK
  BY DEF Inv
<1>2. At(stream[1]) /\ Burst(m, o)
  BY PacketIsBurst
<1>3. m \in 1 .. Len(sent) /\ sent[m] \in Seq(Nat)
  BY <1>1, <1>2, SentTypes DEF Burst
<1>4. /\ m = Len(delivered) + 1 /\ announced = Length(m) /\ announced > PayloadMax
      /\ o = Len(payload) /\ payload = SubSeq(sent[m], 1, o)
  BY <1>2 DEF At
<1>5. o \in Nat
  BY <1>1, <1>4, LenProperties DEF TypeOK
<1>6. SizeOf(m, o) \in Nat /\ SizeOf(m, o) > 0 /\ o + SizeOf(m, o) <= Length(m)
  BY <1>1, <1>2, <1>5, SizeFacts, MaxIsPositive
<1>7. Data = SubSeq(sent[m], o + 1, o + SizeOf(m, o))
      /\ Data \in Seq(Nat) /\ Len(Data) = SizeOf(m, o)
  <2>1. o # -1
    BY <1>5
  <2> QED  BY <2>1, DataFacts
<1>8. Copied = SubSeq(sent[m], 1, o + SizeOf(m, o))
  <2>1. Copied = SubSeq(sent[m], 1, o) \o SubSeq(sent[m], o + 1, o + SizeOf(m, o))
    BY <1>4, <1>7 DEF Copied
  <2>2. /\ 1 \in 1 .. Len(sent[m]) + 1 /\ o \in 1 - 1 .. Len(sent[m])
        /\ o + SizeOf(m, o) \in o .. Len(sent[m])
    BY <1>3, <1>5, <1>6, LenProperties DEF Length
  <2> QED  BY <1>3, <2>1, <2>2, ConcatAdjacentSubSeq
<1>9. Copied \in Seq(Nat) /\ Len(Copied) = o + SizeOf(m, o)
  <2>1. payload \in Seq(Nat)
    BY <1>1 DEF TypeOK
  <2>2. payload \o Data \in Seq(Nat) /\ Len(payload \o Data) = Len(payload) + Len(Data)
    BY <1>7, <2>1, ConcatProperties
  <2> QED  BY <1>4, <1>7, <2>2 DEF Copied
<1> QED  BY <1>2, <1>3, <1>4, <1>5, <1>8, <1>9

LEMMA ChunkStep ==
  ASSUME Inv, Chunk
  PROVE  Inv'
<1>1. /\ TypeOK /\ ReaderInv /\ Complete /\ announced # -1 /\ IsChunked
      /\ payload' = Copied /\ conversation' = IF Room THEN "on" ELSE "overrun"
      /\ UNCHANGED <<sent, announced, delivered>>
  BY DEF Inv, FrameInv, Chunk, Complete, writeVars
<1>2. PICK m, o : stream[1].m = m /\ stream[1].o = o
  OBVIOUS
<1>3. /\ m \in 1 .. Len(sent) /\ m = Len(delivered) + 1
      /\ announced = Length(m) /\ announced > PayloadMax
      /\ o \in Nat /\ Burst(m, o)
      /\ Copied = SubSeq(sent[m], 1, o + SizeOf(m, o))
      /\ Copied \in Seq(Nat) /\ Len(Copied) = o + SizeOf(m, o)
  BY <1>1, <1>2, CopiedFacts
<1>4. Chunked(Length(m), o)
  BY <1>1, <1>2, PacketIsBurst
<1>5. Length(m) \in Nat
  BY <1>1, <1>3, SentTypes
<1>6. SizeOf(m, o) \in Nat /\ o + SizeOf(m, o) < Length(m)
  BY <1>1, <1>3, <1>4, <1>5, SizeFacts, MaxIsPositive, SMTT(30)
<1>7. Room /\ conversation' = "on" /\ Len(payload') < announced'
  BY <1>1, <1>3, <1>5, <1>6 DEF Room
<1>8. AssemblyFits' /\ DeliveredIsSent'
  BY <1>1, <1>7 DEF ReaderInv, AssemblyFits, DeliveredIsSent
<1>9. ASSUME NEW x, After(stream[1], x), Burst(x.m, x.o)  PROVE At(x)'
  <2>1. x.m = m /\ x.o = o + SizeOf(m, o) /\ x.j = 1
    BY <1>2, <1>3, <1>4, <1>9 DEF After
  <2>2. /\ x.m = Len(delivered') + 1 /\ announced' = Len(sent'[x.m])
        /\ announced' > PayloadMax /\ x.o = Len(payload')
        /\ payload' = SubSeq(sent'[x.m], 1, x.o)
    BY <1>1, <1>3, <2>1 DEF Length
  <2> QED  BY <1>1, <2>1, <2>2 DEF At, Length
<1>10. /\ announced' \in Nat \cup {-1} /\ payload' \in Seq(Nat)
       /\ delivered' \in Seq(Seq(Nat)) /\ conversation' \in {"on", "ended"}
  BY <1>1, <1>3, <1>7 DEF TypeOK
<1> QED  BY <1>1, <1>2, <1>4, <1>8, <1>9, <1>10, HandledStep

LEMMA LastChunkStep ==
  ASSUME Inv, LastChunk
  PROVE  Inv'
<1>1. /\ TypeOK /\ Complete /\ announced # -1 /\ ~IsChunked /\ sent' = sent
      /\ Len(Copied) = announced => Deliver(Copied)
  BY DEF Inv, LastChunk, Complete, writeVars
<1>2. PICK m, o : stream[1].m = m /\ stream[1].o = o
  OBVIOUS
<1>3. /\ m \in 1 .. Len(sent) /\ m = Len(delivered) + 1
      /\ announced = Length(m)
      /\ o \in Nat /\ Burst(m, o)
      /\ Copied = SubSeq(sent[m], 1, o + SizeOf(m, o))
      /\ Len(Copied) = o + SizeOf(m, o)
  BY <1>1, <1>2, CopiedFacts
<1>4. ~Chunked(Length(m), o)
  BY <1>1, <1>2, PacketIsBurst
<1>5. sent[m] \in Seq(Nat)
  BY <1>1, <1>3, SentTypes
<1>6. o # -1 /\ o + SizeOf(m, o) = Length(m)
  BY <1>1, <1>3, <1>4, SizeFacts
<1>7. Copied = sent[m] /\ Deliver(Copied)
  BY <1>1, <1>3, <1>5, <1>6, SubSeqFull DEF Length
<1>8. /\ announced' = -1 /\ payload' = << >> /\ Len(delivered') = m
      /\ delivered' \in Seq(Seq(Nat)) /\ conversation' \in {"on", "ended"}
      /\ DeliveredIsSent' /\ AssemblyFits'
  BY <1>1, <1>3, <1>7, DeliverFacts
<1>9. ASSUME NEW x, After(stream[1], x), Burst(x.m, x.o)  PROVE At(x)'
  BY <1>1, <1>2, <1>3, <1>4, <1>6, <1>8, <1>9 DEF After, At, Length
<1> QED  BY <1>1, <1>2, <1>8, <1>9, HandledStep

-----------------------------------------------------------------------------
(* Theorems.                                                               *)

LEMMA InvNext ==
  ASSUME ~ShortWrites, Inv, [Next]_vars
  PROVE  Inv'
<1>1. CASE UNCHANGED vars
  BY <1>1 DEF vars, Inv, FrameInv, TypeOK, Bursts, ValidStream, Valid, Burst, Whole,
              Ordered, EndsBurst, After, SizeOf, Length, WriterInv, BetweenPayloads,
              BetweenBursts, InBurst, Coming, Last, At, ReaderInv, DeliveredIsSent,
              AssemblyFits
<1>2. CASE \E p \in Payloads : Write(p)
  BY <1>2, WriteStep
<1>3. CASE Writing
  BY <1>3, WriteHeadStep, WriteBodyStep, QuietSteps DEF Writing
<1>4. CASE Reading
  BY <1>4, QuietSteps, OneBurstStep, AnnounceStep, ChunkStep, LastChunkStep DEF Reading
<1>5. CASE Disconnect \/ Reset
  BY <1>5, QuietSteps, ResetStep
<1> QED  BY <1>1, <1>2, <1>3, <1>4, <1>5 DEF Next

\* The framing keeps its invariant: the stream is bursts in order, the writer goes on
\* where it ends and the reader is at the payload acknak gets next.
THEOREM FramingHolds == ASSUME ~ShortWrites PROVE Spec => []Inv
<1>1. Init => Inv
  BY InvInit
<1>2. Inv /\ [Next]_vars => Inv'
  BY InvNext
<1> QED  BY <1>1, <1>2, PTL DEF Spec

\* The variables keep their types.
THEOREM TypeCorrect == ASSUME ~ShortWrites PROVE Spec => []TypeOK
<1>1. Inv => TypeOK
  BY DEF Inv
<1> QED  BY <1>1, FramingHolds, PTL

\* Whatever the payloads and PAYLOAD_MAX are, acknak gets what write was given, in
\* order and complete.
THEOREM Delivery == ASSUME ~ShortWrites PROVE Spec => []DeliveredIsSent
<1>1. Inv => DeliveredIsSent
  BY DEF Inv, FrameInv, ReaderInv
<1> QED  BY <1>1, FramingHolds, PTL

\* The chunks of a payload never leave the buffer its announcement sized.
THEOREM Assembly == ASSUME ~ShortWrites PROVE Spec => []AssemblyFits
<1>1. Inv => AssemblyFits
  BY DEF Inv, FrameInv, ReaderInv
<1> QED  BY <1>1, FramingHolds, PTL

-----------------------------------------------------------------------------
(* The server and its connections' descriptors.                            *)

Lives == {"none", "reading", "orphan", "ending", "deleted"}
Pairs == [life : Lives, fd : Fd, adopted : BOOLEAN]

TypeInv ==
    /\ table \in [Fd -> Conn \union {"free", "other"}]
    /\ pair \in [Conn -> Pairs]
    /\ inside \in [Conn -> [Threads -> {"out", "close", "clear"}]]
    /\ client \in [Conn -> {"away", "waiting", "connected", "hung_up"}]
    /\ heirs \subseteq Conn /\ meddled \subseteq Conn

\* Who can be in a pair's disconnect, and who may still come.
ThreadInv == \A c \in Conn :
    /\ client[c] = "waiting" => pair[c].life = "none"
    /\ pair[c].life = "none" => c \notin heirs /\ c \notin meddled
    /\ inside[c]["pair"] # "out" => pair[c].life = "ending" /\ c \notin heirs
    /\ inside[c]["other"] # "out" => c \in meddled
    /\ c \in heirs => c \notin meddled /\ pair[c].adopted

\* A connection has no descriptor but its pair's, and none once it was closed.
TableInv == \A c \in Conn : \A f \in Fd : table[f] = c =>
    /\ pair[c].fd = f /\ pair[c].life # "none"
    /\ \A t \in Threads : inside[c][t] # "clear"
    /\ f = 0 \/ pair[c].life # "deleted" \/ pair[c].adopted

Closed(c) == \E t \in Threads : inside[c][t] = "clear"

\* Until two threads meet in a disconnect, a pair's descriptor is its
\* connection's from accept to close.
OwnInv == clash \/
    /\ foreign \subseteq meddled
    /\ \A c \in Conn :
        /\ inside[c]["pair"] = "out" \/ inside[c]["other"] = "out"
        /\ \A t \in Threads : inside[c][t] = "close" => pair[c].fd # 0
        /\ pair[c].life \in {"reading", "orphan", "ending"} /\ ~Closed(c)
           /\ (pair[c].fd # 0 \/ c \notin meddled) => table[pair[c].fd] = c
        /\ c \in heirs /\ pair[c].fd # 0 => table[pair[c].fd] = c

IInv == TypeInv /\ ThreadInv /\ TableInv /\ OwnInv

-----------------------------------------------------------------------------
\* The kernel's choice is one of the free descriptors.
LEMMA LowestIsFree == FreeFds # {} => Lowest \in FreeFds
<1> SUFFICES ASSUME FreeFds # {}  PROVE Lowest \in FreeFds
  OBVIOUS
<1>1. FreeFds \subseteq Nat
  BY MaxFdAssumption DEF FreeFds, Fd
<1>2. PICK f \in FreeFds : \A g \in FreeFds : <<g, f>> \notin OpToRel(<, Nat)
  BY <1>1, WFMin, NatLessThanWellFounded, Zenon
<1>3. \A g \in FreeFds : ~(g < f)
  BY <1>1, <1>2, Zenon DEF OpToRel
<1>4. \A g \in FreeFds : f <= g
  BY <1>1, <1>3
<1> QED  BY <1>4, Zenon DEF Lowest

LEMMA IInvInit == ServerInit => IInv
<1> SUFFICES ASSUME ServerInit  PROVE IInv
  OBVIOUS
<1>0. 0 \in Fd
  BY MaxFdAssumption DEF Fd
<1>1. \A f \in Fd : table[f] \in {"free", "other"}
  BY DEF ServerInit
<1>2. table \in [Fd -> Conn \union {"free", "other"}]
  BY DEF ServerInit
<1>3. pair = [c \in Conn |-> [life |-> "none", fd |-> 0, adopted |-> FALSE]]
  BY DEF ServerInit
<1>4. pair \in [Conn -> Pairs] /\ \A c \in Conn : pair[c].life = "none"
  BY <1>0, <1>3 DEF Pairs, Lives
<1>5. /\ inside = [c \in Conn |-> [t \in Threads |-> "out"]]
      /\ client = [c \in Conn |-> "away"]
      /\ heirs = {} /\ meddled = {} /\ foreign = {}
  BY DEF ServerInit
<1>6. TypeInv
  BY <1>2, <1>4, <1>5 DEF TypeInv
<1>7. ThreadInv
  BY <1>4, <1>5 DEF ThreadInv, Threads
<1>8. TableInv
  BY <1>1, ConnAssumption DEF TableInv
<1>9. OwnInv
  BY <1>4, <1>5 DEF OwnInv, Threads
<1> QED  BY <1>6, <1>7, <1>8, <1>9 DEF IInv

-----------------------------------------------------------------------------
LEMMA BindStep == ASSUME IInv, Bind  PROVE IInv'
<1> USE DEF Bind
<1>1. UNCHANGED <<pair, inside, client, heirs, meddled, foreign, clash>>
  OBVIOUS
<1>2. /\ table' \in [Fd -> Conn \union {"free", "other"}]
      /\ \A c \in Conn : \A f \in Fd : table'[f] = c <=> table[f] = c
  <2>1. CASE FreeFds = {}
    BY <2>1 DEF IInv, TypeInv
  <2>2. CASE FreeFds # {}
    <3>1. Lowest \in Fd /\ table[Lowest] = "free"
      BY <2>2, LowestIsFree DEF FreeFds
    <3>2. table' = [table EXCEPT ![Lowest] = "other"]
      BY <2>2
    <3> HIDE DEF Bind
    <3> QED  BY <3>1, <3>2, ConnAssumption DEF IInv, TypeInv
  <2> QED  BY <2>1, <2>2
<1> HIDE DEF Bind
<1>3. TypeInv'
  BY <1>1, <1>2 DEF IInv, TypeInv
<1>4. ThreadInv'
  BY <1>1 DEF IInv, ThreadInv
<1>5. TableInv'
  BY <1>1, <1>2 DEF IInv, TableInv
<1>6. OwnInv'
  <2>1. \A c \in Conn : pair[c].fd \in Fd
    BY DEF IInv, TypeInv, Pairs
  <2> QED  BY <1>1, <1>2, <2>1 DEF IInv, OwnInv, Closed
<1> QED  BY <1>3, <1>4, <1>5, <1>6 DEF IInv

LEMMA AcceptStep == ASSUME IInv, NEW c \in Conn, Accept(c)  PROVE IInv'
<1>1. UNCHANGED <<inside, heirs, meddled, foreign, clash>>
  BY DEF Accept
<1>2. Lowest \in Fd /\ table[Lowest] = "free"
  BY LowestIsFree DEF Accept, FreeFds
<1>3. PICK junk \in BOOLEAN, thread \in {"reading", "orphan"} :
        pair' = [pair EXCEPT ![c] = [life |-> thread, fd |-> Lowest, adopted |-> junk]]
  BY DEF Accept
<1>4. [life |-> thread, fd |-> Lowest, adopted |-> junk] \in Pairs
  BY <1>2 DEF Pairs, Lives
<1>5. /\ pair' \in [Conn -> Pairs]
      /\ pair'[c].fd = Lowest /\ pair'[c].life \in {"reading", "orphan"}
      /\ \A d \in Conn \ {c} : pair'[d] = pair[d]
  BY <1>3, <1>4 DEF IInv, TypeInv
<1>6. /\ table' \in [Fd -> Conn \union {"free", "other"}]
      /\ table'[Lowest] = c
      /\ \A f \in Fd \ {Lowest} : table'[f] = table[f]
  BY <1>2 DEF Accept, IInv, TypeInv
<1>7. /\ client' \in [Conn -> {"away", "waiting", "connected", "hung_up"}]
      /\ client'[c] = "connected" /\ client[c] = "waiting"
      /\ \A d \in Conn \ {c} : client'[d] = client[d]
  BY DEF Accept, IInv, TypeInv
<1>8. /\ pair[c].life = "none" /\ c \notin heirs /\ c \notin meddled
      /\ inside[c]["pair"] = "out" /\ inside[c]["other"] = "out"
      /\ \A f \in Fd : table[f] # c
  BY <1>7 DEF IInv, ThreadInv, TableInv
<1>9. TypeInv'
  BY <1>1, <1>5, <1>6, <1>7 DEF IInv, TypeInv
<1>10. ThreadInv'
  BY <1>1, <1>5, <1>7, <1>8 DEF IInv, ThreadInv
<1>11. TableInv'
  <2> SUFFICES ASSUME NEW d \in Conn, NEW f \in Fd, table'[f] = d
               PROVE  /\ pair'[d].fd = f /\ pair'[d].life # "none"
                      /\ \A t \in Threads : inside[d][t] # "clear"
                      /\ f = 0 \/ pair'[d].life # "deleted" \/ pair'[d].adopted
    BY <1>1 DEF TableInv
  <2>1. CASE d = c
    <3>1. f = Lowest
      BY <1>6, <1>8, <2>1
    <3> QED  BY <1>5, <1>8, <2>1, <3>1 DEF Threads
  <2>2. CASE d # c
    <3>1. f # Lowest /\ table[f] = d /\ pair'[d] = pair[d]
      BY <1>5, <1>6, <2>2
    <3> QED  BY <3>1 DEF IInv, TableInv
  <2> QED  BY <2>1, <2>2
<1>12. OwnInv'
  <2>1. \A d \in Conn : pair[d].fd \in Fd
    BY DEF IInv, TypeInv, Pairs
  <2>2. \A d \in Conn \ {c} : table[pair[d].fd] = d => table'[pair[d].fd] = d
    BY <1>2, <1>6, <2>1, ConnAssumption
  <2>3. table'[pair'[c].fd] = c
    BY <1>5, <1>6
  <2> QED  BY <1>1, <1>5, <1>8, <2>2, <2>3 DEF IInv, OwnInv, Closed, Threads
<1> QED  BY <1>9, <1>10, <1>11, <1>12 DEF IInv

\* A step of the server or of a client that touches no pair.
LEMMA ClientsMove ==
  ASSUME IInv, UNCHANGED <<table, pair, inside, heirs, meddled, foreign, clash>>,
         client' \in [Conn -> {"away", "waiting", "connected", "hung_up"}],
         \A c \in Conn : client'[c] = "waiting" => pair[c].life = "none"
  PROVE  IInv'
<1>1. TypeInv'
  BY DEF IInv, TypeInv
<1>2. ThreadInv'
  BY DEF IInv, ThreadInv
<1>3. TableInv' /\ OwnInv'
  BY DEF IInv, TableInv, OwnInv, Closed
<1> QED  BY <1>1, <1>2, <1>3 DEF IInv

LEMMA ClientSteps ==
  ASSUME IInv,
         \/ Listen
         \/ \E c \in Conn : AcceptFails(c) \/ AcceptUnpaired(c) \/ Connect(c) \/ HangUp(c)
  PROVE  IInv'
<1>0. /\ client \in [Conn -> {"away", "waiting", "connected", "hung_up"}]
      /\ \A c \in Conn : client[c] = "waiting" => pair[c].life = "none"
  BY DEF IInv, TypeInv, ThreadInv
<1>1. CASE Listen
  BY <1>0, <1>1, ClientsMove DEF Listen
<1>2. ASSUME NEW c \in Conn, AcceptFails(c)  PROVE IInv'
  BY <1>0, <1>2, ClientsMove DEF AcceptFails
<1>3. ASSUME NEW c \in Conn, AcceptUnpaired(c)  PROVE IInv'
  BY <1>0, <1>3, ClientsMove DEF AcceptUnpaired
<1>4. ASSUME NEW c \in Conn, Connect(c)  PROVE IInv'
  BY <1>0, <1>4, ClientsMove DEF Connect
<1>5. ASSUME NEW c \in Conn, HangUp(c)  PROVE IInv'
  BY <1>0, <1>5, ClientsMove DEF HangUp
<1> QED  BY <1>1, <1>2, <1>3, <1>4, <1>5

-----------------------------------------------------------------------------
\* What a change of the fields of c's pair leaves alone.
Keeps(c) ==
    /\ pair' \in [Conn -> Pairs]
    /\ \A d \in Conn \ {c} : pair'[d] = pair[d]

LEMMA EndsPair ==
  ASSUME IInv, NEW c \in Conn, Ends(c)
  PROVE  /\ Keeps(c)
         /\ pair'[c].life = "ending" /\ pair'[c].fd = pair[c].fd
         /\ pair'[c].adopted = pair[c].adopted
  BY DEF Ends, IInv, TypeInv, Pairs, Lives, Keeps

\* A pair that reads begins to end.
LEMMA EndsStep ==
  ASSUME IInv, NEW c \in Conn, Reads(c), Ends(c),
         UNCHANGED <<table, client, inside, heirs, meddled, clash>>,
         clash \/ foreign' \subseteq meddled
  PROVE  IInv'
<1>1. /\ Keeps(c)
      /\ pair'[c].life = "ending" /\ pair'[c].fd = pair[c].fd
      /\ pair'[c].adopted = pair[c].adopted
  BY EndsPair
<1>2. pair[c].life = "reading"
  BY DEF Reads
<1>3. TypeInv'
  BY <1>1 DEF IInv, TypeInv, Keeps
<1>4. ThreadInv'
  BY <1>1, <1>2 DEF IInv, ThreadInv, Keeps
<1>5. TableInv'
  BY <1>1, <1>2 DEF IInv, TableInv, Keeps
<1>6. OwnInv'
  BY <1>1, <1>2 DEF IInv, OwnInv, Closed, Keeps
<1> QED  BY <1>3, <1>4, <1>5, <1>6 DEF IInv

\* The pair of a connection that nobody else disconnected has its descriptor.
LEMMA ReaderOwns ==
  ASSUME IInv, NEW c \in Conn, Reads(c), c \notin meddled, ~clash
  PROVE  table[pair[c].fd] = c
<1>1. ~Closed(c)
  BY DEF IInv, ThreadInv, Closed, Threads, Reads
<1> QED  BY <1>1 DEF IInv, OwnInv, Reads

LEMMA ReadSteps ==
  ASSUME IInv, NEW c \in Conn, Answer(c) \/ ReadEnd(c) \/ ReadOther(c)
  PROVE  IInv'
<1>0. clash \/ foreign \subseteq meddled
  BY DEF IInv, OwnInv
<1>1. CASE Answer(c)
  BY <1>0, <1>1, EndsStep DEF Answer
<1>2. CASE ReadEnd(c)
  BY <1>0, <1>2, EndsStep DEF ReadEnd
<1>3. CASE ReadOther(c)
  <2>1. clash \/ foreign' \subseteq meddled
    <3>1. clash \/ c \in meddled
      BY <1>3, ReaderOwns DEF ReadOther
    <3> QED  BY <1>0, <1>3, <3>1 DEF ReadOther, Note
  <2>2. UNCHANGED <<table, client, inside, heirs, meddled, clash>> /\ Reads(c)
    BY <1>3 DEF ReadOther
  <2>3. CASE pair' = pair
    <3>1. TypeInv' /\ ThreadInv' /\ TableInv'
      BY <2>2, <2>3 DEF IInv, TypeInv, ThreadInv, TableInv
    <3>2. OwnInv'
      BY <2>1, <2>2, <2>3 DEF IInv, OwnInv, Closed
    <3> QED  BY <3>1, <3>2 DEF IInv
  <2>4. CASE Ends(c)
    BY <2>1, <2>2, <2>4, EndsStep
  <2> QED  BY <1>3, <2>3, <2>4 DEF ReadOther, Ends
<1> QED  BY <1>1, <1>2, <1>3

LEMMA DeleteStep == ASSUME IInv, NEW c \in Conn, Delete(c)  PROVE IInv'
<1>1. /\ UNCHANGED <<table, client, heirs, meddled, foreign>>
      /\ pair[c].life = "ending" /\ inside[c]["pair"] = "out"
  BY DEF Delete
<1>2. CASE pair[c].fd # 0 /\ ~pair[c].adopted
  <2>1. /\ pair' = pair /\ inside' = [inside EXCEPT ![c]["pair"] = "close"]
        /\ clash' <=> (clash \/ (inside[c]["other"] # "out" /\ inside'[c]["pair"] # "out"))
    BY <1>2 DEF Delete
  <2>2. /\ inside' \in [Conn -> [Threads -> {"out", "close", "clear"}]]
        /\ inside'[c]["pair"] = "close" /\ inside'[c]["other"] = inside[c]["other"]
        /\ \A d \in Conn \ {c} : inside'[d] = inside[d]
    BY <2>1 DEF IInv, TypeInv, Threads
  <2>3. TypeInv'
    BY <1>1, <2>1, <2>2 DEF IInv, TypeInv
  <2>4. ThreadInv'
    BY <1>1, <1>2, <2>1, <2>2 DEF IInv, ThreadInv
  <2>5. TableInv'
    BY <1>1, <2>1, <2>2 DEF IInv, TableInv, Threads
  <2>6. OwnInv'
    BY <1>1, <1>2, <2>1, <2>2 DEF IInv, OwnInv, Closed, Threads
  <2> QED  BY <2>3, <2>4, <2>5, <2>6 DEF IInv
<1>3. CASE ~(pair[c].fd # 0 /\ ~pair[c].adopted)
  <2>1. inside' = inside /\ pair' = [pair EXCEPT ![c].life = "deleted"]
        /\ (clash => clash')
    BY <1>3 DEF Delete
  <2>2. /\ Keeps(c)
        /\ pair'[c].life = "deleted" /\ pair'[c].fd = pair[c].fd
        /\ pair'[c].adopted = pair[c].adopted
    BY <2>1 DEF IInv, TypeInv, Pairs, Lives, Keeps
  <2>3. TypeInv'
    BY <1>1, <2>1, <2>2 DEF IInv, TypeInv, Keeps
  <2>4. ThreadInv'
    BY <1>1, <2>1, <2>2 DEF IInv, ThreadInv, Keeps
  <2>5. TableInv'
    BY <1>1, <1>3, <2>1, <2>2 DEF IInv, TableInv, Keeps
  <2>6. OwnInv'
    BY <1>1, <2>1, <2>2 DEF IInv, OwnInv, Closed, Keeps
  <2> QED  BY <2>3, <2>4, <2>5, <2>6 DEF IInv
<1> QED  BY <1>2, <1>3

LEMMA DisconnectStep == ASSUME IInv, NEW c \in Conn, DisconnectPair(c)  PROVE IInv'
<1>1. /\ UNCHANGED <<table, client, pair, heirs, foreign, clash>>
      /\ pair[c].life \in {"reading", "orphan"} /\ inside[c]["other"] = "out"
      /\ pair[c].fd # 0 /\ c \notin heirs
      /\ meddled' = meddled \union {c}
  BY DEF DisconnectPair
<1>2. /\ inside' \in [Conn -> [Threads -> {"out", "close", "clear"}]]
      /\ inside'[c]["other"] = "close" /\ inside'[c]["pair"] = inside[c]["pair"]
      /\ \A d \in Conn \ {c} : inside'[d] = inside[d]
  BY DEF DisconnectPair, IInv, TypeInv, Threads
<1>3. inside[c]["pair"] = "out"
  BY <1>1 DEF IInv, ThreadInv
<1>4. TypeInv'
  BY <1>1, <1>2 DEF IInv, TypeInv
<1>5. ThreadInv'
  BY <1>1, <1>2 DEF IInv, ThreadInv
<1>6. TableInv'
  BY <1>1, <1>2 DEF IInv, TableInv, Threads
<1>7. OwnInv'
  BY <1>1, <1>2, <1>3 DEF IInv, OwnInv, Closed, Threads
<1> QED  BY <1>4, <1>5, <1>6, <1>7 DEF IInv

LEMMA AdoptStep == ASSUME IInv, NEW c \in Conn, Adopt(c)  PROVE IInv'
<1>1. /\ UNCHANGED <<table, client, inside, meddled, foreign, clash>>
      /\ Reads(c) /\ c \notin heirs /\ c \notin meddled
      /\ heirs' = heirs \union {c}
      /\ pair' = [pair EXCEPT ![c].adopted = TRUE]
  BY DEF Adopt
<1>2. /\ Keeps(c)
      /\ pair'[c].life = "reading" /\ pair'[c].fd = pair[c].fd /\ pair'[c].adopted
  BY <1>1 DEF Reads, IInv, TypeInv, Pairs, Lives, Keeps
<1>3. pair[c].life = "reading" /\ (clash \/ table[pair[c].fd] = c)
  BY <1>1, ReaderOwns DEF Reads
<1>4. TypeInv'
  BY <1>1, <1>2 DEF IInv, TypeInv, Keeps
<1>5. ThreadInv'
  BY <1>1, <1>2, <1>3 DEF IInv, ThreadInv, Keeps
<1>6. TableInv'
  BY <1>1, <1>2 DEF IInv, TableInv, Keeps
<1>7. OwnInv'
  BY <1>1, <1>2, <1>3 DEF IInv, OwnInv, Closed, Keeps
<1> QED  BY <1>4, <1>5, <1>6, <1>7 DEF IInv

-----------------------------------------------------------------------------
\* A descriptor that its connection's pair, or heir, closes is nobody else's.
LEMMA FreedTable ==
  ASSUME IInv, NEW c \in Conn, table' = [table EXCEPT ![pair[c].fd] = "free"]
  PROVE  /\ table' \in [Fd -> Conn \union {"free", "other"}]
         /\ \A f \in Fd : table'[f] # c
         /\ \A d \in Conn : \A f \in Fd : table'[f] = d => table[f] = d
         /\ table[pair[c].fd] = c =>
                \A d \in Conn \ {c} : \A f \in Fd : table[f] = d => table'[f] = d
<1>1. pair[c].fd \in Fd
  BY DEF IInv, TypeInv, Pairs
<1>2. \A f \in Fd : table[f] = c => f = pair[c].fd
  BY DEF IInv, TableInv
<1> QED  BY <1>1, <1>2, ConnAssumption DEF IInv, TypeInv

\* Alone in a disconnect, a thread closes its own connection's descriptor.
LEMMA CloserOwns ==
  ASSUME IInv, NEW c \in Conn, NEW t \in Threads, inside[c][t] = "close",
         pair[c].life # "deleted", ~clash
  PROVE  table[pair[c].fd] = c
<1>1. ~Closed(c) /\ pair[c].fd # 0
  BY DEF IInv, OwnInv, Closed, Threads
<1>2. pair[c].life # "none"
  BY DEF IInv, ThreadInv, Threads
<1>3. pair[c].life \in {"reading", "orphan", "ending"}
  BY <1>2 DEF IInv, TypeInv, Pairs, Lives
<1> QED  BY <1>1, <1>3 DEF IInv, OwnInv

LEMMA CloseStep ==
  ASSUME IInv, NEW c \in Conn, NEW t \in Threads, Close(c, t)
  PROVE  IInv'
<1>1. /\ UNCHANGED <<client, pair, heirs, meddled, clash>>
      /\ inside[c][t] = "close" /\ pair[c].life # "deleted" /\ Note(c)
      /\ table' = [table EXCEPT ![pair[c].fd] = "free"]
  BY DEF Close
<1>2. /\ inside' \in [Conn -> [Threads -> {"out", "close", "clear"}]]
      /\ inside'[c][t] = "clear" /\ \A u \in Threads \ {t} : inside'[c][u] = inside[c][u]
      /\ \A d \in Conn \ {c} : inside'[d] = inside[d]
  BY DEF Close, IInv, TypeInv
<1>3. /\ table' \in [Fd -> Conn \union {"free", "other"}]
      /\ \A f \in Fd : table'[f] # c
      /\ \A d \in Conn : \A f \in Fd : table'[f] = d => table[f] = d
      /\ table[pair[c].fd] = c =>
             \A d \in Conn \ {c} : \A f \in Fd : table[f] = d => table'[f] = d
  BY <1>1, FreedTable
<1>4. clash \/ table[pair[c].fd] = c
  BY <1>1, CloserOwns
<1>5. clash \/ foreign' = foreign
  BY <1>1, <1>4 DEF Note
<1>6. TypeInv'
  BY <1>1, <1>2, <1>3 DEF IInv, TypeInv
<1>7. ThreadInv'
  <2>1. ASSUME NEW d \in Conn, NEW u \in Threads, inside'[d][u] # "out"
        PROVE  inside[d][u] # "out"
    BY <1>1, <1>2, <2>1
  <2> QED  BY <1>1, <2>1 DEF IInv, ThreadInv, Threads
<1>8. TableInv'
  BY <1>1, <1>2, <1>3 DEF IInv, TableInv
<1>9. OwnInv'
  <2> SUFFICES ASSUME ~clash  PROVE OwnInv'
    BY <1>1 DEF OwnInv
  <2>1. foreign' \subseteq meddled'
    BY <1>1, <1>5 DEF IInv, OwnInv
  <2>2. c \notin heirs
    BY <1>1 DEF IInv, ThreadInv, Threads
  <2>3. ASSUME NEW d \in Conn
        PROVE  inside'[d]["pair"] = "out" \/ inside'[d]["other"] = "out"
    BY <1>1, <1>2 DEF IInv, OwnInv, Threads
  <2>4. ASSUME NEW d \in Conn, NEW u \in Threads, inside'[d][u] = "close"
        PROVE  pair'[d].fd # 0
    BY <1>1, <1>2, <2>4 DEF IInv, OwnInv
  <2>5. ASSUME NEW d \in Conn, d # c, table[pair[d].fd] = d
        PROVE  table'[pair[d].fd] = d
    <3>1. pair[d].fd \in Fd
      BY DEF IInv, TypeInv, Pairs
    <3> QED  BY <1>3, <1>4, <2>5, <3>1
  <2>6. ASSUME NEW d \in Conn, pair'[d].life \in {"reading", "orphan", "ending"},
               ~Closed(d)', pair'[d].fd # 0 \/ d \notin meddled'
        PROVE  table'[pair'[d].fd] = d
    <3>1. d # c
      BY <1>2, <2>6 DEF Closed
    <3>2. ~Closed(d)
      BY <1>2, <2>6, <3>1 DEF Closed
    <3> QED  BY <1>1, <2>5, <2>6, <3>1, <3>2 DEF IInv, OwnInv
  <2>7. ASSUME NEW d \in Conn, d \in heirs', pair'[d].fd # 0
        PROVE  table'[pair'[d].fd] = d
    BY <1>1, <2>2, <2>5, <2>7 DEF IInv, OwnInv
  <2> QED  BY <2>1, <2>3, <2>4, <2>6, <2>7 DEF OwnInv
<1> QED  BY <1>6, <1>7, <1>8, <1>9 DEF IInv

LEMMA ClearFdStep ==
  ASSUME IInv, NEW c \in Conn, NEW t \in Threads, ClearFd(c, t)
  PROVE  IInv'
<1>1. /\ UNCHANGED <<table, client, heirs, meddled, foreign, clash>>
      /\ inside[c][t] = "clear" /\ pair[c].life # "deleted"
      /\ pair' = [pair EXCEPT ![c].fd = 0, ![c].life = IF t = "pair" THEN "deleted" ELSE @]
  BY DEF ClearFd
<1>2. /\ inside' \in [Conn -> [Threads -> {"out", "close", "clear"}]]
      /\ inside'[c][t] = "out" /\ \A u \in Threads \ {t} : inside'[c][u] = inside[c][u]
      /\ \A d \in Conn \ {c} : inside'[d] = inside[d]
  BY DEF ClearFd, IInv, TypeInv
<1>3. 0 \in Fd
  BY MaxFdAssumption DEF Fd
<1>4. /\ Keeps(c)
      /\ pair'[c].life = (IF t = "pair" THEN "deleted" ELSE pair[c].life)
      /\ pair'[c].fd = 0 /\ pair'[c].adopted = pair[c].adopted
  BY <1>1, <1>3 DEF IInv, TypeInv, Pairs, Lives, Keeps
<1>5. /\ pair[c].life # "none" /\ c \notin heirs
      /\ t = "other" => c \in meddled
      /\ \A f \in Fd : table[f] # c
  BY <1>1 DEF IInv, ThreadInv, TableInv, Threads
<1>6. TypeInv'
  BY <1>1, <1>2, <1>4 DEF IInv, TypeInv, Keeps
<1>7. ThreadInv'
  <2>1. ASSUME NEW d \in Conn, d # c
        PROVE  pair'[d] = pair[d] /\ inside'[d] = inside[d]
    BY <1>2, <1>4, <2>1 DEF Keeps
  <2>2. inside'[c]["pair"] # "out" => pair'[c].life = "ending" /\ c \notin heirs
    BY <1>2, <1>4, <1>5 DEF IInv, ThreadInv, Threads
  <2>3. inside'[c]["other"] # "out" => c \in meddled
    BY <1>2, <1>5 DEF IInv, ThreadInv, Threads
  <2>4. pair'[c].life # "none" /\ client[c] # "waiting"
    BY <1>4, <1>5 DEF IInv, ThreadInv
  <2> SUFFICES ASSUME NEW d \in Conn
               PROVE  /\ client[d] = "waiting" => pair'[d].life = "none"
                      /\ pair'[d].life = "none" => d \notin heirs /\ d \notin meddled
                      /\ inside'[d]["pair"] # "out" => pair'[d].life = "ending" /\ d \notin heirs
                      /\ inside'[d]["other"] # "out" => d \in meddled
                      /\ d \in heirs => d \notin meddled /\ pair'[d].adopted
    BY <1>1 DEF ThreadInv
  <2>5. CASE d = c
    BY <1>5, <2>2, <2>3, <2>4, <2>5
  <2>6. CASE d # c
    BY <2>1, <2>6 DEF IInv, ThreadInv
  <2> QED  BY <2>5, <2>6
<1>8. TableInv'
  BY <1>1, <1>2, <1>4, <1>5 DEF IInv, TableInv, Keeps
<1>9. OwnInv'
  <2> SUFFICES ASSUME ~clash  PROVE OwnInv'
    BY <1>1 DEF OwnInv
  <2>1. inside'[c]["pair"] = "out" /\ inside'[c]["other"] = "out"
    BY <1>1, <1>2 DEF IInv, OwnInv, Threads
  <2>2. ~(/\ pair'[c].life \in {"reading", "orphan", "ending"}
          /\ pair'[c].fd # 0 \/ c \notin meddled)
    BY <1>4, <1>5 DEF Threads
  <2>3. \A d \in Conn \ {c} : pair'[d] = pair[d] /\ inside'[d] = inside[d]
    BY <1>2, <1>4 DEF Keeps
  <2>4. \A d \in Conn \ {c} : Closed(d)' <=> Closed(d)
    BY <2>3 DEF Closed
  <2> QED  BY <1>1, <1>5, <2>1, <2>2, <2>3, <2>4 DEF IInv, OwnInv, Threads
<1> QED  BY <1>6, <1>7, <1>8, <1>9 DEF IInv

LEMMA CloseAdoptedStep ==
  ASSUME IInv, NEW c \in Conn, CloseAdopted(c)
  PROVE  IInv'
<1>1. /\ UNCHANGED <<client, inside, heirs, meddled, clash>>
      /\ pair[c].life = "deleted" /\ c \in heirs /\ pair[c].fd # 0 /\ Note(c)
      /\ table' = [table EXCEPT ![pair[c].fd] = "free"]
      /\ pair' = [pair EXCEPT ![c].fd = 0]
  BY DEF CloseAdopted
<1>2. 0 \in Fd
  BY MaxFdAssumption DEF Fd
<1>3. /\ Keeps(c)
      /\ pair'[c].life = pair[c].life /\ pair'[c].fd = 0 /\ pair'[c].adopted = pair[c].adopted
  BY <1>1, <1>2 DEF IInv, TypeInv, Pairs, Lives, Keeps
<1>4. /\ table' \in [Fd -> Conn \union {"free", "other"}]
      /\ \A f \in Fd : table'[f] # c
      /\ \A d \in Conn : \A f \in Fd : table'[f] = d => table[f] = d
      /\ table[pair[c].fd] = c =>
             \A d \in Conn \ {c} : \A f \in Fd : table[f] = d => table'[f] = d
  BY <1>1, FreedTable
<1>5. clash \/ table[pair[c].fd] = c
  BY <1>1 DEF IInv, OwnInv
<1>6. clash \/ foreign' = foreign
  BY <1>1, <1>5 DEF Note
<1>7. TypeInv'
  BY <1>1, <1>3, <1>4 DEF IInv, TypeInv, Keeps
<1>8. ThreadInv'
  BY <1>1, <1>3 DEF IInv, ThreadInv, Keeps
<1>9. TableInv'
  BY <1>1, <1>3, <1>4 DEF IInv, TableInv, Keeps
<1>10. OwnInv'
  <2> SUFFICES ASSUME ~clash  PROVE OwnInv'
    BY <1>1 DEF OwnInv
  <2>1. \A d \in Conn \ {c} : pair[d].fd \in Fd
    BY DEF IInv, TypeInv, Pairs
  <2>2. \A d \in Conn \ {c} : table[pair[d].fd] = d => table'[pair[d].fd] = d
    BY <1>4, <1>5, <2>1
  <2>3. inside[c]["pair"] = "out" /\ inside[c]["other"] = "out"
    BY <1>1 DEF IInv, ThreadInv
  <2> QED  BY <1>1, <1>3, <1>6, <2>2, <2>3 DEF IInv, OwnInv, Closed, Threads, Keeps
<1> QED  BY <1>7, <1>8, <1>9, <1>10 DEF IInv

-----------------------------------------------------------------------------
LEMMA InvStep == IInv /\ [ServerNext]_ssvars => IInv'
<1> SUFFICES ASSUME IInv, [ServerNext]_ssvars  PROVE IInv'
  OBVIOUS
<1>1. CASE Bind
  BY <1>1, BindStep
<1>2. CASE Listen
  BY <1>2, ClientSteps
<1>3. ASSUME NEW c \in Conn,
             AcceptFails(c) \/ AcceptUnpaired(c) \/ Connect(c) \/ HangUp(c)
      PROVE  IInv'
  BY <1>3, ClientSteps
<1>4. ASSUME NEW c \in Conn, Accept(c)  PROVE IInv'
  BY <1>4, AcceptStep
<1>5. ASSUME NEW c \in Conn, Answer(c) \/ ReadEnd(c) \/ ReadOther(c)  PROVE IInv'
  BY <1>5, ReadSteps
<1>6. ASSUME NEW c \in Conn, Delete(c)  PROVE IInv'
  BY <1>6, DeleteStep
<1>7. ASSUME NEW c \in Conn, DisconnectPair(c)  PROVE IInv'
  BY <1>7, DisconnectStep
<1>8. ASSUME NEW c \in Conn, Adopt(c)  PROVE IInv'
  BY <1>8, AdoptStep
<1>9. ASSUME NEW c \in Conn, CloseAdopted(c)  PROVE IInv'
  BY <1>9, CloseAdoptedStep
<1>10. ASSUME NEW c \in Conn, NEW t \in Threads, Close(c, t) \/ ClearFd(c, t)  PROVE IInv'
  BY <1>10, CloseStep, ClearFdStep
<1>11. CASE UNCHANGED ssvars
  <2>1. UNCHANGED <<table, pair, inside, client, heirs, meddled, foreign, clash>>
    BY <1>11 DEF ssvars
  <2> QED
    BY <2>1 DEF IInv, TypeInv, ThreadInv, TableInv, OwnInv, Closed
<1> QED
  BY <1>1, <1>2, <1>3, <1>4, <1>5, <1>6, <1>7, <1>8, <1>9, <1>10, <1>11 DEF ServerNext

LEMMA InvOwned == IInv => DescriptorsOwned
<1> SUFFICES ASSUME IInv, ~clash  PROVE DescriptorsOwned
  BY DEF DescriptorsOwned
<1>1. foreign \subseteq meddled
  BY DEF IInv, OwnInv
<1>2. ASSUME NEW f \in Fd, table[f] \in Conn
      PROVE  f = 0 \/ pair[table[f]].life # "deleted" \/ pair[table[f]].adopted
  BY <1>2 DEF IInv, TableInv
<1>3. ASSUME NEW c \in Conn \ meddled, Reads(c) \/ (c \in heirs /\ pair[c].fd # 0)
      PROVE  table[pair[c].fd] = c
  BY <1>3, ReaderOwns DEF IInv, OwnInv
<1> QED  BY <1>1, <1>2, <1>3 DEF DescriptorsOwned

\* Until two threads meet in one pair's disconnect, only a pair that another
\* thread has disconnected reads or closes a connection that is not its own, a
\* pair that reads and the heir of a descriptor have their own, and a deleted
\* pair leaves no descriptor behind but 0 or an adopted one.
THEOREM DescriptorsStayOwned == ServerSpec => []DescriptorsOwned
<1>1. ServerSpec => []IInv
  BY IInvInit, InvStep, PTL DEF ServerSpec
<1> QED  BY <1>1, InvOwned, PTL
=============================================================================
