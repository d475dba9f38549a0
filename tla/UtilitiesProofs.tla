--------------------------- MODULE UtilitiesProofs ---------------------------
(***************************************************************************)
(* What holds of the parts that one caller uses: file_input_stream for     *)
(* every file and all lengths, chunker for every chunk size and all sizes  *)
(* of blocks, TiXmlString for all characters and texts, TiXmlAttributeSet  *)
(* for all names and values, the digests for all sizes of blocks and words *)
(* and every way to cut a message, and the pure helpers (trim, base64, the *)
(* bytes of an int, UTF-8) for all their arguments.                        *)
(***************************************************************************)
EXTENDS FileInputStream, Chunker, XmlString, XmlAttributes, XmlText, Digest, Helpers,
        SequenceTheorems, FiniteSetTheorems, WellFoundedInduction, TLAPS

-----------------------------------------------------------------------------
(* file_input_stream.                                                      *)

\* The end is remembered exactly as long as it was announced, and the field has
\* been assigned once the stream has left its first state.
FileInv ==
    /\ stream_state \in {"CLOSED", "OPEN", "EOS"}
    /\ results \in Int \X Int
    /\ stream_state = "EOS" <=> results[2] <= 0
    /\ gone = "no" => (file = "junk" <=> stream_state = "CLOSED")
    /\ stream_state = "EOS" => file = "null"

FileIInv == FileInv /\ FileExact

LEMMA FileInvInit == FileInit => FileIInv
<1> SUFFICES ASSUME FileInit  PROVE FileIInv
  OBVIOUS
<1>1. results \in Int \X Int /\ results[1] = 1 /\ results[2] = 1
  BY DEF FileInit
<1> QED  BY <1>1 DEF FileInit, FileIInv, FileInv, FileExact

LEMMA FileInvStep == FileIInv /\ [FileNext]_fvars => FileIInv'
<1> SUFFICES ASSUME FileIInv, [FileNext]_fvars  PROVE FileIInv'
  OBVIOUS
<1> USE DEF FileIInv, FileInv, FileExact, Returns
<1>1. CASE ReadEnded
  BY <1>1 DEF ReadEnded
<1>2. CASE OpenFails
  BY <1>2 DEF OpenFails
<1>3. ASSUME NEW n \in Lengths, ReadFile(n)  PROVE FileIInv'
  <2> USE DEF ReadFile
  <2>1. n \in Int
    BY LengthsAssumption
  <2>2. gone = "no" /\ gone' = gone /\ stream_state # "EOS"
    BY <1>3, Zenon
  <2>3. results[2] > 0 /\ results[2] \in Int
    BY <2>2, SMT
  <2>4. PICK r \in 0 .. n : results' = <<results[2], r>> /\ IF r = 0
            THEN stream_state' = "EOS" /\ file' = "null" /\ opened' = FALSE
            ELSE stream_state' = "OPEN" /\ file' = "handle" /\ opened' = TRUE
    BY <1>3, Zenon
  <2>5. results' \in Int \X Int /\ results'[1] = results[2] /\ results'[2] = r
    BY <2>1, <2>3, <2>4
  <2>6. CASE r = 0
    <3>1. stream_state' = "EOS" /\ file' = "null" /\ ~opened'
      BY <2>4, <2>6
    <3> QED  BY <2>2, <2>3, <2>5, <2>6, <3>1
  <2>7. CASE r # 0
    <3>1. stream_state' = "OPEN" /\ file' = "handle" /\ opened'
      BY <2>4, <2>7
    <3> QED  BY <2>1, <2>2, <2>3, <2>5, <2>7, <3>1
  <2> QED  BY <2>6, <2>7
<1>4. CASE Destroy
  BY <1>4 DEF Destroy
<1>5. CASE UNCHANGED fvars
  BY <1>5 DEF fvars
<1> QED
  BY <1>1, <1>2, <1>3, <1>4, <1>5 DEF FileNext, ReadNothing

\* Reads that follow each other announce the end once, by 0 or by a failure to
\* open, and then only -1; the handle is closed with the end or by the
\* destructor, which closes what it should not only if the stream was never read.
THEOREM FileIsExact == FileSpec => []FileExact
<1>1. FileSpec => []FileIInv
  BY FileInvInit, FileInvStep, PTL DEF FileSpec
<1>2. FileIInv => FileExact
  BY DEF FileIInv
<1> QED  BY <1>1, <1>2, PTL

-----------------------------------------------------------------------------
(* chunker.                                                                *)

\* A block has overflowed in this transfer exactly if it is past its first chunk.
ChunkCounts ==
    /\ phase \in {"idle", "perform", "over"}
    /\ file_id \in Nat /\ size \in Nat /\ received \in Nat /\ first \in Nat
    /\ disk \in Seq(Seq(Nat)) /\ file_id <= Len(disk)
    /\ IF crossed THEN first < file_id ELSE first = file_id

ChunkIInv == ChunkCounts /\ ChunksExact

LEMMA BytesType ==
  ASSUME NEW from \in Nat, NEW n \in Nat
  PROVE  Bytes(from, n) \in Seq(Nat) /\ Len(Bytes(from, n)) = n
  BY DEF Bytes

\* Bytes that follow each other.
LEMMA BytesFollow ==
  ASSUME NEW a \in Nat, NEW b \in Nat
  PROVE  Bytes(0, a) \o Bytes(a, b) = Bytes(0, a + b)
<1>1. /\ Bytes(0, a) \in Seq(Nat) /\ Len(Bytes(0, a)) = a
      /\ Bytes(a, b) \in Seq(Nat) /\ Len(Bytes(a, b)) = b
      /\ Bytes(0, a + b) \in Seq(Nat) /\ Len(Bytes(0, a + b)) = a + b
  BY BytesType
<1> DEFINE left == Bytes(0, a)
           right == Bytes(a, b)
           whole == Bytes(0, a + b)
<1>2. /\ \A i \in 1 .. a : left[i] = i
      /\ \A i \in 1 .. b : right[i] = a + i
      /\ \A i \in 1 .. a + b : whole[i] = i
  BY DEF Bytes
<1>3. /\ left \in Seq(Nat) /\ Len(left) = a
      /\ right \in Seq(Nat) /\ Len(right) = b
      /\ whole \in Seq(Nat) /\ Len(whole) = a + b
  BY <1>1
<1> HIDE DEF left, right, whole
<1>4. left \o right \in Seq(Nat) /\ Len(left \o right) = a + b
  BY <1>3, ConcatProperties
<1>5. ASSUME NEW i \in 1 .. a + b  PROVE (left \o right)[i] = whole[i]
  <2>1. i \in Nat /\ a \in Nat /\ whole[i] = i
    BY <1>2
  <2>2. (left \o right)[i] = IF i <= a THEN left[i] ELSE right[i - a]
    BY <1>3, ConcatProperties
  <2>3. CASE i <= a
    BY <1>2, <2>1, <2>2, <2>3
  <2>4. CASE ~(i <= a)
    <3>1. i - a \in 1 .. b
      BY <2>1, <2>4
    <3>2. right[i - a] = a + (i - a)
      BY <1>2, <3>1
    <3> QED  BY <2>1, <2>2, <2>4, <3>2
  <2> QED  BY <2>3, <2>4
<1>6. left \o right = whole
  BY <1>3, <1>4, <1>5, SeqEqual
<1> QED  BY <1>6 DEF left, right, whole

LEMMA ChunkInvInit == ChunkerInit => ChunkIInv
  BY ChunkSizeAssumption DEF ChunkerInit, ChunkIInv, ChunkCounts, ChunksExact, SizeInRange

LEMMA DownloadStep ==
  ASSUME ChunkIInv, Download
  PROVE  ChunkIInv'
<1>1. file_id \in Nat /\ disk \in Seq(Seq(Nat)) /\ file_id <= Len(disk)
  BY DEF ChunkIInv, ChunkCounts
<1>2. SubSeq(disk, 1, file_id) \in Seq(Seq(Nat)) /\ Len(SubSeq(disk, 1, file_id)) = file_id
  BY <1>1
<1>3. disk' = Append(SubSeq(disk, 1, file_id), << >>)
  BY DEF Download
<1>4. << >> \in Seq(Nat)
  OBVIOUS
<1>5. disk' \in Seq(Seq(Nat)) /\ Len(disk') = file_id + 1 /\ disk'[file_id + 1] = << >>
  <2> DEFINE old == SubSeq(disk, 1, file_id)
  <2> HIDE DEF old
  <2>1. old \in Seq(Seq(Nat)) /\ Len(old) = file_id /\ disk' = Append(old, << >>)
    BY <1>2, <1>3 DEF old
  <2> QED  BY <1>1, <1>4, <2>1
<1>6. Bytes(0, 0) = << >>
  <2>1. Bytes(0, 0) \in Seq(Nat) /\ Len(Bytes(0, 0)) = 0
    BY BytesType
  <2> QED  BY <2>1
<1>7. /\ phase' = "perform" /\ file_id' = file_id /\ first' = file_id
      /\ size' = 0 /\ received' = 0 /\ ~crossed' /\ ~large' /\ ~wild'
  BY DEF Download
<1>8. ChunkCounts'
  BY <1>1, <1>5, <1>7 DEF ChunkCounts
<1>9. ChunksExact'
  BY <1>1, <1>5, <1>6, <1>7, ChunkSizeAssumption DEF ChunksExact, SizeInRange
<1> QED  BY <1>8, <1>9 DEF ChunkIInv

LEMMA OverflowType ==
  ASSUME NEW n \in Nat, size \in Nat
  PROVE  /\ Overflow(n) \in Nat
         /\ Overflow(n) > 0 => Overflow(n) = size + n - ChunkSize
         /\ Overflow(n) = 0 => size + n <= ChunkSize
  BY ChunkSizeAssumption DEF Overflow

\* A file of the disk written to: the others are as before.
LEMMA AppendedAt ==
  ASSUME NEW d \in Seq(Seq(Nat)), NEW k \in 1 .. Len(d), NEW v \in Seq(Nat)
  PROVE  LET e == [d EXCEPT ![k] = v]
         IN /\ e \in Seq(Seq(Nat)) /\ Len(e) = Len(d) /\ e[k] = v
            /\ \A i \in 1 .. k - 1 : e[i] = d[i]
<1>1. \A i \in 1 .. k - 1 : i # k /\ i \in 1 .. Len(d)
  OBVIOUS
<1>2. /\ [d EXCEPT ![k] = v] \in Seq(Seq(Nat)) /\ Len([d EXCEPT ![k] = v]) = Len(d)
      /\ \A i \in 1 .. Len(d) : [d EXCEPT ![k] = v][i] = IF i = k THEN v ELSE d[i]
  BY ExceptSeq
<1> QED  BY <1>1, <1>2

LEMMA WriteStep ==
  ASSUME ChunkIInv, NEW n \in Block, Write(n)
  PROVE  ChunkIInv'
<1>1. n \in Nat \ {0} /\ ChunkSize \in Nat \ {0}
  BY BlockAssumption, ChunkSizeAssumption
<1>2. /\ phase = "perform" /\ phase' = phase /\ file_id' = file_id /\ first' = first
      /\ (crossed' <=> crossed) /\ (wild' <=> wild) /\ ~wild
      /\ size' = size + n /\ received' = received + n
      /\ Overflow(n) = 0
  BY DEF Write
<1>3. /\ file_id \in Nat /\ size \in Nat /\ received \in Nat /\ first \in Nat
      /\ disk \in Seq(Seq(Nat)) /\ Len(disk) = file_id + 1
      /\ IF crossed THEN first < file_id ELSE first = file_id
      /\ received = (file_id - first) * ChunkSize + size
      /\ IF crossed THEN disk[first + 1] = Bytes(0, ChunkSize)
                    ELSE disk[file_id + 1] = Bytes(0, received)
  BY <1>2 DEF ChunkIInv, ChunkCounts, ChunksExact
<1>4. size' <= ChunkSize
  BY <1>1, <1>2, <1>3, OverflowType
<1> DEFINE added == Bytes(received, n)
<1>5. added \in Seq(Nat) /\ Bytes(0, received) \o added = Bytes(0, received')
  BY <1>1, <1>2, <1>3, BytesType, BytesFollow
<1>6. disk' = [disk EXCEPT ![file_id + 1] = @ \o added]
  BY DEF Write
<1> HIDE DEF added
<1>7. /\ disk' \in Seq(Seq(Nat)) /\ Len(disk') = Len(disk)
      /\ disk'[file_id + 1] = disk[file_id + 1] \o added
      /\ \A i \in 1 .. file_id : disk'[i] = disk[i]
  <2>1. disk[file_id + 1] \in Seq(Nat)
    BY <1>3
  <2>2. disk[file_id + 1] \o added \in Seq(Nat)
    BY <1>5, <2>1
  <2>3. file_id + 1 \in 1 .. Len(disk) /\ (file_id + 1) - 1 = file_id
    BY <1>3
  <2> QED  BY <1>3, <1>6, <2>2, <2>3, AppendedAt
<1>8. ChunkCounts'
  <2>1. file_id' \in Nat /\ size' \in Nat /\ received' \in Nat /\ first' \in Nat
    BY <1>1, <1>2, <1>3
  <2>2. disk' \in Seq(Seq(Nat)) /\ file_id' <= Len(disk')
    BY <1>2, <1>3, <1>7
  <2>3. phase' \in {"idle", "perform", "over"}
    BY <1>2
  <2>4. IF crossed' THEN first' < file_id' ELSE first' = file_id'
    BY <1>2, <1>3
  <2> QED  BY <2>1, <2>2, <2>3, <2>4 DEF ChunkCounts
<1>9. IF crossed' THEN disk'[first' + 1] = Bytes(0, ChunkSize)
                  ELSE disk'[file_id' + 1] = Bytes(0, received')
  <2>1. CASE crossed
    <3>1. first + 1 \in 1 .. file_id
      BY <1>3, <2>1
    <3> QED  BY <1>2, <1>3, <1>7, <2>1, <3>1
  <2>2. CASE ~crossed
    BY <1>2, <1>3, <1>5, <1>7, <2>2
  <2> QED  BY <2>1, <2>2
<1>10. received' = (file_id' - first') * ChunkSize + size'
  <2> DEFINE before == (file_id - first) * ChunkSize
  <2>1. before \in Int
    BY <1>1, <1>3
  <2> HIDE DEF before
  <2>2. received = before + size
    BY <1>3 DEF before
  <2>3. received' = before + size'
    BY <1>1, <1>2, <1>3, <2>1, <2>2
  <2> QED  BY <1>2, <2>3 DEF before
<1>11. SizeInRange'
  BY <1>1, <1>2, <1>3, <1>4 DEF SizeInRange
<1>12. Len(disk') = file_id' + 1
  BY <1>2, <1>3, <1>7
<1> QED  BY <1>8, <1>9, <1>10, <1>11, <1>12 DEF ChunkIInv, ChunksExact

LEMMA WriteOverStep ==
  ASSUME ChunkIInv, NEW n \in Block, WriteOver(n)
  PROVE  ChunkIInv'
<1>1. n \in Nat \ {0} /\ ChunkSize \in Nat \ {0}
  BY BlockAssumption, ChunkSizeAssumption
<1>2. /\ phase = "perform" /\ phase' = phase /\ file_id' = file_id + 1 /\ first' = first
      /\ crossed' /\ (wild' <=> wild) /\ ~wild
      /\ size' = Overflow(n) /\ received' = received + n
      /\ Overflow(n) > 0 /\ n >= Overflow(n)
      /\ (large' <=> (large \/ n > ChunkSize))
  BY DEF WriteOver
<1>3. /\ file_id \in Nat /\ size \in Nat /\ received \in Nat /\ first \in Nat
      /\ disk \in Seq(Seq(Nat)) /\ Len(disk) = file_id + 1
      /\ IF crossed THEN first < file_id ELSE first = file_id
      /\ received = (file_id - first) * ChunkSize + size
      /\ IF crossed THEN disk[first + 1] = Bytes(0, ChunkSize)
                    ELSE disk[file_id + 1] = Bytes(0, received)
      /\ large \/ SizeInRange
  BY <1>2 DEF ChunkIInv, ChunkCounts, ChunksExact
<1>4. Overflow(n) \in Nat /\ Overflow(n) = size + n - ChunkSize
  BY <1>1, <1>2, <1>3, OverflowType
<1> DEFINE head == Bytes(received, n - Overflow(n))
           filled == [disk EXCEPT ![file_id + 1] = @ \o head]
<1>5. PICK tail \in Seq(Nat) : disk' = Append(filled, tail)
  <2>1. Bytes(received, Overflow(n)) \in Seq(Nat) /\ << >> \in Seq(Nat)
    BY <1>3, <1>4, BytesType
  <2>2. \E reused \in BOOLEAN :
            disk' = Append(filled, IF reused THEN Bytes(received, Overflow(n)) ELSE << >>)
    BY DEF WriteOver
  <2> QED  BY <2>1, <2>2
<1>6. n - Overflow(n) \in Nat /\ n - Overflow(n) = ChunkSize - size
  BY <1>1, <1>2, <1>3, <1>4
<1>7. head \in Seq(Nat)
  BY <1>3, <1>6, BytesType
<1>8. ~crossed => Bytes(0, received) \o head = Bytes(0, ChunkSize)
  <2> SUFFICES ASSUME ~crossed  PROVE Bytes(0, received) \o head = Bytes(0, ChunkSize)
    OBVIOUS
  <2>1. file_id - first = 0
    BY <1>3
  <2>2. received = 0 * ChunkSize + size
    BY <1>3, <2>1
  <2>3. received + (n - Overflow(n)) = ChunkSize
    BY <1>1, <1>3, <1>6, <2>2
  <2> QED  BY <1>3, <1>6, <2>3, BytesFollow
<1> HIDE DEF head
<1>9. /\ filled \in Seq(Seq(Nat)) /\ Len(filled) = Len(disk)
      /\ filled[file_id + 1] = disk[file_id + 1] \o head
      /\ \A i \in 1 .. file_id : filled[i] = disk[i]
  <2>1. disk[file_id + 1] \in Seq(Nat)
    BY <1>3
  <2>2. disk[file_id + 1] \o head \in Seq(Nat)
    BY <1>7, <2>1
  <2>3. file_id + 1 \in 1 .. Len(disk) /\ (file_id + 1) - 1 = file_id
    BY <1>3
  <2> QED  BY <1>3, <2>2, <2>3, AppendedAt
<1> HIDE DEF filled
<1>10. /\ disk' \in Seq(Seq(Nat)) /\ Len(disk') = file_id + 2
       /\ \A i \in 1 .. file_id + 1 : disk'[i] = filled[i]
  BY <1>3, <1>5, <1>9
<1>11. ChunkCounts'
  BY <1>1, <1>2, <1>3, <1>4, <1>10 DEF ChunkCounts
<1>12. disk'[first' + 1] = Bytes(0, ChunkSize)
  <2>1. CASE crossed
    <3>1. first + 1 \in 1 .. file_id
      BY <1>3, <2>1
    <3> QED  BY <1>2, <1>3, <1>9, <1>10, <2>1, <3>1
  <2>2. CASE ~crossed
    <3>1. first + 1 = file_id + 1 /\ file_id + 1 \in 1 .. file_id + 1
      BY <1>3, <2>2
    <3>2. disk'[first + 1] = Bytes(0, received) \o head
      BY <1>3, <1>9, <1>10, <2>2, <3>1
    <3> QED  BY <1>2, <1>8, <2>2, <3>2
  <2> QED  BY <2>1, <2>2
<1>13. received' = (file_id' - first') * ChunkSize + size'
  <2> DEFINE before == file_id - first
  <2>1. before \in Int /\ file_id' - first' = before + 1
    BY <1>2, <1>3
  <2>2. received = before * ChunkSize + size
    BY <1>3
  <2> HIDE DEF before
  <2>3. (before + 1) * ChunkSize = before * ChunkSize + ChunkSize /\ before * ChunkSize \in Int
    BY <1>1, <2>1
  <2> DEFINE sum == before * ChunkSize
  <2> HIDE DEF sum
  <2>4. received' = (sum + ChunkSize) + size'
    <3>1. sum \in Int /\ received = sum + size
      BY <2>2, <2>3 DEF sum
    <3> QED  BY <1>1, <1>2, <1>3, <1>4, <3>1
  <2> QED  BY <2>1, <2>3, <2>4 DEF sum
<1>14. (large \/ SizeInRange)'
  BY <1>1, <1>2, <1>3, <1>4 DEF SizeInRange
<1>15. Len(disk') = file_id' + 1
  BY <1>2, <1>3, <1>10
<1> QED  BY <1>2, <1>11, <1>12, <1>13, <1>14, <1>15 DEF ChunkIInv, ChunksExact

\* A negative count needs a chunk that holds more than it may.
LEMMA WriteWildStep ==
  ASSUME ChunkIInv, NEW n \in Block, WriteWild(n)
  PROVE  ChunkIInv'
<1>1. n \in Nat /\ ChunkSize \in Nat
  BY BlockAssumption, ChunkSizeAssumption
<1>2. large
  <2>1. size \in Nat /\ (large \/ size <= ChunkSize)
    BY DEF ChunkIInv, ChunkCounts, ChunksExact, SizeInRange
  <2>2. Overflow(n) > n
    BY DEF WriteWild
  <2>3. size > ChunkSize
    BY <1>1, <2>1, <2>2 DEF Overflow
  <2> QED  BY <1>1, <2>1, <2>3
<1>3. large'
  BY <1>2 DEF WriteWild
<1> QED
  BY <1>3 DEF WriteWild, ChunkIInv, ChunkCounts, ChunksExact

LEMMA ChunkInvStep == ChunkIInv /\ [ChunkerNext]_cvars => ChunkIInv'
<1> SUFFICES ASSUME ChunkIInv, [ChunkerNext]_cvars  PROVE ChunkIInv'
  OBVIOUS
<1>1. CASE Download
  BY <1>1, DownloadStep
<1>2. CASE Cleanup
  BY <1>2 DEF Cleanup, ChunkIInv, ChunkCounts, ChunksExact, SizeInRange
<1>3. ASSUME NEW n \in Block, Write(n)  PROVE ChunkIInv'
  BY <1>3, WriteStep
<1>4. ASSUME NEW n \in Block, WriteOver(n)  PROVE ChunkIInv'
  BY <1>4, WriteOverStep
<1>5. ASSUME NEW n \in Block, WriteWild(n)  PROVE ChunkIInv'
  BY <1>5, WriteWildStep
<1>6. CASE UNCHANGED cvars
  BY <1>6 DEF cvars, ChunkIInv, ChunkCounts, ChunksExact, SizeInRange
<1> QED
  BY <1>1, <1>2, <1>3, <1>4, <1>5, <1>6 DEF ChunkerNext

\* However libcurl cuts a transfer into blocks and wherever it ends: no chunk is
\* too large if no block is, every byte is counted once, and the first chunk of
\* the transfer holds the bytes received, or the first chunk_size of them.
THEOREM ChunksAreExact == ChunkerSpec => []ChunksExact
<1>1. ChunkerSpec => []ChunkIInv
  BY ChunkInvInit, ChunkInvStep, PTL DEF ChunkerSpec
<1>2. ChunkIInv => ChunksExact
  BY DEF ChunkIInv
<1> QED  BY <1>1, <1>2, PTL

-----------------------------------------------------------------------------
(* TiXmlString.                                                            *)

StringTypeInv == text \in Seq(Char) /\ cap \in Nat

StringIInv == StringTypeInv /\ StringExact

LEMMA StringInvInit == StringInit => StringIInv
  BY DEF StringInit, StringIInv, StringTypeInv, StringExact

\* A buffer that assign keeps or makes holds what is assigned.
LEMMA AssignedFits ==
  ASSUME NEW s \in Seq(Char), cap \in Nat
  PROVE  /\ Assigned(s).text = s
         /\ Assigned(s).cap \in Nat
         /\ Len(s) <= Assigned(s).cap
  BY DEF Assigned

LEMMA AssignTextStep ==
  ASSUME StringIInv, NEW s \in Seq(Char), AssignText(s)
  PROVE  StringIInv'
<1>1. /\ text' = s /\ cap' \in Nat /\ Len(s) <= cap'
      /\ meant' = s
  BY AssignedFits DEF AssignText, StringIInv, StringTypeInv
<1> QED  BY <1>1 DEF StringIInv, StringTypeInv, StringExact

\* The buffer that append reserves holds both parts.
LEMMA ReservedFits ==
  ASSUME cap \in Nat, NEW new \in Nat, new > cap
  PROVE  Reserved(new + cap) \in Nat /\ new <= Reserved(new + cap)
  BY DEF Reserved

LEMMA AppendTextStep ==
  ASSUME StringIInv, NEW s \in Seq(Char), AppendText(s)
  PROVE  StringIInv'
<1> DEFINE new == Len(text) + Len(s)
<1>1. new \in Nat
  BY DEF StringIInv, StringTypeInv
<1>2. cap' = IF new > cap THEN Reserved(new + cap) ELSE cap
  BY DEF AppendText
<1>3. cap' \in Nat /\ new <= cap'
  <2> HIDE DEF new
  <2>1. cap \in Nat
    BY DEF StringIInv, StringTypeInv
  <2>2. CASE new > cap
    BY <1>1, <1>2, <2>1, <2>2, ReservedFits
  <2>3. CASE ~(new > cap)
    BY <1>1, <1>2, <2>1, <2>3
  <2> QED  BY <2>2, <2>3
<1>4. text' = text \o s /\ meant' = meant \o s /\ stale' = stale
  BY DEF AppendText
<1>5. text' \in Seq(Char) /\ Len(text') = new
  BY <1>4 DEF StringIInv, StringTypeInv
<1>6. ~stale' => text' = meant'
  BY <1>4 DEF StringIInv, StringExact
<1> QED  BY <1>3, <1>5, <1>6 DEF StringIInv, StringTypeInv, StringExact

LEMMA PartOfText ==
  ASSUME StringTypeInv, NEW i \in 1 .. Len(text), NEW j \in i .. Len(text)
  PROVE  SubSeq(text, i, j) \in Seq(Char)
  BY DEF StringTypeInv

LEMMA AppendOwnStep ==
  ASSUME StringIInv, NEW i \in 1 .. Len(text), NEW j \in i .. Len(text), AppendOwn(i, j)
  PROVE  StringIInv'
<1> DEFINE s == SubSeq(text, i, j)
           new == Len(text) + Len(s)
<1>1. s \in Seq(Char)
  BY PartOfText DEF StringIInv
<1>2. cap' = IF new > cap THEN Reserved(new + cap) ELSE cap
  BY DEF AppendOwn
<1>3. meant' = meant \o s /\ stale' = (stale \/ new > cap)
  BY DEF AppendOwn
<1>4. IF new > cap THEN \E junk \in [1 .. Len(s) -> Char] : text' = text \o junk
                   ELSE text' = text \o s
  BY DEF AppendOwn
<1> HIDE DEF s
<1>5. text \in Seq(Char) /\ cap \in Nat /\ Len(text) \in Nat /\ Len(s) \in Nat /\ new \in Nat
  BY <1>1 DEF StringIInv, StringTypeInv
<1>6. CASE new > cap
  <2>1. PICK junk \in [1 .. Len(s) -> Char] : text' = text \o junk
    BY <1>4, <1>6
  <2>2. junk \in Seq(Char) /\ Len(junk) = Len(s)
    BY <1>5
  <2>3. text' \in Seq(Char) /\ Len(text') = new
    <3>1. text \o junk \in Seq(Char) /\ Len(text \o junk) = Len(text) + Len(junk)
      BY <1>5, <2>2
    <3> QED  BY <2>1, <2>2, <3>1
  <2>4. cap' \in Nat /\ new <= cap'
    <3> HIDE DEF new
    <3> QED  BY <1>2, <1>5, <1>6, ReservedFits
  <2>5. stale'
    BY <1>3, <1>6
  <2> QED  BY <2>3, <2>4, <2>5 DEF StringIInv, StringTypeInv, StringExact
<1>7. CASE ~(new > cap)
  <2>1. text' = text \o s /\ cap' = cap /\ (stale => stale')
    <3> HIDE DEF new
    <3> QED  BY <1>2, <1>3, <1>4, <1>7
  <2>2. text' \in Seq(Char) /\ Len(text') <= cap'
    BY <1>1, <1>5, <1>7, <2>1
  <2>3. ~stale' => text' = meant'
    BY <1>3, <2>1 DEF StringIInv, StringExact
  <2> QED  BY <1>5, <2>1, <2>2, <2>3 DEF StringIInv, StringTypeInv, StringExact
<1> QED  BY <1>6, <1>7

LEMMA StringInvStep == StringIInv /\ [StringNext]_svars => StringIInv'
<1> SUFFICES ASSUME StringIInv, [StringNext]_svars  PROVE StringIInv'
  OBVIOUS
<1>1. ASSUME NEW s \in Piece, AssignText(s) \/ AppendText(s)  PROVE StringIInv'
  <2>1. s \in Seq(Char)
    BY PieceAssumption
  <2> QED  BY <1>1, <2>1, AssignTextStep, AppendTextStep
<1>2. ASSUME NEW n \in Caps, ReserveText(n)  PROVE StringIInv'
  <2>1. n \in Nat
    BY CapsAssumption
  <2> QED
    BY <1>2, <2>1 DEF ReserveText, Reserved, StringIInv, StringTypeInv, StringExact
<1>3. ASSUME NEW i \in 1 .. Len(text), NEW j \in i .. Len(text),
             AppendOwn(i, j) \/ AssignOwn(i, j)
      PROVE  StringIInv'
  <2>1. CASE AppendOwn(i, j)
    BY <2>1, AppendOwnStep
  <2>2. CASE AssignOwn(i, j)
    <3>1. SubSeq(text, i, j) \in Seq(Char)
      BY PartOfText DEF StringIInv
    <3> QED  BY <2>2, <3>1, AssignTextStep DEF AssignOwn
  <2> QED  BY <1>3, <2>1, <2>2
<1>4. CASE ClearString
  BY <1>4 DEF ClearString, StringIInv, StringTypeInv, StringExact
<1>5. CASE UNCHANGED svars
  BY <1>5 DEF svars, StringIInv, StringTypeInv, StringExact
<1> QED  BY <1>1, <1>2, <1>3, <1>4, <1>5 DEF StringNext

\* A string has the text its calls gave it, in a buffer that has room for it,
\* until a part of it is appended to itself and does not fit.
THEOREM StringIsExact == StringSpec => []StringExact
<1>1. StringSpec => []StringIInv
  BY StringInvInit, StringInvStep, PTL DEF StringSpec
<1>2. StringIInv => StringExact
  BY DEF StringIInv
<1> QED  BY <1>1, <1>2, PTL

-----------------------------------------------------------------------------
(* TiXmlAttributeSet.                                                      *)

\* A set of numbers has a least.
LEMMA LeastOf ==
  ASSUME NEW S, S \subseteq Nat, S # {}
  PROVE  \E i \in S : \A j \in S : i <= j
<1>1. PICK i \in S : \A j \in S : <<j, i>> \notin OpToRel(<, Nat)
  BY WFMin, NatLessThanWellFounded, Zenon
<1>2. \A j \in S : ~(j < i)
  BY <1>1, Zenon DEF OpToRel
<1>3. \A j \in S : i <= j
  BY <1>2
<1> QED  BY <1>3

\* The i-th of a sequence of attributes, the sentinel before the first and
\* after the last.
Cell(s, i) == IF i \in 1 .. Len(s) THEN s[i] ELSE Sentinel

\* The ring r lists s in both directions.
Linked(r, s) ==
    /\ s \in Seq(Slot)
    /\ \A i, j \in 1 .. Len(s) : s[i] = s[j] => i = j
    /\ \A i \in 0 .. Len(s) : /\ r[Cell(s, i)].next = Cell(s, i + 1)
                              /\ r[Cell(s, i + 1)].prev = Cell(s, i)

Fields == [Ring -> [name : AttrName, value : AttrValue, next : Ring, prev : Ring]]

\* s is what is met along link.
Along(link, s) ==
    /\ s \in Seq(Slot)
    /\ \A i, j \in 1 .. Len(s) : s[i] = s[j] => i = j
    /\ ring[Sentinel][link] = IF Len(s) = 0 THEN Sentinel ELSE s[1]
    /\ \A i \in 1 .. Len(s) : ring[s[i]][link] = IF i < Len(s) THEN s[i + 1] ELSE Sentinel

\* Such a sequence is no longer than there are slots.
LEMMA AlongLength ==
  ASSUME NEW s \in Seq(Slot), \A i, j \in 1 .. Len(s) : s[i] = s[j] => i = j
  PROVE  /\ Len(s) \in Nat /\ Cardinality(Slot) \in Nat /\ Len(s) <= Cardinality(Slot)
         /\ Cardinality({s[i] : i \in 1 .. Len(s)}) = Len(s)
<1> DEFINE all == {s[i] : i \in 1 .. Len(s)}
<1>1. Len(s) \in Nat /\ s \in [1 .. Len(s) -> Slot] /\ s \in [1 .. Len(s) -> all]
  BY LenProperties
<1>2. s \in Injection(1 .. Len(s), Slot)
  BY <1>1 DEF Injection, IsInjective
<1>3. IsFiniteSet(1 .. Len(s)) /\ Cardinality(1 .. Len(s)) = Len(s)
  <2>1. 1 \in Int /\ Len(s) \in Int
    BY <1>1
  <2>2. /\ IsFiniteSet(1 .. Len(s))
        /\ Cardinality(1 .. Len(s)) = IF 1 > Len(s) THEN 0 ELSE Len(s) - 1 + 1
    BY <2>1, FS_Interval
  <2> QED  BY <1>1, <2>2
<1>4. Cardinality(1 .. Len(s)) <= Cardinality(Slot)
  BY <1>2, <1>3, SlotAssumption, FS_Injection
<1>5. s \in Bijection(1 .. Len(s), all)
  BY <1>1 DEF Bijection, Injection, Surjection, IsInjective
<1>6. Cardinality(all) = Cardinality(1 .. Len(s))
  <2> HIDE DEF all
  <2>1. ExistsBijection(1 .. Len(s), all)
    BY <1>5 DEF ExistsBijection
  <2> QED  BY <1>3, <2>1, FS_Bijection
<1> QED  BY <1>1, <1>3, <1>4, <1>6, SlotAssumption, FS_CardinalityType

\* A round is the sequence of what is met.
LEMMA RoundIs ==
  ASSUME NEW link, NEW s, Along(link, s)
  PROVE  Round(link) = s
<1> DEFINE N == Cardinality(Slot)
           Meets(turn) == turn = [i \in 0 .. N |->
               IF i = 0 THEN ring[Sentinel][link]
               ELSE IF turn[i - 1] = Sentinel THEN Sentinel ELSE ring[turn[i - 1]][link]]
           f == [i \in 0 .. N |-> IF i < Len(s) THEN s[i + 1] ELSE Sentinel]
           turn == CHOOSE g : Meets(g)
           met == {i \in DOMAIN turn : turn[i] # Sentinel}
<1>1. Round(link) = [i \in 1 .. Cardinality(met) |-> turn[i - 1]]
  BY DEF Round
<1>2. s \in Seq(Slot) /\ \A i \in 1 .. Len(s) : s[i] \in Slot
  BY DEF Along
<1>0. Len(s) \in Nat /\ N \in Nat /\ Len(s) <= N
  BY AlongLength DEF Along
<1> HIDE DEF N
<1>3. Meets(f)
  <2>1. ASSUME NEW i \in 0 .. N
        PROVE  f[i] = IF i = 0 THEN ring[Sentinel][link]
                      ELSE IF f[i - 1] = Sentinel THEN Sentinel ELSE ring[f[i - 1]][link]
    BY <1>0, <1>2, SentinelAssumption DEF Along
  <2> QED  BY <2>1
<1>4. Meets(turn)
  BY <1>3
<1> HIDE DEF turn
<1>5. \A i \in 0 .. N : turn[i] = f[i]
  <2> DEFINE bad == {i \in 0 .. N : turn[i] # f[i]}
  <2>1. SUFFICES ASSUME bad # {}  PROVE FALSE
    OBVIOUS
  <2>2. PICK i \in bad : \A j \in bad : i <= j
    <3> HIDE DEF bad
    <3>1. bad \subseteq Nat
      BY DEF bad
    <3> QED  BY <2>1, <3>1, LeastOf
  <2>3. turn[i] = IF i = 0 THEN ring[Sentinel][link]
                ELSE IF turn[i - 1] = Sentinel THEN Sentinel ELSE ring[turn[i - 1]][link]
    BY <1>4
  <2>4. f[i] = IF i = 0 THEN ring[Sentinel][link]
               ELSE IF f[i - 1] = Sentinel THEN Sentinel ELSE ring[f[i - 1]][link]
    BY <1>3
  <2>5. i # 0 => turn[i - 1] = f[i - 1]
    BY <1>0, <2>2
  <2> QED  BY <2>2, <2>3, <2>4, <2>5
<1>6. met = 0 .. (Len(s) - 1)
  <2>1. DOMAIN turn = 0 .. N
    BY <1>4
  <2> QED  BY <1>0, <1>2, <1>5, <2>1, SentinelAssumption
<1>7. Cardinality(met) = Len(s)
  <2> HIDE DEF met
  <2>1. Len(s) - 1 \in Int
    BY <1>0
  <2>2. Cardinality(0 .. (Len(s) - 1)) = IF 0 > Len(s) - 1 THEN 0 ELSE (Len(s) - 1) - 0 + 1
    BY <2>1, FS_Interval
  <2>3. Cardinality(0 .. (Len(s) - 1)) = Len(s)
    BY <1>0, <2>2
  <2> QED  BY <1>6, <2>3
<1>8. \A i \in 1 .. Len(s) : turn[i - 1] = s[i]
  BY <1>0, <1>5
<1>9. Round(link) = [i \in 1 .. Len(s) |-> s[i]]
  BY <1>1, <1>7, <1>8
<1> QED  BY <1>2, <1>9

\* What a cell is.
LEMMA CellAt ==
  ASSUME NEW s \in Seq(Slot)
  PROVE  /\ Len(s) \in Nat
         /\ \A i \in 1 .. Len(s) : Cell(s, i) = s[i] /\ s[i] \in Slot /\ s[i] # Sentinel
         /\ Cell(s, 0) = Sentinel /\ Cell(s, Len(s) + 1) = Sentinel
         /\ \A i : Cell(s, i) \in Ring
  BY SentinelAssumption DEF Cell, Ring

\* The cells from 0 on are apart.
LEMMA CellsApart ==
  ASSUME NEW r, NEW s, Linked(r, s), NEW i \in 0 .. Len(s), NEW j \in 0 .. Len(s),
         Cell(s, i) = Cell(s, j)
  PROVE  i = j
<1>1. s \in Seq(Slot) /\ \A k, l \in 1 .. Len(s) : s[k] = s[l] => k = l
  BY DEF Linked
<1> QED  BY <1>1, CellAt

\* A ring that lists s is met as s.
LEMMA MembersIs ==
  ASSUME NEW s, Linked(ring, s)
  PROVE  Members = s
<1>1. s \in Seq(Slot) /\ \A i, j \in 1 .. Len(s) : s[i] = s[j] => i = j
  BY DEF Linked
<1>2. \A i \in 0 .. Len(s) : ring[Cell(s, i)].next = Cell(s, i + 1)
  BY DEF Linked
<1>3. ring[Sentinel].next = IF Len(s) = 0 THEN Sentinel ELSE s[1]
  <2>1. ring[Cell(s, 0)].next = Cell(s, 0 + 1)
    BY <1>1, <1>2, CellAt
  <2> QED  BY <1>1, <2>1, CellAt DEF Cell
<1>4. ASSUME NEW i \in 1 .. Len(s)
      PROVE  ring[s[i]].next = IF i < Len(s) THEN s[i + 1] ELSE Sentinel
  <2>1. ring[Cell(s, i)].next = Cell(s, i + 1)
    BY <1>1, <1>2
  <2> QED  BY <1>1, <2>1, CellAt DEF Cell
<1>5. Along("next", s)
  BY <1>1, <1>3, <1>4 DEF Along
<1> QED  BY <1>5, RoundIs DEF Members

\* Backwards it is met in reverse.
LEMMA RoundBack ==
  ASSUME NEW s, Linked(ring, s)
  PROVE  Round("prev") = [i \in 1 .. Len(s) |-> s[Len(s) + 1 - i]]
<1> DEFINE n == Len(s)
           b == [i \in 1 .. n |-> s[n + 1 - i]]
<1>1. s \in Seq(Slot) /\ \A i, j \in 1 .. Len(s) : s[i] = s[j] => i = j
  BY DEF Linked
<1>2. \A i \in 0 .. n : ring[Cell(s, i + 1)].prev = Cell(s, i)
  BY DEF Linked
<1>3. n \in Nat /\ \A i \in 1 .. n : n + 1 - i \in 1 .. n
  BY <1>1
<1>4. b \in Seq(Slot) /\ Len(b) = n
  <2>1. \A i \in 1 .. n : s[n + 1 - i] \in Slot
    BY <1>1, <1>3, CellAt
  <2> QED  BY <1>3, <2>1
<1>5. \A i, j \in 1 .. n : b[i] = b[j] => i = j
  <2>1. ASSUME NEW i \in 1 .. n, NEW j \in 1 .. n, s[n + 1 - i] = s[n + 1 - j]  PROVE i = j
    <3>1. n + 1 - i = n + 1 - j
      BY <1>1, <1>3, <2>1
    <3> QED  BY <1>3, <3>1
  <2> QED  BY <2>1
<1>6. ring[Sentinel].prev = IF n = 0 THEN Sentinel ELSE b[1]
  <2>1. ring[Cell(s, n + 1)].prev = Cell(s, n)
    BY <1>2, <1>3
  <2> QED  BY <1>1, <1>3, <2>1, CellAt DEF Cell
<1>7. ASSUME NEW i \in 1 .. n
      PROVE  ring[b[i]].prev = IF i < n THEN b[i + 1] ELSE Sentinel
  <2>1. n - i \in 0 .. n /\ (n - i) + 1 = n + 1 - i /\ n + 1 - i \in 1 .. n
    BY <1>3
  <2>2. ring[Cell(s, (n - i) + 1)].prev = Cell(s, n - i)
    BY <1>2, <2>1
  <2>3. ring[b[i]].prev = Cell(s, n - i)
    BY <1>1, <2>1, <2>2, CellAt
  <2>4. CASE i < n
    <3>1. n - i \in 1 .. n /\ i + 1 \in 1 .. n /\ n + 1 - (i + 1) = n - i
      BY <1>3, <2>4
    <3> QED  BY <1>1, <2>3, <2>4, <3>1, CellAt
  <2>5. CASE ~(i < n)
    <3>1. n - i = 0
      BY <1>3, <2>5
    <3> QED  BY <1>1, <2>3, <2>5, <3>1, CellAt
  <2> QED  BY <2>4, <2>5
<1> HIDE DEF b
<1>8. Along("prev", b)
  BY <1>4, <1>5, <1>6, <1>7 DEF Along
<1>9. Round("prev") = b
  BY <1>8, RoundIs
<1> QED  BY <1>9 DEF b

\* The links of another ring that agree list the same.
LEMMA LinkedSame ==
  ASSUME NEW r, NEW q, NEW s, Linked(r, s),
         \A b \in Ring : q[b].next = r[b].next /\ q[b].prev = r[b].prev
  PROVE  Linked(q, s)
<1>1. s \in Seq(Slot) /\ \A i, j \in 1 .. Len(s) : s[i] = s[j] => i = j
  BY DEF Linked
<1>2. \A i \in 0 .. Len(s) : /\ r[Cell(s, i)].next = Cell(s, i + 1)
                             /\ r[Cell(s, i + 1)].prev = Cell(s, i)
  BY DEF Linked
<1>3. \A i : Cell(s, i) \in Ring
  BY <1>1, CellAt
<1>4. \A i \in 0 .. Len(s) : /\ q[Cell(s, i)].next = Cell(s, i + 1)
                             /\ q[Cell(s, i + 1)].prev = Cell(s, i)
  BY <1>2, <1>3
<1> QED  BY <1>1, <1>4 DEF Linked

\* What Add leaves in each field.
LEMMA AddedFields ==
  ASSUME ring \in Fields, NEW a \in Slot, NEW v \in AttrName, NEW w \in AttrValue,
         ring[Sentinel].prev # a
  PROVE  /\ Added(a, v, w) \in Fields
         /\ \A b \in Ring :
              /\ Added(a, v, w)[b].name = IF b = a THEN v ELSE ring[b].name
              /\ Added(a, v, w)[b].value = IF b = a THEN w ELSE ring[b].value
              /\ Added(a, v, w)[b].next = IF b = a THEN Sentinel
                                          ELSE IF b = ring[Sentinel].prev THEN a ELSE ring[b].next
              /\ Added(a, v, w)[b].prev = IF b = a THEN ring[Sentinel].prev
                                          ELSE IF b = Sentinel THEN a ELSE ring[b].prev
<1> DEFINE z == ring[Sentinel].prev
           new == [name |-> v, value |-> w, next |-> Sentinel, prev |-> z]
           r == [ring EXCEPT ![a] = new]
           p == [r EXCEPT ![z].next = a]
           q == [p EXCEPT ![Sentinel].prev = a]
           Rec == [name : AttrName, value : AttrValue, next : Ring, prev : Ring]
<1>1. a \in Ring /\ Sentinel \in Ring /\ Sentinel # a
  BY SentinelAssumption DEF Ring
<1>2. ring \in [Ring -> Rec] /\ z \in Ring /\ z # a
  BY <1>1 DEF Fields
<1>3. new \in Rec /\ new.name = v /\ new.value = w /\ new.next = Sentinel /\ new.prev = z
  BY <1>1, <1>2
<1>4. Added(a, v, w) = q
  BY DEF Added
<1>5. /\ r \in [Ring -> Rec]
      /\ r[a] = new
      /\ \A b \in Ring : b # a => r[b] = ring[b]
  <2> HIDE DEF new, Rec
  <2> QED  BY <1>1, <1>2, <1>3
<1>6. /\ p \in [Ring -> Rec]
      /\ \A b \in Ring : /\ p[b].next = IF b = z THEN a ELSE r[b].next
                         /\ p[b].prev = r[b].prev
                         /\ p[b].name = r[b].name /\ p[b].value = r[b].value
  <2> HIDE DEF r, z
  <2> QED  BY <1>1, <1>2, <1>5
<1>7. /\ q \in [Ring -> Rec]
      /\ \A b \in Ring : /\ q[b].next = p[b].next
                         /\ q[b].prev = IF b = Sentinel THEN a ELSE p[b].prev
                         /\ q[b].name = p[b].name /\ q[b].value = p[b].value
  <2>1. p \in [Ring -> Rec] /\ Sentinel \in Ring /\ a \in Ring
    BY <1>1, <1>6
  <2> HIDE DEF p
  <2> QED  BY <2>1
<1> HIDE DEF r, p, q, new, z, Rec
<1>8. \A b \in Ring :
         /\ q[b].name = IF b = a THEN v ELSE ring[b].name
         /\ q[b].value = IF b = a THEN w ELSE ring[b].value
         /\ q[b].next = IF b = a THEN Sentinel ELSE IF b = z THEN a ELSE ring[b].next
         /\ q[b].prev = IF b = a THEN z ELSE IF b = Sentinel THEN a ELSE ring[b].prev
  <2> SUFFICES ASSUME NEW b \in Ring
               PROVE  /\ q[b].name = IF b = a THEN v ELSE ring[b].name
                      /\ q[b].value = IF b = a THEN w ELSE ring[b].value
                      /\ q[b].next = IF b = a THEN Sentinel ELSE IF b = z THEN a ELSE ring[b].next
                      /\ q[b].prev = IF b = a THEN z ELSE IF b = Sentinel THEN a ELSE ring[b].prev
    OBVIOUS
  <2>1. /\ q[b].next = p[b].next /\ q[b].name = p[b].name /\ q[b].value = p[b].value
        /\ q[b].prev = IF b = Sentinel THEN a ELSE p[b].prev
    BY <1>7
  <2>2. /\ p[b].prev = r[b].prev /\ p[b].name = r[b].name /\ p[b].value = r[b].value
        /\ p[b].next = IF b = z THEN a ELSE r[b].next
    BY <1>6
  <2>3. CASE b = a
    BY <1>1, <1>2, <1>3, <1>5, <2>1, <2>2, <2>3
  <2>4. CASE b # a
    BY <1>5, <2>1, <2>2, <2>4
  <2> QED  BY <2>3, <2>4
<1> QED  BY <1>4, <1>7, <1>8 DEF z, Fields, Rec

\* Add appends.
LEMMA AddedLinked ==
  ASSUME ring \in Fields, NEW s, Linked(ring, s), NEW a \in Slot,
         \A i \in 1 .. Len(s) : s[i] # a,
         NEW v \in AttrName, NEW w \in AttrValue
  PROVE  /\ Linked(Added(a, v, w), Append(s, a))
         /\ ring[Sentinel].prev # a
<1> DEFINE n == Len(s)
           t == Append(s, a)
           q == Added(a, v, w)
           z == Cell(s, n)
<1>1. s \in Seq(Slot) /\ \A i, j \in 1 .. n : s[i] = s[j] => i = j
  BY DEF Linked
<1>2. n \in Nat /\ t \in Seq(Slot) /\ Len(t) = n + 1 /\ t[n + 1] = a
      /\ \A i \in 1 .. n : t[i] = s[i]
  BY <1>1
<1>3. \A i \in 0 .. n : ring[Cell(s, i)].next = Cell(s, i + 1)
                        /\ ring[Cell(s, i + 1)].prev = Cell(s, i)
  BY DEF Linked
<1>4. \A i \in 0 .. n + 1 : Cell(s, i) # a /\ Cell(s, i) \in Ring
  BY <1>1, CellAt, SentinelAssumption DEF Cell
<1>5. ring[Sentinel].prev = z /\ z # a /\ z \in Ring
  <2>1. ring[Cell(s, n + 1)].prev = Cell(s, n)
    BY <1>2, <1>3
  <2> QED  BY <1>1, <1>2, <1>4, <2>1, CellAt
<1>6. \A b \in Ring :
        /\ q[b].next = IF b = a THEN Sentinel ELSE IF b = z THEN a ELSE ring[b].next
        /\ q[b].prev = IF b = a THEN z ELSE IF b = Sentinel THEN a ELSE ring[b].prev
  BY <1>5, AddedFields
<1> HIDE DEF q, t, z
<1>7. /\ \A i \in 0 .. n : Cell(t, i) = Cell(s, i)
      /\ Cell(t, n + 1) = a /\ Cell(t, n + 2) = Sentinel
  BY <1>2 DEF Cell
<1>8. a \in Ring /\ Sentinel \in Ring /\ a # Sentinel
  BY SentinelAssumption DEF Ring
<1>9. ASSUME NEW i \in 0 .. n + 1
      PROVE  q[Cell(t, i)].next = Cell(t, i + 1) /\ q[Cell(t, i + 1)].prev = Cell(t, i)
  <2>1. CASE i < n
    <3>1. i \in 0 .. n /\ i + 1 \in 0 .. n /\ n \in 0 .. n /\ i # n /\ i + 1 # 0 /\ 0 \in 0 .. n
      BY <1>2, <2>1
    <3>2. Cell(s, i) # z
      BY <3>1, CellsApart DEF z
    <3>3. Cell(s, i + 1) # Sentinel
      <4>1. Cell(s, 0) = Sentinel
        BY <1>1, CellAt
      <4> QED  BY <3>1, <4>1, CellsApart
    <3>4. Cell(t, i) = Cell(s, i) /\ Cell(t, i + 1) = Cell(s, i + 1)
      BY <1>7, <3>1
    <3>5. ring[Cell(s, i)].next = Cell(s, i + 1) /\ ring[Cell(s, i + 1)].prev = Cell(s, i)
      BY <1>3, <3>1
    <3>6. /\ Cell(s, i) \in Ring /\ Cell(s, i + 1) \in Ring
          /\ Cell(s, i) # a /\ Cell(s, i + 1) # a
      BY <1>2, <1>4, <3>1
    <3> QED  BY <1>6, <3>2, <3>3, <3>4, <3>5, <3>6
  <2>2. CASE i = n
    <3>1. Cell(t, i) = z /\ Cell(t, i + 1) = a
      BY <1>2, <1>7, <2>2 DEF z
    <3> QED  BY <1>5, <1>6, <1>8, <3>1
  <2>3. CASE i = n + 1
    <3>1. Cell(t, i) = a /\ Cell(t, i + 1) = Sentinel
      BY <1>2, <1>7, <2>3
    <3> QED  BY <1>6, <1>8, <3>1
  <2>4. i < n \/ i = n \/ i = n + 1
    BY <1>2
  <2> QED  BY <2>1, <2>2, <2>3, <2>4
<1>10. \A i, j \in 1 .. n + 1 : t[i] = t[j] => i = j
  BY <1>1, <1>2
<1>11. Linked(q, t)
  BY <1>2, <1>9, <1>10 DEF Linked
<1> QED  BY <1>5, <1>11 DEF q, t

\* What Remove leaves in each field.
LEMMA RemovedFields ==
  ASSUME ring \in Fields, NEW a \in Slot, ring[a].prev # a, ring[a].next # a,
         Apart \in [name : AttrName, value : AttrValue, next : Ring, prev : Ring]
  PROVE  /\ Removed(a) \in Fields
         /\ \A b \in Ring : b # a =>
              /\ Removed(a)[b].name = ring[b].name
              /\ Removed(a)[b].value = ring[b].value
              /\ Removed(a)[b].next = IF b = ring[a].prev THEN ring[a].next ELSE ring[b].next
              /\ Removed(a)[b].prev = IF b = ring[a].next THEN ring[a].prev ELSE ring[b].prev
<1> DEFINE z == ring[a].prev
           y == ring[a].next
           p == [ring EXCEPT ![z].next = y]
           q == [p EXCEPT ![p[a].next].prev = p[a].prev]
           c == [q EXCEPT ![a] = Apart]
           Rec == [name : AttrName, value : AttrValue, next : Ring, prev : Ring]
<1>1. a \in Ring
  BY DEF Ring
<1>2. ring \in [Ring -> Rec] /\ z \in Ring /\ z # a /\ y \in Ring /\ y # a
  BY <1>1 DEF Fields
<1>3. Removed(a) = c
  BY DEF Removed
<1>4. /\ p \in [Ring -> Rec]
      /\ \A b \in Ring : /\ p[b].next = IF b = z THEN y ELSE ring[b].next
                         /\ p[b].prev = ring[b].prev
                         /\ p[b].name = ring[b].name /\ p[b].value = ring[b].value
  <2> HIDE DEF z, y
  <2> QED  BY <1>1, <1>2
<1>5. p[a].next = y /\ p[a].prev = z
  BY <1>1, <1>2, <1>4
<1>6. /\ q \in [Ring -> Rec]
      /\ \A b \in Ring : /\ q[b].next = p[b].next
                         /\ q[b].prev = IF b = y THEN z ELSE p[b].prev
                         /\ q[b].name = p[b].name /\ q[b].value = p[b].value
  <2> HIDE DEF p, z, y
  <2>1. q = [p EXCEPT ![y].prev = z]
    BY <1>5
  <2>2. p \in [Ring -> Rec] /\ y \in Ring /\ z \in Ring
    BY <1>2, <1>4
  <2> HIDE DEF q
  <2> QED  BY <2>1, <2>2
<1>7. c \in [Ring -> Rec] /\ \A b \in Ring : b # a => c[b] = q[b]
  <2> HIDE DEF q
  <2> QED  BY <1>1, <1>6
<1> HIDE DEF p, q, c, z, y, Rec
<1>8. \A b \in Ring : b # a =>
        /\ c[b].name = ring[b].name /\ c[b].value = ring[b].value
        /\ c[b].next = IF b = z THEN y ELSE ring[b].next
        /\ c[b].prev = IF b = y THEN z ELSE ring[b].prev
  <2> SUFFICES ASSUME NEW b \in Ring, b # a
               PROVE  /\ c[b].name = ring[b].name /\ c[b].value = ring[b].value
                      /\ c[b].next = IF b = z THEN y ELSE ring[b].next
                      /\ c[b].prev = IF b = y THEN z ELSE ring[b].prev
    OBVIOUS
  <2>1. c[b] = q[b]
    BY <1>7
  <2>2. /\ q[b].name = p[b].name /\ q[b].value = p[b].value /\ q[b].next = p[b].next
        /\ q[b].prev = IF b = y THEN z ELSE p[b].prev
    BY <1>6
  <2>3. /\ p[b].name = ring[b].name /\ p[b].value = ring[b].value
        /\ p[b].next = IF b = z THEN y ELSE ring[b].next
        /\ p[b].prev = ring[b].prev
    BY <1>4
  <2> QED  BY <2>1, <2>2, <2>3
<1> QED  BY <1>3, <1>7, <1>8 DEF z, y, Fields, Rec

\* s without its k-th.
Dropped(s, k) == [i \in 1 .. (Len(s) - 1) |-> s[IF i < k THEN i ELSE i + 1]]

\* What is left keeps its order.
LEMMA DroppedIs ==
  ASSUME NEW s \in Seq(Slot), NEW k \in 1 .. Len(s),
         \A i, j \in 1 .. Len(s) : s[i] = s[j] => i = j
  PROVE  /\ Dropped(s, k) \in Seq(Slot) /\ Len(Dropped(s, k)) = Len(s) - 1
         /\ \A i \in 0 .. Len(s) :
              Cell(Dropped(s, k), i) = Cell(s, IF i < k THEN i ELSE i + 1)
         /\ \A i, j \in 1 .. Len(s) - 1 : Dropped(s, k)[i] = Dropped(s, k)[j] => i = j
         /\ {Dropped(s, k)[i] : i \in 1 .. Len(s) - 1} = {s[i] : i \in 1 .. Len(s)} \ {s[k]}
<1> DEFINE n == Len(s)
           t == Dropped(s, k)
           from(i) == IF i < k THEN i ELSE i + 1
<1>1. n \in Nat /\ n - 1 \in Nat /\ k \in Nat
  OBVIOUS
<1>2. \A i \in 1 .. n - 1 : from(i) \in 1 .. n /\ from(i) # k
  BY <1>1
<1>3. \A i \in 1 .. n - 1 : t[i] = s[from(i)] /\ s[from(i)] \in Slot
  BY <1>2, CellAt DEF Dropped
<1>4. t \in Seq(Slot) /\ Len(t) = n - 1
  BY <1>1, <1>3 DEF Dropped
<1> HIDE DEF t
<1>5. ASSUME NEW i \in 0 .. n  PROVE Cell(t, i) = Cell(s, from(i))
  <2>1. CASE i = 0
    <3>1. from(i) = 0 /\ i \notin 1 .. Len(t) /\ from(i) \notin 1 .. n
      BY <1>1, <2>1
    <3> QED  BY <3>1 DEF Cell
  <2>2. CASE i = n
    <3>1. from(i) = n + 1 /\ i \notin 1 .. Len(t) /\ from(i) \notin 1 .. n
      BY <1>1, <1>4, <2>2
    <3> QED  BY <3>1 DEF Cell
  <2>3. CASE i # 0 /\ i # n
    <3>1. i \in 1 .. n - 1
      BY <1>1, <2>3
    <3> HIDE DEF from
    <3> QED  BY <1>2, <1>3, <1>4, <3>1 DEF Cell
  <2> QED  BY <2>1, <2>2, <2>3
<1>6. ASSUME NEW i \in 1 .. n - 1, NEW j \in 1 .. n - 1, t[i] = t[j]  PROVE i = j
  <2>1. from(i) = from(j)
    <3> HIDE DEF from
    <3> QED  BY <1>2, <1>3, <1>6
  <2> QED  BY <1>1, <2>1
<1>7. {t[i] : i \in 1 .. n - 1} = {s[i] : i \in 1 .. n} \ {s[k]}
  <2>1. ASSUME NEW i \in 1 .. n - 1  PROVE t[i] \in {s[j] : j \in 1 .. n} \ {s[k]}
    <3> HIDE DEF from
    <3> QED  BY <1>2, <1>3
  <2>2. ASSUME NEW j \in 1 .. n, s[j] # s[k]  PROVE s[j] \in {t[i] : i \in 1 .. n - 1}
    <3>1. j # k
      BY <2>2
    <3>2. \E i \in 1 .. n - 1 : from(i) = j
      <4>1. CASE j < k
        <5>1. j \in 1 .. n - 1 /\ from(j) = j
          BY <1>1, <4>1
        <5> QED  BY <5>1
      <4>2. CASE ~(j < k)
        <5>1. j - 1 \in 1 .. n - 1 /\ from(j - 1) = j
          BY <1>1, <3>1, <4>2
        <5> QED  BY <5>1
      <4> QED  BY <4>1, <4>2
    <3> HIDE DEF from
    <3> QED  BY <1>3, <3>2
  <2> HIDE DEF n
  <2> QED  BY <2>1, <2>2
<1> QED  BY <1>4, <1>5, <1>6, <1>7 DEF t

\* Remove drops.
LEMMA RemovedLinked ==
  ASSUME ring \in Fields, NEW s, Linked(ring, s), NEW k \in 1 .. Len(s),
         Apart \in [name : AttrName, value : AttrValue, next : Ring, prev : Ring]
  PROVE  /\ Linked(Removed(s[k]), Dropped(s, k))
         /\ s[k] \in Slot /\ ring[s[k]].prev # s[k] /\ ring[s[k]].next # s[k]
<1> DEFINE n == Len(s)
           a == s[k]
           t == Dropped(s, k)
           q == Removed(a)
           z == Cell(s, k - 1)
           y == Cell(s, k + 1)
<1>1. s \in Seq(Slot) /\ \A i, j \in 1 .. n : s[i] = s[j] => i = j
  BY DEF Linked
<1>2. \A i \in 0 .. n : ring[Cell(s, i)].next = Cell(s, i + 1)
                        /\ ring[Cell(s, i + 1)].prev = Cell(s, i)
  BY DEF Linked
<1>3. /\ n \in Nat /\ k \in 0 .. n /\ k - 1 \in 0 .. n /\ (k - 1) + 1 = k /\ k - 1 # k
      /\ k \in Nat /\ n \in 0 .. n /\ 0 \in 0 .. n
  BY <1>1
<1>4. a \in Slot /\ a = Cell(s, k) /\ Cell(s, n + 1) = Sentinel /\ Cell(s, 0) = Sentinel
      /\ a # Sentinel
  BY <1>1, CellAt
<1>5. ring[a].next = y /\ ring[a].prev = z
  <2>1. ring[Cell(s, k)].next = Cell(s, k + 1) /\ ring[Cell(s, (k - 1) + 1)].prev = Cell(s, k - 1)
    BY <1>2, <1>3
  <2> QED  BY <1>3, <1>4, <2>1
<1>6. \A i \in 0 .. n + 1 : i # k => Cell(s, i) # a
  <2>1. ASSUME NEW i \in 0 .. n + 1, i # k  PROVE Cell(s, i) # a
    <3>1. CASE i = n + 1
      BY <1>4, <3>1
    <3>2. CASE i # n + 1
      <4>1. i \in 0 .. n
        BY <1>3, <3>2
      <4> QED  BY <1>3, <1>4, <2>1, <4>1, CellsApart
    <3> QED  BY <3>1, <3>2
  <2> QED  BY <2>1
<1>7. z # a /\ y # a
  <2>1. k + 1 \in 0 .. n + 1 /\ k + 1 # k /\ k - 1 \in 0 .. n + 1
    BY <1>3
  <2> QED  BY <1>3, <1>6, <2>1
<1>8. \A b \in Ring : b # a => /\ q[b].next = IF b = z THEN y ELSE ring[b].next
                               /\ q[b].prev = IF b = y THEN z ELSE ring[b].prev
  BY <1>4, <1>5, <1>7, RemovedFields
<1>9. \A i : Cell(s, i) \in Ring
  BY <1>1, CellAt
<1>10. /\ t \in Seq(Slot) /\ Len(t) = n - 1
       /\ \A i \in 0 .. n : Cell(t, i) = Cell(s, IF i < k THEN i ELSE i + 1)
       /\ \A i, j \in 1 .. n - 1 : t[i] = t[j] => i = j
  BY <1>1, DroppedIs
<1> HIDE DEF q, t, z, y, a
<1>11. ASSUME NEW i \in 0 .. n, NEW j \in 0 .. n, i # j  PROVE Cell(s, i) # Cell(s, j)
  BY <1>11, CellsApart
<1>12. ASSUME NEW i \in 0 .. n - 1
       PROVE  q[Cell(t, i)].next = Cell(t, i + 1) /\ q[Cell(t, i + 1)].prev = Cell(t, i)
  <2>0. i \in 0 .. n /\ i + 1 \in 0 .. n /\ i + 1 # 0 /\ i \in Nat
    BY <1>3
  <2>1. CASE i + 1 < k
    <3>1. i < k /\ i # k - 1 /\ i # k /\ i + 1 # k /\ i + 1 # k + 1 /\ i + 1 \in 0 .. n + 1
          /\ i \in 0 .. n + 1
      BY <1>3, <2>0, <2>1
    <3>2. Cell(t, i) = Cell(s, i) /\ Cell(t, i + 1) = Cell(s, i + 1)
      BY <1>10, <2>0, <2>1, <3>1
    <3>3. Cell(s, i) # a /\ Cell(s, i + 1) # a
      BY <1>6, <3>1
    <3>4. Cell(s, i) # z
      BY <1>3, <1>11, <2>0, <3>1 DEF z
    <3>5. Cell(s, i + 1) # y
      <4>1. CASE k = n
        <5>1. y = Cell(s, 0)
          BY <1>4, <4>1 DEF y
        <5> QED  BY <1>3, <1>11, <2>0, <5>1
      <4>2. CASE k # n
        <5>1. k + 1 \in 0 .. n
          BY <1>3, <4>2
        <5> QED  BY <1>11, <2>0, <3>1, <5>1 DEF y
      <4> QED  BY <4>1, <4>2
    <3>6. ring[Cell(s, i)].next = Cell(s, i + 1) /\ ring[Cell(s, i + 1)].prev = Cell(s, i)
      BY <1>2, <2>0
    <3> QED  BY <1>8, <1>9, <3>2, <3>3, <3>4, <3>5, <3>6
  <2>2. CASE i + 1 = k
    <3>1. i < k /\ i = k - 1 /\ ~(i + 1 < k) /\ (i + 1) + 1 = k + 1
      BY <1>3, <2>0, <2>2
    <3>2. Cell(t, i) = z /\ Cell(t, i + 1) = y
      BY <1>10, <2>0, <3>1 DEF z, y
    <3>3. z \in Ring /\ y \in Ring
      BY <1>9 DEF z, y
    <3> QED  BY <1>7, <1>8, <3>2, <3>3
  <2>3. CASE i + 1 > k
    <3>1. ~(i < k) /\ ~(i + 1 < k) /\ i + 1 # k /\ (i + 1) + 1 # k /\ i + 1 # k - 1
          /\ i + 1 \in 0 .. n + 1 /\ (i + 1) + 1 \in 0 .. n + 1 /\ k + 1 \in 0 .. n
      BY <1>3, <2>0, <2>3
    <3>2. Cell(t, i) = Cell(s, i + 1) /\ Cell(t, i + 1) = Cell(s, (i + 1) + 1)
      BY <1>10, <2>0, <3>1
    <3>3. Cell(s, i + 1) # a /\ Cell(s, (i + 1) + 1) # a
      BY <1>6, <3>1
    <3>4. Cell(s, i + 1) # z
      BY <1>3, <1>11, <2>0, <3>1 DEF z
    <3>5. Cell(s, (i + 1) + 1) # y
      <4>1. CASE i + 1 = n
        <5>1. Cell(s, (i + 1) + 1) = Cell(s, 0) /\ k + 1 # 0
          BY <1>3, <1>4, <4>1
        <5> QED  BY <1>3, <1>11, <3>1, <5>1 DEF y
      <4>2. CASE i + 1 # n
        <5>1. (i + 1) + 1 \in 0 .. n /\ (i + 1) + 1 # k + 1
          BY <1>3, <2>0, <2>3, <4>2
        <5> QED  BY <1>11, <3>1, <5>1 DEF y
      <4> QED  BY <4>1, <4>2
    <3>6. ring[Cell(s, i + 1)].next = Cell(s, (i + 1) + 1)
          /\ ring[Cell(s, (i + 1) + 1)].prev = Cell(s, i + 1)
      BY <1>2, <2>0
    <3> QED  BY <1>8, <1>9, <3>2, <3>3, <3>4, <3>5, <3>6
  <2> QED  BY <1>3, <2>0, <2>1, <2>2, <2>3
<1>13. Linked(q, t)
  BY <1>10, <1>12 DEF Linked
<1> QED  BY <1>4, <1>5, <1>7, <1>13 DEF q, t, a

\* The ring lists s, and s the attributes allocated.
Lists(s) == Linked(ring, s) /\ alive = {s[i] : i \in 1 .. Len(s)}

\* No two attributes have one name, and what was given is the value of the one
\* that has the name.
GivenKept ==
    /\ \A a, b \in alive : ring[a].name = ring[b].name => a = b
    /\ \A a \in alive : given[ring[a].name] = ring[a].value
    /\ \A v \in AttrName : given[v] # "none" => \E a \in alive : ring[a].name = v

AttrIInv ==
    /\ ring \in Fields
    /\ given \in [AttrName -> AttrValue \union {"none"}]
    /\ \E s \in Seq(Slot) : Lists(s)
    /\ GivenKept

\* An attribute that is not linked.
LEMMA ApartType ==
  /\ Apart \in [name : AttrName, value : AttrValue, next : Ring, prev : Ring]
  /\ Apart.next = Sentinel /\ Apart.prev = Sentinel
  BY EmptyAssumption DEF Apart, Ring

\* Find meets an attribute of the name, if there is one.
LEMMA FindIs ==
  ASSUME AttrIInv, NEW v
  PROVE  /\ Members \in Seq(Slot) /\ Lists(Members)
         /\ Find(v) = Sentinel => \A a \in alive : ring[a].name # v
         /\ Find(v) # Sentinel => /\ Find(v) \in alive /\ ring[Find(v)].name = v
                                  /\ \E k \in 1 .. Len(Members) : Find(v) = Members[k]
<1>1. PICK s \in Seq(Slot) : Lists(s)
  BY DEF AttrIInv
<1>2. Members = s
  BY <1>1, MembersIs DEF Lists
<1>3. DOMAIN s = 1 .. Len(s) /\ \A i \in 1 .. Len(s) : s[i] \in Slot /\ s[i] # Sentinel
  BY CellAt
<1> DEFINE hits == {i \in 1 .. Len(s) : ring[s[i]].name = v}
           k == CHOOSE i \in hits : \A j \in hits : i <= j
<1>4. Find(v) = IF hits = {} THEN Sentinel ELSE s[k]
  BY <1>2, <1>3 DEF Find
<1>5. hits # {} => k \in hits
  <2>1. hits \subseteq Nat
    OBVIOUS
  <2> HIDE DEF hits
  <2> QED  BY <2>1, LeastOf
<1> HIDE DEF k
<1>6. CASE hits = {}
  BY <1>1, <1>2, <1>4, <1>6 DEF Lists
<1>7. CASE hits # {}
  BY <1>1, <1>2, <1>3, <1>4, <1>5, <1>7 DEF Lists
<1> QED  BY <1>6, <1>7

\* At first nothing is listed.
LEMMA AttrInvInit == AttrInit => AttrIInv
<1> SUFFICES ASSUME AttrInit  PROVE AttrIInv
  OBVIOUS
<1>1. ring = [a \in Ring |-> Apart] /\ alive = {} /\ given = [v \in AttrName |-> "none"]
  BY DEF AttrInit
<1>2. ring \in Fields
  BY <1>1, ApartType DEF Fields
<1>3. Lists(<< >>)
  <2>1. ring[Sentinel].next = Sentinel /\ ring[Sentinel].prev = Sentinel
    BY <1>1, ApartType DEF Ring
  <2>2. \A i : Cell(<< >>, i) = Sentinel
    BY DEF Cell
  <2> QED  BY <1>1, <2>1, <2>2 DEF Lists, Linked
<1>4. GivenKept
  BY <1>1 DEF GivenKept
<1>5. << >> \in Seq(Slot)
  OBVIOUS
<1> QED  BY <1>1, <1>2, <1>3, <1>4, <1>5 DEF AttrIInv

\* A new attribute: Add with its name and value, or the parser's addition.
LEMMA AddKeeps ==
  ASSUME AttrIInv, NEW v \in AttrName, NEW w \in AttrValue, NEW a \in Slot \ alive,
         Find(v) = Sentinel,
         ring' = Added(a, v, w), alive' = alive \union {a},
         given' = [given EXCEPT ![v] = w]
  PROVE  AttrIInv'
<1>1. PICK s \in Seq(Slot) : Lists(s)
  BY DEF AttrIInv
<1>2. ring \in Fields /\ given \in [AttrName -> AttrValue \union {"none"}] /\ GivenKept
  BY DEF AttrIInv
<1>3. Linked(ring, s) /\ alive = {s[i] : i \in 1 .. Len(s)}
  BY <1>1 DEF Lists
<1>4. a \in Slot /\ \A i \in 1 .. Len(s) : s[i] # a
  BY <1>3
<1>5. Linked(Added(a, v, w), Append(s, a)) /\ ring[Sentinel].prev # a
  BY <1>2, <1>3, <1>4, AddedLinked
<1>6. Added(a, v, w) \in Fields
  BY <1>2, <1>5, AddedFields
<1>7. \A b \in Ring : /\ Added(a, v, w)[b].name = IF b = a THEN v ELSE ring[b].name
                      /\ Added(a, v, w)[b].value = IF b = a THEN w ELSE ring[b].value
  BY <1>2, <1>5, AddedFields
<1>8. Lists(Append(s, a))'
  <2> DEFINE t == Append(s, a)
             n == Len(s)
  <2>1. n \in Nat /\ Len(t) = n + 1 /\ t[n + 1] = a /\ \A i \in 1 .. n : t[i] = s[i]
    BY <1>4
  <2> HIDE DEF t
  <2>2. {t[i] : i \in 1 .. n + 1} = {s[i] : i \in 1 .. n} \union {a}
    <3>1. \A i \in 1 .. n + 1 : i \in 1 .. n \/ i = n + 1
      BY <2>1
    <3>2. \A i \in 1 .. n : i \in 1 .. n + 1
      BY <2>1
    <3>3. n + 1 \in 1 .. n + 1
      BY <2>1
    <3> HIDE DEF n
    <3> QED  BY <2>1, <3>1, <3>2, <3>3
  <2>3. Linked(ring', t)
    BY <1>5 DEF t
  <2>4. alive' = {t[i] : i \in 1 .. Len(t)}
    BY <1>3, <2>1, <2>2
  <2> QED  BY <2>3, <2>4 DEF Lists, t
<1>9. \A b \in alive : b \in Ring /\ b # a /\ b \in Slot
  BY <1>1, <1>3, CellAt DEF Ring
<1>10. \A b \in alive : ring[b].name # v
  BY FindIs
<1>11. /\ a \in Ring
       /\ \A b \in alive : /\ ring'[b].name = ring[b].name /\ ring'[b].value = ring[b].value
                           /\ ring[b].name \in AttrName
       /\ ring'[a].name = v /\ ring'[a].value = w
  BY <1>2, <1>7, <1>9 DEF Ring, Fields
<1>12. GivenKept'
  <2>1. \A b, c \in alive' : ring'[b].name = ring'[c].name => b = c
    BY <1>2, <1>10, <1>11 DEF GivenKept
  <2>2. \A b \in alive' : given'[ring'[b].name] = ring'[b].value
    BY <1>2, <1>10, <1>11 DEF GivenKept
  <2>3. \A u \in AttrName : given'[u] # "none" => \E b \in alive' : ring'[b].name = u
    BY <1>2, <1>10, <1>11 DEF GivenKept
  <2> QED  BY <2>1, <2>2, <2>3 DEF GivenKept
<1>13. given' \in [AttrName -> AttrValue \union {"none"}] /\ ring' \in Fields
  BY <1>2, <1>6
<1>14. Append(s, a) \in Seq(Slot)
  BY <1>4
<1> QED  BY <1>8, <1>12, <1>13, <1>14 DEF AttrIInv

\* A new value, and a new name, leave the links.
LEMMA SetKeeps ==
  ASSUME AttrIInv, ring' \in Fields, alive' = alive,
         \A b \in Ring : ring'[b].next = ring[b].next /\ ring'[b].prev = ring[b].prev,
         given' \in [AttrName -> AttrValue \union {"none"}], GivenKept'
  PROVE  AttrIInv'
<1>1. PICK s \in Seq(Slot) : Lists(s)
  BY DEF AttrIInv
<1>2. Linked(ring, s) /\ alive = {s[i] : i \in 1 .. Len(s)}
  BY <1>1 DEF Lists
<1>3. Linked(ring', s)
  BY <1>2, LinkedSame
<1>4. Lists(s)'
  BY <1>2, <1>3 DEF Lists
<1> QED  BY <1>4 DEF AttrIInv

\* The attributes allocated have names and values.
LEMMA AliveTypes ==
  ASSUME AttrIInv
  PROVE  /\ alive \subseteq Slot
         /\ \A a \in alive : a \in Ring /\ ring[a].name \in AttrName /\ ring[a].value \in AttrValue
<1>1. PICK s \in Seq(Slot) : Lists(s)
  BY DEF AttrIInv
<1>2. \A a \in alive : a \in Slot
  BY <1>1, CellAt DEF Lists
<1> QED  BY <1>2 DEF AttrIInv, Fields, Ring

\* SetAttribute of a name that is there.
LEMMA ValueKeeps ==
  ASSUME AttrIInv, NEW v \in AttrName, NEW w \in AttrValue, NEW a \in alive,
         ring[a].name = v,
         ring' = [ring EXCEPT ![a].value = w], alive' = alive,
         given' = [given EXCEPT ![v] = w]
  PROVE  AttrIInv'
<1>1. a \in alive /\ ring[a].name = v
  OBVIOUS
<1>2. ring' = [ring EXCEPT ![a].value = w]
  OBVIOUS
<1>3. ring \in Fields /\ given \in [AttrName -> AttrValue \union {"none"}] /\ GivenKept
  BY DEF AttrIInv
<1>4. \A b \in alive : b \in Ring /\ ring[b].name \in AttrName
  BY AliveTypes
<1>5. /\ ring' \in Fields
      /\ \A b \in Ring : /\ ring'[b].next = ring[b].next /\ ring'[b].prev = ring[b].prev
                         /\ ring'[b].name = ring[b].name
                         /\ ring'[b].value = IF b = a THEN w ELSE ring[b].value
  <2>1. a \in Ring
    BY <1>1, <1>4
  <2>2. ring \in [Ring -> [name : AttrName, value : AttrValue, next : Ring, prev : Ring]]
    BY <1>3 DEF Fields
  <2>3. ring' \in [Ring -> [name : AttrName, value : AttrValue, next : Ring, prev : Ring]]
    <3> DEFINE Rec == [name : AttrName, value : AttrValue, next : Ring, prev : Ring]
               new == [ring[a] EXCEPT !.value = w]
    <3>1. ring[a] \in Rec
      BY <2>1, <2>2
    <3>2. new \in Rec
      BY <3>1
    <3>3. ring' = [ring EXCEPT ![a] = new]
      BY <1>2
    <3>4. ring \in [Ring -> Rec]
      BY <2>2
    <3> HIDE DEF Rec, new
    <3>5. ring' \in [Ring -> Rec]
      BY <2>1, <3>2, <3>3, <3>4
    <3> QED  BY <3>5 DEF Rec
  <2>4. ASSUME NEW b \in Ring
        PROVE  /\ ring'[b].next = ring[b].next /\ ring'[b].prev = ring[b].prev
               /\ ring'[b].name = ring[b].name
               /\ ring'[b].value = IF b = a THEN w ELSE ring[b].value
    <3>1. CASE b = a
      BY <1>2, <2>1, <2>2, <3>1
    <3>2. CASE b # a
      <4>1. ring'[b] = ring[b]
        BY <1>2, <2>2, <3>2
      <4> QED  BY <3>2, <4>1
    <3> QED  BY <3>1, <3>2
  <2> QED  BY <2>3, <2>4 DEF Fields
<1>6. GivenKept'
  BY <1>1, <1>3, <1>4, <1>5 DEF GivenKept
<1>7. given' \in [AttrName -> AttrValue \union {"none"}]
  BY <1>3
<1> QED  BY <1>1, <1>5, <1>6, <1>7, SetKeeps

\* SetName: the old name has no value any more.
LEMMA NameKeeps ==
  ASSUME AttrIInv, NEW v \in AttrName, NEW a \in alive, Find(v) = Sentinel,
         ring' = [ring EXCEPT ![a].name = v], alive' = alive,
         given' = [given EXCEPT ![v] = ring[a].value, ![ring[a].name] = "none"]
  PROVE  AttrIInv'
<1>1. \A b \in alive : ring[b].name # v
  BY FindIs
<1>3. ring \in Fields /\ given \in [AttrName -> AttrValue \union {"none"}] /\ GivenKept
  BY DEF AttrIInv
<1>4. \A b \in alive : b \in Ring /\ ring[b].name \in AttrName /\ ring[b].value \in AttrValue
  BY AliveTypes
<1>5. /\ ring' \in Fields
      /\ \A b \in Ring : /\ ring'[b].next = ring[b].next /\ ring'[b].prev = ring[b].prev
                         /\ ring'[b].value = ring[b].value
                         /\ ring'[b].name = IF b = a THEN v ELSE ring[b].name
  <2>1. a \in Ring
    BY <1>4
  <2>2. ring \in [Ring -> [name : AttrName, value : AttrValue, next : Ring, prev : Ring]]
    BY <1>3 DEF Fields
  <2>3. ring' \in [Ring -> [name : AttrName, value : AttrValue, next : Ring, prev : Ring]]
    BY <2>1, <2>2
  <2>4. ASSUME NEW b \in Ring
        PROVE  /\ ring'[b].next = ring[b].next /\ ring'[b].prev = ring[b].prev
               /\ ring'[b].value = ring[b].value
               /\ ring'[b].name = IF b = a THEN v ELSE ring[b].name
    <3>1. CASE b = a
      BY <2>1, <2>2, <3>1
    <3>2. CASE b # a
      <4>1. ring'[b] = ring[b]
        BY <2>2, <3>2
      <4> QED  BY <3>2, <4>1
    <3> QED  BY <3>1, <3>2
  <2> QED  BY <2>3, <2>4 DEF Fields
<1>6. /\ given' \in [AttrName -> AttrValue \union {"none"}]
      /\ \A u \in AttrName : given'[u] = IF u = ring[a].name THEN "none"
                                         ELSE IF u = v THEN ring[a].value ELSE given[u]
  BY <1>3, <1>4
<1>7. GivenKept'
  <2>1. \A b, c \in alive' : ring'[b].name = ring'[c].name => b = c
    BY <1>1, <1>3, <1>4, <1>5 DEF GivenKept
  <2>2. \A b \in alive' : given'[ring'[b].name] = ring'[b].value
    <3> SUFFICES ASSUME NEW b \in alive  PROVE given'[ring'[b].name] = ring'[b].value
      OBVIOUS
    <3>1. CASE b = a
      BY <1>1, <1>4, <1>5, <1>6, <3>1
    <3>2. CASE b # a
      <4>1. ring'[b].name = ring[b].name /\ ring[b].name # ring[a].name /\ ring[b].name # v
            /\ ring[b].name \in AttrName /\ ring'[b].value = ring[b].value
        BY <1>1, <1>3, <1>4, <1>5, <3>2 DEF GivenKept
      <4> QED  BY <1>3, <1>6, <4>1 DEF GivenKept
    <3> QED  BY <3>1, <3>2
  <2>3. \A u \in AttrName : given'[u] # "none" => \E b \in alive' : ring'[b].name = u
    <3> SUFFICES ASSUME NEW u \in AttrName, given'[u] # "none"
                 PROVE  \E b \in alive : ring'[b].name = u
      OBVIOUS
    <3>1. u # ring[a].name
      BY <1>6
    <3>2. CASE u = v
      BY <1>4, <1>5, <3>2
    <3>3. CASE u # v
      <4>1. given[u] # "none"
        BY <1>6, <3>1, <3>3
      <4>2. PICK b \in alive : ring[b].name = u
        BY <1>3, <4>1 DEF GivenKept
      <4> QED  BY <1>4, <1>5, <3>1, <4>2
    <3> QED  BY <3>2, <3>3
  <2> QED  BY <2>1, <2>2, <2>3 DEF GivenKept
<1> QED  BY <1>5, <1>6, <1>7, SetKeeps

\* RemoveAttribute.
LEMMA RemoveKeeps ==
  ASSUME AttrIInv, NEW v \in AttrName, Find(v) # Sentinel,
         ring' = Removed(Find(v)), alive' = alive \ {Find(v)},
         given' = [given EXCEPT ![v] = "none"]
  PROVE  AttrIInv'
<1>0. PICK s \in Seq(Slot), a \in alive : s = Members /\ a = Find(v)
  BY FindIs
<1>1. Lists(s) /\ ring[a].name = v
  BY <1>0, FindIs
<1>2. PICK k \in 1 .. Len(s) : a = s[k]
  BY <1>0, FindIs
<1>3. ring' = Removed(a) /\ alive' = alive \ {a}
  BY <1>0
<1>4. ring \in Fields /\ given \in [AttrName -> AttrValue \union {"none"}] /\ GivenKept
  BY DEF AttrIInv
<1>5. Linked(ring, s) /\ alive = {s[i] : i \in 1 .. Len(s)}
  BY <1>1 DEF Lists
<1>6. /\ Linked(Removed(a), Dropped(s, k)) /\ a \in Slot
      /\ ring[a].prev # a /\ ring[a].next # a
  BY <1>2, <1>4, <1>5, ApartType, RemovedLinked
<1>7. /\ Removed(a) \in Fields
      /\ \A b \in Ring : b # a => /\ Removed(a)[b].name = ring[b].name
                                  /\ Removed(a)[b].value = ring[b].value
  BY <1>4, <1>6, ApartType, RemovedFields
<1>8. Dropped(s, k) \in Seq(Slot) /\ Lists(Dropped(s, k))'
  <2>1. /\ Dropped(s, k) \in Seq(Slot) /\ Len(Dropped(s, k)) = Len(s) - 1
        /\ {Dropped(s, k)[i] : i \in 1 .. Len(s) - 1} = {s[i] : i \in 1 .. Len(s)} \ {s[k]}
    BY <1>1, <1>5, DroppedIs DEF Linked
  <2>2. alive' = {Dropped(s, k)[i] : i \in 1 .. Len(Dropped(s, k))}
    BY <1>2, <1>3, <1>5, <2>1
  <2>3. Linked(ring', Dropped(s, k))
    BY <1>3, <1>6
  <2> QED  BY <2>1, <2>2, <2>3 DEF Lists
<1>9. \A b \in alive : b \in Ring /\ ring[b].name \in AttrName
  BY AliveTypes
<1>10. \A b \in alive' : /\ b \in alive /\ b # a /\ ring[b].name # v
                         /\ ring'[b].name = ring[b].name /\ ring'[b].value = ring[b].value
  BY <1>1, <1>3, <1>4, <1>7, <1>9 DEF GivenKept
<1>11. /\ given' \in [AttrName -> AttrValue \union {"none"}]
       /\ \A u \in AttrName : given'[u] = IF u = v THEN "none" ELSE given[u]
  BY <1>4
<1>12. GivenKept'
  <2>1. \A b, c \in alive' : ring'[b].name = ring'[c].name => b = c
    BY <1>4, <1>10 DEF GivenKept
  <2>2. \A b \in alive' : given'[ring'[b].name] = ring'[b].value
    BY <1>4, <1>9, <1>10, <1>11 DEF GivenKept
  <2>3. ASSUME NEW u \in AttrName, given'[u] # "none"
        PROVE  \E b \in alive' : ring'[b].name = u
    <3>1. u # v /\ given[u] # "none"
      BY <1>11, <2>3
    <3>2. PICK b \in alive : ring[b].name = u
      BY <1>4, <3>1 DEF GivenKept
    <3>3. b \in alive'
      BY <1>1, <1>3, <3>1, <3>2
    <3> QED  BY <1>10, <3>2, <3>3
  <2> QED  BY <2>1, <2>2, <2>3 DEF GivenKept
<1> QED  BY <1>3, <1>7, <1>8, <1>11, <1>12 DEF AttrIInv

\* ClearThis leaves nothing linked and nothing allocated.
LEMMA ClearKeeps ==
  ASSUME AttrIInv, ClearAttributes
  PROVE  AttrIInv'
<1>1. ring' = [a \in Ring |-> Apart] /\ given' = [v \in AttrName |-> "none"]
      /\ alive' = alive \ {Members[i] : i \in DOMAIN Members}
  BY DEF ClearAttributes
<1>2. alive' = {}
  <2>1. Members \in Seq(Slot) /\ alive = {Members[i] : i \in 1 .. Len(Members)}
    BY FindIs DEF Lists
  <2> QED  BY <1>1, <2>1
<1>3. (ring \in Fields)'
  BY <1>1, ApartType DEF Fields
<1>4. Lists(<< >>)'
  <2>1. ring'[Sentinel].next = Sentinel /\ ring'[Sentinel].prev = Sentinel
    BY <1>1, ApartType DEF Ring
  <2>2. \A i : Cell(<< >>, i) = Sentinel
    BY DEF Cell
  <2> QED  BY <1>2, <2>1, <2>2 DEF Lists, Linked
<1>5. GivenKept'
  BY <1>1, <1>2 DEF GivenKept
<1>6. << >> \in Seq(Slot)
  OBVIOUS
<1> QED  BY <1>1, <1>3, <1>4, <1>5, <1>6 DEF AttrIInv

\* A failed assertion, and a stutter, change nothing of it.
LEMMA AttrSame ==
  ASSUME AttrIInv, ring' = ring, alive' = alive, given' = given
  PROVE  AttrIInv'
  BY DEF AttrIInv, Lists, GivenKept

\* No call breaks it.
LEMMA AttrInvStep == AttrIInv /\ [AttrNext]_avars => AttrIInv'
<1> SUFFICES ASSUME AttrIInv, [AttrNext]_avars  PROVE AttrIInv'
  OBVIOUS
<1>1. ASSUME NEW v \in AttrName, NEW w \in AttrValue, SetAttribute(v, w)  PROVE AttrIInv'
  <2>1. CASE Find(v) # Sentinel
    <3>1. ring' = [ring EXCEPT ![Find(v)].value = w] /\ alive' = alive
          /\ given' = [given EXCEPT ![v] = w]
      BY <1>1, <2>1, Zenon DEF SetAttribute
    <3>2. Find(v) \in alive /\ ring[Find(v)].name = v
      BY <2>1, FindIs
    <3> QED  BY <3>1, <3>2, ValueKeeps
  <2>2. CASE Find(v) = Sentinel
    <3>1. \/ ring' = ring /\ alive' = alive /\ given' = given
          \/ \E a \in Slot \ alive : /\ ring' = Added(a, v, w) /\ alive' = alive \union {a}
                                     /\ given' = [given EXCEPT ![v] = w]
      BY <1>1, <2>2, Zenon DEF SetAttribute
    <3> QED  BY <2>2, <3>1, AddKeeps, AttrSame
  <2> QED  BY <2>1, <2>2
<1>2. ASSUME NEW v \in AttrName, NEW w \in AttrValue, ParseAttribute(v, w)  PROVE AttrIInv'
  <2>1. /\ Find(v) = Sentinel
        /\ \E a \in Slot \ alive : ring' = Added(a, v, w) /\ alive' = alive \union {a}
        /\ given' = [given EXCEPT ![v] = w]
    BY <1>2, Zenon DEF ParseAttribute
  <2> QED  BY <2>1, AddKeeps
<1>3. ASSUME NEW v \in AttrName, RemoveAttribute(v)  PROVE AttrIInv'
  <2>1. Find(v) # Sentinel /\ ring' = Removed(Find(v)) /\ alive' = alive \ {Find(v)}
        /\ given' = [given EXCEPT ![v] = "none"]
    BY <1>3, Zenon DEF RemoveAttribute
  <2> QED  BY <2>1, RemoveKeeps
<1>4. ASSUME NEW a \in Slot, NEW v \in AttrName, SetName(a, v)  PROVE AttrIInv'
  <2>1. a \in alive /\ Find(v) = Sentinel /\ ring' = [ring EXCEPT ![a].name = v]
        /\ given' = [given EXCEPT ![v] = ring[a].value, ![ring[a].name] = "none"]
        /\ alive' = alive
    BY <1>4, Zenon DEF SetName
  <2> QED  BY <2>1, NameKeeps
<1>5. CASE ClearAttributes
  BY <1>5, ClearKeeps
<1>6. CASE UNCHANGED avars
  BY <1>6, AttrSame DEF avars
<1> QED  BY <1>1, <1>2, <1>3, <1>4, <1>5, <1>6 DEF AttrNext

\* The invariant is what AttributesListed says of the walks and the searches.
LEMMA ListedExact == AttrIInv => AttributesListed
<1> SUFFICES ASSUME AttrIInv  PROVE AttributesListed
  OBVIOUS
<1> DEFINE s == Members
<1>1. s \in Seq(Slot) /\ Lists(s)
  BY FindIs
<1>2. Linked(ring, s) /\ alive = {s[i] : i \in 1 .. Len(s)}
  BY <1>1 DEF Lists
<1>3. Round("prev") = [i \in 1 .. Len(s) |-> s[Len(s) + 1 - i]]
  BY <1>2, RoundBack
<1>4. ASSUME NEW v \in AttrName
      PROVE  Attribute(v) = given[v] /\ (Query(v) = "NO_ATTRIBUTE" <=> given[v] = "none")
  <2>1. GivenKept /\ given \in [AttrName -> AttrValue \union {"none"}]
    BY DEF AttrIInv
  <2>2. CASE Find(v) = Sentinel
    <3>1. given[v] = "none"
      BY <2>1, <2>2, FindIs DEF GivenKept
    <3>2. Attribute(v) = "none" /\ Query(v) = "NO_ATTRIBUTE"
      BY <2>2 DEF Attribute, Query
    <3> QED  BY <3>1, <3>2
  <2>3. CASE Find(v) # Sentinel
    <3>1. Find(v) \in alive /\ ring[Find(v)].name = v
      BY <2>3, FindIs
    <3>2. given[v] = ring[Find(v)].value /\ ring[Find(v)].value \in AttrValue
      BY <2>1, <3>1, AliveTypes DEF GivenKept
    <3>3. given[v] # "none"
      BY <3>2, NoneAssumption
    <3>4. Attribute(v) = ring[Find(v)].value /\ Query(v) # "NO_ATTRIBUTE"
      BY <2>3 DEF Attribute, Query
    <3> QED  BY <3>2, <3>3, <3>4
  <2> QED  BY <2>2, <2>3
<1>5. (\A i \in DOMAIN s : ~Blank(s[i])) => Iterated("next") = s
  <2> SUFFICES ASSUME \A i \in DOMAIN s : ~Blank(s[i])  PROVE Iterated("next") = s
    OBVIOUS
  <2> DEFINE stops == {i \in 2 .. Len(s) : Blank(s[i])}
             k == CHOOSE i \in stops : \A j \in stops : i <= j
  <2>1. stops = {}
    BY <1>1
  <2>2. Iterated("next") = SubSeq(s, 1, IF stops = {} THEN Len(s) ELSE k - 1)
    BY Zenon DEF Iterated, Members
  <2>3. SubSeq(s, 1, Len(s)) = s
    <3> HIDE DEF s
    <3> QED  BY <1>1
  <2> QED  BY <2>1, <2>2, <2>3
<1> HIDE DEF s
<1>6. Len(s) = Cardinality(alive)
  BY <1>1, <1>2, AlongLength DEF Linked
<1>7. DOMAIN s = 1 .. Len(s) /\ \A i \in 1 .. Len(s) : s[i] \in alive
  BY <1>1, <1>2
<1>8. \A i, j \in DOMAIN s : ring[s[i]].name = ring[s[j]].name => i = j
  BY <1>2, <1>7 DEF AttrIInv, GivenKept, Linked
<1>9. \A i \in DOMAIN s : Round("prev")[i] = s[Len(s) + 1 - i]
  BY <1>3, <1>7
<1>10. {s[i] : i \in DOMAIN s} = alive
  BY <1>2, <1>7
<1> QED  BY <1>4, <1>5, <1>6, <1>8, <1>9, <1>10, Zenon DEF AttributesListed, s

\* For any names and values and as many attributes as there are slots: both
\* directions list the attributes allocated, each once and under a name of its
\* own, a search finds by each name the value last given to it, and an iteration
\* lists them all while none of them is blank.
THEOREM AttributesAreListed == AttrSpec => []AttributesListed
<1>1. AttrSpec => []AttrIInv
  BY AttrInvInit, AttrInvStep, PTL DEF AttrSpec
<1> QED  BY <1>1, ListedExact, PTL

-----------------------------------------------------------------------------
(* CSHA1, md5 and CHMAC_SHA1.                                              *)

\* Division with remainder.
LEMMA DivRem ==
  ASSUME NEW c \in Nat \ {0}, NEW a \in Int
  PROVE  a \div c \in Int /\ a % c \in 0 .. c - 1 /\ a = c * (a \div c) + (a % c)
  OBVIOUS

LEMMA Multiple ==
  ASSUME NEW c \in Nat \ {0}, NEW d \in Nat \ {0}
  PROVE  c * d >= c
  OBVIOUS

\* Quotient and remainder are the only ones.
LEMMA DivRemIs ==
  ASSUME NEW c \in Nat \ {0}, NEW q \in Int, NEW r \in 0 .. c - 1
  PROVE  (c * q + r) \div c = q /\ (c * q + r) % c = r
<1> DEFINE a == c * q + r
           p == a \div c
           s == a % c
<1>1. c * q \in Int
  OBVIOUS
<1>2. p \in Int /\ s \in 0 .. c - 1 /\ a = c * p + s
  BY <1>1, DivRem
<1>3. c * (p - q) = r - s
  BY <1>1, <1>2
<1>4. ~(p - q > 0)
  <2> SUFFICES ASSUME p - q > 0  PROVE FALSE
    OBVIOUS
  <2>1. c * (p - q) >= c
    BY <1>2, Multiple
  <2> QED  BY <1>2, <1>3, <2>1
<1>5. ~(q - p > 0)
  <2> SUFFICES ASSUME q - p > 0  PROVE FALSE
    OBVIOUS
  <2>1. c * (q - p) >= c
    BY <1>2, Multiple
  <2>2. c * (q - p) = s - r
    BY <1>1, <1>2
  <2> QED  BY <1>2, <2>1, <2>2
<1>6. p = q
  BY <1>2, <1>4, <1>5
<1> QED  BY <1>1, <1>2, <1>6

\* A word is the bits of whole blocks.
LEMMA WordIs ==
  \E m \in Nat \ {0} : Word = 8 * (BlockSize * m) /\ Word \div 8 = BlockSize * m
<1>1. BlockSize \in Nat \ {0} /\ Word \in Nat \ {0} /\ Word % (8 * BlockSize) = 0
  BY SizesAssumption
<1> DEFINE c == 8 * BlockSize
           m == Word \div c
<1>2. c \in Nat \ {0}
  BY <1>1
<1>3. m \in Int /\ Word = c * m
  <2>1. Word \in Int /\ Word % c = 0
    BY <1>1
  <2> HIDE DEF c
  <2>2. m \in Int /\ Word = c * m + (Word % c)
    BY <1>2, <2>1, DivRem
  <2>3. c * m \in Int
    BY <1>2, <2>2
  <2> HIDE DEF m
  <2> QED  BY <2>1, <2>2, <2>3
<1>4. c * m = 8 * (BlockSize * m)
  BY <1>1, <1>3
<1>5. m > 0
  <2> SUFFICES ASSUME m <= 0  PROVE FALSE
    BY <1>3
  <2>1. c * m <= 0
    <3>1. m = 0 \/ -m \in Nat \ {0}
      BY <1>3
    <3>2. -m \in Nat \ {0} => c * (-m) >= c
      BY <1>2, Multiple
    <3>3. c * (-m) = -(c * m)
      BY <1>2, <1>3
    <3> HIDE DEF c, m
    <3> QED  BY <1>2, <1>3, <3>1, <3>2, <3>3
  <2> QED  BY <1>1, <1>3, <2>1
<1>6. m \in Nat \ {0} /\ Word = 8 * (BlockSize * m)
  BY <1>3, <1>4, <1>5
<1>7. (8 * (BlockSize * m) + 0) \div 8 = BlockSize * m
  <2>1. BlockSize * m \in Int
    BY <1>1, <1>6
  <2> HIDE DEF m
  <2> QED  BY <2>1, DivRemIs
<1>8. Word \div 8 = BlockSize * m
  <2>1. 8 * (BlockSize * m) + 0 = Word
    BY <1>1, <1>6
  <2> QED  BY <1>7, <2>1
<1> QED  BY <1>6, <1>8

\* The low counter tells the place in the block: words are whole blocks.
LEMMA OffsetIs ==
  ASSUME NEW q \in Nat, NEW r \in 0 .. BlockSize - 1, NEW low,
         low = (8 * (q * BlockSize + r)) % Word
  PROVE  (low \div 8) % BlockSize = r
<1>1. PICK m \in Nat \ {0} : Word = 8 * (BlockSize * m)
  BY WordIs
<1>2. BlockSize \in Nat \ {0} /\ Word \in Nat \ {0}
  BY SizesAssumption
<1> DEFINE n == q * BlockSize + r
           k == (8 * n) \div Word
           e == q - m * k
<1>3. q * BlockSize \in Int /\ n \in Int /\ 8 * n \in Int
  BY <1>2
<1>4. k \in Int /\ low \in 0 .. Word - 1 /\ 8 * n = Word * k + low
  <2>1. low = (8 * n) % Word
    OBVIOUS
  <2> HIDE DEF n
  <2> QED  BY <1>2, <1>3, <2>1, DivRem
<1> HIDE DEF k
<1>5. m * k \in Int /\ e \in Int
  BY <1>4
<1>6. Word * k = 8 * (BlockSize * (m * k))
  <2>1. (8 * (BlockSize * m)) * k = 8 * (BlockSize * (m * k))
    BY <1>2, <1>4
  <2> QED  BY <1>1, <2>1
<1>7. BlockSize * e = q * BlockSize - BlockSize * (m * k)
  <2> DEFINE x == m * k
  <2>1. x \in Int
    BY <1>5
  <2> HIDE DEF x
  <2>2. BlockSize * (q - x) = q * BlockSize - BlockSize * x
    BY <1>2, <2>1
  <2> QED  BY <2>2 DEF x
<1>8. low = 8 * (BlockSize * e + r) + 0
  <2> DEFINE x == BlockSize * (m * k)
             y == q * BlockSize
  <2>1. x \in Int /\ y \in Int
    BY <1>2, <1>3, <1>5
  <2>2. 8 * (y + r) = 8 * x + low
    BY <1>4, <1>6
  <2>3. BlockSize * e = y - x
    BY <1>7
  <2> HIDE DEF x, y, e
  <2> QED  BY <1>4, <2>1, <2>2, <2>3
<1>9. BlockSize * e + r \in Int
  BY <1>2, <1>5
<1> HIDE DEF e
<1>10. low \div 8 = BlockSize * e + r
  <2> DEFINE x == BlockSize * e + r
  <2>1. x \in Int
    BY <1>9
  <2> HIDE DEF x
  <2>2. (8 * x + 0) \div 8 = x
    BY <2>1, DivRemIs
  <2> QED  BY <1>8, <2>2 DEF x
<1>11. (BlockSize * e + r) % BlockSize = r
  BY <1>2, <1>5, DivRemIs
<1> QED  BY <1>10, <1>11

Context(S) == [low : 0 .. Word - 1, high : 0 .. Word - 1, blocks : Seq(Seq(S)),
               buffer : [1 .. BlockSize -> S]]

\* The counters have the bits of n bytes.
Counts(c, n) == c.low = (8 * n) % Word /\ c.high = ((8 * n) \div Word) % Word

\* The carry of the low counter, and the bits that do not fit it.
LEMMA CountedIs ==
  ASSUME NEW S, NEW c \in Context(S), NEW l \in Nat, NEW n \in Nat, Counts(c, l)
  PROVE  /\ Counts(Counted(c, n), l + n)
         /\ Counted(c, n) \in Context(S)
         /\ Counted(c, n).blocks = c.blocks /\ Counted(c, n).buffer = c.buffer
<1>1. Word \in Nat \ {0}
  BY SizesAssumption
<1>2. PICK w \in Nat \ {0} : Word = 8 * w /\ Word \div 8 = w
  <2>1. PICK m \in Nat \ {0} : Word = 8 * (BlockSize * m) /\ Word \div 8 = BlockSize * m
    BY WordIs
  <2>2. BlockSize * m \in Int
    BY SizesAssumption
  <2>3. BlockSize * m \in Nat \ {0}
    BY <1>1, <2>1, <2>2
  <2> QED  BY <2>1, <2>3
<1> DEFINE e == n \div w
           f == n % w
           k == (8 * l) \div Word
           a == (8 * l) % Word
           bits == (8 * n) % Word
           low == (c.low + bits) % Word
           one == IF low < bits THEN 1 ELSE 0
           high == (c.high + one + e) % Word
           d == Counted(c, n)
<1>3. e \in Int /\ f \in 0 .. w - 1 /\ n = w * e + f
  BY <1>2, DivRem
<1>4. k \in Int /\ a \in 0 .. Word - 1 /\ 8 * l = Word * k + a
  <2>1. 8 * l \in Int
    OBVIOUS
  <2> QED  BY <1>1, <2>1, DivRem
<1>5. c.low = a /\ c.high = k % Word
  BY DEF Counts
<1>6. d = [c EXCEPT !.low = low, !.high = high]
  BY <1>2, Zenon DEF Counted
<1> HIDE DEF e, f, k, a, d
<1>7. 8 * n = Word * e + 8 * f /\ 8 * f \in 0 .. Word - 1 /\ w * e \in Int
  <2>1. (8 * w) * e = 8 * (w * e) /\ w * e \in Int
    BY <1>3
  <2> DEFINE x == w * e
  <2> HIDE DEF x
  <2>2. 8 * n = 8 * x + 8 * f
    BY <1>3, <2>1 DEF x
  <2>3. 8 * f \in 0 .. 8 * w - 1
    BY <1>2, <1>3
  <2> QED  BY <1>2, <2>1, <2>2, <2>3 DEF x
<1>8. bits = 8 * f
  <2> DEFINE g == 8 * f
  <2>1. g \in 0 .. Word - 1 /\ 8 * n = Word * e + g
    BY <1>7
  <2> HIDE DEF g
  <2>2. (Word * e + g) % Word = g
    BY <1>1, <1>3, <2>1, DivRemIs
  <2> QED  BY <2>1, <2>2 DEF g
<1> HIDE DEF bits
<1>9. /\ one \in {0, 1} /\ low \in 0 .. Word - 1
      /\ 8 * (l + n) = Word * (k + e + one) + low
  <2>1. bits \in 0 .. Word - 1
    BY <1>7, <1>8
  <2> DEFINE x == Word * k
             y == Word * e
  <2>2. x \in Int /\ y \in Int
    BY <1>1, <1>3, <1>4
  <2>3. 8 * (l + n) = x + y + (a + bits)
    <3>1. 8 * n = y + bits /\ 8 * l = x + a
      BY <1>4, <1>7, <1>8
    <3> HIDE DEF x, y
    <3> QED  BY <1>3, <1>4, <2>1, <2>2, <3>1
  <2>4. CASE a + bits < Word
    <3>1. low = a + bits
      <4>1. a + bits \in 0 .. Word - 1 /\ Word * 0 + (a + bits) = a + bits
        BY <1>1, <1>4, <2>1, <2>4
      <4> DEFINE z == a + bits
      <4> HIDE DEF z
      <4>2. (Word * 0 + z) % Word = z
        BY <1>1, <4>1, DivRemIs DEF z
      <4> QED  BY <1>5, <4>1, <4>2 DEF z
    <3> HIDE DEF low
    <3>2. one = 0
      BY <1>1, <1>4, <2>1, <3>1
    <3>3. Word * (k + e + 0) = x + y
      BY <1>1, <1>3, <1>4
    <3> QED  BY <1>1, <1>4, <2>1, <2>3, <2>4, <3>1, <3>2, <3>3
  <2>5. CASE ~(a + bits < Word)
    <3>1. low = a + bits - Word
      <4> DEFINE z == a + bits - Word
      <4>1. z \in 0 .. Word - 1 /\ Word * 1 + z = a + bits
        BY <1>1, <1>4, <2>1, <2>5
      <4> HIDE DEF z
      <4>2. (Word * 1 + z) % Word = z
        BY <1>1, <4>1, DivRemIs
      <4> QED  BY <1>5, <4>1, <4>2 DEF z
    <3> HIDE DEF low
    <3>2. one = 1
      BY <1>1, <1>4, <2>1, <3>1
    <3>3. Word * (k + e + 1) = x + y + Word
      BY <1>1, <1>3, <1>4
    <3>4. low \in 0 .. Word - 1
      BY <1>1, <1>4, <2>1, <2>5, <3>1
    <3>5. x + y + Word + low = x + y + (a + bits)
      <4> HIDE DEF x, y
      <4> QED  BY <1>1, <1>4, <2>1, <2>2, <3>1
    <3> QED  BY <2>3, <3>2, <3>3, <3>4, <3>5
  <2> QED  BY <2>4, <2>5
<1> HIDE DEF low, one
<1>10. (8 * (l + n)) % Word = low /\ (8 * (l + n)) \div Word = k + e + one
  <2> DEFINE q == k + e + one
  <2>1. q \in Int
    BY <1>3, <1>4, <1>9
  <2>2. 8 * (l + n) = Word * q + low
    BY <1>9
  <2> HIDE DEF q
  <2>3. (Word * q + low) \div Word = q /\ (Word * q + low) % Word = low
    BY <1>1, <1>9, <2>1, DivRemIs
  <2> QED  BY <2>2, <2>3 DEF q
<1>11. high = (k + e + one) % Word
  <2> DEFINE q == k \div Word
             s == k % Word
             x == s + one + e
             p == x \div Word
             t == x % Word
  <2>1. q \in Int /\ s \in 0 .. Word - 1 /\ k = Word * q + s
    BY <1>1, <1>4, DivRem
  <2>2. x \in Int
    BY <1>3, <1>9, <2>1
  <2>3. p \in Int /\ t \in 0 .. Word - 1 /\ x = Word * p + t
    <3> HIDE DEF x
    <3> QED  BY <1>1, <2>2, DivRem
  <2> HIDE DEF p, q, s, t
  <2>4. Word * (q + p) = Word * q + Word * p /\ Word * q \in Int /\ Word * p \in Int
    BY <1>1, <2>1, <2>3
  <2>5. k + e + one = Word * (q + p) + t
    BY <1>3, <1>9, <2>1, <2>3, <2>4
  <2>6. (Word * (q + p) + t) % Word = t
    <3>1. q + p \in Int
      BY <2>1, <2>3
    <3> QED  BY <1>1, <2>3, <3>1, DivRemIs
  <2>7. high = t
    BY <1>5 DEF s, t
  <2> QED  BY <2>5, <2>6, <2>7
<1>12. high \in 0 .. Word - 1
  <2>1. c.high + one + e \in Int
    BY <1>3, <1>9 DEF Context
  <2> QED  BY <1>1, <2>1, DivRem
<1> HIDE DEF high
<1>13. /\ d \in Context(S) /\ d.low = low /\ d.high = high
       /\ d.blocks = c.blocks /\ d.buffer = c.buffer
  BY <1>6, <1>9, <1>12 DEF Context
<1> QED  BY <1>10, <1>11, <1>13 DEF Counts, d

LEMMA Sizes ==
  /\ BlockSize \in Nat \ {0} /\ WordBytes \in Nat \ {0} /\ Word \in Nat \ {0}
  /\ 2 * WordBytes < BlockSize /\ DigestSize \in 1 .. BlockSize
  BY SizesAssumption

\* The message so far is in whole blocks, and its rest in the buffer.
Holds(c, h) ==
    /\ Counts(c, Len(h))
    /\ Len(h) - Len(c.blocks) * BlockSize \in 0 .. BlockSize - 1
    /\ \A b \in 1 .. Len(c.blocks) :
         /\ Len(c.blocks[b]) = BlockSize
         /\ \A j \in 1 .. BlockSize : c.blocks[b][j] = h[(b - 1) * BlockSize + j]
    /\ \A j \in 1 .. Len(h) - Len(c.blocks) * BlockSize :
         c.buffer[j] = h[Len(c.blocks) * BlockSize + j]

\* to is the buffer with data stored behind n bytes.
Put(S, buffer, n, data, to) ==
    /\ to \in [1 .. BlockSize -> S]
    /\ \A j \in 1 .. BlockSize : to[j] = IF j - n \in 1 .. Len(data) THEN data[j - n] ELSE buffer[j]

\* What Stored stores.
LEMMA StoredIs ==
  ASSUME NEW S, NEW buffer \in [1 .. BlockSize -> S], NEW n \in Nat, NEW data \in Seq(S)
  PROVE  Put(S, buffer, n, data, Stored(buffer, n, data))
<1>1. BlockSize \in Nat /\ DOMAIN data = 1 .. Len(data)
  BY Sizes
<1>2. \A i \in 1 .. Len(data) : data[i] \in S
  OBVIOUS
<1>3. /\ Stored(buffer, n, data) \in [1 .. BlockSize -> S]
      /\ \A j \in 1 .. BlockSize : Stored(buffer, n, data)[j] =
           IF j - n \in 1 .. Len(data) THEN data[j - n] ELSE buffer[j]
  BY <1>1, <1>2 DEF Stored
<1> QED  BY <1>3, Zenon DEF Put

\* Concatenation by places.
LEMMA Joined ==
  ASSUME NEW S, NEW s \in Seq(S), NEW t \in Seq(S)
  PROVE  /\ s \o t \in Seq(S) /\ Len(s \o t) = Len(s) + Len(t)
         /\ Len(s) \in Nat /\ Len(t) \in Nat
         /\ \A i \in 1 .. Len(s) : (s \o t)[i] = s[i]
         /\ \A i \in 1 .. Len(t) : (s \o t)[Len(s) + i] = t[i]
<1>1. s \o t \in Seq(S) /\ Len(s \o t) = Len(s) + Len(t)
  BY ConcatProperties
<1>2. \A i \in 1 .. Len(s) + Len(t) :
        (s \o t)[i] = IF i <= Len(s) THEN s[i] ELSE t[i - Len(s)]
  BY ConcatProperties
<1>3. ASSUME NEW i \in 1 .. Len(s)  PROVE (s \o t)[i] = s[i]
  BY <1>2
<1>4. ASSUME NEW i \in 1 .. Len(t)  PROVE (s \o t)[Len(s) + i] = t[i]
  <2>1. Len(s) + i \in 1 .. Len(s) + Len(t) /\ ~(Len(s) + i <= Len(s)) /\ (Len(s) + i) - Len(s) = i
    OBVIOUS
  <2> QED  BY <1>2, <2>1
<1> QED  BY <1>1, <1>3, <1>4

\* all is s and then t.
Joint(S, s, t, all) ==
    /\ all \in Seq(S) /\ Len(all) = Len(s) + Len(t)
    /\ \A i \in 1 .. Len(s) : all[i] = s[i]
    /\ \A i \in 1 .. Len(t) : all[Len(s) + i] = t[i]

LEMMA JoinedSo ==
  ASSUME NEW S, NEW s \in Seq(S), NEW t \in Seq(S)
  PROVE  Joint(S, s, t, s \o t)
  BY Joined DEF Joint

\* A place in a block is one in the message.
LEMMA PlaceIn ==
  ASSUME NEW q \in Nat, NEW b \in 1 .. q, NEW j \in 1 .. BlockSize
  PROVE  (b - 1) * BlockSize + j \in 1 .. q * BlockSize
<1>1. BlockSize \in Nat \ {0} /\ b - 1 \in Nat /\ q - b \in Nat
  BY Sizes
<1>2. (b - 1) * BlockSize \in Nat /\ (q - b) * BlockSize \in Nat /\ q * BlockSize \in Nat
  BY <1>1
<1>3. (b - 1) * BlockSize + BlockSize + (q - b) * BlockSize = q * BlockSize
  BY <1>1
<1> QED  BY <1>1, <1>2, <1>3

\* Update without a full block.
LEMMA UpdateShort ==
  ASSUME NEW S, NEW c \in Context(S), NEW h \in Seq(S), NEW data \in Seq(S), Holds(c, h),
         Len(h) - Len(c.blocks) * BlockSize + Len(data) < BlockSize
  PROVE  Update(c, data) \in Context(S) /\ Holds(Update(c, data), h \o data)
<1> DEFINE n == Len(data)
           q == Len(c.blocks)
           r == Len(h) - q * BlockSize
           offset == (c.low \div 8) % BlockSize
           d == Counted(c, n)
           u == Update(c, data)
           to == Stored(d.buffer, offset, data)
           g == h \o data
<1>1. BlockSize \in Nat \ {0} /\ n \in Nat /\ q \in Nat /\ Len(h) \in Nat /\ q * BlockSize \in Nat
  BY Sizes DEF Context
<1>2. r \in 0 .. BlockSize - 1 /\ Len(h) = q * BlockSize + r
  BY <1>1 DEF Holds
<1>3. offset = r
  <2>1. c.low = (8 * Len(h)) % Word
    BY DEF Holds, Counts
  <2> HIDE DEF r, q
  <2> QED  BY <1>1, <1>2, <2>1, OffsetIs
<1>4. /\ Counts(d, Len(h) + n) /\ d \in Context(S)
      /\ d.blocks = c.blocks /\ d.buffer = c.buffer
  BY <1>1, CountedIs DEF Holds
<1>5. Put(S, c.buffer, r, data, to)
  <2>1. c.buffer \in [1 .. BlockSize -> S] /\ r \in Nat
    BY <1>1, <1>2 DEF Context
  <2> HIDE DEF r
  <2> QED  BY <1>3, <1>4, <2>1, StoredIs
<1> HIDE DEF to
<1>5a. /\ to \in [1 .. BlockSize -> S]
       /\ \A j \in 1 .. BlockSize : to[j] = IF j - r \in 1 .. n THEN data[j - r] ELSE c.buffer[j]
  BY <1>5, Zenon DEF Put
<1>6. ~Full(offset, n)
  <2>1. r + n < BlockSize
    OBVIOUS
  <2> HIDE DEF r, offset
  <2> QED  BY <1>1, <1>2, <1>3, <2>1 DEF Full
<1>7. u = [d EXCEPT !.buffer = to]
  BY <1>6, Zenon DEF Update, to
<1> HIDE DEF u, d, offset
<1>8. u \in Context(S) /\ u.low = d.low /\ u.high = d.high /\ u.blocks = c.blocks /\ u.buffer = to
  BY <1>4, <1>5a, <1>7 DEF Context
<1>9. /\ g \in Seq(S) /\ Len(g) = Len(h) + n
      /\ \A i \in 1 .. Len(h) : g[i] = h[i]
      /\ \A i \in 1 .. n : g[Len(h) + i] = data[i]
  BY Joined
<1> HIDE DEF g
<1>10. Counts(u, Len(g))
  BY <1>4, <1>8, <1>9 DEF Counts
<1>11. Len(g) - Len(u.blocks) * BlockSize = r + n /\ r + n \in 0 .. BlockSize - 1
  <2>1. Len(u.blocks) = q /\ r + n < BlockSize
    BY <1>8
  <2>2. Len(g) - q * BlockSize = r + n
    <3> HIDE DEF q
    <3> QED  BY <1>1, <1>2, <1>9
  <2> HIDE DEF q, r
  <2> QED  BY <1>1, <1>2, <2>1, <2>2
<1>12. ASSUME NEW b \in 1 .. Len(u.blocks)
       PROVE  /\ Len(u.blocks[b]) = BlockSize
              /\ \A j \in 1 .. BlockSize : u.blocks[b][j] = g[(b - 1) * BlockSize + j]
  <2>1. b \in 1 .. q /\ u.blocks[b] = c.blocks[b]
    BY <1>8
  <2>2. /\ Len(c.blocks[b]) = BlockSize
        /\ \A j \in 1 .. BlockSize : c.blocks[b][j] = h[(b - 1) * BlockSize + j]
    BY <2>1 DEF Holds
  <2>3. ASSUME NEW j \in 1 .. BlockSize  PROVE (b - 1) * BlockSize + j \in 1 .. Len(h)
    <3> DEFINE x == q * BlockSize
    <3>1. (b - 1) * BlockSize + j \in 1 .. x
      BY <1>1, <2>1, PlaceIn
    <3>2. 1 .. x \subseteq 1 .. Len(h)
      <4> HIDE DEF x, r
      <4> QED  BY <1>1, <1>2 DEF x
    <3> QED  BY <3>1, <3>2
  <2> QED  BY <1>9, <2>1, <2>2, <2>3
<1>13. ASSUME NEW j \in 1 .. r + n  PROVE u.buffer[j] = g[q * BlockSize + j]
  <2>1. j \in 1 .. BlockSize
    BY <1>1, <1>2, <1>11
  <2>2. CASE j - r \in 1 .. n
    <3>1. q * BlockSize + j = Len(h) + (j - r)
      BY <1>1, <1>2
    <3> QED  BY <1>5a, <1>8, <1>9, <2>1, <2>2, <3>1
  <2>3. CASE j - r \notin 1 .. n
    <3>1. j \in 1 .. r /\ q * BlockSize + j \in 1 .. Len(h)
      BY <1>1, <1>2, <2>3
    <3>2. c.buffer[j] = h[q * BlockSize + j]
      BY <3>1 DEF Holds
    <3> QED  BY <1>5a, <1>8, <1>9, <2>1, <2>3, <3>1, <3>2
  <2> QED  BY <2>2, <2>3
<1>14. Holds(u, g)
  <2>1. Len(u.blocks) = q
    BY <1>8
  <2>2. \A j \in 1 .. Len(g) - Len(u.blocks) * BlockSize : u.buffer[j] = g[Len(u.blocks) * BlockSize + j]
    BY <1>11, <1>13, <2>1
  <2> HIDE DEF q, r
  <2> QED  BY <1>10, <1>11, <1>12, <2>2, Zenon DEF Holds
<1> QED  BY <1>8, <1>14 DEF u, g

\* data after its first i is k blocks and a rest.
Cut(S, data, i, k, rem) ==
    /\ Len(data) - i = k * BlockSize + rem
    /\ Blocks(data, i) \in Seq(Seq(S)) /\ Len(Blocks(data, i)) = k
    /\ \A b \in 1 .. k :
         /\ Len(Blocks(data, i)[b]) = BlockSize
         /\ \A j \in 1 .. BlockSize :
              Blocks(data, i)[b][j] = data[i + (b - 1) * BlockSize + j]
    /\ Rest(data, i) \in Seq(S) /\ Len(Rest(data, i)) = rem
    /\ \A j \in 1 .. rem : Rest(data, i)[j] = data[Len(data) - rem + j]

LEMMA BlocksAre ==
  ASSUME NEW S, NEW data \in Seq(S), NEW i \in 0 .. Len(data)
  PROVE  \E k \in Nat, rem \in 0 .. BlockSize - 1 : Cut(S, data, i, k, rem)
<1> DEFINE n == Len(data)
           k == (n - i) \div BlockSize
           rem == (n - i) % BlockSize
<1>1. BlockSize \in Nat \ {0} /\ n \in Nat /\ i \in Nat /\ n - i \in Nat
  BY Sizes
<1>2. k \in Int /\ rem \in 0 .. BlockSize - 1 /\ n - i = BlockSize * k + rem
  <2> DEFINE x == n - i
  <2> HIDE DEF x
  <2>1. x \in Int
    BY <1>1 DEF x
  <2>2. x \div BlockSize \in Int /\ x % BlockSize \in 0 .. BlockSize - 1
        /\ x = BlockSize * (x \div BlockSize) + (x % BlockSize)
    BY <1>1, <2>1, DivRem
  <2> QED  BY <2>2 DEF x
<1>3. Blocks(data, i) = [b \in 1 .. k |-> SubSeq(data, i + (b - 1) * BlockSize + 1, i + b * BlockSize)]
  BY DEF Blocks
<1>4. Rest(data, i) = SubSeq(data, n - rem + 1, n)
  BY DEF Rest
<1> HIDE DEF k, rem
<1>5. k \in Nat
  <2> SUFFICES ASSUME k < 0  PROVE FALSE
    BY <1>2
  <2>1. -k \in Nat \ {0}
    BY <1>2
  <2>2. BlockSize * (-k) >= BlockSize
    BY <1>1, <2>1, Multiple
  <2>3. BlockSize * (-k) = -(BlockSize * k) /\ BlockSize * k \in Int
    BY <1>1, <1>2
  <2> QED  BY <1>1, <1>2, <2>2, <2>3
<1>6. n - i = k * BlockSize + rem /\ k * BlockSize \in Nat
  BY <1>1, <1>2, <1>5
<1>7. ASSUME NEW b \in 1 .. k
      PROVE  /\ (b - 1) * BlockSize \in Nat
             /\ b * BlockSize = (b - 1) * BlockSize + BlockSize
             /\ i + b * BlockSize <= n
  <2>1. b \in Nat /\ b - 1 \in Nat /\ k - b \in Nat
    BY <1>5
  <2>2. (b - 1) * BlockSize \in Nat /\ (k - b) * BlockSize \in Nat /\ b * BlockSize \in Nat
    BY <1>1, <2>1
  <2>3. (k - b) * BlockSize = k * BlockSize - b * BlockSize
    BY <1>1, <1>5, <2>1
  <2>4. b * BlockSize = (b - 1) * BlockSize + BlockSize
    BY <1>1, <2>1
  <2> QED  BY <1>1, <1>2, <1>6, <2>2, <2>3, <2>4
<1>8. ASSUME NEW b \in 1 .. k
      PROVE  /\ Blocks(data, i)[b] \in Seq(S)
             /\ Len(Blocks(data, i)[b]) = BlockSize
             /\ \A j \in 1 .. BlockSize :
                  Blocks(data, i)[b][j] = data[i + (b - 1) * BlockSize + j]
  <2> DEFINE x == (b - 1) * BlockSize
             y == b * BlockSize
  <2>1. x \in Nat /\ y = x + BlockSize /\ i + y <= n
    BY <1>7
  <2> HIDE DEF x, y
  <2>2. i + x + 1 \in 1 .. n + 1 /\ i + y \in i + x .. n /\ i + y - (i + x + 1) + 1 = BlockSize
        /\ i + y \in Nat /\ i + x + 1 \in Nat
    BY <1>1, <2>1
  <2>3. SubSeq(data, i + x + 1, i + y) = [j \in 1 .. BlockSize |-> data[i + x + 1 + j - 1]]
    BY <1>1, <2>1, <2>2
  <2>4. \A j \in 1 .. BlockSize : i + x + 1 + j - 1 = i + x + j /\ i + x + j \in 1 .. n
    BY <1>1, <2>1
  <2> DEFINE t == SubSeq(data, i + x + 1, i + y)
  <2>5. \A j \in 1 .. BlockSize : data[i + x + 1 + j - 1] = data[i + x + j] /\ data[i + x + j] \in S
    BY <2>4
  <2>6. t \in Seq(S) /\ Len(t) = BlockSize /\ \A j \in 1 .. BlockSize : t[j] = data[i + x + j]
    <3> DEFINE e(j) == data[i + x + 1 + j - 1]
    <3>1. t = [j \in 1 .. BlockSize |-> e(j)]
      BY <2>3
    <3>2. \A j \in 1 .. BlockSize : e(j) = data[i + x + j] /\ e(j) \in S
      BY <2>5
    <3> HIDE DEF t, e
    <3>3. t \in Seq(S) /\ Len(t) = BlockSize /\ \A j \in 1 .. BlockSize : t[j] = e(j)
      BY <1>1, <3>1, <3>2
    <3> QED  BY <3>2, <3>3
  <2>7. Blocks(data, i)[b] = t
    BY <1>3 DEF x, y
  <2> HIDE DEF t
  <2> QED  BY <2>6, <2>7 DEF x
<1>9. n - rem + 1 \in 1 .. n + 1 /\ n - rem \in Nat
  BY <1>1, <1>2, <1>6
<1>10. SubSeq(data, n - rem + 1, n) = [j \in 1 .. rem |-> data[n - rem + 1 + j - 1]]
  BY <1>1, <1>2, <1>9
<1>11. \A j \in 1 .. rem : n - rem + 1 + j - 1 = n - rem + j /\ n - rem + j \in 1 .. n
  BY <1>1, <1>2, <1>9
<1>12. /\ Rest(data, i) \in Seq(S) /\ Len(Rest(data, i)) = rem
       /\ \A j \in 1 .. rem : Rest(data, i)[j] = data[n - rem + j]
  BY <1>2, <1>4, <1>10, <1>11
<1>13. Blocks(data, i) \in Seq(Seq(S)) /\ Len(Blocks(data, i)) = k
  <2>1. \A b \in 1 .. k : Blocks(data, i)[b] \in Seq(S)
    BY <1>8
  <2>2. Blocks(data, i) = [b \in 1 .. k |-> Blocks(data, i)[b]]
    BY <1>3
  <2> DEFINE B == Blocks(data, i)
  <2> HIDE DEF B
  <2>3. B \in Seq(Seq(S)) /\ Len(B) = k
    BY <1>5, <2>1, <2>2 DEF B
  <2> QED  BY <2>3 DEF B
<1>14. Cut(S, data, i, k, rem)
  <2>1. \A b \in 1 .. k :
         /\ Len(Blocks(data, i)[b]) = BlockSize
         /\ \A j \in 1 .. BlockSize :
              Blocks(data, i)[b][j] = data[i + (b - 1) * BlockSize + j]
    BY <1>8
  <2> QED  BY <1>6, <1>12, <1>13, <2>1, Zenon DEF Cut
<1> QED  BY <1>2, <1>5, <1>14

\* Update with a full block.
LEMMA UpdateFull ==
  ASSUME NEW S, NEW c \in Context(S), NEW h \in Seq(S), NEW data \in Seq(S), Holds(c, h),
         ~(Len(h) - Len(c.blocks) * BlockSize + Len(data) < BlockSize)
  PROVE  Update(c, data) \in Context(S) /\ Holds(Update(c, data), h \o data)
<1> DEFINE n == Len(data)
           q == Len(c.blocks)
           r == Len(h) - q * BlockSize
           offset == (c.low \div 8) % BlockSize
           d == Counted(c, n)
           u == Update(c, data)
           fill == BlockSize - offset
           front == SubSeq(data, 1, fill)
           filled == Stored(c.buffer, offset, front)
           more == Blocks(data, fill)
           rest == Rest(data, fill)
           to == Stored(filled, 0, rest)
           all == (d.blocks \o <<filled>>) \o more
           g == h \o data
<1>1. BlockSize \in Nat \ {0} /\ n \in Nat /\ q \in Nat /\ Len(h) \in Nat /\ q * BlockSize \in Nat
  BY Sizes DEF Context
<1>2. r \in 0 .. BlockSize - 1 /\ Len(h) = q * BlockSize + r
  BY <1>1 DEF Holds
<1>3. offset = r
  <2>1. c.low = (8 * Len(h)) % Word
    BY DEF Holds, Counts
  <2> HIDE DEF r, q
  <2> QED  BY <1>1, <1>2, <2>1, OffsetIs
<1>4. /\ Counts(d, Len(h) + n) /\ d \in Context(S)
      /\ d.blocks = c.blocks /\ d.buffer = c.buffer
  BY <1>1, CountedIs DEF Holds
<1>5. fill = BlockSize - r /\ fill \in 1 .. n
  <2>1. ~(r + n < BlockSize)
    OBVIOUS
  <2> HIDE DEF r, offset
  <2> QED  BY <1>1, <1>2, <1>3, <2>1
<1>6. Full(offset, n)
  <2> HIDE DEF offset, r
  <2> QED  BY <1>1, <1>2, <1>3, <1>5 DEF Full, fill
<1>7. u = [d EXCEPT !.blocks = all, !.buffer = to]
  BY <1>6 DEF Update
<1> HIDE DEF offset, fill, u, d
<1>8. front \in Seq(S) /\ Len(front) = fill /\ \A j \in 1 .. fill : front[j] = data[j]
  <2>1. n \in Nat /\ fill \in 1 .. n
    BY <1>1, <1>5
  <2> HIDE DEF q, r
  <2> QED  BY <2>1
<1> HIDE DEF front
<1>9. /\ filled \in [1 .. BlockSize -> S]
      /\ \A j \in 1 .. BlockSize : filled[j] = IF j - r \in 1 .. fill THEN data[j - r] ELSE c.buffer[j]
  <2>1. c.buffer \in [1 .. BlockSize -> S] /\ r \in Nat
    BY <1>1, <1>2 DEF Context
  <2> HIDE DEF r
  <2> DEFINE b == Stored(c.buffer, r, front)
  <2>2. Put(S, c.buffer, r, front, b)
    BY <1>8, <2>1, StoredIs
  <2> HIDE DEF b
  <2>3. /\ b \in [1 .. BlockSize -> S]
        /\ \A j \in 1 .. BlockSize : b[j] = IF j - r \in 1 .. Len(front) THEN front[j - r] ELSE c.buffer[j]
    BY <2>2, Zenon DEF Put
  <2>4. filled = b
    BY <1>3 DEF filled, b
  <2> HIDE DEF filled
  <2> QED  BY <1>8, <2>3, <2>4
<1> HIDE DEF filled
<1>10. PICK k \in Nat, rem \in 0 .. BlockSize - 1 : Cut(S, data, fill, k, rem)
  <2>1. fill \in 0 .. n
    BY <1>5
  <2> QED  BY <2>1, BlocksAre
<1>10a. /\ n - fill = k * BlockSize + rem
        /\ more \in Seq(Seq(S)) /\ Len(more) = k
        /\ \A b \in 1 .. k :
             /\ Len(more[b]) = BlockSize
             /\ \A j \in 1 .. BlockSize : more[b][j] = data[fill + (b - 1) * BlockSize + j]
        /\ rest \in Seq(S) /\ Len(rest) = rem
        /\ \A j \in 1 .. rem : rest[j] = data[n - rem + j]
  BY <1>10, Zenon DEF Cut
<1> HIDE DEF more, rest
<1>11. /\ to \in [1 .. BlockSize -> S]
       /\ \A j \in 1 .. rem : to[j] = data[n - rem + j]
  <2>1. rest \in Seq(S) /\ Len(rest) = rem
    BY <1>10a
  <2> DEFINE o == 0
  <2>1a. o \in Nat /\ to = Stored(filled, o, rest)
    OBVIOUS
  <2> HIDE DEF o, to
  <2>2. Put(S, filled, o, rest, to)
    BY <1>9, <2>1, <2>1a, StoredIs
  <2>3. to \in [1 .. BlockSize -> S] /\ \A j \in 1 .. rem : to[j] = rest[j]
    <3>1. to \in [1 .. BlockSize -> S]
      BY <2>2, Zenon DEF Put
    <3>2. \A j \in 1 .. BlockSize : to[j] = IF j - o \in 1 .. Len(rest) THEN rest[j - o] ELSE filled[j]
      BY <2>2, Zenon DEF Put
    <3>3. \A j \in 1 .. rem : j \in 1 .. BlockSize /\ j - o = j
      BY <1>1 DEF o
    <3> QED  BY <2>1, <3>1, <3>2, <3>3
  <2>4. \A j \in 1 .. rem : rest[j] = data[n - rem + j]
    BY <1>10a
  <2> HIDE DEF n
  <2> QED  BY <2>3, <2>4
<1> HIDE DEF to
<1>12. filled \in Seq(S) /\ Len(filled) = BlockSize
  BY <1>1, <1>9
<1>13. /\ all \in Seq(Seq(S)) /\ Len(all) = q + 1 + k
       /\ \A b \in 1 .. q : all[b] = c.blocks[b]
       /\ all[q + 1] = filled
       /\ \A b \in 1 .. k : all[q + 1 + b] = more[b]
  <2>1. c.blocks \in Seq(Seq(S)) /\ <<filled>> \in Seq(Seq(S)) /\ Len(<<filled>>) = 1
    BY <1>12 DEF Context
  <2> DEFINE s == c.blocks \o <<filled>>
  <2>2. /\ s \in Seq(Seq(S)) /\ Len(s) = q + 1
        /\ \A b \in 1 .. q : s[b] = c.blocks[b]
        /\ s[q + 1] = filled
    BY <2>1
  <2>3. all = s \o more
    BY <1>4
  <2>0. more \in Seq(Seq(S)) /\ Len(more) = k
    BY <1>10a
  <2> HIDE DEF s, all, q
  <2>4. Joint(Seq(S), s, more, s \o more)
    BY <2>0, <2>2, JoinedSo
  <2>4a. /\ all \in Seq(Seq(S)) /\ Len(all) = Len(s) + Len(more)
         /\ \A i \in 1 .. Len(s) : all[i] = s[i]
         /\ \A i \in 1 .. Len(more) : all[Len(s) + i] = more[i]
    BY <2>3, <2>4, Zenon DEF Joint
  <2>5. q + 1 \in 1 .. q + 1 /\ \A b \in 1 .. q : b \in 1 .. q + 1
    BY <1>1
  <2> QED  BY <2>0, <2>2, <2>4a, <2>5
<1>14. u \in Context(S) /\ u.low = d.low /\ u.high = d.high /\ u.blocks = all /\ u.buffer = to
  <2> HIDE DEF all
  <2> QED  BY <1>4, <1>7, <1>11, <1>13 DEF Context
<1> HIDE DEF all
<1>15. /\ g \in Seq(S) /\ Len(g) = Len(h) + n
       /\ \A i \in 1 .. Len(h) : g[i] = h[i]
       /\ \A i \in 1 .. n : g[Len(h) + i] = data[i]
  BY Joined
<1> HIDE DEF g
<1>16. Counts(u, Len(g))
  BY <1>4, <1>14, <1>15 DEF Counts
<1>17. /\ (q + 1 + k) * BlockSize = q * BlockSize + BlockSize + k * BlockSize
       /\ k * BlockSize \in Nat
       /\ (q + 1 + k) * BlockSize + rem = Len(h) + n
  <2>1. (q + 1 + k) * BlockSize = q * BlockSize + BlockSize + k * BlockSize
    <3> HIDE DEF q
    <3> QED  BY <1>1
  <2>2. k * BlockSize \in Nat
    BY <1>1
  <2> DEFINE x == q * BlockSize
             y == k * BlockSize
  <2>3. /\ x \in Nat /\ y \in Nat /\ Len(h) = x + r /\ n - fill = y + rem
    BY <1>1, <1>2, <1>10a, <2>2
  <2> HIDE DEF x, y, r
  <2>4. x + BlockSize + y + rem = Len(h) + n
    BY <1>1, <1>2, <1>5, <2>3
  <2> QED  BY <2>1, <2>2, <2>4 DEF x, y
<1>18. ASSUME NEW b \in 1 .. q
       PROVE  /\ Len(all[b]) = BlockSize
              /\ \A j \in 1 .. BlockSize : all[b][j] = g[(b - 1) * BlockSize + j]
  <2>1. /\ Len(c.blocks[b]) = BlockSize
        /\ \A j \in 1 .. BlockSize : c.blocks[b][j] = h[(b - 1) * BlockSize + j]
    BY DEF Holds
  <2>2. ASSUME NEW j \in 1 .. BlockSize  PROVE (b - 1) * BlockSize + j \in 1 .. Len(h)
    <3> DEFINE x == q * BlockSize
    <3>1. (b - 1) * BlockSize + j \in 1 .. x
      BY <1>1, PlaceIn
    <3>2. 1 .. x \subseteq 1 .. Len(h)
      <4> HIDE DEF x, r
      <4> QED  BY <1>1, <1>2 DEF x
    <3> QED  BY <3>1, <3>2
  <2> QED  BY <1>13, <1>15, <2>1, <2>2
<1>19. ASSUME NEW j \in 1 .. BlockSize  PROVE filled[j] = g[q * BlockSize + j]
  <2> DEFINE x == q * BlockSize
  <2>1. x \in Nat /\ Len(h) = x + r /\ r \in 0 .. BlockSize - 1
    BY <1>1, <1>2
  <2>2. CASE j - r \in 1 .. fill
    <3>1. x + j = Len(h) + (j - r) /\ j - r \in 1 .. n
      <4> HIDE DEF x, r
      <4> QED  BY <1>1, <1>5, <2>1, <2>2
    <3> QED  BY <1>9, <1>15, <2>2, <3>1
  <2>3. CASE j - r \notin 1 .. fill
    <3>1. j \in 1 .. r /\ x + j \in 1 .. Len(h)
      <4> HIDE DEF x, r
      <4> QED  BY <1>1, <1>5, <2>1, <2>3
    <3>2. c.buffer[j] = h[x + j]
      BY <3>1 DEF Holds
    <3> QED  BY <1>9, <1>15, <2>3, <3>1, <3>2
  <2> QED  BY <2>2, <2>3
<1>20. ASSUME NEW b \in 1 .. k
       PROVE  /\ Len(more[b]) = BlockSize
              /\ \A j \in 1 .. BlockSize : more[b][j] = g[(q + b) * BlockSize + j]
  <2>1. ASSUME NEW j \in 1 .. BlockSize
        PROVE  /\ fill + (b - 1) * BlockSize + j \in 1 .. n
               /\ (q + b) * BlockSize + j = Len(h) + (fill + (b - 1) * BlockSize + j)
    <3> DEFINE x == q * BlockSize
               y == (b - 1) * BlockSize
               z == k * BlockSize
    <3>1. (q + b) * BlockSize = x + y + BlockSize
      <4> HIDE DEF q
      <4> QED  BY <1>1
    <3>2. y + j \in 1 .. z /\ y \in Nat /\ z \in Nat
      <4>1. b - 1 \in Nat
        OBVIOUS
      <4> QED  BY <1>1, <4>1, PlaceIn
    <3>3. x \in Nat /\ Len(h) = x + r /\ n - fill = z + rem /\ r \in 0 .. BlockSize - 1
      BY <1>1, <1>2, <1>10a
    <3> HIDE DEF x, y, z, r
    <3>4. fill + y + j \in 1 .. n
      BY <1>1, <1>5, <3>2, <3>3
    <3>5. x + y + BlockSize + j = Len(h) + (fill + y + j)
      BY <1>1, <1>5, <3>2, <3>3
    <3> QED  BY <3>1, <3>4, <3>5 DEF y
  <2>2. ASSUME NEW j \in 1 .. BlockSize  PROVE more[b][j] = g[(q + b) * BlockSize + j]
    <3> DEFINE p == fill + (b - 1) * BlockSize + j
    <3>1. p \in 1 .. n /\ (q + b) * BlockSize + j = Len(h) + p
      BY <2>1
    <3>2. more[b][j] = data[p]
      BY <1>10a
    <3> HIDE DEF p
    <3>3. g[Len(h) + p] = data[p]
      BY <1>15, <3>1
    <3> QED  BY <3>1, <3>2, <3>3
  <2> QED  BY <1>10a, <2>2
<1>21. ASSUME NEW b \in 1 .. q + 1 + k
       PROVE  /\ Len(all[b]) = BlockSize
              /\ \A j \in 1 .. BlockSize : all[b][j] = g[(b - 1) * BlockSize + j]
  <2>1. CASE b \in 1 .. q
    BY <1>18, <2>1
  <2>2. CASE b = q + 1
    <3>1. b - 1 = q
      BY <1>1, <2>2
    <3> QED  BY <1>12, <1>13, <1>19, <2>2, <3>1
  <2>3. CASE b \notin 1 .. q + 1
    <3>1. b - (q + 1) \in 1 .. k /\ q + 1 + (b - (q + 1)) = b /\ q + (b - (q + 1)) = b - 1
      <4> HIDE DEF q
      <4> QED  BY <1>1, <2>3
    <3> DEFINE e == b - (q + 1)
    <3>2. all[b] = more[e] /\ e \in 1 .. k /\ q + e = b - 1
      BY <1>13, <3>1
    <3> HIDE DEF e
    <3> QED  BY <1>20, <3>2
  <2>4. b \in 1 .. q \/ b = q + 1 \/ b \notin 1 .. q + 1
    <3> HIDE DEF q
    <3> QED  BY <1>1
  <2> QED  BY <2>1, <2>2, <2>3, <2>4
<1>22. ASSUME NEW j \in 1 .. rem  PROVE to[j] = g[(q + 1 + k) * BlockSize + j]
  <2> DEFINE x == (q + 1 + k) * BlockSize
  <2>1. x \in Nat /\ x + rem = Len(h) + n
    BY <1>1, <1>17
  <2> HIDE DEF x
  <2>2. rem <= n
    <3> DEFINE y == k * BlockSize
    <3>1. y \in Nat /\ n - fill = y + rem /\ fill \in 1 .. n /\ n \in Nat
      BY <1>1, <1>5, <1>10a, <1>17
    <3> HIDE DEF y, n, q, r
    <3> QED  BY <3>1
  <2>3. x + j = Len(h) + (n - rem + j) /\ n - rem + j \in 1 .. n
    BY <1>1, <2>1, <2>2
  <2> QED  BY <1>11, <1>15, <2>3 DEF x
<1>23. Holds(u, g)
  <2> DEFINE p == q + 1 + k
  <2>1. Len(u.blocks) = p /\ u.blocks = all /\ u.buffer = to
    BY <1>13, <1>14
  <2>2. Len(g) - p * BlockSize = rem /\ rem \in 0 .. BlockSize - 1
    <3> DEFINE x == p * BlockSize
    <3>1. x \in Nat /\ x + rem = Len(g)
      BY <1>1, <1>15, <1>17
    <3> HIDE DEF x
    <3>2. Len(g) - x = rem
      BY <1>1, <3>1
    <3> QED  BY <3>2 DEF x
  <2>3. \A b \in 1 .. p : /\ Len(all[b]) = BlockSize
                          /\ \A j \in 1 .. BlockSize : all[b][j] = g[(b - 1) * BlockSize + j]
    BY <1>21
  <2>4. \A j \in 1 .. rem : to[j] = g[p * BlockSize + j]
    BY <1>22
  <2> HIDE DEF p
  <2> QED  BY <1>16, <2>1, <2>2, <2>3, <2>4 DEF Holds
<1> QED  BY <1>14, <1>23 DEF u, g

\* However much is hashed in, what was before it is kept.
LEMMA UpdateHolds ==
  ASSUME NEW S, NEW c \in Context(S), NEW h \in Seq(S), NEW data \in Seq(S), Holds(c, h)
  PROVE  Update(c, data) \in Context(S) /\ Holds(Update(c, data), h \o data)
  BY UpdateShort, UpdateFull

\* Pieces of one size that hold a sequence, one after the other, are its beginning.
LEMMA FlattenPieces ==
  ASSUME NEW S, NEW h \in Seq(S), NEW whole \in Seq(Seq(S)), NEW B \in Nat \ {0},
         Len(whole) * B <= Len(h),
         \A b \in 1 .. Len(whole) :
            /\ Len(whole[b]) = B
            /\ \A j \in 1 .. B : whole[b][j] = h[(b - 1) * B + j]
  PROVE  FlattenSeq(whole) = SubSeq(h, 1, Len(whole) * B)
<1> DEFINE n == Len(whole)
           Meets(g) == g = [i \in 1 .. n |-> IF i = 1 THEN whole[i] ELSE g[i - 1] \o whole[i]]
           f == [i \in 1 .. n |-> SubSeq(h, 1, i * B)]
           flat == CHOOSE g : Meets(g)
<1>1. B \in Nat \ {0} /\ n \in Nat /\ Len(h) \in Nat
  OBVIOUS
<1>2. FlattenSeq(whole) = IF n = 0 THEN whole ELSE flat[n]
  BY DEF FlattenSeq
<1> HIDE DEF flat
<1>3. ASSUME NEW i \in 1 .. n
      PROVE  f[i] = IF i = 1 THEN whole[i] ELSE f[i - 1] \o whole[i]
  <2> DEFINE x == (i - 1) * B
             y == i * B
             s == SubSeq(h, 1, y)
  <2>1. x \in Nat /\ y = x + B /\ y <= Len(h) /\ y \in Nat
    <3>1. i - 1 \in Nat /\ n - i \in Nat /\ i \in Nat
      BY <1>1
    <3>2. x \in Nat /\ y \in Nat /\ y = x + B
      BY <1>1, <3>1
    <3>3. (n - i) * B \in Nat
      BY <1>1, <3>1
    <3>4. (n - i) * B = n * B - y /\ n * B \in Nat
      <4> HIDE DEF n
      <4> QED  BY <1>1, <3>1
    <3> DEFINE z == n * B
    <3> HIDE DEF x, y
    <3> QED  BY <1>1, <3>2, <3>3, <3>4
  <2>2. whole[i] \in Seq(S) /\ Len(whole[i]) = B
        /\ \A j \in 1 .. B : whole[i][j] = h[x + j]
    OBVIOUS
  <2>3. f[i] = s
    OBVIOUS
  <2>4. i # 1 => f[i - 1] = SubSeq(h, 1, x)
    BY <1>1
  <2> HIDE DEF x, y, f, n
  <2>5. s \in Seq(S) /\ Len(s) = y /\ \A j \in 1 .. y : s[j] = h[j]
    BY <2>1
  <2>6. CASE i = 1
    <3>1. x = 0
      BY <1>1, <2>6 DEF x
    <3>2. \A j \in 1 .. B : x + j = j /\ whole[i][j] = h[j]
      BY <1>1, <2>2, <3>1
    <3>3. Len(s) = Len(whole[i]) /\ \A j \in 1 .. B : whole[i][j] = s[j]
      BY <1>1, <2>1, <2>2, <2>5, <3>1, <3>2
    <3> HIDE DEF s
    <3> QED  BY <2>2, <2>3, <2>5, <2>6, <3>3
  <2>7. CASE i # 1
    <3> DEFINE t == SubSeq(h, 1, x)
    <3>1. t \in Seq(S) /\ Len(t) = x /\ \A j \in 1 .. x : t[j] = h[j]
      BY <1>1, <2>1
    <3> HIDE DEF t, s
    <3>2. Joint(S, t, whole[i], t \o whole[i])
      BY <2>2, <3>1, JoinedSo
    <3> DEFINE u == t \o whole[i]
    <3>3. u \in Seq(S) /\ Len(u) = y /\ (\A j \in 1 .. x : u[j] = t[j])
          /\ \A j \in 1 .. B : u[x + j] = whole[i][j]
      BY <2>1, <2>2, <3>1, <3>2 DEF Joint
    <3> HIDE DEF u
    <3>4. ASSUME NEW j \in 1 .. y  PROVE u[j] = s[j]
      <4>1. CASE j <= x
        <5>1. j \in 1 .. x
          BY <2>1, <4>1
        <5>2. u[j] = t[j] /\ t[j] = h[j] /\ s[j] = h[j]
          BY <2>5, <3>1, <3>3, <5>1
        <5> QED  BY <5>2
      <4>2. CASE ~(j <= x)
        <5>1. j - x \in 1 .. B /\ x + (j - x) = j
          BY <1>1, <2>1, <4>2
        <5>2. u[x + (j - x)] = whole[i][j - x] /\ whole[i][j - x] = h[x + (j - x)]
          BY <2>2, <3>3, <5>1
        <5> QED  BY <2>5, <5>1, <5>2
      <4> QED  BY <4>1, <4>2
    <3>5. u = s
      BY <2>5, <3>3, <3>4
    <3> QED  BY <2>3, <2>4, <2>7, <3>5 DEF t, u
  <2> QED  BY <2>6, <2>7
<1>4. Meets(f)
  <2>1. f = [i \in 1 .. n |-> f[i]]
    OBVIOUS
  <2> HIDE DEF f
  <2> QED  BY <1>3, <2>1
<1>5. Meets(flat)
  BY <1>4 DEF flat
<1>6. \A i \in 1 .. n : flat[i] = f[i]
  <2> DEFINE bad == {i \in 1 .. n : flat[i] # f[i]}
  <2>1. SUFFICES ASSUME bad # {}  PROVE FALSE
    OBVIOUS
  <2>2. PICK i \in bad : \A j \in bad : i <= j
    <3> HIDE DEF bad
    <3>1. bad \subseteq Nat
      BY DEF bad
    <3> QED  BY <2>1, <3>1, LeastOf
  <2>3. flat[i] = IF i = 1 THEN whole[i] ELSE flat[i - 1] \o whole[i]
    BY <1>5
  <2>4. f[i] = IF i = 1 THEN whole[i] ELSE f[i - 1] \o whole[i]
    BY <1>3
  <2>5. i # 1 => flat[i - 1] = f[i - 1]
    <3> HIDE DEF n, f
    <3>1. i \in 1 .. n /\ (i # 1 => i - 1 \in 1 .. n /\ ~(i <= i - 1))
      BY <1>1, <2>2
    <3> QED  BY <2>2, <3>1
  <2> QED  BY <2>2, <2>3, <2>4, <2>5
<1>7. CASE n = 0
  <2>1. whole = << >> /\ n * B = 0
    BY <1>1, <1>7
  <2>2. SubSeq(h, 1, 0) = << >>
    OBVIOUS
  <2> QED  BY <1>2, <1>7, <2>1, <2>2
<1>8. CASE n # 0
  <2>1. n \in 1 .. n
    BY <1>1, <1>8
  <2>2. flat[n] = f[n] /\ f[n] = SubSeq(h, 1, n * B)
    BY <1>6, <2>1
  <2> QED  BY <1>2, <1>8, <2>2
<1> QED  BY <1>7, <1>8

\* Blocks that hold the message, one after the other, are its beginning.
LEMMA FlattenIs ==
  ASSUME NEW S, NEW h \in Seq(S), NEW whole \in Seq(Seq(S)),
         Len(whole) * BlockSize <= Len(h),
         \A b \in 1 .. Len(whole) :
            /\ Len(whole[b]) = BlockSize
            /\ \A j \in 1 .. BlockSize : whole[b][j] = h[(b - 1) * BlockSize + j]
  PROVE  FlattenSeq(whole) = SubSeq(h, 1, Len(whole) * BlockSize)
  BY Sizes, FlattenPieces
\* What the blocks hold, when it is the message and when it is its beginning.
LEMMA HoldsWhole ==
  ASSUME NEW S, NEW c \in Context(S), NEW h \in Seq(S), Holds(c, h)
  PROVE  /\ FlattenSeq(c.blocks) = SubSeq(h, 1, Len(c.blocks) * BlockSize)
         /\ Len(c.blocks) * BlockSize \in 0 .. Len(h)
<1> DEFINE n == Len(c.blocks)
           x == n * BlockSize
<1>1. BlockSize \in Nat \ {0} /\ n \in Nat /\ Len(h) \in Nat /\ c.blocks \in Seq(Seq(S))
  BY Sizes DEF Context
<1>2. x \in Nat /\ Len(h) - x \in 0 .. BlockSize - 1
  BY <1>1 DEF Holds
<1>3. x \in 0 .. Len(h)
  <2> HIDE DEF x
  <2> QED  BY <1>1, <1>2
<1>4. \A b \in 1 .. n : /\ Len(c.blocks[b]) = BlockSize
                        /\ \A j \in 1 .. BlockSize : c.blocks[b][j] = h[(b - 1) * BlockSize + j]
  BY DEF Holds
<1>5. x <= Len(h)
  <2> HIDE DEF x
  <2> QED  BY <1>1, <1>3
<1>6. FlattenSeq(c.blocks) = SubSeq(h, 1, x)
  BY <1>1, <1>4, <1>5, FlattenIs
<1> QED  BY <1>3, <1>6

\* One number of zeros below a block fits.
LEMMA OneFits ==
  ASSUME NEW a \in Int, NEW y \in 0 .. BlockSize - 1, NEW z \in 0 .. BlockSize - 1,
         (a + y) % BlockSize = 0, (a + z) % BlockSize = 0
  PROVE  y = z
<1> DEFINE p == (a + y) \div BlockSize
           q == (a + z) \div BlockSize
<1>1. BlockSize \in Nat \ {0} /\ a + y \in Int /\ a + z \in Int
  BY Sizes
<1>2. p \in Int /\ a + y = BlockSize * p + 0
  <2> DEFINE x == a + y
  <2>1. x \in Int /\ x % BlockSize = 0
    BY <1>1
  <2> HIDE DEF x
  <2>2. x \div BlockSize \in Int /\ x = BlockSize * (x \div BlockSize) + (x % BlockSize)
    BY <1>1, <2>1, DivRem
  <2> QED  BY <2>1, <2>2 DEF x
<1>3. q \in Int /\ a + z = BlockSize * q + 0
  <2> DEFINE x == a + z
  <2>1. x \in Int /\ x % BlockSize = 0
    BY <1>1
  <2> HIDE DEF x
  <2>2. x \div BlockSize \in Int /\ x = BlockSize * (x \div BlockSize) + (x % BlockSize)
    BY <1>1, <2>1, DivRem
  <2> QED  BY <2>1, <2>2 DEF x
<1> HIDE DEF p, q
<1>4. BlockSize * (p - q) = y - z /\ BlockSize * (q - p) = z - y
  <2>1. BlockSize * (p - q) = BlockSize * p - BlockSize * q
        /\ BlockSize * (q - p) = BlockSize * q - BlockSize * p
        /\ BlockSize * p \in Int /\ BlockSize * q \in Int
    BY <1>1, <1>2, <1>3
  <2> QED  BY <1>2, <1>3, <2>1
<1>5. p - q \in Nat \ {0} => BlockSize * (p - q) >= BlockSize
  BY <1>1, Multiple
<1>6. q - p \in Nat \ {0} => BlockSize * (q - p) >= BlockSize
  BY <1>1, Multiple
<1>7. p = q \/ p - q \in Nat \ {0} \/ q - p \in Nat \ {0}
  BY <1>2, <1>3
<1>8. CASE p = q
  BY <1>2, <1>3, <1>8
<1>9. CASE p - q \in Nat \ {0}
  BY <1>1, <1>4, <1>5, <1>9
<1>10. CASE q - p \in Nat \ {0}
  BY <1>1, <1>4, <1>6, <1>10
<1> QED  BY <1>7, <1>8, <1>9, <1>10

Zeros(z) == [i \in 1 .. z |-> Number(0)]

LEMMA ZerosAre ==
  ASSUME NEW S, Number(0) \in S, NEW z \in Nat
  PROVE  Zeros(z) \in Seq(S) /\ Len(Zeros(z)) = z /\ \A i \in 1 .. z : Zeros(z)[i] = Number(0)
<1> DEFINE o == Number(0)
<1>1. o \in S
  OBVIOUS
<1>2. Zeros(z) = [i \in 1 .. z |-> o]
  BY DEF Zeros
<1> HIDE DEF o
<1>3. Zeros(z) \in Seq(S) /\ Len(Zeros(z)) = z /\ \A i \in 1 .. z : Zeros(z)[i] = o
  BY <1>1, <1>2
<1> QED  BY <1>3 DEF o

\* What is put behind the message: a one bit, and the zeros that fit.
LEMMA PaddingIs ==
  ASSUME NEW S, Number(0) \in S, Number(128) \in S,
         NEW c \in Context(S), NEW h \in Seq(S), Holds(c, h)
  PROVE  \E z \in 0 .. BlockSize - 1 :
           /\ Padding(c) = <<Number(128)>> \o Zeros(z)
           /\ (Len(h) + 1 + 2 * WordBytes + z) % BlockSize = 0
<1> DEFINE q == Len(c.blocks)
           r == Len(h) - q * BlockSize
           offset == (c.low \div 8) % BlockSize
           a == BlockSize - 2 * WordBytes - 1 - r
           z == a % BlockSize
           t == a \div BlockSize
<1>1. BlockSize \in Nat \ {0} /\ WordBytes \in Nat /\ q \in Nat /\ Len(h) \in Nat /\ q * BlockSize \in Nat
  BY Sizes DEF Context
<1>2. r \in 0 .. BlockSize - 1 /\ Len(h) = q * BlockSize + r
  <2>1. r \in 0 .. BlockSize - 1
    BY DEF Holds
  <2> DEFINE x == q * BlockSize
  <2> HIDE DEF x
  <2>2. x \in Nat /\ r = Len(h) - x
    BY <1>1 DEF x
  <2> HIDE DEF r
  <2> QED  BY <1>1, <2>1, <2>2 DEF x
<1>3. offset = r
  <2>1. c.low = (8 * Len(h)) % Word
    BY DEF Holds, Counts
  <2> HIDE DEF r, q
  <2> QED  BY <1>1, <1>2, <2>1, OffsetIs
<1> HIDE DEF r, offset
<1>4. a \in Int
  BY <1>1, <1>2
<1>5. t \in Int /\ z \in 0 .. BlockSize - 1 /\ a = BlockSize * t + z
  <2> HIDE DEF a
  <2> QED  BY <1>1, <1>4, DivRem
<1>6. Padding(c) = [i \in 1 .. z + 1 |-> Number(IF i = 1 THEN 128 ELSE 0)]
  BY <1>3 DEF Padding, offset
<1> HIDE DEF z, t
<1>7. Padding(c) = <<Number(128)>> \o Zeros(z)
  <2> DEFINE one == Number(128)
             o == Number(0)
             p == [i \in 1 .. z + 1 |-> IF i = 1 THEN one ELSE o]
  <2>1. Padding(c) = p
    <3>1. \A i \in 1 .. z + 1 : Number(IF i = 1 THEN 128 ELSE 0) = IF i = 1 THEN one ELSE o
      OBVIOUS
    <3> HIDE DEF one, o
    <3> QED  BY <1>6, <3>1
  <2>2. z \in Nat /\ one \in S /\ o \in S
    BY <1>1, <1>5
  <2>3. Zeros(z) \in Seq(S) /\ Len(Zeros(z)) = z /\ \A i \in 1 .. z : Zeros(z)[i] = o
    BY <2>2, ZerosAre
  <2> HIDE DEF one, o
  <2>4. <<one>> \in Seq(S) /\ Len(<<one>>) = 1 /\ <<one>>[1] = one
    BY <2>2
  <2> DEFINE y == Zeros(z)
             x == <<one>> \o y
  <2>5. /\ x \in Seq(S) /\ Len(x) = 1 + z /\ x[1] = one
        /\ \A i \in 1 .. z : x[1 + i] = o
    <3> HIDE DEF y
    <3> QED  BY <2>2, <2>3, <2>4 DEF y
  <2>6. p \in Seq(S) /\ Len(p) = 1 + z
    BY <2>2
  <2> HIDE DEF x
  <2>7. ASSUME NEW i \in 1 .. 1 + z  PROVE p[i] = x[i]
    <3>1. CASE i = 1
      BY <2>2, <2>5, <3>1
    <3>2. CASE i # 1
      <4>1. i - 1 \in 1 .. z /\ 1 + (i - 1) = i /\ i \in 1 .. z + 1
        BY <2>2, <3>2
      <4>2. x[i] = o
        BY <2>5, <4>1
      <4> QED  BY <3>2, <4>1, <4>2
    <3> QED  BY <3>1, <3>2
  <2> HIDE DEF p
  <2>8. p = x
    BY <2>5, <2>6, <2>7
  <2> QED  BY <2>1, <2>8 DEF x, one
<1>8. (Len(h) + 1 + 2 * WordBytes + z) % BlockSize = 0
  <2>1. BlockSize * (q + 1 - t) = q * BlockSize + BlockSize - BlockSize * t
        /\ BlockSize * t \in Int /\ q + 1 - t \in Int
    <3> HIDE DEF q, a
    <3> QED  BY <1>1, <1>5
  <2> DEFINE x == BlockSize * t
             y == q * BlockSize
             e == q + 1 - t
  <2>2. x \in Int /\ y \in Int /\ e \in Int /\ BlockSize * e = y + BlockSize - x
    BY <1>1, <2>1
  <2>3. Len(h) = y + r /\ a = x + z
    BY <1>2, <1>5
  <2> HIDE DEF x, y, e, q
  <2>4. Len(h) + 1 + 2 * WordBytes + z = y + BlockSize - x
    BY <1>1, <1>2, <1>5, <2>2, <2>3
  <2>5. Len(h) + 1 + 2 * WordBytes + z = BlockSize * e + 0
    BY <1>1, <2>2, <2>4
  <2>6. 0 \in 0 .. BlockSize - 1
    BY <1>1
  <2>7. (BlockSize * e + 0) % BlockSize = 0
    BY <1>1, <2>2, <2>6, DivRemIs
  <2> QED  BY <2>5, <2>7
<1> QED  BY <1>5, <1>7, <1>8

\* The numbers that come behind a message.
Octet(w, i) == Number((w \div (256 ^ i)) % 256)
Octets == {Number(0), Number(128)} \union {Octet(w, i) : w \in Int, i \in Int}

LEMMA OctetIn ==
  ASSUME NEW w \in Int, NEW i \in Int
  PROVE  Octet(w, i) \in Octets
  BY DEF Octets

LEMMA DigitsAre ==
  ASSUME NEW S, Octets \subseteq S, NEW w \in Int, NEW big \in BOOLEAN
  PROVE  Digits(w, big) \in Seq(S) /\ Len(Digits(w, big)) = WordBytes
<1> DEFINE to(i) == IF big THEN WordBytes - i ELSE i - 1
           e(i) == Octet(w, to(i))
<1>1. WordBytes \in Nat
  BY Sizes
<1>2. \A i \in 1 .. WordBytes : to(i) \in Int
  BY <1>1
<1>3. Digits(w, big) = [i \in 1 .. WordBytes |-> e(i)]
  BY Zenon DEF Digits, Octet
<1>4. ASSUME NEW i \in 1 .. WordBytes  PROVE e(i) \in S
  <2> DEFINE j == to(i)
  <2>1. j \in Int
    BY <1>2
  <2> HIDE DEF to, j
  <2>2. Octet(w, j) \in Octets
    BY <2>1, OctetIn
  <2> QED  BY <2>2 DEF j
<1> HIDE DEF e
<1> QED  BY <1>1, <1>3, <1>4

\* The length depends on the counters only.
LEMMA LengthBytesAre ==
  ASSUME NEW S, Octets \subseteq S, NEW c, NEW e, NEW k,
         c.low \in Int, c.high \in Int, c.low = e.low, c.high = e.high
  PROVE  /\ LengthBytes(c, k) \in Seq(S) /\ Len(LengthBytes(c, k)) = 2 * WordBytes
         /\ LengthBytes(c, k) = LengthBytes(e, k)
<1>1. WordBytes \in Nat /\ TRUE \in BOOLEAN /\ FALSE \in BOOLEAN
  BY Sizes
<1>2. \A v \in {c.low, c.high}, g \in BOOLEAN :
        Digits(v, g) \in Seq(S) /\ Len(Digits(v, g)) = WordBytes
  BY DigitsAre
<1>3. \A v, x \in {c.low, c.high}, g, f \in BOOLEAN :
        /\ Digits(v, g) \o Digits(x, f) \in Seq(S)
        /\ Len(Digits(v, g) \o Digits(x, f)) = 2 * WordBytes
  BY <1>1, <1>2
<1>4. LengthBytes(c, k) = IF k = "sha1" THEN Digits(c.high, TRUE) \o Digits(c.low, TRUE)
                          ELSE Digits(c.low, FALSE) \o Digits(c.high, FALSE)
  BY DEF LengthBytes
<1>5. LengthBytes(c, k) = LengthBytes(e, k)
  BY <1>4 DEF LengthBytes
<1>6. CASE k = "sha1"
  BY <1>1, <1>3, <1>4, <1>5, <1>6
<1>7. CASE k # "sha1"
  BY <1>1, <1>3, <1>4, <1>5, <1>7
<1> QED  BY <1>6, <1>7

\* Bytes hashed in one by one: the loop of CSHA1::Final, up to its n-th byte.
ByteByByte(g, c, p, n) ==
    g = [i \in 0 .. n |-> IF i = 0 THEN c ELSE Update(g[i - 1], <<p[i]>>)]

\* The loop ends.
LEMMA LoopIs ==
  ASSUME NEW c, NEW p, NEW n \in Nat
  PROVE  \E g : ByteByByte(g, c, p, n)
<1> DEFINE bad == {m \in Nat : ~ \E g : ByteByByte(g, c, p, m)}
<1>1. SUFFICES ASSUME bad # {}  PROVE FALSE
  OBVIOUS
<1>2. PICK m \in bad : \A j \in bad : m <= j
  <2>1. bad \subseteq Nat
    OBVIOUS
  <2> HIDE DEF bad
  <2> QED  BY <1>1, <2>1, LeastOf
<1>3. CASE m = 0
  <2> DEFINE g == [i \in 0 .. 0 |-> c]
  <2>1. ByteByByte(g, c, p, 0)
    BY DEF ByteByByte
  <2> QED  BY <1>2, <1>3, <2>1
<1>4. CASE m # 0
  <2>1. m \in Nat /\ m - 1 \in Nat /\ ~(m <= m - 1)
    BY <1>2, <1>4
  <2>2. m - 1 \notin bad
    <3> HIDE DEF bad
    <3> QED  BY <1>2, <2>1
  <2>3. PICK g : ByteByByte(g, c, p, m - 1)
    BY <2>1, <2>2
  <2> DEFINE e == Update(g[m - 1], <<p[m]>>)
             f == [i \in 0 .. m |-> IF i = m THEN e ELSE g[i]]
  <2>4. ASSUME NEW i \in 0 .. m
        PROVE  f[i] = IF i = 0 THEN c ELSE Update(f[i - 1], <<p[i]>>)
    <3>1. CASE i = m
      <4>1. f[i - 1] = g[m - 1] /\ i # 0
        BY <1>4, <2>1, <3>1
      <4>2. f[i] = e
        BY <3>1
      <4> HIDE DEF f
      <4> QED  BY <3>1, <4>1, <4>2
    <3>2. CASE i # m
      <4>1. i \in 0 .. m - 1 /\ (i # 0 => i - 1 \in 0 .. m /\ i - 1 # m)
        BY <2>1, <3>2
      <4>2. g[i] = IF i = 0 THEN c ELSE Update(g[i - 1], <<p[i]>>)
        BY <2>3, <4>1 DEF ByteByByte
      <4> HIDE DEF e
      <4>3. f[i] = g[i] /\ (i # 0 => f[i - 1] = g[i - 1])
        BY <3>2, <4>1
      <4> HIDE DEF f
      <4> QED  BY <4>2, <4>3
    <3> QED  BY <3>1, <3>2
  <2>5. f = [i \in 0 .. m |-> f[i]]
    OBVIOUS
  <2> HIDE DEF f
  <2>6. ByteByByte(f, c, p, m)
    BY <2>4, <2>5 DEF ByteByByte
  <2> QED  BY <1>2, <2>6
<1> QED  BY <1>3, <1>4

\* One by one they are the message so far.
LEMMA LoopHolds ==
  ASSUME NEW S, NEW c \in Context(S), NEW h \in Seq(S), NEW p \in Seq(S), Holds(c, h),
         NEW g, ByteByByte(g, c, p, Len(p))
  PROVE  g[Len(p)] \in Context(S) /\ Holds(g[Len(p)], h \o p)
<1> DEFINE n == Len(p)
           so(i) == h \o SubSeq(p, 1, i)
           bad == {i \in 0 .. n : ~(g[i] \in Context(S) /\ Holds(g[i], so(i)))}
<1>1. n \in Nat
  OBVIOUS
<1>2. bad = {}
  <2> SUFFICES ASSUME bad # {}  PROVE FALSE
    OBVIOUS
  <2>1. PICK i \in bad : \A j \in bad : i <= j
    <3>1. bad \subseteq Nat
      OBVIOUS
    <3> HIDE DEF bad
    <3> QED  BY <3>1, LeastOf
  <2>2. i \in 0 .. n
    BY <2>1
  <2>3. g[i] = IF i = 0 THEN c ELSE Update(g[i - 1], <<p[i]>>)
    BY <2>2 DEF ByteByByte
  <2>4. CASE i = 0
    <3>1. SubSeq(p, 1, 0) = << >> /\ h \o << >> = h
      BY ConcatEmptySeq
    <3>2. so(i) = h /\ g[i] = c
      BY <2>3, <2>4, <3>1
    <3> HIDE DEF so
    <3> QED  BY <2>1, <3>2
  <2>5. CASE i # 0
    <3>1. i \in 1 .. n /\ i - 1 \in 0 .. n /\ ~(i <= i - 1)
      BY <1>1, <2>2, <2>5
    <3>2. i - 1 \notin bad
      <4> HIDE DEF bad
      <4> QED  BY <2>1, <3>1
    <3>3. g[i - 1] \in Context(S) /\ Holds(g[i - 1], so(i - 1))
      <4> HIDE DEF so
      <4> QED  BY <3>1, <3>2
    <3> DEFINE s == SubSeq(p, 1, i - 1)
               t == <<p[i]>>
    <3>4. s \in Seq(S) /\ t \in Seq(S)
      BY <3>1
    <3>5. SubSeq(p, 1, i) = s \o t
      BY <1>1, <3>1, SubSeqRecursiveSecond
    <3> HIDE DEF s, t
    <3>6. (h \o s) \o t = h \o (s \o t) /\ h \o s \in Seq(S)
      <4> HIDE DEF so, bad
      <4>1. (h \o s) \o t = h \o (s \o t)
        BY <3>4, ConcatAssociative
      <4>2. h \o s \in Seq(S)
        BY <3>4
      <4> QED  BY <4>1, <4>2
    <3> DEFINE k == h \o s
               b == g[i - 1]
    <3>7. b \in Context(S) /\ Holds(b, k) /\ k \in Seq(S)
      BY <3>3, <3>6 DEF s
    <3> HIDE DEF b, k
    <3>8. Update(b, t) \in Context(S) /\ Holds(Update(b, t), k \o t)
      BY <3>4, <3>7, UpdateHolds
    <3>9. g[i] = Update(b, t)
      BY <2>3, <2>5 DEF b, t
    <3>10. so(i) = k \o t
      BY <3>5, <3>6 DEF k
    <3> HIDE DEF so
    <3> QED  BY <2>1, <3>8, <3>9, <3>10
  <2> QED  BY <2>4, <2>5
<1>3. n \in 0 .. n /\ SubSeq(p, 1, n) = p
  BY <1>1, SubSeqFull
<1>4. so(n) = h \o p
  BY <1>3
<1>5. g[n] \in Context(S) /\ Holds(g[n], so(n))
  <2> HIDE DEF so
  <2> QED  BY <1>2, <1>3
<1> QED  BY <1>4, <1>5

\* The blocks after the end are those of the standard.
LEMMA FinalIs ==
  ASSUME NEW S, Octets \subseteq S, NEW c \in Context(S), NEW h \in Seq(S), Holds(c, h), NEW k
  PROVE  Final(c, k) \in Context(S) /\ FlattenSeq(Final(c, k).blocks) = Standard(h, k)
<1> DEFINE p == Padding(c)
           each == CHOOSE g : ByteByByte(g, c, p, Len(p))
           padded == IF k = "md5" THEN Update(c, p) ELSE each[Len(p)]
           e == LengthBytes(c, k)
           u == Update(padded, e)
<1>1. Number(0) \in S /\ Number(128) \in S
  BY DEF Octets
<1>2. PICK z \in 0 .. BlockSize - 1 :
         /\ p = <<Number(128)>> \o Zeros(z)
         /\ (Len(h) + 1 + 2 * WordBytes + z) % BlockSize = 0
  BY <1>1, PaddingIs
<1>3. Final(c, k) = u
  BY DEF Final, ByteByByte
<1>4. BlockSize \in Nat \ {0} /\ WordBytes \in Nat /\ z \in Nat /\ Len(h) \in Nat
      /\ Word \in Nat \ {0}
  BY Sizes
<1> DEFINE one == <<Number(128)>>
           zs == Zeros(z)
<1>5. one \in Seq(S) /\ Len(one) = 1 /\ zs \in Seq(S) /\ Len(zs) = z
  BY <1>1, <1>4, ZerosAre
<1> HIDE DEF one, zs, p
<1>6. p \in Seq(S) /\ Len(p) = 1 + z /\ p = one \o zs
  BY <1>2, <1>4, <1>5 DEF one, zs
<1>7. padded \in Context(S) /\ Holds(padded, h \o p)
  <2>1. Update(c, p) \in Context(S) /\ Holds(Update(c, p), h \o p)
    BY <1>6, UpdateHolds
  <2>2. ByteByByte(each, c, p, Len(p))
    <3>1. Len(p) \in Nat
      BY <1>4, <1>6
    <3> QED  BY <3>1, LoopIs
  <2> HIDE DEF each
  <2>3. each[Len(p)] \in Context(S) /\ Holds(each[Len(p)], h \o p)
    BY <1>6, <2>2, LoopHolds
  <2> QED  BY <2>1, <2>3
<1> HIDE DEF padded
<1> DEFINE std == [low |-> (8 * Len(h)) % Word, high |-> ((8 * Len(h)) \div Word) % Word]
<1>8. /\ e \in Seq(S) /\ Len(e) = 2 * WordBytes /\ e = LengthBytes(std, k)
  <2>1. c.low \in Int /\ c.high \in Int
    BY <1>4 DEF Context
  <2>2. c.low = std.low /\ c.high = std.high
    BY DEF Holds, Counts
  <2> HIDE DEF std
  <2> QED  BY <2>1, <2>2, LengthBytesAre
<1> HIDE DEF e, std
<1> DEFINE f == h \o p
           all == f \o e
<1>9. f \in Seq(S) /\ Len(f) = Len(h) + 1 + z
  <2>1. p \in Seq(S) /\ Len(p) = 1 + z
    BY <1>6
  <2>2. f \in Seq(S) /\ Len(f) = Len(h) + Len(p)
    BY <2>1, Joined
  <2> HIDE DEF f
  <2> QED  BY <1>4, <2>1, <2>2
<1>10. all \in Seq(S) /\ Len(all) = Len(h) + 1 + 2 * WordBytes + z
  <2> HIDE DEF f
  <2> QED  BY <1>4, <1>8, <1>9
<1>11. u \in Context(S) /\ Holds(u, all)
  <2> HIDE DEF f
  <2>1. Holds(padded, f)
    BY <1>7 DEF f
  <2> QED  BY <1>7, <1>8, <1>9, <2>1, UpdateHolds
<1> HIDE DEF u, all
<1>12. FlattenSeq(u.blocks) = all
  <2> DEFINE n == Len(u.blocks)
             y == n * BlockSize
  <2>1. FlattenSeq(u.blocks) = SubSeq(all, 1, y) /\ y \in 0 .. Len(all)
    BY <1>10, <1>11, HoldsWhole
  <2>2. Len(all) - y \in 0 .. BlockSize - 1 /\ n \in Nat
    BY <1>11 DEF Holds, Context
  <2> DEFINE r == Len(all) - y
  <2>3. Len(all) = BlockSize * n + r
    <3>1. BlockSize * n = y /\ y \in Int /\ Len(all) \in Int
      <4> HIDE DEF n
      <4> QED  BY <1>4, <1>10, <2>2
    <3> HIDE DEF n, y
    <3> QED  BY <3>1
  <2>4. Len(all) % BlockSize = 0
    BY <1>2, <1>10
  <2>5. r = 0
    <3>1. r \in 0 .. BlockSize - 1 /\ n \in Int
      BY <2>2
    <3> HIDE DEF r, n
    <3>2. (BlockSize * n + r) % BlockSize = r
      BY <1>4, <3>1, DivRemIs
    <3> QED  BY <2>3, <2>4, <3>2
  <2>6. y = Len(all)
    <3> HIDE DEF y
    <3> QED  BY <1>4, <1>10, <2>1, <2>5
  <2>7. SubSeq(all, 1, Len(all)) = all
    BY <1>10, SubSeqFull
  <2> HIDE DEF y
  <2> QED  BY <2>1, <2>6, <2>7
<1>13. Standard(h, k) = all
  <2> DEFINE fits(x) == (Len(h) + 1 + x + Len(e)) % BlockSize = 0
             zeros == CHOOSE x \in 0 .. BlockSize - 1 : fits(x)
  <2>1. Standard(h, k) = h \o one \o [i \in 1 .. zeros |-> Number(0)] \o e
    BY <1>8 DEF Standard, std, one
  <2>2. \A x \in 0 .. BlockSize - 1 : Len(h) + 1 + x + Len(e) = Len(h) + 1 + 2 * WordBytes + x
    BY <1>4, <1>8
  <2>3. fits(z)
    BY <1>2, <2>2
  <2>4. \A x \in 0 .. BlockSize - 1 : fits(x) => x = z
    <3> SUFFICES ASSUME NEW x \in 0 .. BlockSize - 1, fits(x)  PROVE x = z
      OBVIOUS
    <3> DEFINE a == Len(h) + 1 + 2 * WordBytes
    <3>1. a \in Int /\ (a + z) % BlockSize = 0
      BY <1>2, <1>4
    <3>2. (a + x) % BlockSize = 0
      <4>1. Len(h) + 1 + x + Len(e) = a + x
        BY <2>2
      <4> HIDE DEF a
      <4> QED  BY <4>1
    <3> HIDE DEF a, fits
    <3> QED  BY <3>1, <3>2, OneFits
  <2>5. zeros = z
    <3> HIDE DEF fits
    <3> QED  BY <2>3, <2>4
  <2> HIDE DEF zeros
  <2>6. Standard(h, k) = ((h \o one) \o zs) \o e
    BY <2>1, <2>5 DEF zs, Zeros
  <2>7. (h \o one) \o zs = h \o (one \o zs)
    BY <1>5, ConcatAssociative
  <2> QED  BY <1>6, <2>6, <2>7 DEF all
<1> QED  BY <1>3, <1>11, <1>12, <1>13

\* A new context holds nothing.
LEMMA EmptyHolds ==
  ASSUME NEW S, NEW d \in Context(S), d.low = 0, d.high = 0, d.blocks = << >>
  PROVE  Holds(d, << >>)
<1>1. Word \in Nat \ {0} /\ BlockSize \in Nat \ {0}
  BY Sizes
<1>2. 0 % Word = 0 /\ 0 \div Word = 0
  <2>1. 0 \in 0 .. Word - 1 /\ Word * 0 + 0 = 0
    BY <1>1
  <2>2. (Word * 0 + 0) \div Word = 0 /\ (Word * 0 + 0) % Word = 0
    BY <1>1, <2>1, DivRemIs
  <2> QED  BY <2>1, <2>2
<1>3. Counts(d, 0)
  BY <1>2 DEF Counts
<1>4. Len(d.blocks) = 0 /\ 0 * BlockSize = 0
  BY <1>1
<1> QED  BY <1>1, <1>3, <1>4 DEF Holds

LEMMA ResetHolds ==
  ASSUME NEW S, NEW c \in Context(S)
  PROVE  Reset(c) \in Context(S) /\ Holds(Reset(c), << >>)
<1> DEFINE d == Reset(c)
           e == << >>
           o == 0
<1>1. o \in 0 .. Word - 1 /\ e \in Seq(Seq(S))
  BY Sizes
<1>2. d = [c EXCEPT !.low = o, !.high = o, !.blocks = e]
  BY Zenon DEF Reset
<1> HIDE DEF d, e, o
<1>3. d \in Context(S) /\ d.low = o /\ d.high = o /\ d.blocks = e
  BY <1>1, <1>2 DEF Context
<1> QED  BY <1>3, EmptyHolds DEF d, e, o

LEMMA MadeHolds ==
  ASSUME NEW S, Number(0) \in S
  PROVE  Made \in Context(S) /\ Holds(Made, << >>)
<1>1. Word \in Nat \ {0}
  BY Sizes
<1>2. Made \in Context(S) /\ Made.low = 0 /\ Made.high = 0 /\ Made.blocks = << >>
  BY <1>1 DEF Made, Context
<1> QED  BY <1>2, EmptyHolds

\* A digest is made of the blocks of the standard.
LEMMA DigestOfIs ==
  ASSUME NEW S, Octets \subseteq S, NEW data \in Seq(S)
  PROVE  FlattenSeq(DigestOf(data)) = Standard(data, "sha1")
<1> DEFINE c == Reset(Made)
           d == Update(c, data)
<1>1. Number(0) \in S
  BY DEF Octets
<1>2. c \in Context(S) /\ Holds(c, << >>)
  BY <1>1, MadeHolds, ResetHolds
<1> HIDE DEF c
<1>3. << >> \in Seq(S) /\ << >> \o data = data
  BY ConcatEmptySeq
<1>4. d \in Context(S) /\ Holds(d, data)
  <2> DEFINE o == << >>
  <2>1. o \in Seq(S) /\ Holds(c, o) /\ o \o data = data
    BY <1>2, <1>3
  <2> HIDE DEF o
  <2>2. d \in Context(S) /\ Holds(d, o \o data)
    BY <1>2, <2>1, UpdateHolds
  <2> HIDE DEF d
  <2> QED  BY <2>1, <2>2
<1>5. DigestOf(data) = Final(d, "sha1").blocks
  BY DEF DigestOf, c
<1> HIDE DEF d
<1> QED  BY <1>4, <1>5, FinalIs

\* A key is a block when it is stored in front of zeros.
LEMMA KeyIs ==
  ASSUME NEW cut, NEW n \in 0 .. BlockSize, DOMAIN cut = 1 .. n, cut = [i \in 1 .. n |-> cut[i]]
  PROVE  Stored(Made.buffer, 0, cut) = cut \o [i \in 1 .. BlockSize - Len(cut) |-> Number(0)]
<1> DEFINE o == Number(0)
           S == {cut[i] : i \in 1 .. n} \union {o}
           to == Stored(Made.buffer, 0, cut)
           zs == Zeros(BlockSize - n)
           x == cut \o zs
<1>1. BlockSize \in Nat \ {0} /\ n \in Nat /\ BlockSize - n \in Nat
  BY Sizes
<1>2. cut \in Seq(S) /\ Len(cut) = n
  BY <1>1
<1>3. o \in S
  OBVIOUS
<1> HIDE DEF S
<1>4. zs \in Seq(S) /\ Len(zs) = BlockSize - n /\ \A i \in 1 .. BlockSize - n : zs[i] = o
  BY <1>1, <1>3, ZerosAre
<1> HIDE DEF zs
<1>5. Joint(S, cut, zs, x)
  BY <1>2, <1>4, JoinedSo
<1> HIDE DEF x
<1>6. /\ x \in Seq(S) /\ Len(x) = BlockSize
      /\ \A i \in 1 .. n : x[i] = cut[i]
      /\ \A i \in 1 .. BlockSize - n : x[n + i] = o
  BY <1>1, <1>2, <1>4, <1>5 DEF Joint
<1>7. to = [i \in 1 .. BlockSize |-> IF i - 0 \in 1 .. n THEN cut[i - 0] ELSE o]
  BY DEF Stored, Made
<1> HIDE DEF o, to
<1>8. ASSUME NEW i \in 1 .. BlockSize  PROVE to[i] = x[i]
  <2>1. i - 0 = i /\ to[i] = IF i \in 1 .. n THEN cut[i] ELSE o
    BY <1>1, <1>7
  <2>2. CASE i \in 1 .. n
    BY <1>6, <2>1, <2>2
  <2>3. CASE i \notin 1 .. n
    <3>1. i - n \in 1 .. BlockSize - n /\ n + (i - n) = i
      BY <1>1, <2>3
    <3> QED  BY <1>6, <2>1, <2>3, <3>1
  <2> QED  BY <2>2, <2>3
<1>9. x = [i \in 1 .. BlockSize |-> x[i]] /\ to = [i \in 1 .. BlockSize |-> to[i]]
  BY <1>1, <1>6, <1>7
<1>10. to = x
  BY <1>8, <1>9
<1> QED  BY <1>2, <1>10 DEF to, x, zs, Zeros

LEMMA DigestBytesAre ==
  ASSUME NEW data
  PROVE  /\ DOMAIN DigestBytes(data) = 1 .. DigestSize
         /\ DigestBytes(data) = [i \in 1 .. DigestSize |-> DigestBytes(data)[i]]
         /\ Len(DigestBytes(data)) = DigestSize
<1>1. DigestSize \in Nat
  BY Sizes
<1> QED  BY <1>1 DEF DigestBytes

\* What the second digest of an HMAC is of is a sequence.
LEMMA HmacIs ==
  ASSUME NEW S, NEW m \in Seq(S)
  PROVE  LET key == [i \in DOMAIN m |-> <<"k", i>>]
             cut == IF Len(key) > BlockSize THEN DigestBytes(key) ELSE key
             k == cut \o [i \in 1 .. BlockSize - Len(cut) |-> Number(0)]
         IN FlattenSeq(Hmac(key, m)) =
              Standard(Xor(k, 92) \o DigestBytes(Xor(k, 54) \o m), "sha1")
<1> DEFINE key == [i \in DOMAIN m |-> <<"k", i>>]
           cut == IF Len(key) > BlockSize THEN DigestBytes(key) ELSE key
           k == cut \o [i \in 1 .. BlockSize - Len(cut) |-> Number(0)]
           front == Xor(k, 92)
           back == DigestBytes(Xor(k, 54) \o m)
           data == front \o back
<1>1. BlockSize \in Nat \ {0} /\ DigestSize \in 1 .. BlockSize /\ Len(m) \in Nat
  BY Sizes
<1>2. DOMAIN key = 1 .. Len(m) /\ Len(key) = Len(m) /\ key = [i \in 1 .. Len(m) |-> key[i]]
  BY <1>1
<1> HIDE DEF key
<1>3. PICK n \in 0 .. BlockSize : DOMAIN cut = 1 .. n /\ cut = [i \in 1 .. n |-> cut[i]]
  <2>1. CASE Len(key) > BlockSize
    <3>1. DigestSize \in 0 .. BlockSize
      BY <1>1
    <3> QED  BY <2>1, <3>1, DigestBytesAre
  <2>2. CASE ~(Len(key) > BlockSize)
    <3>1. Len(m) \in 0 .. BlockSize
      BY <1>1, <1>2, <2>2
    <3> QED  BY <1>2, <2>2, <3>1
  <2> QED  BY <2>1, <2>2
<1>4. KeyBlock(key) = Stored(Made.buffer, 0, cut)
  BY DEF KeyBlock
<1> HIDE DEF cut
<1>5. KeyBlock(key) = k
  BY <1>3, <1>4, KeyIs
<1>6. DOMAIN k = 1 .. BlockSize
  BY <1>1, <1>4, <1>5 DEF Stored
<1> HIDE DEF k
<1>7. Hmac(key, m) = DigestOf(data)
  BY <1>5 DEF Hmac
<1> DEFINE T == {front[i] : i \in 1 .. BlockSize} \union {back[i] : i \in 1 .. DigestSize} \union Octets
<1>8. DOMAIN front = 1 .. BlockSize /\ front = [i \in 1 .. BlockSize |-> front[i]]
  BY <1>6 DEF Xor
<1>9. DOMAIN back = 1 .. DigestSize /\ back = [i \in 1 .. DigestSize |-> back[i]]
  BY DigestBytesAre
<1> HIDE DEF front, back
<1>10. front \in Seq(T) /\ back \in Seq(T) /\ Octets \subseteq T
  <2>1. /\ \A i \in 1 .. BlockSize : front[i] \in T
        /\ \A i \in 1 .. DigestSize : back[i] \in T
        /\ Octets \subseteq T
    OBVIOUS
  <2> HIDE DEF T
  <2>2. front \in Seq(T)
    BY <1>1, <1>8, <2>1
  <2>3. back \in Seq(T)
    <3>1. DigestSize \in Nat
      BY <1>1
    <3> QED  BY <1>9, <2>1, <3>1
  <2> QED  BY <2>1, <2>2, <2>3
<1> HIDE DEF T
<1>11. data \in Seq(T)
  BY <1>10
<1> HIDE DEF data
<1>12. FlattenSeq(DigestOf(data)) = Standard(data, "sha1")
  BY <1>10, <1>11, DigestOfIs
<1> QED  BY <1>7, <1>12, Zenon DEF data, front, back, k, cut, key

\* A byte of a message, or one that comes behind it.
MessageByte == {<<"m", i>> : i \in Nat} \union Octets

\* Until the end the context holds the message, and then the blocks of the
\* standard.
DigestInv ==
    /\ ctx \in Context(MessageByte) /\ hashed \in Seq(MessageByte)
    /\ IF final THEN FlattenSeq(ctx.blocks) = Standard(hashed, kind) ELSE Holds(ctx, hashed)

LEMMA MessageIs ==
  ASSUME NEW a \in Nat, NEW n \in Nat
  PROVE  Message(a, n) \in Seq(MessageByte)
<1>1. \A i \in Nat : <<"m", i>> \in MessageByte
  BY DEF MessageByte
<1>2. \A i \in 1 .. n : a + i \in Nat
  OBVIOUS
<1>3. \A i \in 1 .. n : <<"m", a + i>> \in MessageByte
  BY <1>1, <1>2
<1> HIDE DEF MessageByte
<1> DEFINE e(i) == <<"m", a + i>>
<1>4. Message(a, n) = [i \in 1 .. n |-> e(i)] /\ \A i \in 1 .. n : e(i) \in MessageByte
  BY <1>3 DEF Message
<1> HIDE DEF e
<1> QED  BY <1>4

LEMMA DigestInvInit == DigestInit => DigestInv
<1> SUFFICES ASSUME DigestInit  PROVE DigestInv
  OBVIOUS
<1>1. Number(0) \in MessageByte
  BY DEF MessageByte, Octets
<1>2. ctx = Made /\ hashed = << >> /\ final = FALSE
  BY DEF DigestInit
<1>3. ctx \in Context(MessageByte) /\ Holds(ctx, << >>)
  BY <1>1, <1>2, MadeHolds
<1> QED  BY <1>2, <1>3 DEF DigestInv

LEMMA DigestInvStep == DigestInv /\ [DigestNext]_dvars => DigestInv'
<1> SUFFICES ASSUME DigestInv, [DigestNext]_dvars  PROVE DigestInv'
  OBVIOUS
<1>1. ctx \in Context(MessageByte) /\ hashed \in Seq(MessageByte) /\ Len(hashed) \in Nat
  BY DEF DigestInv
<1>2. Octets \subseteq MessageByte
  BY DEF MessageByte
<1>3. ASSUME NEW n \in Pieces, HashIn(n)  PROVE DigestInv'
  <2> DEFINE m == Message(Len(hashed), n)
  <2>1. ~final /\ final' = final /\ ctx' = Update(ctx, m) /\ hashed' = hashed \o m
    BY <1>3 DEF HashIn
  <2>2. m \in Seq(MessageByte)
    BY <1>1, MessageIs, PiecesAssumption
  <2> HIDE DEF m
  <2>3. Holds(ctx, hashed)
    BY <2>1 DEF DigestInv
  <2>4. Update(ctx, m) \in Context(MessageByte) /\ Holds(Update(ctx, m), hashed \o m)
    BY <1>1, <2>2, <2>3, UpdateHolds
  <2>5. hashed \o m \in Seq(MessageByte)
    BY <1>1, <2>2
  <2>6. ctx' \in Context(MessageByte) /\ hashed' \in Seq(MessageByte) /\ Holds(ctx', hashed') /\ ~final'
    BY <2>1, <2>4, <2>5
  <2>7. Context(MessageByte)' = Context(MessageByte) /\ MessageByte' = MessageByte
    BY DEF Context, MessageByte, Octets, Octet, Number, Word
  <2>8. Holds(ctx, hashed)' = Holds(ctx', hashed')
    BY DEF Holds, Counts, Word
  <2> QED  BY <2>6, <2>7, <2>8 DEF DigestInv
<1>4. ASSUME FinishDigest  PROVE DigestInv'
  <2>1. ~final /\ final' = TRUE /\ ctx' = Final(ctx, kind) /\ hashed' = hashed /\ kind' = kind
    BY <1>4 DEF FinishDigest
  <2>2. Holds(ctx, hashed)
    BY <2>1 DEF DigestInv
  <2>3. Final(ctx, kind) \in Context(MessageByte)
        /\ FlattenSeq(Final(ctx, kind).blocks) = Standard(hashed, kind)
    BY <1>1, <1>2, <2>2, FinalIs
  <2>4. /\ ctx' \in Context(MessageByte) /\ hashed' \in Seq(MessageByte) /\ final'
        /\ FlattenSeq(ctx'.blocks) = Standard(hashed', kind')
    BY <1>1, <2>1, <2>3
  <2> QED  BY <2>4 DEF DigestInv
<1>5. ASSUME Restart  PROVE DigestInv'
  <2>1. ctx' = Reset(ctx) /\ hashed' = << >> /\ ~final'
    BY <1>5 DEF Restart
  <2>2. ctx' \in Context(MessageByte) /\ Holds(ctx', << >>)
    BY <1>1, <2>1, ResetHolds
  <2>3. ctx' \in Context(MessageByte) /\ hashed' \in Seq(MessageByte) /\ ~final' /\ Holds(ctx', hashed')
    BY <2>1, <2>2
  <2> QED  BY <2>3 DEF DigestInv
<1>6. CASE UNCHANGED dvars
  BY <1>6 DEF dvars, DigestInv
<1> QED  BY <1>3, <1>4, <1>5, <1>6 DEF DigestNext

LEMMA DigestInvExact == DigestInv => DigestExact
<1> SUFFICES ASSUME DigestInv  PROVE DigestExact
  OBVIOUS
<1>1. ctx \in Context(MessageByte) /\ hashed \in Seq(MessageByte)
  BY DEF DigestInv
<1>2. BlocksExact
  <2> DEFINE whole == FlattenSeq(ctx.blocks)
             n == Len(ctx.blocks)
             x == n * BlockSize
             r == Len(hashed) - x
  <2>1. CASE final
    BY <2>1 DEF DigestInv, BlocksExact
  <2>2. CASE ~final
    <3>1. Holds(ctx, hashed)
      BY <2>2 DEF DigestInv
    <3>2. whole = SubSeq(hashed, 1, x) /\ x \in 0 .. Len(hashed)
      BY <1>1, <3>1, HoldsWhole
    <3>3. /\ r \in 0 .. BlockSize - 1
          /\ \A j \in 1 .. r : ctx.buffer[j] = hashed[x + j]
      BY <3>1 DEF Holds
    <3>4. BlockSize \in Nat /\ ctx.buffer \in [1 .. BlockSize -> MessageByte] /\ Len(hashed) \in Nat
      BY <1>1, Sizes DEF Context
    <3> DEFINE s == SubSeq(ctx.buffer, 1, r)
    <3> HIDE DEF x, whole
    <3>5. whole \in Seq(MessageByte) /\ Len(whole) = x /\ \A j \in 1 .. x : whole[j] = hashed[j]
      BY <1>1, <3>2, <3>4
    <3>6. Len(hashed) = x + r /\ x \in Nat
      BY <3>2, <3>4
    <3> HIDE DEF r
    <3>7. s \in Seq(MessageByte) /\ Len(s) = r /\ \A j \in 1 .. r : s[j] = ctx.buffer[j]
      BY <3>3, <3>4
    <3> HIDE DEF s
    <3> DEFINE all == whole \o s
    <3>8. Joint(MessageByte, whole, s, all)
      BY <3>5, <3>7, JoinedSo
    <3> HIDE DEF all
    <3>9. all \in Seq(MessageByte) /\ Len(all) = x + r
          /\ (\A j \in 1 .. x : all[j] = whole[j]) /\ \A j \in 1 .. r : all[x + j] = s[j]
      BY <3>5, <3>7, <3>8 DEF Joint
    <3>10. ASSUME NEW j \in 1 .. x + r  PROVE all[j] = hashed[j]
      <4>1. CASE j \in 1 .. x
        BY <3>5, <3>9, <4>1
      <4>2. CASE j \notin 1 .. x
        <5>1. j - x \in 1 .. r /\ x + (j - x) = j
          BY <3>3, <3>6, <4>2
        <5> QED  BY <3>3, <3>7, <3>9, <5>1
      <4> QED  BY <4>1, <4>2
    <3>11. all = hashed
      BY <1>1, <3>6, <3>9, <3>10
    <3>12. Len(hashed) - Len(whole) = r
      BY <3>3, <3>5, <3>6
    <3> QED  BY <2>2, <3>3, <3>11, <3>12, Zenon DEF BlocksExact, all, s, whole
  <2> QED  BY <2>1, <2>2
<1>3. HmacExact
  BY <1>1, HmacIs, Zenon DEF HmacExact
<1> QED  BY <1>2, <1>3 DEF DigestExact

\* However CSHA1::Update and md5_append are called, the blocks given to the block
\* function are those of the standard after Final and its beginning before, for
\* all sizes of blocks, words and messages, and CHMAC_SHA1 puts two such digests
\* together as RFC 2104 says.
THEOREM DigestIsExact == DigestSpec => []DigestExact
<1>1. DigestInit => DigestInv
  BY DigestInvInit
<1>2. DigestInv /\ [DigestNext]_dvars => DigestInv'
  BY DigestInvStep
<1>3. DigestInv => DigestExact
  BY DigestInvExact
<1> QED  BY <1>1, <1>2, <1>3, PTL DEF DigestSpec

-----------------------------------------------------------------------------
(* string.cpp: trim.                                                       *)

\* The places of the characters that are not white space.
Dark(s) == {i \in 1 .. Len(s) : ~IsWhitespace(s[i])}

\* A zero is not white space: it ends a string and is not trimmed.
LEMMA ZeroIsDark == ~IsWhitespace("0")
  BY Zenon DEF IsWhitespace

\* The greatest of the places of a sequence.
LEMMA GreatestOf ==
  ASSUME NEW n \in Nat, NEW I, I \subseteq 1 .. n, I # {}
  PROVE  Max(I) \in I /\ \A i \in I : i <= Max(I)
<1> DEFINE J == {n - i : i \in I}
<1>0. \A i \in I : i \in 1 .. n
  OBVIOUS
<1>1. J \subseteq Nat /\ J # {}
  <2>1. \A i \in I : n - i \in Nat
    BY <1>0
  <2> QED  BY <2>1
<1>2. PICK j \in J : \A k \in J : j <= k
  <2> HIDE DEF J
  <2> QED  BY <1>1, LeastOf
<1>3. PICK m \in I : j = n - m
  OBVIOUS
<1>4. \A i \in I : m >= i
  <2> SUFFICES ASSUME NEW i \in I  PROVE m >= i
    OBVIOUS
  <2>1. n - i \in J
    OBVIOUS
  <2> HIDE DEF J
  <2>2. j <= n - i
    BY <1>2, <2>1
  <2> QED  BY <1>3, <2>2
<1>5. Max(I) \in I /\ \A i \in I : Max(I) >= i
  BY <1>3, <1>4, Zenon DEF Max
<1>6. Max(I) \in Int /\ \A i \in I : i \in Int
  <2>1. \A i \in I : i \in Int
    BY <1>0
  <2> QED  BY <1>5, <2>1, Zenon
<1> QED  BY <1>5, <1>6

LEMMA FirstOf ==
  ASSUME NEW I, I \subseteq Nat, I # {}
  PROVE  Min(I) \in I /\ \A i \in I : Min(I) <= i
<1>1. PICK m \in I : \A i \in I : m <= i
  BY LeastOf
<1> QED  BY <1>1, Zenon DEF Min

\* Of n characters, the first m are not zeros, and zeros follow them.
ZerosAfter(array, m, n) ==
    /\ n \in Nat /\ m \in 0 .. n /\ array = [j \in 1 .. n |-> array[j]]
    /\ (\A j \in 1 .. m : array[j] # "0") /\ \A j \in m + 1 .. n : array[j] = "0"

\* What is before the first zero of a sequence that is t and then zeros.
LEMMA TextIs ==
  ASSUME NEW n, NEW m, NEW array, ZerosAfter(array, m, n)
  PROVE  Text(array) = [j \in 1 .. m |-> array[j]]
<1> DEFINE I == {i \in 1 .. Len(array) : array[i] = "0"}
           zero == SelectInSeq(array, LAMBDA c : c = "0")
<1>0. /\ n \in Nat /\ m \in 0 .. n /\ array = [j \in 1 .. n |-> array[j]]
      /\ (\A j \in 1 .. m : array[j] # "0") /\ \A j \in m + 1 .. n : array[j] = "0"
  BY DEF ZerosAfter
<1>1. Len(array) = n
  BY <1>0
<1>2. zero = IF I # {} THEN Min(I) ELSE 0
  BY DEF SelectInSeq
<1>3. Text(array) = IF zero = 0 THEN array ELSE SubSeq(array, 1, zero - 1)
  BY DEF Text
<1>4. I = m + 1 .. n
  <2>1. \A i \in 1 .. n : array[i] = "0" <=> i \in m + 1 .. n
    <3>1. \A i \in 1 .. n : i \in 1 .. m \/ i \in m + 1 .. n
      BY <1>0
    <3>2. \A i \in 1 .. m : i \notin m + 1 .. n
      BY <1>0
    <3> QED  BY <1>0, <3>1, <3>2, Zenon
  <2>2. \A i \in m + 1 .. n : i \in 1 .. n
    BY <1>0
  <2> QED  BY <1>1, <2>1, <2>2, Zenon
<1> HIDE DEF I, zero
<1>5. CASE m = n
  <2>1. I = {}
    <3>1. \A i \in m + 1 .. n : FALSE
      BY <1>0, <1>5
    <3> QED  BY <1>4, <3>1, Zenon
  <2>2. [j \in 1 .. m |-> array[j]] = array
    BY <1>0, <1>5, Zenon
  <2> QED  BY <1>2, <1>3, <2>1, <2>2
<1>6. CASE m # n
  <2>1. m + 1 \in I /\ I \subseteq Nat
    BY <1>0, <1>4, <1>6
  <2>2. Min(I) \in I /\ Min(I) <= m + 1
    BY <2>1, FirstOf
  <2>3. zero = m + 1
    BY <1>0, <1>2, <1>4, <2>1, <2>2
  <2>4. Text(array) = SubSeq(array, 1, m)
    <3>1. zero # 0 /\ zero - 1 = m
      BY <1>0, <2>3
    <3> QED  BY <1>3, <3>1, Zenon
  <2>5. SubSeq(array, 1, m) = [j \in 1 .. m |-> array[j]]
    <3>1. SubSeq(array, 1, m) = [j \in 1 .. m - 1 + 1 |-> array[1 + j - 1]]
      BY <1>0, <1>1
    <3> QED  BY <1>0, <3>1
  <2> QED  BY <2>4, <2>5
<1> QED  BY <1>5, <1>6

\* Trim of a text that is not all white space: what is from the first dark
\* character to the last.
LEMMA TrimIs ==
  ASSUME NEW C, "0" \notin C, NEW s \in Seq(C), Dark(s) # {}
  PROVE  Trim(s) = [j \in 1 .. Max(Dark(s)) - Min(Dark(s)) + 1 |-> s[Min(Dark(s)) - 1 + j]]
<1> DEFINE L == Len(s)
           I == Dark(s)
           start == Min(I)
           last == Max(I)
           t == EndTrimmed(s)
<1>1. L \in Nat /\ I \subseteq 1 .. L /\ I \subseteq Nat /\ I # {}
  BY DEF Dark
<1>2. start \in I /\ last \in I /\ \A i \in I : start <= i /\ i <= last
  BY <1>1, FirstOf, GreatestOf
<1>3. start \in 1 .. L /\ last \in start .. L
  BY <1>1, <1>2
<1>4. SelectLastInSeq(s, LAMBDA c : ~IsWhitespace(c)) = last
  BY <1>1 DEF SelectLastInSeq, Dark
<1>5. t.array = [i \in 1 .. L |-> IF i <= last THEN s[i] ELSE "0"] /\ t.length = last
  <2>1. last # 0 /\ DOMAIN s = 1 .. L
    BY <1>3
  <2> DEFINE cut == [i \in DOMAIN s |-> IF i <= last THEN s[i] ELSE "0"]
  <2>2. t = [array |-> cut, length |-> IF last = 0 THEN L ELSE last]
    BY <1>4, Zenon DEF EndTrimmed
  <2>3. cut = [i \in 1 .. L |-> IF i <= last THEN s[i] ELSE "0"]
    BY <2>1, Zenon
  <2> HIDE DEF cut, t, last
  <2>4. t.array = cut /\ t.length = last
    BY <2>1, <2>2
  <2> QED  BY <2>3, <2>4, Zenon DEF last
<1> DEFINE A == t.array
           D == {i \in 1 .. Len(A) : ~IsWhitespace(A[i])}
<1> HIDE DEF t, I, start, last
<1>6. Len(A) = L /\ \A i \in 1 .. L : A[i] = IF i <= last THEN s[i] ELSE "0"
  BY <1>1, <1>5
<1> HIDE DEF A
<1>7. start \in D /\ D \subseteq Nat
  BY <1>2, <1>3, <1>6 DEF I, Dark
<1>8. \A i \in D : start <= i
  <2> SUFFICES ASSUME NEW i \in D  PROVE start <= i
    OBVIOUS
  <2>1. i \in 1 .. L /\ ~IsWhitespace(A[i])
    BY <1>6
  <2>2. CASE i <= last
    <3>1. i \in I
      BY <1>6, <2>1, <2>2 DEF I, Dark
    <3> QED  BY <1>2, <3>1
  <2>3. CASE ~(i <= last)
    BY <1>3, <2>1, <2>3
  <2> QED  BY <2>2, <2>3
<1>9. SelectInSeq(A, LAMBDA c : ~IsWhitespace(c)) = start
  <2>1. SelectInSeq(A, LAMBDA c : ~IsWhitespace(c)) = IF D # {} THEN Min(D) ELSE 0
    BY DEF SelectInSeq
  <2> HIDE DEF D
  <2>2. Min(D) \in D /\ Min(D) <= start
    BY <1>7, FirstOf
  <2>3. Min(D) = start
    <3>1. Min(D) \in Nat /\ start <= Min(D)
      BY <1>7, <1>8, <2>2, Zenon
    <3> QED  BY <1>3, <2>2, <3>1
  <2> QED  BY <1>7, <2>1, <2>3
<1> DEFINE k == start - 1
           M == [j \in 1 .. t.length |-> IF j + k <= t.length THEN t.array[j + k] ELSE "0"]
<1>10. Trim(s) = Text(M)
  <2>1. Trim(s) = MovedDown(t, k)
    BY <1>9, Zenon DEF Trim, TrimInplace, t, A, k
  <2> QED  BY <2>1 DEF MovedDown
<1>11. /\ M = [j \in 1 .. last |-> M[j]]
       /\ \A j \in 1 .. last : M[j] = IF j + k <= last THEN s[j + k] ELSE "0"
  <2>1. k \in Nat /\ last \in Nat /\ last <= L
    BY <1>3
  <2>2. M = [j \in 1 .. last |-> IF j + k <= last THEN A[j + k] ELSE "0"]
    BY <1>5, Zenon DEF A
  <2> HIDE DEF M, k
  <2>3. ASSUME NEW j \in 1 .. last, j + k <= last  PROVE A[j + k] = s[j + k]
    BY <1>6, <2>1, <2>3
  <2> QED  BY <2>2, <2>3
<1>12. ASSUME NEW i \in 1 .. L  PROVE s[i] # "0"
  <2>1. s[i] \in C
    BY ElementOfSeq
  <2> QED  BY <2>1
<1> DEFINE n == last - start + 1
<1>13. n \in 0 .. last /\ k \in Nat /\ last \in Nat /\ n + k = last /\ last <= L
  BY <1>3
<1> HIDE DEF n, k, M
<1>14. (\A j \in 1 .. n : M[j] = s[k + j] /\ M[j] # "0") /\ \A j \in n + 1 .. last : M[j] = "0"
  <2>1. ASSUME NEW j \in 1 .. n  PROVE M[j] = s[k + j] /\ M[j] # "0"
    <3>1. j \in 1 .. last /\ j + k <= last /\ j + k \in 1 .. L /\ j + k = k + j
      BY <1>1, <1>13
    <3> QED  BY <1>11, <1>12, <3>1
  <2>2. ASSUME NEW j \in n + 1 .. last  PROVE M[j] = "0"
    <3>1. j \in 1 .. last /\ ~(j + k <= last)
      BY <1>13
    <3> QED  BY <1>11, <3>1
  <2> QED  BY <2>1, <2>2
<1>15. Text(M) = [j \in 1 .. n |-> M[j]]
  <2>1. n \in 0 .. last /\ last \in Nat
    BY <1>13
  <2>2. (\A j \in 1 .. n : M[j] # "0") /\ \A j \in n + 1 .. last : M[j] = "0"
    BY <1>14
  <2>3. M = [j \in 1 .. last |-> M[j]]
    BY <1>11
  <2>4. ZerosAfter(M, n, last)
    BY <2>1, <2>2, <2>3, Zenon DEF ZerosAfter
  <2> QED  BY <2>4, TextIs
<1>16. [j \in 1 .. n |-> M[j]] = [j \in 1 .. n |-> s[k + j]]
  BY <1>14
<1> QED  BY <1>10, <1>15, <1>16 DEF n, k, start, last, I

\* Of nothing but white space, trim leaves nothing.
LEMMA TrimEmpty ==
  ASSUME NEW C, NEW s \in Seq(C), Dark(s) = {}
  PROVE  Trim(s) = << >>
<1> DEFINE L == Len(s)
           t == EndTrimmed(s)
<1>1. SelectLastInSeq(s, LAMBDA c : ~IsWhitespace(c)) = 0
  BY DEF SelectLastInSeq, Dark
<1>2. L \in Nat /\ t.array = [i \in 1 .. L |-> "0"] /\ t.length = L
  <2> DEFINE cut == [i \in DOMAIN s |-> IF i <= 0 THEN s[i] ELSE "0"]
  <2>1. t = [array |-> cut, length |-> IF 0 = 0 THEN L ELSE 0]
    BY <1>1, Zenon DEF EndTrimmed
  <2>2. DOMAIN s = 1 .. L /\ L \in Nat /\ \A i \in 1 .. L : ~(i <= 0)
    OBVIOUS
  <2>3. cut = [i \in 1 .. L |-> "0"]
    <3>1. \A i \in 1 .. L : cut[i] = "0"
      BY <2>2
    <3>2. cut = [i \in 1 .. L |-> cut[i]]
      BY <2>2
    <3> HIDE DEF cut
    <3> QED  BY <3>1, <3>2
  <2> HIDE DEF cut, t, L
  <2>4. t.array = cut /\ t.length = L
    BY <2>1
  <2> QED  BY <2>2, <2>3, <2>4, Zenon
<1> HIDE DEF t, L
<1> DEFINE k == SelectInSeq(t.array, LAMBDA c : ~IsWhitespace(c)) - 1
           M == [j \in 1 .. t.length |-> IF j + k <= t.length THEN t.array[j + k] ELSE "0"]
<1>3. Trim(s) = Text(M)
  <2>1. Trim(s) = MovedDown(t, k)
    BY Zenon DEF Trim, TrimInplace, t, k
  <2> QED  BY <2>1 DEF MovedDown
<1>4. L > 0 => k = 0
  <2>1. CASE L > 0
    <3> DEFINE D == {i \in 1 .. Len(t.array) : ~IsWhitespace(t.array[i])}
    <3>1. D = 1 .. L
      BY <1>2, ZeroIsDark
    <3>2. SelectInSeq(t.array, LAMBDA c : ~IsWhitespace(c)) = IF D # {} THEN Min(D) ELSE 0
      BY DEF SelectInSeq
    <3> HIDE DEF D
    <3>3. 1 \in D /\ D \subseteq Nat
      BY <1>2, <2>1, <3>1
    <3>4. Min(D) \in D /\ Min(D) <= 1
      BY <3>3, FirstOf
    <3>5. Min(D) = 1
      BY <1>2, <3>1, <3>4
    <3> QED  BY <3>2, <3>3, <3>5
  <2> QED  BY <2>1
<1> HIDE DEF k
<1>5. M = [j \in 1 .. L |-> M[j]] /\ \A j \in 1 .. L : M[j] = "0"
  <2>1. M = [j \in 1 .. L |-> IF j + k <= L THEN t.array[j + k] ELSE "0"]
    BY <1>2
  <2> HIDE DEF M
  <2>2. ASSUME NEW j \in 1 .. L  PROVE M[j] = "0"
    BY <1>2, <1>4, <2>1
  <2> QED  BY <2>1, <2>2
<1> HIDE DEF M
<1>6. Text(M) = [j \in 1 .. 0 |-> M[j]]
  <2>1. ZerosAfter(M, 0, L)
    BY <1>2, <1>5 DEF ZerosAfter
  <2> QED  BY <2>1, TextIs
<1> QED  BY <1>3, <1>6

\* Of every text without a zero, trim removes the white space around it and
\* nothing else.
THEOREM TrimIsExact ==
  ASSUME NEW C, "0" \notin C
  PROVE  \A s \in Seq(C) : TrimExact(s)
<1> SUFFICES ASSUME NEW s \in Seq(C)  PROVE TrimExact(s)
  OBVIOUS
<1> DEFINE L == Len(s)
           I == Dark(s)
           t == Trim(s)
<1>1. L \in Nat /\ I \subseteq 1 .. L /\ I \subseteq Nat
  BY DEF Dark
<1>2. CASE I = {}
  <2>1. t = << >>
    BY <1>2, TrimEmpty
  <2>2. \A j \in 1 .. L : IsWhitespace(s[j])
    BY <1>2 DEF Dark
  <2> HIDE DEF t
  <2>3. Len(t) = 0 /\ 0 \in 0 .. L - Len(t) /\ t = SubSeq(s, 0 + 1, 0 + Len(t))
        /\ (1 .. 0) \union (0 + Len(t) + 1 .. L) \subseteq 1 .. L
    BY <1>1, <2>1
  <2> QED  BY <2>1, <2>2, <2>3, Zenon DEF TrimExact, t, L
<1>3. CASE I # {}
  <2> DEFINE start == Min(I)
             last == Max(I)
             i == start - 1
             n == last - start + 1
  <2>1. start \in I /\ last \in I /\ \A j \in I : start <= j /\ j <= last
    BY <1>1, <1>3, FirstOf, GreatestOf
  <2>2. t = [j \in 1 .. n |-> s[i + j]]
    BY <1>3, TrimIs
  <2> HIDE DEF t, I, start, last
  <2>3. start \in 1 .. L /\ last \in start .. L
    <3>1. start \in 1 .. L /\ last \in 1 .. L /\ start <= last
      BY <1>1, <2>1, Zenon
    <3> QED  BY <1>1, <3>1
  <2>4. n \in 1 .. L /\ i \in 0 .. L - n /\ i + n = last /\ i + 1 = start
    BY <1>1, <2>3
  <2> HIDE DEF n, i
  <2>5. Len(t) = n /\ \A j \in 1 .. n : t[j] = s[i + j]
    BY <2>2, <2>4
  <2>6. t = SubSeq(s, i + 1, i + n)
    <3>1. SubSeq(s, i + 1, i + n) = [j \in 1 .. (i + n) - (i + 1) + 1 |-> s[i + 1 + j - 1]]
      BY <1>1, <2>4
    <3>2. (i + n) - (i + 1) + 1 = n /\ \A j \in 1 .. n : i + 1 + j - 1 = i + j
      BY <2>4
    <3> QED  BY <2>2, <3>1, <3>2
  <2>7. \A j \in (1 .. i) \union (i + n + 1 .. L) : IsWhitespace(s[j])
    <3> SUFFICES ASSUME NEW j \in (1 .. i) \union (i + n + 1 .. L)  PROVE IsWhitespace(s[j])
      OBVIOUS
    <3>1. j \in 1 .. L /\ ~(start <= j /\ j <= last)
      BY <1>1, <2>3, <2>4
    <3> QED  BY <2>1, <3>1 DEF I, Dark
  <2>8. ~IsWhitespace(Head(t)) /\ ~IsWhitespace(Last(t))
    <3>1. Head(t) = t[1] /\ Last(t) = t[n] /\ 1 \in 1 .. n /\ n \in 1 .. n
      BY <2>4, <2>5 DEF Last
    <3>2. Head(t) = s[start] /\ Last(t) = s[last]
      BY <2>4, <2>5, <3>1
    <3> QED  BY <2>1, <3>2 DEF I, Dark
  <2> QED  BY <2>4, <2>5, <2>6, <2>7, <2>8, Zenon DEF TrimExact, t, L
<1> QED  BY <1>2, <1>3

-----------------------------------------------------------------------------
(* base64.cpp.                                                             *)

\* p is the part of s of n elements from a on.
IsPart(S, p, s, a, n) ==
    p \in Seq(S) /\ Len(p) = n /\ \A j \in 1 .. n : p[j] = s[a + j - 1]

LEMMA PartsAre ==
  ASSUME NEW S, NEW s \in Seq(S), NEW a \in 1 .. Len(s), NEW b \in a .. Len(s)
  PROVE  IsPart(S, SubSeq(s, a, b), s, a, b - a + 1)
<1>1. a \in Int /\ b \in Int /\ a <= b
  OBVIOUS
<1>2. ASSUME NEW i \in a .. b  PROVE s[i] \in S
  <2>1. i \in 1 .. Len(s)
    OBVIOUS
  <2> QED  BY <2>1, ElementOfSeq
<1>3. /\ SubSeq(s, a, b) \in Seq(S) /\ Len(SubSeq(s, a, b)) = b - a + 1
      /\ \A i \in 1 .. b - a + 1 : SubSeq(s, a, b)[i] = s[a + i - 1]
  BY <1>1, <1>2, SubSeqProperties
<1> QED  BY <1>3, Zenon DEF IsPart

\* The pieces of whole, of B elements each, are h.
Tiles(S, whole, h, B) ==
    /\ whole \in Seq(Seq(S)) /\ h \in Seq(S) /\ Len(h) = Len(whole) * B
    /\ \A b \in 1 .. Len(whole) :
          Len(whole[b]) = B /\ \A j \in 1 .. B : whole[b][j] = h[(b - 1) * B + j]

LEMMA TilesFlatten ==
  ASSUME NEW S, NEW whole, NEW h, NEW B \in Nat \ {0}, Tiles(S, whole, h, B)
  PROVE  FlattenSeq(whole) = h
<1>1. whole \in Seq(Seq(S)) /\ h \in Seq(S) /\ Len(h) = Len(whole) * B
  BY DEF Tiles
<1>2. \A b \in 1 .. Len(whole) :
          Len(whole[b]) = B /\ \A j \in 1 .. B : whole[b][j] = h[(b - 1) * B + j]
  BY DEF Tiles
<1>3. Len(whole) * B <= Len(h)
  <2>1. Len(h) \in Nat
    BY <1>1
  <2> QED  BY <1>1, <2>1
<1>4. FlattenSeq(whole) = SubSeq(h, 1, Len(whole) * B)
  BY <1>1, <1>2, <1>3, FlattenPieces
<1>5. SubSeq(h, 1, Len(h)) = h
  BY <1>1
<1> QED  BY <1>1, <1>4, <1>5

\* A sequence of at most three bytes.
ShortPiece(in, len) == len \in 1 .. 3 /\ in \in Seq(0 .. 255) /\ Len(in) = len

\* The bytes of a piece, filled with zeros.
Filled(in, len) == [i \in 1 .. 3 |-> IF i <= len THEN in[i] ELSE 0]

\* A number of two parts, divided.
LEMMA Parts ==
  ASSUME NEW hi \in Nat
  PROVE  /\ \A lo \in 0 .. 3 : (hi * 4 + lo) \div 4 = hi /\ (hi * 4 + lo) % 4 = lo
         /\ \A lo \in 0 .. 15 : (hi * 16 + lo) \div 16 = hi /\ (hi * 16 + lo) % 16 = lo
  OBVIOUS

\* d holds the digits of a block, and x its bytes.
HoldsCode(d, e) == d \in Seq(0 .. 64) /\ Len(d) = 4 /\ \A j \in 1 .. 4 : d[j] = e[j]
HoldsBytes(x, f) == x \in Seq(0 .. 255) /\ Len(x) = 3 /\ \A j \in 1 .. 3 : x[j] = f[j]

\* Four digits of a block; their decoding gives the three bytes again.
LEMMA BlockIsExact ==
  ASSUME NEW in, NEW len, ShortPiece(in, len)
  PROVE  /\ HoldsCode(EncodeBlock(in, len), EncodeBlock(in, len))
         /\ \A d : HoldsCode(d, EncodeBlock(in, len)) => HoldsBytes(DecodeBlock(d), Filled(in, len))
<1> DEFINE b == Filled(in, len)
           x == b[1]
           y == b[2]
           z == b[3]
           e == EncodeBlock(in, len)
<1>1. /\ len \in 1 .. 3 /\ x \in 0 .. 255 /\ y \in 0 .. 255 /\ z \in 0 .. 255
      /\ (len < 3 => z = 0) /\ (len < 2 => y = 0)
  <2>1. /\ x = (IF 1 <= len THEN in[1] ELSE 0) /\ y = (IF 2 <= len THEN in[2] ELSE 0)
        /\ z = (IF 3 <= len THEN in[3] ELSE 0)
    BY DEF Filled
  <2>2. len \in 1 .. 3 /\ \A i \in 1 .. len : in[i] \in 0 .. 255
    <3>1. len \in 1 .. 3 /\ in \in Seq(0 .. 255) /\ Len(in) = len
      BY DEF ShortPiece
    <3>2. ASSUME NEW i \in 1 .. len  PROVE in[i] \in 0 .. 255
      BY <3>1, ElementOfSeq
    <3> QED  BY <3>1, <3>2
  <2> HIDE DEF x, y, z
  <2>3. /\ 1 <= len => in[1] \in 0 .. 255
        /\ 2 <= len => in[2] \in 0 .. 255
        /\ 3 <= len => in[3] \in 0 .. 255
    BY <2>2
  <2> QED  BY <2>1, <2>2, <2>3
<1>2. e = <<x \div 4, (x % 4) * 16 + (y \div 16),
            IF len > 2 THEN (y % 16) * 4 + (z \div 64) ELSE IF len > 1 THEN (y % 16) * 4 ELSE 64,
            IF len > 2 THEN z % 64 ELSE 64>>
  BY DEF EncodeBlock, Filled
<1> HIDE DEF b, e
<1> HIDE DEF x, y, z
<1>3. /\ x \div 4 \in 0 .. 63 /\ x % 4 \in 0 .. 3 /\ y \div 16 \in 0 .. 15 /\ y % 16 \in 0 .. 15
      /\ z \div 64 \in 0 .. 3 /\ z % 64 \in 0 .. 63
      /\ x = 4 * (x \div 4) + (x % 4) /\ y = 16 * (y \div 16) + (y % 16) /\ z = 64 * (z \div 64) + (z % 64)
  BY <1>1
<1>4. e[1] = x \div 4 /\ e[2] = (x % 4) * 16 + (y \div 16)
      /\ e[3] = (IF len > 2 THEN (y % 16) * 4 + (z \div 64) ELSE IF len > 1 THEN (y % 16) * 4 ELSE 64)
      /\ e[4] = (IF len > 2 THEN z % 64 ELSE 64)
  BY <1>2
<1>5. e[1] \in 0 .. 63 /\ e[2] \in 0 .. 63 /\ e[3] \in 0 .. 64 /\ e[4] \in 0 .. 64
  BY <1>1, <1>3, <1>4
<1>6. e \in Seq(0 .. 64) /\ Len(e) = 4
  BY <1>2, <1>4, <1>5
<1>7. ASSUME NEW d, HoldsCode(d, e)
      PROVE  HoldsBytes(DecodeBlock(d), b)
  <2> DEFINE v1 == DecodeValue(d[1])
             v2 == DecodeValue(d[2])
             v3 == DecodeValue(d[3])
             v4 == DecodeValue(d[4])
             xh == x \div 4
             xl == x % 4
             yh == y \div 16
             yl == y % 16
             zh == z \div 64
             zl == z % 64
  <2>1. d[1] = e[1] /\ d[2] = e[2] /\ d[3] = e[3] /\ d[4] = e[4]
    BY <1>7 DEF HoldsCode
  <2>2. DecodeBlock(d) = <<(v1 * 4 + ((v2 \div 16) % 4)) % 256,
                           (v2 % 16) * 16 + ((v3 \div 4) % 16), (v3 % 4) * 64 + v4>>
    BY DEF DecodeBlock
  <2>3. /\ xh \in 0 .. 63 /\ xl \in 0 .. 3 /\ yh \in 0 .. 15 /\ yl \in 0 .. 15 /\ zh \in 0 .. 3 /\ zl \in 0 .. 63
        /\ x = 4 * xh + xl /\ y = 16 * yh + yl /\ z = 64 * zh + zl
    BY <1>3
  <2>4. /\ e[1] = xh /\ e[2] = xl * 16 + yh
        /\ e[3] = (IF len > 2 THEN yl * 4 + zh ELSE IF len > 1 THEN yl * 4 ELSE 64)
        /\ e[4] = (IF len > 2 THEN zl ELSE 64)
    BY <1>4
  <2> HIDE DEF xh, xl, yh, yl, zh, zl
  <2>5. v1 = xh
    BY <2>1, <2>3, <2>4 DEF DecodeValue
  <2>6. v2 = xl * 16 + yh
    BY <2>1, <2>3, <2>4 DEF DecodeValue
  <2>7. v3 = yl * 4 + zh
    BY <1>1, <2>1, <2>3, <2>4 DEF DecodeValue
  <2>8. v4 = zl
    BY <1>1, <2>1, <2>3, <2>4 DEF DecodeValue
  <2> HIDE DEF v1, v2, v3, v4
  <2>9. v2 \div 16 = xl /\ v2 % 16 = yh /\ v3 \div 4 = yl /\ v3 % 4 = zh
    <3>1. (xl * 16 + yh) \div 16 = xl /\ (xl * 16 + yh) % 16 = yh
      BY <2>3, Parts
    <3>2. (yl * 4 + zh) \div 4 = yl /\ (yl * 4 + zh) % 4 = zh
      BY <2>3, Parts
    <3> QED  BY <2>6, <2>7, <3>1, <3>2
  <2>10. xl % 4 = xl /\ yl % 16 = yl /\ (xh * 4 + xl) % 256 = x
    BY <1>1, <2>3
  <2>11. DecodeBlock(d) = <<(xh * 4 + xl) % 256, yh * 16 + yl, zh * 64 + zl>>
    BY <2>2, <2>5, <2>8, <2>9, <2>10
  <2>12. yh * 16 + yl = y /\ zh * 64 + zl = z
    BY <1>1, <2>3
  <2>13. DecodeBlock(d) = <<x, y, z>>
    BY <2>10, <2>11, <2>12
  <2> QED  BY <1>1, <2>13 DEF HoldsBytes, x, y, z
<1>8. HoldsCode(e, e)
  BY <1>6 DEF HoldsCode
<1> QED  BY <1>7, <1>8 DEF e, b

\* Rounding down to a multiple of three before dividing changes nothing.
LEMMA ThirdsRounded ==
  ASSUME NEW n \in Nat
  PROVE  (n - (n % 3)) \div 3 = n \div 3
<1> DEFINE q == n \div 3
           r == n % 3
<1>1. q \in Nat /\ r \in 0 .. 2 /\ n = 3 * q + r
  OBVIOUS
<1>2. (3 * q) \div 3 = q
  <2> HIDE DEF q
  <2> QED  BY <1>1
<1>3. n - r = 3 * q
  <2> HIDE DEF q, r
  <2> QED  BY <1>1
<1> QED  BY <1>2, <1>3

\* Of a sequence s, what is encoded has the length foretold and decodes to s,
\* filled with zeros to a multiple of three.
THEOREM Base64IsExact == \A s \in Seq(0 .. 255) : Base64Exact(s)
<1> SUFFICES ASSUME NEW s \in Seq(0 .. 255)  PROVE Base64Exact(s)
  OBVIOUS
<1> DEFINE L == Len(s)
           m == (L + 2) \div 3
           piece(b) == SubSeq(s, 3 * b - 2, IF 3 * b <= L THEN 3 * b ELSE L)
           code(b) == EncodeBlock(piece(b), Len(piece(b)))
           codes == [b \in 1 .. m |-> code(b)]
           h == [i \in 1 .. 4 * m |-> code((i - 1) \div 4 + 1)[((i - 1) % 4) + 1]]
           t == s \o [i \in 1 .. (0 - L) % 3 |-> 0]
           e == Encode(s)
<1>1. L \in Nat /\ m \in Nat /\ 3 * m - L \in 0 .. 2 /\ (0 - L) % 3 = 3 * m - L
  OBVIOUS
<1>2. ASSUME NEW b \in 1 .. m
      PROVE  /\ ShortPiece(piece(b), Len(piece(b)))
             /\ \A j \in 1 .. 3 : Filled(piece(b), Len(piece(b)))[j] = IF 3 * b - 3 + j <= L THEN s[3 * b - 3 + j] ELSE 0
  <2> DEFINE from == 3 * b - 2
             to == IF 3 * b <= L THEN 3 * b ELSE L
             p == SubSeq(s, from, to)
  <2>1. from \in 1 .. L /\ to \in from .. L /\ to - from \in 0 .. 2 /\ b \in Nat
        /\ (to < from + 2 => to = L)
    <3> HIDE DEF m
    <3> QED  BY <1>1
  <2>2. from = 3 * b - 3 + 1
    BY <2>1
  <2> HIDE DEF from, to
  <2>3. p \in Seq(0 .. 255) /\ Len(p) = to - from + 1 /\ \A j \in 1 .. to - from + 1 : p[j] = s[from + j - 1]
    <3>1. IsPart(0 .. 255, p, s, from, to - from + 1)
      BY <1>1, <2>1, PartsAre
    <3> QED  BY <3>1 DEF IsPart
  <2> HIDE DEF p, m
  <2>4. ShortPiece(p, Len(p))
    BY <2>1, <2>3 DEF ShortPiece
  <2>5. ASSUME NEW j \in 1 .. 3
        PROVE Filled(p, Len(p))[j] = IF 3 * b - 3 + j <= L THEN s[3 * b - 3 + j] ELSE 0
    <3>1. Filled(p, Len(p))[j] = IF j <= Len(p) THEN p[j] ELSE 0
      BY DEF Filled
    <3>2. from + j - 1 = 3 * b - 3 + j
      BY <2>1, <2>2
    <3>3. j <= Len(p) <=> from + j - 1 <= L
      BY <1>1, <2>1, <2>3
    <3>4. j <= Len(p) => p[j] = s[from + j - 1]
      BY <2>1, <2>3
    <3> QED  BY <3>1, <3>2, <3>3, <3>4
  <2> QED  BY <2>4, <2>5 DEF p, from, to
<1> HIDE DEF piece
<1>3. ASSUME NEW b \in 1 .. m
      PROVE code(b) \in Seq(0 .. 64) /\ Len(code(b)) = 4
  BY <1>2, BlockIsExact DEF HoldsCode
<1>4. e = FlattenSeq(codes)
  <2>1. Pieces3(s) = [b \in 1 .. m |-> piece(b)]
    BY DEF Pieces3, piece
  <2> HIDE DEF m
  <2>2. DOMAIN Pieces3(s) = 1 .. m /\ \A b \in 1 .. m : Pieces3(s)[b] = piece(b)
    BY <2>1
  <2>3. [b \in DOMAIN Pieces3(s) |-> EncodeBlock(Pieces3(s)[b], Len(Pieces3(s)[b]))] = codes
    BY <2>2
  <2> QED  BY <2>3 DEF Encode
<1> HIDE DEF code, e, m
<1>5. codes \in Seq(Seq(0 .. 64)) /\ Len(codes) = m /\ \A b \in 1 .. m : codes[b] = code(b)
  BY <1>1, <1>3
<1>6. h \in Seq(0 .. 64) /\ Len(h) = 4 * m
  <2>1. ASSUME NEW i \in 1 .. 4 * m
        PROVE  h[i] \in 0 .. 64
    <3> DEFINE p == (i - 1) \div 4 + 1
               r == ((i - 1) % 4) + 1
    <3>1. p \in 1 .. m /\ r \in 1 .. 4
      BY <1>1
    <3>2. h[i] = code(p)[r]
      OBVIOUS
    <3> HIDE DEF p, r
    <3>3. code(p) \in Seq(0 .. 64) /\ Len(code(p)) = 4
      BY <1>3, <3>1
    <3> HIDE DEF h
    <3>4. code(p)[r] \in 0 .. 64
      BY <3>1, <3>3, ElementOfSeq
    <3> QED  BY <3>2, <3>4
  <2>2. 4 * m \in Nat
    BY <1>1
  <2>3. h = [i \in 1 .. 4 * m |-> h[i]]
    OBVIOUS
  <2> DEFINE n == 4 * m
  <2> HIDE DEF h, n
  <2>4. n \in Nat /\ h = [i \in 1 .. n |-> h[i]] /\ \A i \in 1 .. n : h[i] \in 0 .. 64
    BY <2>1, <2>2, <2>3 DEF n
  <2>5. h \in Seq(0 .. 64) /\ Len(h) = n
    <3>1. h \in [1 .. n -> 0 .. 64]
      BY <2>4, Zenon
    <3> QED  BY <2>4, <3>1
  <2> QED  BY <2>5 DEF n
<1>7. ASSUME NEW b \in 1 .. m, NEW j \in 1 .. 4
      PROVE  h[(b - 1) * 4 + j] = code(b)[j]
  <2> DEFINE i == (b - 1) * 4 + j
  <2>1. i \in 1 .. 4 * m /\ (i - 1) \div 4 + 1 = b /\ ((i - 1) % 4) + 1 = j
    BY <1>1
  <2> HIDE DEF i
  <2>2. h[i] = code((i - 1) \div 4 + 1)[((i - 1) % 4) + 1]
    BY <2>1
  <2> QED  BY <2>1, <2>2 DEF i
<1> HIDE DEF h, codes
<1>8. e = h
  <2>1. Tiles(0 .. 64, codes, h, 4)
    <3>1. /\ codes \in Seq(Seq(0 .. 64)) /\ Len(codes) = m
          /\ h \in Seq(0 .. 64) /\ Len(h) = Len(codes) * 4
      BY <1>1, <1>5, <1>6
    <3>2. ASSUME NEW b \in 1 .. Len(codes)
          PROVE  Len(codes[b]) = 4 /\ \A j \in 1 .. 4 : codes[b][j] = h[(b - 1) * 4 + j]
      <4>1. b \in 1 .. m /\ codes[b] = code(b)
        BY <1>5, <3>1
      <4>2. Len(code(b)) = 4
        BY <1>3, <4>1
      <4>3. \A j \in 1 .. 4 : h[(b - 1) * 4 + j] = code(b)[j]
        BY <1>7, <4>1
      <4> QED  BY <4>1, <4>2, <4>3
    <3> QED  BY <3>1, <3>2 DEF Tiles
  <2>2. 4 \in Nat \ {0}
    OBVIOUS
  <2> QED  BY <1>4, <2>1, <2>2, TilesFlatten
<1>9. h \in Seq(0 .. 64) /\ Len(h) = 4 * m
  BY <1>6
<1> DEFINE blocks == [b \in 1 .. m |-> DecodeBlock(SubSeq(h, 4 * b - 3, 4 * b))]
<1>11. t \in Seq(0 .. 255) /\ Len(t) = 3 * m
       /\ \A i \in 1 .. 3 * m : t[i] = IF i <= L THEN s[i] ELSE 0
  <2> DEFINE zeros == [i \in 1 .. (0 - L) % 3 |-> 0]
  <2>1. zeros \in Seq(0 .. 255) /\ Len(zeros) = 3 * m - L /\ \A i \in 1 .. 3 * m - L : zeros[i] = 0
    BY <1>1
  <2> HIDE DEF zeros
  <2>2. Joint(0 .. 255, s, zeros, s \o zeros)
    BY <2>1, JoinedSo
  <2> DEFINE u == s \o zeros
  <2>3. u \in Seq(0 .. 255) /\ Len(u) = 3 * m /\ (\A i \in 1 .. L : u[i] = s[i])
        /\ \A i \in 1 .. 3 * m - L : u[L + i] = zeros[i]
    BY <1>1, <2>1, <2>2 DEF Joint
  <2> HIDE DEF u
  <2>4. ASSUME NEW i \in 1 .. 3 * m  PROVE u[i] = IF i <= L THEN s[i] ELSE 0
    <3>1. CASE i <= L
      <4>1. i \in 1 .. L
        BY <1>1, <3>1
      <4> QED  BY <2>3, <3>1, <4>1
    <3>2. CASE ~(i <= L)
      <4>1. i - L \in 1 .. 3 * m - L /\ L + (i - L) = i
        BY <1>1, <3>2
      <4> QED  BY <2>1, <2>3, <3>2, <4>1
    <3> QED  BY <3>1, <3>2
  <2> QED  BY <2>3, <2>4 DEF u, zeros
<1>10. ASSUME NEW b \in 1 .. m
       PROVE  /\ blocks[b] \in Seq(0 .. 255) /\ Len(blocks[b]) = 3
              /\ \A j \in 1 .. 3 : blocks[b][j] = t[(b - 1) * 3 + j]
  <2> DEFINE d == SubSeq(h, 4 * b - 3, 4 * b)
             p == piece(b)
  <2>1. d \in Seq(0 .. 64) /\ Len(d) = 4 /\ \A j \in 1 .. 4 : d[j] = h[4 * b - 3 + j - 1]
    <3>1. 4 * b - 3 \in 1 .. Len(h) /\ 4 * b \in 4 * b - 3 .. Len(h) /\ 4 * b - (4 * b - 3) + 1 = 4
      BY <1>1, <1>9
    <3>2. IsPart(0 .. 64, d, h, 4 * b - 3, 4)
      BY <1>9, <3>1, PartsAre
    <3> HIDE DEF d, h
    <3> QED  BY <3>2 DEF IsPart
  <2>2. \A j \in 1 .. 4 : d[j] = EncodeBlock(p, Len(p))[j]
    <3>1. ASSUME NEW j \in 1 .. 4  PROVE 4 * b - 3 + j - 1 = (b - 1) * 4 + j
      BY <1>1
    <3> QED  BY <1>7, <2>1, <3>1 DEF code
  <2>3. blocks[b] = DecodeBlock(d)
    OBVIOUS
  <2> HIDE DEF d, blocks, p, t
  <2>4. ShortPiece(p, Len(p))
    BY <1>2 DEF p
  <2>5. DecodeBlock(d) \in Seq(0 .. 255) /\ Len(DecodeBlock(d)) = 3
        /\ \A j \in 1 .. 3 : DecodeBlock(d)[j] = Filled(p, Len(p))[j]
    <3>1. HoldsCode(d, EncodeBlock(p, Len(p)))
      BY <2>1, <2>2 DEF HoldsCode
    <3> QED  BY <2>4, <3>1, BlockIsExact DEF HoldsBytes
  <2>6. ASSUME NEW j \in 1 .. 3  PROVE Filled(p, Len(p))[j] = t[(b - 1) * 3 + j]
    <3> DEFINE i == 3 * b - 3 + j
    <3>1. Filled(p, Len(p))[j] = IF i <= L THEN s[i] ELSE 0
      BY <1>2 DEF p
    <3>2. i = (b - 1) * 3 + j /\ i \in 1 .. 3 * m
      BY <1>1
    <3> HIDE DEF i, L
    <3>3. t[i] = IF i <= L THEN s[i] ELSE 0
      BY <1>11, <3>2
    <3> QED  BY <3>1, <3>2, <3>3
  <2> QED  BY <2>3, <2>5, <2>6
<1>12. Decode(h) = FlattenSeq(blocks)
  <2>1. (4 * m) \div 4 = m
    BY <1>1
  <2> QED  BY <1>9, <2>1 DEF Decode
<1>13. FlattenSeq(blocks) = t
  <2>1. blocks \in Seq(Seq(0 .. 255)) /\ Len(blocks) = m
    BY <1>1, <1>10
  <2> HIDE DEF blocks
  <2> HIDE DEF t
  <2>2. Tiles(0 .. 255, blocks, t, 3)
    <3>1. /\ blocks \in Seq(Seq(0 .. 255)) /\ Len(blocks) = m
          /\ t \in Seq(0 .. 255) /\ Len(t) = Len(blocks) * 3
      BY <1>1, <1>11, <2>1
    <3>2. ASSUME NEW b \in 1 .. Len(blocks)
          PROVE  Len(blocks[b]) = 3 /\ \A j \in 1 .. 3 : blocks[b][j] = t[(b - 1) * 3 + j]
      <4>1. b \in 1 .. m
        BY <3>1
      <4> QED  BY <1>10, <4>1
    <3> QED  BY <3>1, <3>2 DEF Tiles
  <2>3. 3 \in Nat \ {0}
    OBVIOUS
  <2> QED  BY <2>2, <2>3, TilesFlatten
<1>14. 4 * m = EncodedLength(L)
  <2>1. (L + 2 - ((L + 2) % 3)) \div 3 = (L + 2) \div 3
    <3>1. L + 2 \in Nat
      BY <1>1
    <3> QED  BY <3>1, ThirdsRounded
  <2>2. EncodedLength(L) = ((L + 2) \div 3) * 4
    BY <2>1 DEF EncodedLength
  <2> QED  BY <1>1, <2>2 DEF m
<1> HIDE DEF blocks, t
<1>15. Len(e) = EncodedLength(L) /\ Decode(e) = t
  BY <1>8, <1>9, <1>12, <1>13, <1>14
<1> QED  BY <1>15 DEF Base64Exact, e, t

-----------------------------------------------------------------------------
(* _math.cpp, and the conversion of code points.                           *)

\* int_to_byte and byte_to_int are inverse on every int of 32 bits.
THEOREM IntsAreExact == \A i \in Int : -2147483648 <= i /\ i <= 2147483647 => IntExact(i)
<1> SUFFICES ASSUME NEW i \in Int, -2147483648 <= i, i <= 2147483647
             PROVE  IntExact(i)
  OBVIOUS
<1> DEFINE b == IntToBytes(i)
           p == i \div 256
           q == p \div 256
           r == q \div 256
<1>1. /\ b[1] = (i \div 16777216) % 256 /\ b[2] = (i \div 65536) % 256
      /\ b[3] = (i \div 256) % 256 /\ b[4] = i % 256
  <2>1. 256 ^ (4 - 1) = 16777216 /\ 256 ^ (4 - 2) = 65536 /\ 256 ^ (4 - 3) = 256 /\ 256 ^ (4 - 4) = 1
    OBVIOUS
  <2>2. /\ b[1] = (i \div (256 ^ (4 - 1))) % 256 /\ b[2] = (i \div (256 ^ (4 - 2))) % 256
        /\ b[3] = (i \div (256 ^ (4 - 3))) % 256 /\ b[4] = (i \div (256 ^ (4 - 4))) % 256
    BY DEF IntToBytes
  <2> QED  BY <2>1, <2>2
<1> HIDE DEF b
<1>2. i \div 65536 = q /\ i \div 16777216 = r
  OBVIOUS
<1>3. /\ i = 256 * p + (i % 256) /\ p = 256 * q + (p % 256) /\ q = 256 * r + (q % 256)
      /\ p \in Int /\ q \in Int /\ r \in -128 .. 127
  OBVIOUS
<1>4. BytesToInt(b) = (IF b[1] < 128 THEN b[1] ELSE b[1] - 256) * 16777216 + b[2] * 65536 + b[3] * 256 + b[4]
  <2>1. 256 ^ 3 = 16777216 /\ 256 ^ 2 = 65536
    OBVIOUS
  <2> QED  BY <2>1 DEF BytesToInt
<1>5. (IF b[1] < 128 THEN b[1] ELSE b[1] - 256) = r
  <2>1. r % 256 = IF r < 0 THEN r + 256 ELSE r
    BY <1>3
  <2> HIDE DEF r
  <2> QED  BY <1>1, <1>2, <1>3, <2>1
<1> HIDE DEF p, q, r
<1>6. BytesToInt(b) = i
  BY <1>1, <1>2, <1>3, <1>4, <1>5 DEF p
<1> QED  BY <1>6 DEF IntExact, b

\* Of every code point, ConvertUTF32ToUTF8 writes as many bytes as the parser's table
\* gives for the first of them.
THEOREM CodePointsAreFramed == \A u \in Nat : Framed(u)
<1> SUFFICES ASSUME NEW u \in Nat, u <= 1114111
             PROVE  ByteTable(Utf8(u)[1]) = Len(Utf8(u))
  BY DEF Framed
<1> DEFINE n == Utf8Length(u)
           t == Utf8(u)
<1>1. n \in 1 .. 4
  BY DEF Utf8Length
<1>2. Len(t) = n /\ t[1] = (u \div (64 ^ (n - 1))) + FirstByteMark[n]
  <2>1. t = [i \in 1 .. n |-> IF i = 1 THEN (u \div (64 ^ (n - 1))) + FirstByteMark[n]
                              ELSE 128 + ((u \div (64 ^ (n - i))) % 64)]
    BY DEF Utf8
  <2> HIDE DEF n, t
  <2> QED  BY <1>1, <2>1
<1>3. 64 ^ (1 - 1) = 1 /\ 64 ^ (2 - 1) = 64 /\ 64 ^ (3 - 1) = 4096 /\ 64 ^ (4 - 1) = 262144
  OBVIOUS
<1>4. /\ FirstByteMark[1] = 0 /\ FirstByteMark[2] = 192 /\ FirstByteMark[3] = 224 /\ FirstByteMark[4] = 240
  BY DEF FirstByteMark
<1>5. /\ u < 128 => n = 1
      /\ u >= 128 /\ u < 2048 => n = 2
      /\ u >= 2048 /\ u < 65536 => n = 3
      /\ u >= 65536 => n = 4
  BY DEF Utf8Length
<1> HIDE DEF n, t
<1>6. CASE u < 128
  BY <1>2, <1>3, <1>4, <1>5, <1>6 DEF ByteTable, t
<1>7. CASE u >= 128 /\ u < 2048
  <2>1. u \div 64 \in 2 .. 31
    BY <1>7
  <2>2. t[1] \in 194 .. 223
    BY <1>2, <1>3, <1>4, <1>5, <1>7, <2>1
  <2> QED  BY <1>2, <1>5, <1>7, <2>2 DEF ByteTable, t
<1>8. CASE u >= 2048 /\ u < 65536
  <2>1. u \div 4096 \in 0 .. 15
    BY <1>8
  <2>2. t[1] \in 224 .. 239
    BY <1>2, <1>3, <1>4, <1>5, <1>8, <2>1
  <2> QED  BY <1>2, <1>5, <1>8, <2>2 DEF ByteTable, t
<1>9. CASE u >= 65536
  <2>1. u \div 262144 \in 0 .. 4
    BY <1>9
  <2>2. t[1] \in 240 .. 244
    BY <1>2, <1>3, <1>4, <1>5, <1>9, <2>1
  <2> QED  BY <1>2, <1>5, <1>9, <2>2 DEF ByteTable, t
<1> QED  BY <1>6, <1>7, <1>8, <1>9

=============================================================================
