------------------------------- MODULE Digest -------------------------------
(***************************************************************************)
(* How CSHA1 and md5 cut a message into blocks, pad it and count its bits, *)
(* and how CHMAC_SHA1 puts two digests together.  The block functions      *)
(* (Transform, md5_process) are not modelled: a digest is the sequence of  *)
(* blocks they were given, and two digests are the same only if these are. *)
(*                                                                         *)
(* A byte is a tuple: <<"m", i>> of the message, <<"k", i>> of a key, a    *)
(* number of the padding, one of a digest, or the exclusive or of two.     *)
(* Sizes are parameters, so that counters overflow on short messages; the  *)
(* code has BlockSize 64, WordBytes 4 and DigestSize 20.                   *)
(***************************************************************************)
EXTENDS Integers, SequencesExt

CONSTANTS BlockSize, WordBytes, DigestSize,
          AppendSize,  \* HMAC_BUF_LEN
          Pieces,      \* the lengths the client hashes in
          MaxMessage   \* bound: the bytes of a message

Word == 256 ^ WordBytes

\* Words are whole blocks of bits.  (That a power of 256 is a number is said
\* because the provers have no exponentiation.)
ASSUME SizesAssumption ==
    /\ WordBytes \in Nat \ {0} /\ Word \in Nat \ {0}
    /\ BlockSize \in Nat /\ 2 * WordBytes < BlockSize
    /\ Word % (8 * BlockSize) = 0 /\ DigestSize \in 1 .. BlockSize

ASSUME PiecesAssumption == Pieces \subseteq Nat

VARIABLES kind,    \* "sha1" or "md5"
          ctx,     \* the context: count (two words), buffer, the blocks processed
          hashed,  \* history: the bytes of the message
          final    \* the digest is made

dvars == <<kind, ctx, hashed, final>>

Number(n)      == <<"n", n>>
Message(from, n) == [i \in 1 .. n |-> <<"m", from + i>>]

\* Reset, md5_init: the buffer keeps what it has.
Reset(c) == [c EXCEPT !.low = 0, !.high = 0, !.blocks = << >>]

Made == [low |-> 0, high |-> 0, blocks |-> << >>, buffer |-> [i \in 1 .. BlockSize |-> Number(0)]]

\* memcpy(&buffer[at], data, Len(data)).
Stored(buffer, at, data) ==
    [i \in 1 .. BlockSize |-> IF i - at \in DOMAIN data THEN data[i - at] ELSE buffer[i]]

\* The counters after n more bytes: len << 3 in a word, its carry, len >> 29.
Counted(c, n) ==
    LET bits == (8 * n) % Word
        low == (c.low + bits) % Word
    IN [c EXCEPT !.low = low,
                 !.high = (@ + (IF low < bits THEN 1 ELSE 0) + (n \div (Word \div 8))) % Word]

\* Mutant of Full: a block that is just full waits.
FullLate(offset, n) == offset + n > BlockSize

Full(offset, n) == offset + n >= BlockSize   \* j + len > 63

\* The blocks of data from its i-th byte on, and what is left.
Blocks(data, i) == [b \in 1 .. (Len(data) - i) \div BlockSize |->
                        SubSeq(data, i + (b - 1) * BlockSize + 1, i + b * BlockSize)]
Rest(data, i) == SubSeq(data, Len(data) - ((Len(data) - i) % BlockSize) + 1, Len(data))

\* CSHA1::Update and md5_append: fill the buffer and process it, process whole
\* blocks where they lie, keep the rest.  (md5_append does nothing of no bytes and
\* does not fill an empty buffer with a whole block; what the buffer holds behind
\* the offset is never read.)
Update(c, data) ==
    LET offset == (c.low \div 8) % BlockSize
        d == Counted(c, Len(data))
        fill == BlockSize - offset
        filled == Stored(c.buffer, offset, SubSeq(data, 1, fill))
    IN IF Full(offset, Len(data))
       THEN [d EXCEPT !.blocks = (@ \o <<filled>>) \o Blocks(data, fill),
                      !.buffer = Stored(filled, 0, Rest(data, fill))]
       ELSE [d EXCEPT !.buffer = Stored(@, offset, data)]

\* The bytes of a word, the first the most or the least significant.
Digits(w, big) ==
    [i \in 1 .. WordBytes |-> Number((w \div (256 ^ (IF big THEN WordBytes - i ELSE i - 1))) % 256)]

LengthBytes(c, k) == IF k = "sha1" THEN Digits(c.high, TRUE) \o Digits(c.low, TRUE)
                                   ELSE Digits(c.low, FALSE) \o Digits(c.high, FALSE)

\* Final: 0x80, then zeros one by one until the length fits; md5_finish: the
\* same in one piece.
Padding(c) ==
    LET at == (c.low \div 8) % BlockSize
        n == ((BlockSize - 2 * WordBytes - 1 - at) % BlockSize) + 1
    IN [i \in 1 .. n |-> Number(IF i = 1 THEN 128 ELSE 0)]

Final(c, k) ==
    LET p == Padding(c)
        each[i \in 0 .. Len(p)] == IF i = 0 THEN c ELSE Update(each[i - 1], <<p[i]>>)
        padded == IF k = "md5" THEN Update(c, p) ELSE each[Len(p)]
    IN Update(padded, LengthBytes(c, k))

-----------------------------------------------------------------------------
(* CHMAC_SHA1.                                                             *)

DigestOf(data) == Final(Update(Reset(Made), data), "sha1").blocks

DigestBytes(data) == [i \in 1 .. DigestSize |-> <<"h", i, DigestOf(data)>>]

\* SHA1_Key: the key, or its digest, and zeros.
KeyBlock(key) ==
    Stored(Made.buffer, 0, IF Len(key) > BlockSize THEN DigestBytes(key) ELSE key)

Xor(bytes, pad) == [i \in DOMAIN bytes |-> <<"x", bytes[i], pad>>]

\* AppendBuf1 holds the padded key and the text: no check that it does.
HmacFits(textLen) == BlockSize + textLen <= AppendSize

Hmac(key, text) ==
    DigestOf(Xor(KeyBlock(key), 92) \o DigestBytes(Xor(KeyBlock(key), 54) \o text))

-----------------------------------------------------------------------------
DigestInit ==
    /\ kind \in {"sha1", "md5"} /\ ctx = Made /\ hashed = << >> /\ final = FALSE

HashIn(n) ==
    /\ ~final /\ Len(hashed) + n <= MaxMessage
    /\ ctx' = Update(ctx, Message(Len(hashed), n))
    /\ hashed' = hashed \o Message(Len(hashed), n)
    /\ UNCHANGED <<kind, final>>

FinishDigest ==
    /\ ~final
    /\ ctx' = Final(ctx, kind) /\ final' = TRUE
    /\ UNCHANGED <<kind, hashed>>

\* A new message, with the buffer of the old one.
Restart ==
    /\ final
    /\ ctx' = Reset(ctx) /\ hashed' = << >> /\ final' = FALSE
    /\ UNCHANGED kind

DigestNext == FinishDigest \/ Restart \/ \E n \in Pieces : HashIn(n)

DigestSpec == DigestInit /\ [][DigestNext]_dvars

-----------------------------------------------------------------------------
\* Reference (RFC 1321, RFC 3174): the message, a one bit, the fewest zeros, and
\* its length in bits, as whole blocks.
Standard(data, k) ==
    LET bits == 8 * Len(data)
        end == LengthBytes([low |-> bits % Word, high |-> (bits \div Word) % Word], k)
        zeros == CHOOSE z \in 0 .. BlockSize - 1 :
                    (Len(data) + 1 + z + Len(end)) % BlockSize = 0
    IN data \o <<Number(128)>> \o [i \in 1 .. zeros |-> Number(0)] \o end

\* However a message is cut into pieces, the blocks processed are those of the
\* standard, and before the end its beginning.
BlocksExact ==
    LET whole == FlattenSeq(ctx.blocks)
    IN IF final THEN whole = Standard(hashed, kind)
       ELSE /\ Len(hashed) - Len(whole) \in 0 .. BlockSize - 1
            /\ hashed = whole \o SubSeq(ctx.buffer, 1, Len(hashed) - Len(whole))

\* RFC 2104, of the message as the text and as the key, if it fits its buffer.
HmacExact == HmacFits(Len(hashed)) =>
    LET key == [i \in DOMAIN hashed |-> <<"k", i>>]
        cut == IF Len(key) > BlockSize THEN DigestBytes(key) ELSE key
        k == cut \o [i \in 1 .. BlockSize - Len(cut) |-> Number(0)]
    IN FlattenSeq(Hmac(key, hashed)) =
        Standard(Xor(k, 92) \o DigestBytes(Xor(k, 54) \o hashed), "sha1")

\* Both, of every message cut in every way.
DigestExact == BlocksExact /\ HmacExact
=============================================================================
