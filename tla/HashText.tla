------------------------------ MODULE HashText ------------------------------
(***************************************************************************)
(* The signatures of rows: PostgresHashtextextended, the port of           *)
(* PostgreSQL's hashtextextended, in the arithmetic of uint32, and the     *)
(* two readings of its 64 bits, signed for a source row and unsigned for a *)
(* target row.  A scan lets the database hash the text of a row, a change  *)
(* is hashed by the port: a single bit between the two makes every changed *)
(* row an error.                                                           *)
(*                                                                         *)
(* TLC's integers have 32 bits with a sign, so a uint32 is a pair of       *)
(* halves, the high one first, and 64 bits are a pair of uint32.  A text   *)
(* is the sequence of its bytes.                                           *)
(***************************************************************************)
EXTENDS Integers, Sequences, SequencesExt

CONSTANTS
  Bytes,     \* the bytes a text may be extended by
  Seeds,     \* the seeds, each of 64 bits
  Vectors    \* what PostgreSQL answered: <<text, seed>> to the 64 bits of the hash

Half == 65536
HalfWord == 0 .. Half - 1
Word == HalfWord \X HalfWord
Byte == 0 .. 255
Zero == <<0, 0>>
One == <<0, 1>>

ASSUME BytesAssumption == Bytes \subseteq Byte
ASSUME SeedsAssumption == Seeds \subseteq Word \X Word
ASSUME VectorsAssumption == Vectors # <<>>

VARIABLES text, seed
vars == <<text, seed>>

-----------------------------------------------------------------------------
(* uint32                                                                  *)

Uint32(n) == <<n \div Half, n % Half>>

Add(x, y) ==
  LET low == x[2] + y[2] IN <<(x[1] + y[1] + low \div Half) % Half, low % Half>>

Sub(x, y) ==
  LET low == x[2] - y[2] IN <<(x[1] - y[1] + low \div Half) % Half, low % Half>>

\* Bit by bit: p is the value of a bit, or of the lowest of four.
XorBit(m, n, p) == p * ((m \div p + n \div p) % 2)
XorNibble(m, n, p) ==
  XorBit(m, n, p) + XorBit(m, n, 2 * p) + XorBit(m, n, 4 * p) + XorBit(m, n, 8 * p)
XorHalves(m, n) ==
  XorNibble(m, n, 1) + XorNibble(m, n, 16) + XorNibble(m, n, 256) + XorNibble(m, n, 4096)

XorWords(x, y) == <<XorHalves(x[1], y[1]), XorHalves(x[2], y[2])>>

rotl32(x, k) ==
  LET n == k % 16
      turned(h, l) == (h * 2^n + l \div 2^(16 - n)) % Half
      halves == <<turned(x[1], x[2]), turned(x[2], x[1])>>
  IN IF k < 16 THEN halves ELSE <<halves[2], halves[1]>>

-----------------------------------------------------------------------------
(* The registers are named in turn: what was a is b's in the next round.   *)

MixRound(r, k) ==
  <<r[2], Add(r[3], r[2]), XorWords(Sub(r[1], r[3]), rotl32(r[3], k))>>

mix(r) ==
  MixRound(MixRound(MixRound(MixRound(MixRound(MixRound(r, 4), 6), 8), 16), 19), 4)

FinalRound(r, k) == <<r[2], r[3], Sub(XorWords(r[1], r[3]), rotl32(r[3], k))>>

\* Starts with c and ends, after seven rounds, with <<a, b, c>>.
RoundsOf(r, k1, k2, k3, k4, k5, k6, k7) ==
  FinalRound(FinalRound(FinalRound(FinalRound(FinalRound(FinalRound(FinalRound(
    <<r[3], r[1], r[2]>>, k1), k2), k3), k4), k5), k6), k7)

\* Mutant: two rotations change places.
finalSwapped(r) == RoundsOf(r, 14, 11, 25, 16, 14, 4, 24)

final(r) == RoundsOf(r, 14, 11, 25, 16, 4, 14, 24)

-----------------------------------------------------------------------------
(* PostgresHashtextextended                                                *)

Golden == <<40503, 31161>>   \* 0x9e3779b9

Seeded(length, s) ==
  LET start == Add(Add(Golden, Uint32(length)), Uint32(3923095))
  IN IF s = <<Zero, Zero>> THEN <<start, start, start>>
     ELSE mix(<<Add(start, s[1]), Add(start, s[2]), start>>)

\* binary.LittleEndian.Uint32 of the bytes after the first p.
WordAt(k, p) == <<k[p + 4] * 256 + k[p + 3], k[p + 2] * 256 + k[p + 1]>>

\* The twelve bytes after the first p, a word to each register.
Absorb(r, k, p) ==
  <<Add(r[1], WordAt(k, p)), Add(r[2], WordAt(k, p + 4)), Add(r[3], WordAt(k, p + 8))>>

\* Mutant: a full last chunk is left to the switch.
ChunksBefore12(length) == IF length = 0 THEN 0 ELSE (length - 1) \div 12

Chunks(length) == length \div 12

\* The registers after the loop, and after each of its rounds.
AfterChunks(k, s) ==
  LET after[n \in 0 .. Chunks(Len(k))] ==
        IF n = 0 THEN Seeded(Len(k), s) ELSE mix(Absorb(after[n - 1], k, 12 * (n - 1)))
  IN after[Chunks(Len(k))]

\* The switch: the register and the shift, in bytes, of byte i of the tail.
\* "the lowest byte of c is reserved for the length".
TailRegister(i) == IF i <= 4 THEN 1 ELSE IF i <= 8 THEN 2 ELSE 3
TailShift(i) == IF i <= 8 THEN (i - 1) % 4 ELSE i - 8

ShiftedByte(byte, shift) ==
  IF shift >= 2 THEN <<byte * 256^(shift - 2), 0>> ELSE <<0, byte * 256^shift>>

\* The case of byte i.
AddByte(r, tail, i) ==
  [r EXCEPT ![TailRegister(i)] = Add(@, ShiftedByte(tail[i], TailShift(i)))]

\* From the case of the last byte the switch falls through to that of the first.
AddTail(r, tail) ==
  LET after[n \in 0 .. Len(tail)] ==
        IF n = 0 THEN r ELSE AddByte(after[n - 1], tail, Len(tail) + 1 - n)
  IN after[Len(tail)]

\* Its 64 bits: b, then c.
PostgresHashtextextended(k, s) ==
  LET n == Chunks(Len(k))
      r == final(AddTail(AfterChunks(k, s), SubSeq(k, 12 * n + 1, Len(k))))
  IN <<r[2], r[3]>>

-----------------------------------------------------------------------------
(* Signatures are numbers, a sign and a magnitude of 64 bits.              *)

Negated(bits) ==
  <<Sub(Sub(Zero, bits[1]), IF bits[2] = Zero THEN Zero ELSE One), Sub(Zero, bits[2])>>

AsInt64(bits) ==
  IF bits[1][1] >= 32768
  THEN [negative |-> TRUE, magnitude |-> Negated(bits)]
  ELSE [negative |-> FALSE, magnitude |-> bits]

AsUint64(bits) == [negative |-> FALSE, magnitude |-> bits]

\* Uint64Hash(uint64(...)): the signature of a change's target row.
TargetHash(k, s) == AsUint64(PostgresHashtextextended(k, s))

\* Mutant: the hash as the database gives it.
ScannedSigned(h) == h

\* CASE WHEN h < 0 THEN h::numeric + 18446744073709551616 ELSE h::numeric END:
\* 2^64 minus the magnitude, which is not zero.  The signature of a scan of
\* PostgreSQL as the target.
ScannedTargetHash(h) ==
  IF h.negative THEN AsUint64(Negated(h.magnitude)) ELSE h

-----------------------------------------------------------------------------
(* PostgreSQL's side: hash_bytes_extended reads a text as blocks of three  *)
(* words.  The last block, which may be empty, is filled with zeros, and   *)
(* one byte of it is left out for the length.                              *)

Block(k, i) == SubSeq(k, 12 * i - 11, 12 * i)

LastBlock(k) ==
  LET byte(i) == IF i <= Len(k) % 12 THEN k[12 * (Len(k) \div 12) + i] ELSE 0
  IN [i \in 1 .. 12 |-> IF i <= 8 THEN byte(i) ELSE IF i = 9 THEN 0 ELSE byte(i - 1)]

HashBytesExtended(k, s) ==
  LET mixed[i \in 0 .. Len(k) \div 12] ==
        IF i = 0 THEN Seeded(Len(k), s) ELSE mix(Absorb(mixed[i - 1], Block(k, i), 0))
      r == final(Absorb(mixed[Len(k) \div 12], LastBlock(k), 0))
  IN <<r[2], r[3]>>

-----------------------------------------------------------------------------
(* Texts grow along those whose hash is known, and leave them by any byte. *)

Known == {v[1] : v \in DOMAIN Vectors}

Init == text = <<>> /\ seed \in Seeds

Grow(byte) ==
  /\ \E k \in Known : IsPrefix(text, k)   \* bound
  /\ text' = Append(text, byte)
  /\ UNCHANGED seed

Next == \E byte \in Bytes : Grow(byte)
Spec == Init /\ [][Next]_vars

-----------------------------------------------------------------------------
(* Properties                                                              *)

\* "PostgresHashtextextend mimics the hashtextextended function in
\* PostgreSQL": where the tests quote the database's answer it is the port's.
MatchesDatabase ==
  <<text, seed>> \in DOMAIN Vectors =>
    PostgresHashtextextended(text, seed) = Vectors[<<text, seed>>]

\* The loop over chunks and the falling through cases of the switch absorb a
\* text as padded blocks do, at every length around the ends of blocks and words.
MatchesReference ==
  PostgresHashtextextended(text, seed) = HashBytesExtended(text, seed)

\* "PostgresTarget.Scan applies the same reinterpretation in SQL": a target
\* row has one signature, whether it was scanned or came with a change.
TargetHashesAgree ==
  ScannedTargetHash(AsInt64(HashBytesExtended(text, seed))) = TargetHash(text, seed)

=============================================================================
