--------------------------- MODULE HashTextProofs ---------------------------
(***************************************************************************)
(* For texts of every length, of any bytes, and for every seed: the port   *)
(* of hashtextextended absorbs a text as PostgreSQL's padded blocks do,    *)
(* and a target row has one signature, read from a change or from a scan.  *)
(*                                                                         *)
(* The registers are uint32 throughout; the loop over chunks is followed   *)
(* by induction on its rounds, the switch by induction on its cases.       *)
(***************************************************************************)
EXTENDS HashText, SequenceTheorems, WellFoundedInduction, TLAPS

-----------------------------------------------------------------------------
(***************************************************************************)
(* Half words: remainders of division by 2^16.                             *)
(***************************************************************************)
LEMMA HalfIs == Half = 65536 /\ Half \in Int
BY DEF Half

LEMMA InHalfWord ==
  ASSUME NEW n \in Int
  PROVE  n \in HalfWord <=> 0 <= n /\ n <= 65535
BY HalfIs DEF HalfWord

LEMMA HalfWordIsInt == \A n \in HalfWord : n \in Nat /\ n \in Int /\ n < Half
BY HalfIs DEF HalfWord

\* Division with remainder has one answer.
LEMMA Divided ==
  ASSUME NEW n \in Int, NEW q \in Int, NEW r \in HalfWord, n = Half * q + r
  PROVE  n % Half = r /\ n \div Half = q
<1>1. r \in Int /\ 0 <= r /\ r <= 65535
  BY HalfWordIsInt, InHalfWord
<1> QED BY <1>1, HalfIs

LEMMA DividesInt ==
  ASSUME NEW n \in Int
  PROVE  /\ n % Half \in HalfWord
         /\ n % Half \in Int
         /\ n \div Half \in Int
         /\ n = (Half * (n \div Half)) + (n % Half)
<1>1. n % Half \in Int /\ 0 <= n % Half /\ n % Half <= 65535
  BY DEF Half
<1>2. n \div Half \in Int
  BY DEF Half
<1>3. n = (Half * (n \div Half)) + (n % Half)
  BY DEF Half
<1> QED BY <1>1, <1>2, <1>3, InHalfWord

LEMMA HalfWordStays ==
  ASSUME NEW n \in HalfWord
  PROVE  n % Half = n /\ n \div Half = 0
<1>1. n \in Int /\ 0 \in Int
  BY HalfWordIsInt
<1>2. n = Half * 0 + n
  BY <1>1 DEF Half
<1> QED BY ONLY <1>1, <1>2, n \in HalfWord, Divided

\* What is over a half word may be dropped at once or later.
LEMMA CarryFirst ==
  ASSUME NEW n \in Int, NEW m \in Int
  PROVE  /\ ((n % Half) + m) % Half = (n + m) % Half
         /\ ((n % Half) + m) \div Half + (n \div Half) = (n + m) \div Half
<1>1. /\ n % Half \in Int /\ n \div Half \in Int
      /\ n = (Half * (n \div Half)) + (n % Half)
  BY DividesInt, HalfWordIsInt
<1> DEFINE k == (n % Half) + m
<1>2. k \in Int
  BY <1>1
<1>3. k % Half \in HalfWord /\ k \div Half \in Int /\ k = (Half * (k \div Half)) + (k % Half)
  BY <1>2, DividesInt
<1>4. n + m = Half * ((n \div Half) + (k \div Half)) + (k % Half)
  BY <1>1, <1>3 DEF Half
<1> HIDE DEF k
<1>5. (n + m) % Half = k % Half /\ (n + m) \div Half = n \div Half + (k \div Half)
  BY <1>1, <1>2, <1>3, <1>4, Divided
<1> QED BY <1>1, <1>3, <1>5 DEF k

-----------------------------------------------------------------------------
(***************************************************************************)
(* uint32.                                                                 *)
(***************************************************************************)
LEMMA WordHalves ==
  ASSUME NEW x \in Word
  PROVE  x[1] \in HalfWord /\ x[2] \in HalfWord /\ x = <<x[1], x[2]>>
BY DEF Word

LEMMA WordOfHalves ==
  ASSUME NEW h \in HalfWord, NEW l \in HalfWord
  PROVE  <<h, l>> \in Word /\ <<h, l>>[1] = h /\ <<h, l>>[2] = l
BY DEF Word

LEMMA AddIsWord ==
  ASSUME NEW x, NEW y, x[1] \in Int, x[2] \in Int, y[1] \in Int, y[2] \in Int
  PROVE  Add(x, y) \in Word
<1> DEFINE low == x[2] + y[2]
<1>1. low \in Int
  OBVIOUS
<1>2. low \div Half \in Int /\ low % Half \in HalfWord
  BY <1>1, DividesInt
<1>3. (x[1] + y[1] + low \div Half) % Half \in HalfWord
  BY <1>2, x[1] + y[1] + low \div Half \in Int, DividesInt
<1> QED BY <1>2, <1>3, WordOfHalves DEF Add

LEMMA SubIsWord ==
  ASSUME NEW x, NEW y, x[1] \in Int, x[2] \in Int, y[1] \in Int, y[2] \in Int
  PROVE  Sub(x, y) \in Word
<1> DEFINE low == x[2] - y[2]
<1>1. low \in Int
  OBVIOUS
<1>2. low \div Half \in Int /\ low % Half \in HalfWord
  BY <1>1, DividesInt
<1>3. (x[1] - y[1] + low \div Half) % Half \in HalfWord
  BY <1>2, x[1] - y[1] + low \div Half \in Int, DividesInt
<1> QED BY <1>2, <1>3, WordOfHalves DEF Sub

\* The sum of three does not depend on which two are added first.
LEMMA AddThree ==
  ASSUME NEW x \in Word, NEW y \in Word, NEW z,
         z[1] \in Int, z[2] \in Int
  PROVE  Add(Add(x, y), z) =
           <<(x[1] + y[1] + z[1] + (x[2] + y[2] + z[2]) \div Half) % Half,
             (x[2] + y[2] + z[2]) % Half>>
<1>1. x[1] \in Int /\ x[2] \in Int /\ y[1] \in Int /\ y[2] \in Int
  BY WordHalves, HalfWordIsInt
<1> DEFINE low == x[2] + y[2]
           high == x[1] + y[1] + low \div Half
           carry == ((low % Half) + z[2]) \div Half
<1>2. low \in Int /\ low \div Half \in Int /\ low % Half \in Int
  BY <1>1, DividesInt, HalfWordIsInt
<1>3. high \in Int /\ high % Half \in Int
  BY <1>1, <1>2, DividesInt, HalfWordIsInt
<1>4. carry \in Int
  BY <1>2, DividesInt
<1>5. ((low % Half) + z[2]) % Half = (low + z[2]) % Half
  BY <1>2, CarryFirst
<1>6. carry + low \div Half = (low + z[2]) \div Half
  BY <1>2, CarryFirst
<1>7. ((high % Half) + (z[1] + carry)) % Half = (high + (z[1] + carry)) % Half
  <2> HIDE DEF high, carry
  <2>1. z[1] + carry \in Int
    BY <1>4
  <2> QED BY <1>3, <2>1, CarryFirst
<1>8. high + (z[1] + carry) = x[1] + y[1] + z[1] + (low + z[2]) \div Half
  BY <1>1, <1>2, <1>4, <1>6
<1>9. Add(x, y) = <<high % Half, low % Half>>
  BY DEF Add
<1>10. Add(Add(x, y), z) = <<((high % Half) + z[1] + carry) % Half, ((low % Half) + z[2]) % Half>>
  BY <1>9 DEF Add
<1>11. (high % Half) + z[1] + carry = (high % Half) + (z[1] + carry)
  BY <1>3, <1>4
<1> QED BY <1>5, <1>7, <1>8, <1>10, <1>11

LEMMA AddCommutes ==
  ASSUME NEW x, NEW y, x[1] \in Int, x[2] \in Int, y[1] \in Int, y[2] \in Int
  PROVE  Add(x, y) = Add(y, x)
<1>1. x[1] + y[1] = y[1] + x[1] /\ x[2] + y[2] = y[2] + x[2]
  OBVIOUS
<1> QED BY <1>1 DEF Add

LEMMA AddAssociates ==
  ASSUME NEW x \in Word, NEW y \in Word, NEW z \in Word
  PROVE  Add(Add(x, y), z) = Add(x, Add(y, z))
<1>1. /\ x[1] \in Int /\ x[2] \in Int /\ y[1] \in Int /\ y[2] \in Int
      /\ z[1] \in Int /\ z[2] \in Int
  BY WordHalves, HalfWordIsInt
<1>2. Add(y, z) \in Word
  BY <1>1, AddIsWord
<1>3. Add(y, z)[1] \in Int /\ Add(y, z)[2] \in Int
  BY <1>2, WordHalves, HalfWordIsInt
<1>4. Add(x, Add(y, z)) = Add(Add(y, z), x)
  BY <1>1, <1>3, AddCommutes
<1>5. /\ y[1] + z[1] + x[1] = x[1] + y[1] + z[1]
      /\ y[2] + z[2] + x[2] = x[2] + y[2] + z[2]
  BY <1>1
<1>6. Add(Add(x, y), z) =
        <<(x[1] + y[1] + z[1] + (x[2] + y[2] + z[2]) \div Half) % Half,
          (x[2] + y[2] + z[2]) % Half>>
  BY <1>1, AddThree
<1>7. Add(Add(y, z), x) =
        <<(y[1] + z[1] + x[1] + (y[2] + z[2] + x[2]) \div Half) % Half,
          (y[2] + z[2] + x[2]) % Half>>
  BY <1>1, AddThree
<1> QED BY <1>4, <1>5, <1>6, <1>7

LEMMA AddZero ==
  ASSUME NEW x \in Word
  PROVE  Add(x, Zero) = x
<1>1. x[1] \in HalfWord /\ x[2] \in HalfWord /\ x = <<x[1], x[2]>>
  BY WordHalves
<1>2. x[1] \in Int /\ x[2] \in Int
  BY <1>1, HalfWordIsInt
<1>3. x[2] % Half = x[2] /\ x[2] \div Half = 0
  BY <1>1, HalfWordStays
<1>4. x[1] % Half = x[1]
  BY <1>1, HalfWordStays
<1>5. Zero[1] = 0 /\ Zero[2] = 0
  BY DEF Zero
<1>6. Add(x, Zero) = <<(x[1] + 0 + (x[2] + 0) \div Half) % Half, (x[2] + 0) % Half>>
  BY <1>5 DEF Add
<1> QED BY <1>1, <1>2, <1>3, <1>4, <1>6

-----------------------------------------------------------------------------
(***************************************************************************)
(* The registers are words, whatever the rounds.                           *)
(***************************************************************************)
Registers == [1 .. 3 -> Word]

LEMMA RegistersOfWords ==
  ASSUME NEW x \in Word, NEW y \in Word, NEW z \in Word
  PROVE  /\ <<x, y, z>> \in Registers
         /\ <<x, y, z>>[1] = x /\ <<x, y, z>>[2] = y /\ <<x, y, z>>[3] = z
BY DEF Registers

LEMMA WordsOfRegisters ==
  ASSUME NEW r \in Registers
  PROVE  r[1] \in Word /\ r[2] \in Word /\ r[3] \in Word /\ r = <<r[1], r[2], r[3]>>
BY DEF Registers

LEMMA WordInts ==
  ASSUME NEW x \in Word
  PROVE  x[1] \in Int /\ x[2] \in Int
BY WordHalves, HalfWordIsInt

\* A bit of a number is 0 or its value, four are less than sixteen times the lowest.
LEMMA XorNibbleBounds ==
  ASSUME NEW m \in Int, NEW n \in Int, NEW p \in Nat \ {0}
  PROVE  XorNibble(m, n, p) \in Int /\ 0 <= XorNibble(m, n, p) /\ XorNibble(m, n, p) <= 15 * p
<1>1. ASSUME NEW q \in Nat \ {0}
      PROVE  XorBit(m, n, q) \in Int /\ 0 <= XorBit(m, n, q) /\ XorBit(m, n, q) <= q
  <2>1. m \div q \in Int /\ n \div q \in Int
    OBVIOUS
  <2> DEFINE b == (m \div q + n \div q) % 2
  <2>2. b = 0 \/ b = 1
    BY <2>1
  <2>3. XorBit(m, n, q) = q * b
    BY DEF XorBit
  <2> HIDE DEF b
  <2>4. q * 0 = 0 /\ q * 1 = q
    OBVIOUS
  <2> QED BY <2>2, <2>3, <2>4
<1>2. 2 * p \in Nat \ {0} /\ 4 * p \in Nat \ {0} /\ 8 * p \in Nat \ {0}
  OBVIOUS
<1>3. XorBit(m, n, p) \in Int /\ 0 <= XorBit(m, n, p) /\ XorBit(m, n, p) <= p
  BY <1>1
<1>4. XorBit(m, n, 2 * p) \in Int /\ 0 <= XorBit(m, n, 2 * p) /\ XorBit(m, n, 2 * p) <= 2 * p
  BY <1>1, <1>2
<1>5. XorBit(m, n, 4 * p) \in Int /\ 0 <= XorBit(m, n, 4 * p) /\ XorBit(m, n, 4 * p) <= 4 * p
  BY <1>1, <1>2
<1>6. XorBit(m, n, 8 * p) \in Int /\ 0 <= XorBit(m, n, 8 * p) /\ XorBit(m, n, 8 * p) <= 8 * p
  BY <1>1, <1>2
<1> QED BY <1>3, <1>4, <1>5, <1>6 DEF XorNibble

LEMMA XorHalvesIsHalf ==
  ASSUME NEW m \in Int, NEW n \in Int
  PROVE  XorHalves(m, n) \in HalfWord
<1>1. 1 \in Nat \ {0} /\ 16 \in Nat \ {0} /\ 256 \in Nat \ {0} /\ 4096 \in Nat \ {0}
  OBVIOUS
<1>2. XorNibble(m, n, 1) \in Int /\ 0 <= XorNibble(m, n, 1) /\ XorNibble(m, n, 1) <= 15
  BY <1>1, XorNibbleBounds
<1>3. XorNibble(m, n, 16) \in Int /\ 0 <= XorNibble(m, n, 16) /\ XorNibble(m, n, 16) <= 240
  BY <1>1, XorNibbleBounds
<1>4. XorNibble(m, n, 256) \in Int /\ 0 <= XorNibble(m, n, 256) /\ XorNibble(m, n, 256) <= 3840
  BY <1>1, XorNibbleBounds
<1>5. XorNibble(m, n, 4096) \in Int /\ 0 <= XorNibble(m, n, 4096) /\ XorNibble(m, n, 4096) <= 61440
  BY <1>1, XorNibbleBounds
<1>6. XorHalves(m, n) \in Int /\ 0 <= XorHalves(m, n) /\ XorHalves(m, n) <= 65535
  BY <1>2, <1>3, <1>4, <1>5 DEF XorHalves
<1> QED BY <1>6, InHalfWord

LEMMA PowersOfTwo ==
  \A n \in 0 .. 16 : 2^n \in Nat \ {0}
<1> SUFFICES ASSUME NEW n \in 0 .. 16
             PROVE  2^n \in Nat \ {0}
  OBVIOUS
<1>1. n = 0 => 2^n \in Nat \ {0}
  <2>1. 2^0 = 1
    OBVIOUS
  <2> QED BY <2>1
<1>2. n = 1 => 2^n \in Nat \ {0}
  <2>1. 2^1 = 2
    OBVIOUS
  <2> QED BY <2>1
<1>3. n = 2 => 2^n \in Nat \ {0}
  <2>1. 2^2 = 4
    OBVIOUS
  <2> QED BY <2>1
<1>4. n = 3 => 2^n \in Nat \ {0}
  <2>1. 2^3 = 8
    OBVIOUS
  <2> QED BY <2>1
<1>5. n = 4 => 2^n \in Nat \ {0}
  <2>1. 2^4 = 16
    OBVIOUS
  <2> QED BY <2>1
<1>6. n = 5 => 2^n \in Nat \ {0}
  <2>1. 2^5 = 32
    OBVIOUS
  <2> QED BY <2>1
<1>7. n = 6 => 2^n \in Nat \ {0}
  <2>1. 2^6 = 64
    OBVIOUS
  <2> QED BY <2>1
<1>8. n = 7 => 2^n \in Nat \ {0}
  <2>1. 2^7 = 128
    OBVIOUS
  <2> QED BY <2>1
<1>9. n = 8 => 2^n \in Nat \ {0}
  <2>1. 2^8 = 256
    OBVIOUS
  <2> QED BY <2>1
<1>10. n = 9 => 2^n \in Nat \ {0}
  <2>1. 2^9 = 512
    OBVIOUS
  <2> QED BY <2>1
<1>11. n = 10 => 2^n \in Nat \ {0}
  <2>1. 2^10 = 1024
    OBVIOUS
  <2> QED BY <2>1
<1>12. n = 11 => 2^n \in Nat \ {0}
  <2>1. 2^11 = 2048
    OBVIOUS
  <2> QED BY <2>1
<1>13. n = 12 => 2^n \in Nat \ {0}
  <2>1. 2^12 = 4096
    OBVIOUS
  <2> QED BY <2>1
<1>14. n = 13 => 2^n \in Nat \ {0}
  <2>1. 2^13 = 8192
    OBVIOUS
  <2> QED BY <2>1
<1>15. n = 14 => 2^n \in Nat \ {0}
  <2>1. 2^14 = 16384
    OBVIOUS
  <2> QED BY <2>1
<1>16. n = 15 => 2^n \in Nat \ {0}
  <2>1. 2^15 = 32768
    OBVIOUS
  <2> QED BY <2>1
<1>17. n = 16 => 2^n \in Nat \ {0}
  <2>1. 2^16 = 65536
    OBVIOUS
  <2> QED BY <2>1
<1>18. \/ n = 0 \/ n = 1 \/ n = 2 \/ n = 3 \/ n = 4 \/ n = 5 \/ n = 6 \/ n = 7 \/ n = 8
       \/ n = 9 \/ n = 10 \/ n = 11 \/ n = 12 \/ n = 13 \/ n = 14 \/ n = 15 \/ n = 16
  OBVIOUS
<1> QED BY <1>1, <1>2, <1>3, <1>4, <1>5, <1>6, <1>7, <1>8, <1>9, <1>10, <1>11, <1>12, <1>13,
           <1>14, <1>15, <1>16, <1>17, <1>18

LEMMA rotl32IsWord ==
  ASSUME NEW x \in Word, NEW k \in Nat
  PROVE  rotl32(x, k) \in Word
<1> DEFINE n == k % 16
           turned(h, l) == (h * 2^n + l \div 2^(16 - n)) % Half
<1>1. n \in 0 .. 15 /\ n \in 0 .. 16 /\ 16 - n \in 0 .. 16
  OBVIOUS
<1>2. 2^n \in Nat /\ 2^(16 - n) \in Nat \ {0}
  BY <1>1, PowersOfTwo
<1>3. ASSUME NEW h \in Int, NEW l \in Int
      PROVE  turned(h, l) \in HalfWord
  <2> DEFINE p == 2^n
             q == 2^(16 - n)
  <2>1. p \in Int /\ q \in Int /\ q > 0
    BY <1>2
  <2> HIDE DEF p, q
  <2>2. h * p \in Int /\ l \div q \in Int
    BY <2>1
  <2>3. h * p + l \div q \in Int
    BY <2>2
  <2>4. (h * p + l \div q) % Half \in HalfWord
    BY <2>3, DividesInt
  <2> QED BY <2>4 DEF p, q
<1>4. turned(x[1], x[2]) \in HalfWord /\ turned(x[2], x[1]) \in HalfWord
  BY <1>3, WordInts
<1> DEFINE halves == <<turned(x[1], x[2]), turned(x[2], x[1])>>
<1>5. rotl32(x, k) = IF k < 16 THEN halves ELSE <<halves[2], halves[1]>>
  BY DEF rotl32
<1> HIDE DEF turned
<1> QED BY <1>4, <1>5, WordOfHalves

LEMMA XorWordsIsWord ==
  ASSUME NEW x \in Word, NEW y \in Word
  PROVE  XorWords(x, y) \in Word
<1>1. x[1] \in Int /\ x[2] \in Int /\ y[1] \in Int /\ y[2] \in Int
  BY WordInts
<1>2. XorHalves(x[1], y[1]) \in HalfWord /\ XorHalves(x[2], y[2]) \in HalfWord
  BY <1>1, XorHalvesIsHalf
<1> QED BY <1>2, WordOfHalves DEF XorWords

LEMMA MixRoundIsRegisters ==
  ASSUME NEW r \in Registers, NEW k \in Nat
  PROVE  MixRound(r, k) \in Registers
<1>1. r[1] \in Word /\ r[2] \in Word /\ r[3] \in Word
  BY WordsOfRegisters
<1>2. Add(r[3], r[2]) \in Word
  BY <1>1, WordInts, AddIsWord
<1>3. Sub(r[1], r[3]) \in Word
  BY <1>1, WordInts, SubIsWord
<1>4. rotl32(r[3], k) \in Word
  BY <1>1, rotl32IsWord
<1>5. XorWords(Sub(r[1], r[3]), rotl32(r[3], k)) \in Word
  BY <1>3, <1>4, XorWordsIsWord
<1> QED BY <1>1, <1>2, <1>5, RegistersOfWords DEF MixRound

LEMMA mixIsRegisters ==
  ASSUME NEW r \in Registers
  PROVE  mix(r) \in Registers
<1>1. 4 \in Nat /\ 6 \in Nat /\ 8 \in Nat /\ 16 \in Nat /\ 19 \in Nat
  OBVIOUS
<1> QED BY <1>1, MixRoundIsRegisters DEF mix

LEMMA finalIsRegisters ==
  ASSUME NEW r \in Registers
  PROVE  final(r) \in Registers
<1>1. ASSUME NEW q \in Registers, NEW k \in Nat
      PROVE  FinalRound(q, k) \in Registers
  <2>1. q[1] \in Word /\ q[2] \in Word /\ q[3] \in Word
    BY WordsOfRegisters
  <2>2. XorWords(q[1], q[3]) \in Word /\ rotl32(q[3], k) \in Word
    BY <2>1, XorWordsIsWord, rotl32IsWord
  <2>3. Sub(XorWords(q[1], q[3]), rotl32(q[3], k)) \in Word
    BY <2>2, WordInts, SubIsWord
  <2>4. <<q[2], q[3], Sub(XorWords(q[1], q[3]), rotl32(q[3], k))>> \in Registers
    BY <2>1, <2>3, RegistersOfWords
  <2> QED BY <2>4 DEF FinalRound
<1>2. <<r[3], r[1], r[2]>> \in Registers
  BY WordsOfRegisters, RegistersOfWords
<1>3. 14 \in Nat /\ 11 \in Nat /\ 25 \in Nat /\ 16 \in Nat /\ 4 \in Nat /\ 24 \in Nat
  OBVIOUS
<1> QED BY <1>1, <1>2, <1>3 DEF final, RoundsOf

Word64 == Word \X Word

LEMMA SeededIsRegisters ==
  ASSUME NEW n \in Nat, NEW s \in Word64
  PROVE  Seeded(n, s) \in Registers
<1> DEFINE start == Add(Add(Golden, Uint32(n)), Uint32(3923095))
<1>1. n \in Int /\ 3923095 \in Int
  OBVIOUS
<1>2. \A m \in Int : Uint32(m)[1] \in Int /\ Uint32(m)[2] \in Int
  BY DividesInt DEF Uint32
<1>3. Golden[1] \in Int /\ Golden[2] \in Int
  BY DEF Golden
<1>4. Add(Golden, Uint32(n)) \in Word
  BY <1>1, <1>2, <1>3, AddIsWord
<1>5. start \in Word
  BY <1>1, <1>2, <1>4, WordInts, AddIsWord
<1>6. s[1] \in Word /\ s[2] \in Word
  BY DEF Word64
<1> HIDE DEF start
<1>7. Add(start, s[1]) \in Word /\ Add(start, s[2]) \in Word
  BY <1>5, <1>6, WordInts, AddIsWord
<1>8. /\ <<start, start, start>> \in Registers
      /\ <<Add(start, s[1]), Add(start, s[2]), start>> \in Registers
  BY <1>5, <1>7, RegistersOfWords
<1> QED BY <1>8, mixIsRegisters DEF Seeded, start

-----------------------------------------------------------------------------
(***************************************************************************)
(* Bytes and words.                                                        *)
(***************************************************************************)
LEMMA ByteBounds ==
  ASSUME NEW b \in Byte
  PROVE  b \in Nat /\ 0 <= b /\ b <= 255
BY DEF Byte

LEMMA HalfOfBytes ==
  ASSUME NEW b \in Byte, NEW c \in Byte
  PROVE  b * 256 + c \in HalfWord /\ b * 256 + c \in Nat
<1>1. b * 256 + c \in Nat /\ b * 256 + c <= 65535
  BY ByteBounds
<1> QED BY <1>1, InHalfWord

LEMMA WordOfBytes ==
  ASSUME NEW b1 \in Byte, NEW b2 \in Byte, NEW b3 \in Byte, NEW b4 \in Byte
  PROVE  <<b4 * 256 + b3, b2 * 256 + b1>> \in Word
BY HalfOfBytes, WordOfHalves

LEMMA WordAtIsWord ==
  ASSUME NEW k, NEW p \in Nat, \A i \in p + 1 .. p + 4 : k[i] \in Byte
  PROVE  WordAt(k, p) \in Word
<1>1. p + 1 \in p + 1 .. p + 4 /\ p + 2 \in p + 1 .. p + 4
  OBVIOUS
<1>2. p + 3 \in p + 1 .. p + 4 /\ p + 4 \in p + 1 .. p + 4
  OBVIOUS
<1> QED BY <1>1, <1>2, WordOfBytes DEF WordAt

LEMMA AbsorbIsRegisters ==
  ASSUME NEW r \in Registers, NEW k, NEW p \in Nat, \A i \in p + 1 .. p + 12 : k[i] \in Byte
  PROVE  Absorb(r, k, p) \in Registers
<1>1. /\ WordAt(k, p) \in Word
      /\ WordAt(k, p + 4) \in Word
      /\ WordAt(k, p + 8) \in Word
  BY WordAtIsWord
<1>2. r[1] \in Word /\ r[2] \in Word /\ r[3] \in Word
  BY WordsOfRegisters
<1>3. /\ Add(r[1], WordAt(k, p)) \in Word
      /\ Add(r[2], WordAt(k, p + 4)) \in Word
      /\ Add(r[3], WordAt(k, p + 8)) \in Word
  BY <1>1, <1>2, WordInts, AddIsWord
<1> QED BY <1>3, RegistersOfWords DEF Absorb

\* A block of twelve bytes, of which a case sets one that was zero.
BlockOfBytes == [1 .. 12 -> Byte]

LEMMA ByteIntoWord ==
  ASSUME NEW b1 \in Byte, NEW b2 \in Byte, NEW b3 \in Byte, NEW b4 \in Byte, NEW b \in Byte
  PROVE  /\ b1 = 0 => Add(<<b4 * 256 + b3, b2 * 256 + b1>>, ShiftedByte(b, 0))
                        = <<b4 * 256 + b3, b2 * 256 + b>>
         /\ b2 = 0 => Add(<<b4 * 256 + b3, b2 * 256 + b1>>, ShiftedByte(b, 1))
                        = <<b4 * 256 + b3, b * 256 + b1>>
         /\ b3 = 0 => Add(<<b4 * 256 + b3, b2 * 256 + b1>>, ShiftedByte(b, 2))
                        = <<b4 * 256 + b, b2 * 256 + b1>>
         /\ b4 = 0 => Add(<<b4 * 256 + b3, b2 * 256 + b1>>, ShiftedByte(b, 3))
                        = <<b * 256 + b3, b2 * 256 + b1>>
<1>1. 256^0 = 1 /\ 256^1 = 256
  OBVIOUS
<1>2. /\ ShiftedByte(b, 0) = <<0, b>> /\ ShiftedByte(b, 1) = <<0, b * 256>>
      /\ ShiftedByte(b, 2) = <<b, 0>> /\ ShiftedByte(b, 3) = <<b * 256, 0>>
  BY <1>1 DEF ShiftedByte, Byte
<1>3. ASSUME NEW h \in Nat, NEW l \in Nat, NEW m \in Nat, NEW n \in Nat,
             h + m \in HalfWord, l + n \in HalfWord
      PROVE  Add(<<h, l>>, <<m, n>>) = <<h + m, l + n>>
  <2>1. (l + n) % Half = l + n /\ (l + n) \div Half = 0 /\ (h + m) % Half = h + m
    BY <1>3, HalfWordStays
  <2>2. h + m + 0 = h + m
    OBVIOUS
  <2> QED BY <2>1, <2>2 DEF Add
<1>4. ASSUME NEW c \in Byte, NEW d \in Byte
      PROVE  /\ c \in Nat
             /\ c * 256 + 0 = c * 256 /\ 0 * 256 + d = d
             /\ c * 256 + 0 + d = c * 256 + d /\ 0 * 256 + d + c * 256 = c * 256 + d
             /\ c * 256 + d + 0 = c * 256 + d /\ c * 256 \in Nat
  BY ByteBounds
<1>5. b1 = 0 => Add(<<b4 * 256 + b3, b2 * 256 + b1>>, ShiftedByte(b, 0))
                  = <<b4 * 256 + b3, b2 * 256 + b>>
  BY <1>2, <1>3, <1>4, HalfOfBytes
<1>6. b2 = 0 => Add(<<b4 * 256 + b3, b2 * 256 + b1>>, ShiftedByte(b, 1))
                  = <<b4 * 256 + b3, b * 256 + b1>>
  BY <1>2, <1>3, <1>4, HalfOfBytes
<1>7. b3 = 0 => Add(<<b4 * 256 + b3, b2 * 256 + b1>>, ShiftedByte(b, 2))
                  = <<b4 * 256 + b, b2 * 256 + b1>>
  BY <1>2, <1>3, <1>4, HalfOfBytes
<1>8. b4 = 0 => Add(<<b4 * 256 + b3, b2 * 256 + b1>>, ShiftedByte(b, 3))
                  = <<b * 256 + b3, b2 * 256 + b1>>
  BY <1>2, <1>3, <1>4, HalfOfBytes
<1> QED BY <1>5, <1>6, <1>7, <1>8

-----------------------------------------------------------------------------
(***************************************************************************)
(* Induction, as a fact about sets: it has no operator for a parameter.    *)
(***************************************************************************)
LEMMA Induction ==
  ASSUME NEW S, 0 \in S, \A n \in Nat : n \in S => n + 1 \in S
  PROVE  Nat \subseteq S
<1> SUFFICES ASSUME Nat \ S # {} PROVE FALSE
  OBVIOUS
<1>1. PICK least \in Nat \ S : \A y \in Nat \ S : <<y, least>> \notin OpToRel(<, Nat)
  BY WFMin, NatLessThanWellFounded
<1>2. \A y \in Nat \ S : ~(y < least)
  BY <1>1 DEF OpToRel
<1> QED BY <1>2

\* A sequence of steps f can be taken from any state of S.
LEMMA StepsExist ==
  ASSUME NEW S, NEW base \in S, NEW N \in Nat, NEW f \in [1 .. N -> [S -> S]]
  PROVE  \E g \in [0 .. N -> S] : g[0] = base /\ \A i \in 1 .. N : g[i] = f[i][g[i - 1]]
<1> DEFINE Taken(n, g) == g[0] = base /\ \A i \in 1 .. n : g[i] = f[i][g[i - 1]]
           Done == {n \in Nat : n <= N => \E g \in [0 .. N -> S] : Taken(n, g)}
<1>1. 0 \in Done
  <2>1. [i \in 0 .. N |-> base] \in [0 .. N -> S] /\ Taken(0, [i \in 0 .. N |-> base])
    OBVIOUS
  <2> QED BY <2>1
<1>2. ASSUME NEW n \in Nat, n \in Done
      PROVE  n + 1 \in Done
  <2> SUFFICES ASSUME n + 1 <= N
               PROVE  \E g \in [0 .. N -> S] : Taken(n + 1, g)
    OBVIOUS
  <2>1. PICK g \in [0 .. N -> S] : Taken(n, g)
    BY <1>2
  <2> DEFINE h == [g EXCEPT ![n + 1] = f[n + 1][g[n]]]
  <2>2. n + 1 \in 1 .. N /\ n \in 0 .. N
    OBVIOUS
  <2>3. f[n + 1][g[n]] \in S
    BY <2>2
  <2>4. h \in [0 .. N -> S]
    BY <2>3
  <2>5. h[0] = base
    BY <2>1
  <2>6. ASSUME NEW i \in 1 .. n + 1
        PROVE  h[i] = f[i][h[i - 1]]
    <3>1. CASE i = n + 1
      <4>1. h[n + 1] = f[n + 1][g[n]] /\ h[n] = g[n]
        BY <2>2
      <4> QED BY <3>1, <4>1, n + 1 - 1 = n
    <3>2. CASE i # n + 1
      <4>1. i \in 1 .. n /\ i - 1 # n + 1 /\ i - 1 \in 0 .. N /\ i \in 0 .. N
        BY <3>2, <2>2
      <4>2. h[i] = g[i] /\ h[i - 1] = g[i - 1]
        BY <4>1
      <4> QED BY <2>1, <4>1, <4>2
    <3> QED BY <3>1, <3>2
  <2> QED BY <2>4, <2>5, <2>6
<1> HIDE DEF Done
<1>3. N \in Done
  BY <1>1, <1>2, Induction
<1> QED BY <1>3 DEF Done

-----------------------------------------------------------------------------
(***************************************************************************)
(* The switch.                                                             *)
(***************************************************************************)
\* The tail as a block of which the last n bytes are there, the place of its ninth
\* byte taken by the length.
Filled(tail, n) ==
  LET byte(i) == IF Len(tail) - n < i /\ i <= Len(tail) THEN tail[i] ELSE 0
  IN [i \in 1 .. 12 |-> IF i <= 8 THEN byte(i) ELSE IF i = 9 THEN 0 ELSE byte(i - 1)]

LEMMA FilledIsBlock ==
  ASSUME NEW tail \in Seq(Byte), NEW n \in Nat
  PROVE  Filled(tail, n) \in BlockOfBytes
<1>1. 0 \in Byte
  BY DEF Byte
<1>2. \A i \in 1 .. 12 : Len(tail) - n < i /\ i <= Len(tail) => tail[i] \in Byte
  OBVIOUS
<1>3. \A i \in 1 .. 12 : i > 9 => i - 1 \in 1 .. 12
  OBVIOUS
<1> QED BY <1>1, <1>2, <1>3 DEF Filled, BlockOfBytes

\* Where the case of byte i puts it.
Place(i) == IF i <= 8 THEN i ELSE i + 1

LEMMA NextFilled ==
  ASSUME NEW tail \in Seq(Byte), Len(tail) <= 11, NEW n \in Nat, n < Len(tail)
  PROVE  LET i == Len(tail) - n
         IN  /\ i \in 1 .. 11 /\ tail[i] \in Byte
             /\ Filled(tail, n)[Place(i)] = 0
             /\ Filled(tail, n + 1) = [Filled(tail, n) EXCEPT ![Place(i)] = tail[i]]
<1> DEFINE i == Len(tail) - n
<1>1. i \in 1 .. 11 /\ i \in 1 .. Len(tail) /\ i \in Int
  OBVIOUS
<1>2. tail[i] \in Byte
  BY <1>1
<1>3. Place(i) \in 1 .. 12 /\ Place(i) # 9
  BY <1>1 DEF Place
<1>4. Filled(tail, n)[Place(i)] = 0
  BY <1>1, <1>3 DEF Filled, Place
<1>5. ASSUME NEW j \in 1 .. 12
      PROVE  Filled(tail, n + 1)[j] = [Filled(tail, n) EXCEPT ![Place(i)] = tail[i]][j]
  <2>1. Len(tail) - (n + 1) = i - 1 /\ Len(tail) - n = i
    OBVIOUS
  <2> DEFINE of == IF j <= 8 THEN j ELSE j - 1
             here(m) == IF j # 9 /\ Len(tail) - m < of /\ of <= Len(tail) THEN tail[of] ELSE 0
  <2>2. Filled(tail, n)[j] = here(n) /\ Filled(tail, n + 1)[j] = here(n + 1)
    BY DEF Filled
  <2>3. j \in DOMAIN Filled(tail, n)
    BY DEF Filled
  <2>4. j = Place(i) => j # 9 /\ of = i
    BY <1>1 DEF Place
  <2>5. j # Place(i) /\ j # 9 => of # i
    BY <1>1 DEF Place
  <2>6. of \in Int
    OBVIOUS
  <2> HIDE DEF i, of
  <2>7. CASE j = Place(i)
    <3>1. here(n + 1) = tail[i]
      BY <1>1, <2>1, <2>4, <2>7
    <3> QED BY <2>2, <2>3, <2>7, <3>1
  <2>8. CASE j # Place(i)
    <3>1. here(n + 1) = here(n)
      BY <1>1, <2>1, <2>5, <2>6, <2>8
    <3> QED BY <2>2, <2>3, <2>8, <3>1
  <2> QED BY <2>7, <2>8
<1>6. DOMAIN Filled(tail, n + 1) = 1 .. 12 /\ DOMAIN Filled(tail, n) = 1 .. 12
  BY DEF Filled
<1> QED BY <1>1, <1>2, <1>4, <1>5, <1>6 DEF Filled

LEMMA ShiftedByteIsWord ==
  ASSUME NEW b \in Byte, NEW shift \in 0 .. 3
  PROVE  ShiftedByte(b, shift) \in Word
<1>1. 256^0 = 1 /\ 256^1 = 256
  OBVIOUS
<1>2. b \in Nat /\ b \in HalfWord /\ b * 256 \in HalfWord /\ 0 \in HalfWord
  BY ByteBounds, InHalfWord
<1>3. shift = 0 \/ shift = 1 \/ shift = 2 \/ shift = 3
  OBVIOUS
<1>4. /\ ShiftedByte(b, 0) = <<0, b * 1>> /\ ShiftedByte(b, 1) = <<0, b * 256>>
      /\ ShiftedByte(b, 2) = <<b * 1, 0>> /\ ShiftedByte(b, 3) = <<b * 256, 0>>
  BY <1>1 DEF ShiftedByte
<1>5. b * 1 = b
  BY <1>2
<1> QED BY <1>2, <1>3, <1>4, <1>5, WordOfHalves

\* Setting a byte that was zero adds it, shifted, to its word, and only to that.
LEMMA ByteSet ==
  ASSUME NEW f \in BlockOfBytes, NEW p \in {0, 4, 8}, NEW shift \in 0 .. 3, NEW b \in Byte,
         f[p + 1 + shift] = 0
  PROVE  LET g == [f EXCEPT ![p + 1 + shift] = b]
         IN  /\ WordAt(g, p) = Add(WordAt(f, p), ShiftedByte(b, shift))
             /\ \A q \in {0, 4, 8} : q # p => WordAt(g, q) = WordAt(f, q)
<1> DEFINE g == [f EXCEPT ![p + 1 + shift] = b]
<1>1. \A i \in 1 .. 12 : f[i] \in Byte /\ g[i] = IF i = p + 1 + shift THEN b ELSE f[i]
  BY DEF BlockOfBytes
<1>2. /\ p + 1 \in 1 .. 12 /\ p + 2 \in 1 .. 12 /\ p + 3 \in 1 .. 12 /\ p + 4 \in 1 .. 12
      /\ shift = 0 \/ shift = 1 \/ shift = 2 \/ shift = 3
      /\ p + 1 + 0 = p + 1 /\ p + 1 + 1 = p + 2 /\ p + 1 + 2 = p + 3 /\ p + 1 + 3 = p + 4
      /\ p + 1 # p + 2 /\ p + 1 # p + 3 /\ p + 1 # p + 4
      /\ p + 2 # p + 3 /\ p + 2 # p + 4 /\ p + 3 # p + 4
  OBVIOUS
<1>3. f[p + 1] \in Byte /\ f[p + 2] \in Byte /\ f[p + 3] \in Byte /\ f[p + 4] \in Byte
  BY <1>1, <1>2
<1>4. ASSUME NEW q \in {0, 4, 8}, q # p
      PROVE  WordAt(g, q) = WordAt(f, q)
  <2>1. /\ q + 1 \in 1 .. 12 /\ q + 2 \in 1 .. 12 /\ q + 3 \in 1 .. 12 /\ q + 4 \in 1 .. 12
        /\ q + 1 # p + 1 + shift /\ q + 2 # p + 1 + shift
        /\ q + 3 # p + 1 + shift /\ q + 4 # p + 1 + shift
    BY <1>4
  <2> HIDE DEF g
  <2> QED BY <1>1, <2>1 DEF WordAt
<1>5. WordAt(g, p) = Add(WordAt(f, p), ShiftedByte(b, shift))
  <2> HIDE DEF g
  <2>1. CASE shift = 0
    <3>1. g[p + 1] = b /\ g[p + 2] = f[p + 2] /\ g[p + 3] = f[p + 3] /\ g[p + 4] = f[p + 4]
      BY <1>1, <1>2, <2>1
    <3> QED BY <1>2, <1>3, <2>1, <3>1, ByteIntoWord DEF WordAt
  <2>2. CASE shift = 1
    <3>1. g[p + 1] = f[p + 1] /\ g[p + 2] = b /\ g[p + 3] = f[p + 3] /\ g[p + 4] = f[p + 4]
      BY <1>1, <1>2, <2>2
    <3> QED BY <1>2, <1>3, <2>2, <3>1, ByteIntoWord DEF WordAt
  <2>3. CASE shift = 2
    <3>1. g[p + 1] = f[p + 1] /\ g[p + 2] = f[p + 2] /\ g[p + 3] = b /\ g[p + 4] = f[p + 4]
      BY <1>1, <1>2, <2>3
    <3> QED BY <1>2, <1>3, <2>3, <3>1, ByteIntoWord DEF WordAt
  <2>4. CASE shift = 3
    <3>1. g[p + 1] = f[p + 1] /\ g[p + 2] = f[p + 2] /\ g[p + 3] = f[p + 3] /\ g[p + 4] = b
      BY <1>1, <1>2, <2>4
    <3> QED BY <1>2, <1>3, <2>4, <3>1, ByteIntoWord DEF WordAt
  <2> QED BY <1>2, <2>1, <2>2, <2>3, <2>4
<1> QED BY <1>4, <1>5

LEMMA CaseOfByte ==
  ASSUME NEW i \in 1 .. 11
  PROVE  /\ TailShift(i) \in 0 .. 3
         /\ \/ TailRegister(i) = 1 /\ Place(i) = 0 + 1 + TailShift(i)
            \/ TailRegister(i) = 2 /\ Place(i) = 4 + 1 + TailShift(i)
            \/ TailRegister(i) = 3 /\ Place(i) = 8 + 1 + TailShift(i)
BY DEF TailShift, TailRegister, Place

\* One case of the switch.
LEMMA ByteAbsorbed ==
  ASSUME NEW r \in Registers, NEW f \in BlockOfBytes, NEW i \in 1 .. 11, NEW tail,
         tail[i] \in Byte, f[Place(i)] = 0
  PROVE  AddByte(Absorb(r, f, 0), tail, i) = Absorb(r, [f EXCEPT ![Place(i)] = tail[i]], 0)
<1> DEFINE g == [f EXCEPT ![Place(i)] = tail[i]]
           byte == ShiftedByte(tail[i], TailShift(i))
<1>1. byte \in Word
  BY CaseOfByte, ShiftedByteIsWord
<1>2. r[1] \in Word /\ r[2] \in Word /\ r[3] \in Word
  BY WordsOfRegisters
<1>3. WordAt(f, 0) \in Word /\ WordAt(f, 4) \in Word /\ WordAt(f, 8) \in Word
  BY WordAtIsWord DEF BlockOfBytes
<1>4. /\ 0 \in {0, 4, 8} /\ 4 \in {0, 4, 8} /\ 8 \in {0, 4, 8}
      /\ 0 # 4 /\ 0 # 8 /\ 4 # 8 /\ 0 + 4 = 4 /\ 0 + 8 = 8
  OBVIOUS
<1>5. /\ Absorb(r, f, 0) = <<Add(r[1], WordAt(f, 0)), Add(r[2], WordAt(f, 4)), Add(r[3], WordAt(f, 8))>>
      /\ Absorb(r, g, 0) = <<Add(r[1], WordAt(g, 0)), Add(r[2], WordAt(g, 4)), Add(r[3], WordAt(g, 8))>>
  BY <1>4 DEF Absorb
<1>6. CASE TailRegister(i) = 1 /\ Place(i) = 0 + 1 + TailShift(i)
  <2>1. /\ WordAt(g, 0) = Add(WordAt(f, 0), byte)
        /\ WordAt(g, 4) = WordAt(f, 4) /\ WordAt(g, 8) = WordAt(f, 8)
    BY <1>4, <1>6, CaseOfByte, ByteSet
  <2>2. Add(Add(r[1], WordAt(f, 0)), byte) = Add(r[1], WordAt(g, 0))
    BY <1>1, <1>2, <1>3, <2>1, AddAssociates
  <2> QED BY <1>5, <1>6, <2>1, <2>2 DEF AddByte
<1>7. CASE TailRegister(i) = 2 /\ Place(i) = 4 + 1 + TailShift(i)
  <2>1. /\ WordAt(g, 4) = Add(WordAt(f, 4), byte)
        /\ WordAt(g, 0) = WordAt(f, 0) /\ WordAt(g, 8) = WordAt(f, 8)
    BY <1>4, <1>7, CaseOfByte, ByteSet
  <2>2. Add(Add(r[2], WordAt(f, 4)), byte) = Add(r[2], WordAt(g, 4))
    BY <1>1, <1>2, <1>3, <2>1, AddAssociates
  <2> QED BY <1>5, <1>7, <2>1, <2>2 DEF AddByte
<1>8. CASE TailRegister(i) = 3 /\ Place(i) = 8 + 1 + TailShift(i)
  <2>1. /\ WordAt(g, 8) = Add(WordAt(f, 8), byte)
        /\ WordAt(g, 0) = WordAt(f, 0) /\ WordAt(g, 4) = WordAt(f, 4)
    BY <1>4, <1>8, CaseOfByte, ByteSet
  <2>2. Add(Add(r[3], WordAt(f, 8)), byte) = Add(r[3], WordAt(g, 8))
    BY <1>1, <1>2, <1>3, <2>1, AddAssociates
  <2> QED BY <1>5, <1>8, <2>1, <2>2 DEF AddByte
<1> QED BY <1>6, <1>7, <1>8, CaseOfByte

\* A block of zeros changes nothing.
LEMMA NothingAbsorbed ==
  ASSUME NEW r \in Registers, NEW f, \A i \in 1 .. 12 : f[i] = 0
  PROVE  Absorb(r, f, 0) = r
<1>1. f[1] = 0 /\ f[2] = 0 /\ f[3] = 0 /\ f[4] = 0 /\ f[5] = 0 /\ f[6] = 0
  OBVIOUS
<1>2. f[7] = 0 /\ f[8] = 0 /\ f[9] = 0 /\ f[10] = 0 /\ f[11] = 0 /\ f[12] = 0
  OBVIOUS
<1>3. WordAt(f, 0) = Zero
  BY <1>1 DEF WordAt, Zero
<1>4. WordAt(f, 0 + 4) = Zero
  BY <1>1, <1>2 DEF WordAt, Zero
<1>5. WordAt(f, 0 + 8) = Zero
  BY <1>2 DEF WordAt, Zero
<1> QED BY <1>3, <1>4, <1>5, AddZero, WordsOfRegisters DEF Absorb

\* All cases of the switch together absorb the tail as a padded block.
LEMMA TailAbsorbed ==
  ASSUME NEW r \in Registers, NEW tail \in Seq(Byte), Len(tail) <= 11
  PROVE  AddTail(r, tail) = Absorb(r, Filled(tail, Len(tail)), 0)
<1> DEFINE N == Len(tail)
           Cases(a) == a = [n \in 0 .. N |-> IF n = 0 THEN r ELSE AddByte(a[n - 1], tail, N + 1 - n)]
           after == CHOOSE a : Cases(a)
           filled(n) == Absorb(r, Filled(tail, n), 0)
<1>1. N \in Nat
  OBVIOUS
<1>2. \A n \in Nat : filled(n) \in Registers
  BY FilledIsBlock, AbsorbIsRegisters DEF BlockOfBytes
<1>3. ASSUME NEW n \in Nat, n < N
      PROVE  AddByte(filled(n), tail, N - n) = filled(n + 1)
  <2>1. n \in Nat /\ n < Len(tail) /\ N - n = Len(tail) - n
    BY <1>3
  <2>2. /\ N - n \in 1 .. 11 /\ tail[N - n] \in Byte
        /\ Filled(tail, n)[Place(N - n)] = 0
        /\ Filled(tail, n + 1) = [Filled(tail, n) EXCEPT ![Place(N - n)] = tail[N - n]]
    BY <2>1, NextFilled
  <2>3. Filled(tail, n) \in BlockOfBytes
    BY FilledIsBlock
  <2> HIDE DEF N
  <2> QED BY <2>2, <2>3, ByteAbsorbed
<1>4. filled(0) = r
  BY NothingAbsorbed DEF Filled
<1> HIDE DEF filled
<1>5. \E a : Cases(a)
  <2> DEFINE a == [n \in 0 .. N |-> filled(n)]
  <2>1. ASSUME NEW n \in 0 .. N
        PROVE  a[n] = IF n = 0 THEN r ELSE AddByte(a[n - 1], tail, N + 1 - n)
    <3>1. CASE n = 0
      BY <3>1, <1>4
    <3>2. CASE n # 0
      <4>1. n - 1 \in Nat /\ n - 1 < N /\ n - 1 + 1 = n /\ N - (n - 1) = N + 1 - n /\ n - 1 \in 0 .. N
        BY <3>2, <1>1
      <4> HIDE DEF N
      <4>2. AddByte(filled(n - 1), tail, N - (n - 1)) = filled(n - 1 + 1)
        BY <4>1, <1>3
      <4> QED BY <3>2, <4>1, <4>2
    <3> QED BY <3>1, <3>2
  <2>2. Cases(a)
    BY <2>1
  <2> QED BY <2>2
<1>6. Cases(after)
  BY <1>5
<1>7. AddTail(r, tail) = after[N]
  BY Zenon DEF AddTail
<1> HIDE DEF after, N
<1> DEFINE Done == {n \in Nat : n <= N => after[n] = filled(n)}
<1>8. 0 \in Done
  BY <1>1, <1>4, <1>6
<1>9. ASSUME NEW n \in Nat, n \in Done
      PROVE  n + 1 \in Done
  <2> SUFFICES ASSUME n + 1 <= N
               PROVE  after[n + 1] = filled(n + 1)
    OBVIOUS
  <2>1. n + 1 \in 0 .. N /\ n + 1 # 0 /\ n + 1 - 1 = n /\ N + 1 - (n + 1) = N - n /\ n < N /\ n <= N
    BY <1>1
  <2>2. after[n + 1] = AddByte(after[n], tail, N - n)
    BY <1>6, <2>1
  <2> QED BY <1>3, <1>9, <2>1, <2>2
<1> HIDE DEF Done
<1>10. N \in Done
  BY <1>1, <1>8, <1>9, Induction
<1> QED BY <1>1, <1>7, <1>10 DEF Done, N, filled

-----------------------------------------------------------------------------
(***************************************************************************)
(* The loop.                                                               *)
(***************************************************************************)
\* In the port: from the text, at a position that moves.
ChunkStep(k, n, r) == mix(Absorb(r, k, 12 * (n - 1)))

\* In PostgreSQL: from a block.
BlockStep(k, n, r) == mix(Absorb(r, Block(k, n), 0))

LEMMA RoundsAgree ==
  ASSUME NEW k \in Seq(Byte), NEW n \in 1 .. Len(k) \div 12, NEW r \in Registers
  PROVE  ChunkStep(k, n, r) = BlockStep(k, n, r) /\ ChunkStep(k, n, r) \in Registers
<1> DEFINE p == 12 * (n - 1)
<1>1. p \in Nat /\ p + 12 <= Len(k) /\ 12 * n - 11 = p + 1 /\ 12 * n = p + 12 /\ Len(k) \in Nat
  OBVIOUS
<1>2. \A i \in p + 1 .. p + 12 : k[i] \in Byte
  BY <1>1
<1>3. Block(k, n) = SubSeq(k, p + 1, p + 12)
  BY <1>1 DEF Block
<1> HIDE DEF p
<1>4. \A i \in 1 .. 12 : SubSeq(k, p + 1, p + 12)[i] = k[p + i]
  BY <1>1, <1>2
<1>5. \A i \in 1 .. 12 : Block(k, n)[i] = k[p + i]
  BY <1>3, <1>4
<1>6. WordAt(Block(k, n), 0) = WordAt(k, p)
  <2>1. /\ Block(k, n)[1] = k[p + 1] /\ Block(k, n)[2] = k[p + 2]
        /\ Block(k, n)[3] = k[p + 3] /\ Block(k, n)[4] = k[p + 4]
    BY <1>5
  <2> QED BY <2>1 DEF WordAt
<1>7. WordAt(Block(k, n), 0 + 4) = WordAt(k, p + 4)
  <2>1. /\ Block(k, n)[5] = k[p + 5] /\ Block(k, n)[6] = k[p + 6]
        /\ Block(k, n)[7] = k[p + 7] /\ Block(k, n)[8] = k[p + 8]
    BY <1>5
  <2>2. p + 4 + 1 = p + 5 /\ p + 4 + 2 = p + 6 /\ p + 4 + 3 = p + 7 /\ p + 4 + 4 = p + 8
    BY <1>1
  <2> QED BY <2>1, <2>2 DEF WordAt
<1>8. WordAt(Block(k, n), 0 + 8) = WordAt(k, p + 8)
  <2>1. /\ Block(k, n)[9] = k[p + 9] /\ Block(k, n)[10] = k[p + 10]
        /\ Block(k, n)[11] = k[p + 11] /\ Block(k, n)[12] = k[p + 12]
    BY <1>5
  <2>2. p + 8 + 1 = p + 9 /\ p + 8 + 2 = p + 10 /\ p + 8 + 3 = p + 11 /\ p + 8 + 4 = p + 12
    BY <1>1
  <2> QED BY <2>1, <2>2 DEF WordAt
<1>9. Absorb(r, Block(k, n), 0) = Absorb(r, k, p)
  BY <1>6, <1>7, <1>8 DEF Absorb
<1>10. Absorb(r, k, p) \in Registers
  BY <1>1, <1>2, AbsorbIsRegisters
<1> QED BY <1>9, <1>10, mixIsRegisters DEF ChunkStep, BlockStep, p

\* What both loops compute: the registers after each round.
Rounds(k, s, a) ==
  a = [n \in 0 .. Len(k) \div 12 |->
         IF n = 0 THEN Seeded(Len(k), s) ELSE ChunkStep(k, n, a[n - 1])]

BlockRounds(k, s, a) ==
  a = [n \in 0 .. Len(k) \div 12 |->
         IF n = 0 THEN Seeded(Len(k), s) ELSE BlockStep(k, n, a[n - 1])]

LEMMA RegisterStepsExist ==
  ASSUME NEW M \in Nat, NEW h \in [1 .. M -> [Registers -> Registers]], NEW start \in Registers
  PROVE  \E a \in [0 .. M -> Registers] :
           a[0] = start /\ \A n \in 1 .. M : a[n] = h[n][a[n - 1]]
BY StepsExist

LEMMA RoundsExist ==
  ASSUME NEW k \in Seq(Byte), NEW s \in Word64
  PROVE  (\E a : Rounds(k, s, a)) /\ (\E a : BlockRounds(k, s, a))
<1> DEFINE N == Len(k) \div 12
           f == [n \in 1 .. N |-> [r \in Registers |-> ChunkStep(k, n, r)]]
<1>1. N \in Nat
  OBVIOUS
<1>2. Seeded(Len(k), s) \in Registers
  BY SeededIsRegisters
<1>3. f \in [1 .. N -> [Registers -> Registers]]
  BY RoundsAgree
<1> HIDE DEF N
<1>4. PICK a \in [0 .. N -> Registers] :
        a[0] = Seeded(Len(k), s) /\ \A n \in 1 .. N : a[n] = f[n][a[n - 1]]
  <2> HIDE DEF f
  <2> QED BY <1>1, <1>2, <1>3, RegisterStepsExist
<1>5. ASSUME NEW n \in 0 .. N, n # 0
      PROVE  a[n] = ChunkStep(k, n, a[n - 1]) /\ a[n] = BlockStep(k, n, a[n - 1])
  <2>1. n \in 1 .. N /\ n - 1 \in 0 .. N
    BY <1>1, <1>5
  <2>2. a[n - 1] \in Registers
    BY <2>1
  <2>3. a[n] = ChunkStep(k, n, a[n - 1])
    BY <1>4, <2>1, <2>2
  <2> QED BY <2>1, <2>2, <2>3, RoundsAgree DEF N
<1>6. a = [n \in 0 .. N |-> IF n = 0 THEN Seeded(Len(k), s) ELSE ChunkStep(k, n, a[n - 1])]
  BY <1>4, <1>5
<1>7. a = [n \in 0 .. N |-> IF n = 0 THEN Seeded(Len(k), s) ELSE BlockStep(k, n, a[n - 1])]
  BY <1>4, <1>5
<1> QED BY <1>6, <1>7 DEF Rounds, BlockRounds, N

\* Round by round the registers are the same.
LEMMA LoopsAgree ==
  ASSUME NEW k \in Seq(Byte), NEW s \in Word64, NEW a, Rounds(k, s, a), NEW b, BlockRounds(k, s, b)
  PROVE  a[Len(k) \div 12] = b[Len(k) \div 12] /\ a[Len(k) \div 12] \in Registers
<1> DEFINE N == Len(k) \div 12
           Done == {n \in Nat : n <= N => a[n] = b[n] /\ a[n] \in Registers}
<1>1. N \in Nat
  OBVIOUS
<1>2. 0 \in Done
  BY <1>1, SeededIsRegisters DEF Rounds, BlockRounds
<1>3. ASSUME NEW n \in Nat, n \in Done
      PROVE  n + 1 \in Done
  <2> SUFFICES ASSUME n + 1 <= N
               PROVE  a[n + 1] = b[n + 1] /\ a[n + 1] \in Registers
    OBVIOUS
  <2>1. n + 1 \in 0 .. N /\ n + 1 \in 1 .. N /\ n + 1 # 0 /\ n + 1 - 1 = n /\ n <= N
    BY <1>1
  <2>2. a[n + 1] = ChunkStep(k, n + 1, a[n]) /\ b[n + 1] = BlockStep(k, n + 1, b[n])
    BY <2>1 DEF Rounds, BlockRounds
  <2> QED BY <1>3, <2>1, <2>2, RoundsAgree
<1> HIDE DEF Done
<1>4. N \in Done
  BY <1>1, <1>2, <1>3, Induction
<1> QED BY <1>1, <1>4 DEF Done

-----------------------------------------------------------------------------
(***************************************************************************)
(* The theorems.                                                           *)
(***************************************************************************)
\* PostgresHashtextextended is hash_bytes_extended: for every text, seen as its
\* bytes, and every seed.
THEOREM PortIsHashBytes ==
  ASSUME NEW k \in Seq(Byte), NEW s \in Word64
  PROVE  /\ PostgresHashtextextended(k, s) = HashBytesExtended(k, s)
         /\ PostgresHashtextextended(k, s) \in Word64
<1> DEFINE N == Len(k) \div 12
           after == CHOOSE a : Rounds(k, s, a)
           mixed == CHOOSE a : BlockRounds(k, s, a)
           tail == SubSeq(k, 12 * N + 1, Len(k))
<1>1. Rounds(k, s, after) /\ BlockRounds(k, s, mixed)
  BY RoundsExist
<1>2. AfterChunks(k, s) = after[N]
  BY Zenon DEF AfterChunks, Rounds, ChunkStep, Chunks
<1>3. LET r == final(Absorb(mixed[N], LastBlock(k), 0))
      IN  HashBytesExtended(k, s) = <<r[2], r[3]>>
  BY Zenon DEF HashBytesExtended, BlockRounds, BlockStep
<1> HIDE DEF after, mixed
<1>4. after[N] = mixed[N] /\ after[N] \in Registers
  BY <1>1, LoopsAgree
<1>5. tail \in Seq(Byte) /\ Len(tail) = Len(k) % 12 /\ Len(tail) <= 11
  OBVIOUS
<1>6. Filled(tail, Len(tail)) = LastBlock(k)
  <2>1. \A i \in 1 .. Len(tail) : tail[i] = k[12 * N + i]
    OBVIOUS
  <2>2. Len(tail) - Len(tail) = 0
    BY <1>5
  <2> DEFINE filled(i) == IF Len(tail) - Len(tail) < i /\ i <= Len(tail) THEN tail[i] ELSE 0
             byte(i) == IF i <= Len(k) % 12 THEN k[12 * N + i] ELSE 0
  <2>3. ASSUME NEW i \in 1 .. 11
        PROVE  filled(i) = byte(i)
    <3>1. Len(tail) - Len(tail) < i /\ (i <= Len(tail) => i \in 1 .. Len(tail))
      BY <1>5
    <3> HIDE DEF tail
    <3> QED BY <1>5, <2>1, <3>1
  <2>4. \A i \in 1 .. 12 : (i <= 8 => i \in 1 .. 11) /\ (i > 9 => i - 1 \in 1 .. 11)
    OBVIOUS
  <2>5. LastBlock(k) =
          [i \in 1 .. 12 |-> IF i <= 8 THEN byte(i) ELSE IF i = 9 THEN 0 ELSE byte(i - 1)]
    BY DEF LastBlock
  <2>6. Filled(tail, Len(tail)) =
          [i \in 1 .. 12 |-> IF i <= 8 THEN filled(i) ELSE IF i = 9 THEN 0 ELSE filled(i - 1)]
    BY DEF Filled
  <2>7. ASSUME NEW i \in 1 .. 12
        PROVE  Filled(tail, Len(tail))[i] = LastBlock(k)[i]
    <3> HIDE DEF filled, byte, tail
    <3>1. CASE i <= 8
      BY <2>3, <2>4, <2>5, <2>6, <3>1
    <3>2. CASE i = 9
      BY <2>5, <2>6, <3>2
    <3>3. CASE i > 9
      BY <2>3, <2>4, <2>5, <2>6, <3>3
    <3> QED BY <3>1, <3>2, <3>3
  <2> QED BY <2>7 DEF Filled, LastBlock
<1>7. AddTail(after[N], tail) = Absorb(mixed[N], LastBlock(k), 0)
  BY <1>4, <1>5, <1>6, TailAbsorbed
<1>8. LET r == final(AddTail(after[N], tail))
      IN  PostgresHashtextextended(k, s) = <<r[2], r[3]>>
  BY <1>2 DEF PostgresHashtextextended, Chunks
<1>9. Absorb(mixed[N], LastBlock(k), 0) \in Registers
  <2>1. LastBlock(k) \in BlockOfBytes
    <3>1. Len(tail) \in Nat
      BY <1>5
    <3> HIDE DEF tail
    <3> QED BY <1>5, <1>6, <3>1, FilledIsBlock
  <2>2. \A i \in 0 + 1 .. 0 + 12 : LastBlock(k)[i] \in Byte
    BY <2>1 DEF BlockOfBytes
  <2> QED BY <1>4, <2>2, AbsorbIsRegisters
<1>10. final(Absorb(mixed[N], LastBlock(k), 0)) \in Registers
  BY <1>9, finalIsRegisters
<1> QED BY <1>3, <1>7, <1>8, <1>10, WordsOfRegisters DEF Word64

\* What the runs hash: texts of bytes, with seeds of 64 bits.
Typed == text \in Seq(Byte) /\ seed \in Word64

LEMMA TextsAreBytes == Spec => []Typed
<1>1. Init => Typed
  BY SeedsAssumption DEF Init, Typed, Word64
<1>2. Typed /\ [Next]_vars => Typed'
  <2> SUFFICES ASSUME Typed, [Next]_vars
               PROVE  Typed'
    OBVIOUS
  <2>1. ASSUME NEW byte \in Bytes, Grow(byte)
        PROVE  Typed'
    BY <2>1, BytesAssumption DEF Grow, Typed
  <2>2. CASE UNCHANGED vars
    BY <2>2 DEF Typed, vars
  <2> QED BY <2>1, <2>2 DEF Next
<1> QED BY <1>1, <1>2, PTL DEF Spec

\* A change hashed by the port and a row hashed by PostgreSQL have one hash, at every
\* length of the text.
THEOREM PortMatchesReference == Spec => []MatchesReference
<1>1. Typed => MatchesReference
  BY PortIsHashBytes DEF Typed, MatchesReference
<1> QED BY <1>1, TextsAreBytes, PTL

LEMMA Borrowed ==
  ASSUME NEW n \in Int, -65536 <= n, n < 0
  PROVE  n % Half = n + 65536 /\ n \div Half = -1 /\ n + 65536 \in HalfWord
<1>1. n + 65536 \in HalfWord /\ n + 65536 \in Int
  BY InHalfWord
<1>2. n = Half * (-1) + (n + 65536)
  BY HalfIs
<1> HIDE DEF HalfWord
<1> QED BY <1>1, <1>2, -1 \in Int, Divided

\* The difference of two words whose halves are known.
LEMMA SubHalves ==
  ASSUME NEW h \in HalfWord, NEW l \in HalfWord, NEW m \in HalfWord, NEW n \in HalfWord
  PROVE  /\ l >= n /\ h >= m => Sub(<<h, l>>, <<m, n>>) = <<h - m, l - n>>
         /\ l >= n /\ h < m => Sub(<<h, l>>, <<m, n>>) = <<h - m + 65536, l - n>>
         /\ l < n /\ h > m => Sub(<<h, l>>, <<m, n>>) = <<h - m - 1, l - n + 65536>>
         /\ l < n /\ h <= m => Sub(<<h, l>>, <<m, n>>) = <<h - m + 65535, l - n + 65536>>
<1>1. /\ h \in Int /\ 0 <= h /\ h <= 65535 /\ l \in Int /\ 0 <= l /\ l <= 65535
      /\ m \in Int /\ 0 <= m /\ m <= 65535 /\ n \in Int /\ 0 <= n /\ n <= 65535
  BY HalfWordIsInt, InHalfWord
<1>2. Sub(<<h, l>>, <<m, n>>) = <<(h - m + (l - n) \div Half) % Half, (l - n) % Half>>
  BY DEF Sub
<1>3. ASSUME l >= n
      PROVE  (l - n) % Half = l - n /\ (l - n) \div Half = 0
  <2>1. l - n \in Int /\ 0 <= l - n /\ l - n <= 65535
    BY <1>1, <1>3
  <2>2. l - n \in HalfWord
    BY <2>1, InHalfWord
  <2> QED BY <1>1, <2>1, <2>2, HalfWordStays
<1>4. ASSUME l < n
      PROVE  (l - n) % Half = l - n + 65536 /\ (l - n) \div Half = -1
  BY <1>1, <1>4, Borrowed
<1>5. ASSUME h >= m
      PROVE  (h - m + 0) % Half = h - m
  <2>1. h - m \in Int /\ 0 <= h - m /\ h - m <= 65535
    BY <1>1, <1>5
  <2>2. h - m \in HalfWord
    BY <2>1, InHalfWord
  <2> QED BY <1>1, <2>1, <2>2, HalfWordStays
<1>6. ASSUME h < m
      PROVE  (h - m + 0) % Half = h - m + 65536
  BY <1>1, <1>6, Borrowed
<1>7. ASSUME h > m
      PROVE  (h - m + -1) % Half = h - m - 1
  <2>1. h - m - 1 \in Int /\ 0 <= h - m - 1 /\ h - m - 1 <= 65535
    BY <1>1, <1>7
  <2>2. h - m - 1 \in HalfWord
    BY <2>1, InHalfWord
  <2> QED BY <1>1, <2>1, <2>2, HalfWordStays
<1>8. ASSUME h <= m
      PROVE  (h - m + -1) % Half = h - m + 65535
  BY <1>1, <1>8, Borrowed
<1>9. l >= n /\ h >= m => Sub(<<h, l>>, <<m, n>>) = <<h - m, l - n>>
  BY <1>2, <1>3, <1>5
<1>10. l >= n /\ h < m => Sub(<<h, l>>, <<m, n>>) = <<h - m + 65536, l - n>>
  BY <1>2, <1>3, <1>6
<1>11. l < n /\ h > m => Sub(<<h, l>>, <<m, n>>) = <<h - m - 1, l - n + 65536>>
  BY <1>2, <1>4, <1>7
<1>12. l < n /\ h <= m => Sub(<<h, l>>, <<m, n>>) = <<h - m + 65535, l - n + 65536>>
  BY <1>2, <1>4, <1>8
<1> QED BY <1>9, <1>10, <1>11, <1>12

LEMMA OneAndZero == 0 \in HalfWord /\ 1 \in HalfWord /\ Zero = <<0, 0>> /\ One = <<0, 1>>
BY InHalfWord DEF Zero, One

LEMMA SubOne ==
  ASSUME NEW h \in HalfWord, NEW l \in HalfWord
  PROVE  /\ l # 0 => Sub(<<h, l>>, One) = <<h, l - 1>>
         /\ l = 0 /\ h # 0 => Sub(<<h, l>>, One) = <<h - 1, 65535>>
         /\ l = 0 /\ h = 0 => Sub(<<h, l>>, One) = <<65535, 65535>>
<1>1. h \in Int /\ 0 <= h /\ l \in Int /\ 0 <= l
  BY HalfWordIsInt, InHalfWord
<1>2. ASSUME NEW m \in HalfWord, NEW n \in HalfWord, m = 0, n = 1
      PROVE  /\ l # 0 => Sub(<<h, l>>, <<m, n>>) = <<h, l - 1>>
             /\ l = 0 /\ h # 0 => Sub(<<h, l>>, <<m, n>>) = <<h - 1, 65535>>
             /\ l = 0 /\ h = 0 => Sub(<<h, l>>, <<m, n>>) = <<65535, 65535>>
  <2>1. /\ l >= n /\ h >= m => Sub(<<h, l>>, <<m, n>>) = <<h - m, l - n>>
        /\ l < n /\ h > m => Sub(<<h, l>>, <<m, n>>) = <<h - m - 1, l - n + 65536>>
        /\ l < n /\ h <= m => Sub(<<h, l>>, <<m, n>>) = <<h - m + 65535, l - n + 65536>>
    BY SubHalves
  <2>2. h - 0 = h /\ h - 0 - 1 = h - 1
    BY <1>1
  <2> QED BY <1>1, <1>2, <2>1, <2>2
<1> QED BY <1>2, OneAndZero

\* One's complement.
LEMMA Complement ==
  ASSUME NEW h \in HalfWord, NEW l \in HalfWord
  PROVE  /\ 65535 - h \in HalfWord /\ 65535 - l \in HalfWord
         /\ Sub(Sub(Zero, <<h, l>>), One) = <<65535 - h, 65535 - l>>
<1>1. h \in Int /\ 0 <= h /\ h <= 65535 /\ l \in Int /\ 0 <= l /\ l <= 65535
  BY HalfWordIsInt, InHalfWord
<1>2. 65535 - h \in HalfWord /\ 65535 - l \in HalfWord
  BY <1>1, InHalfWord
<1>3. CASE l = 0 /\ h = 0
  <2>1. Sub(Zero, <<h, l>>) = <<0 - 0, 0 - 0>>
    BY <1>3, OneAndZero, SubHalves
  <2>2. Sub(<<0, 0>>, One) = <<65535, 65535>>
    BY OneAndZero, SubOne
  <2> QED BY <1>2, <1>3, <2>1, <2>2
<1>4. CASE l = 0 /\ h # 0
  <2> DEFINE m == 65536 - h
  <2>1. m \in HalfWord /\ m # 0 /\ 0 - h + 65536 = m /\ m - 1 = 65535 - h
    BY <1>1, <1>4, InHalfWord
  <2> HIDE DEF m
  <2>2. Sub(Zero, <<h, l>>) = <<m, 0>>
    BY <1>1, <1>4, <2>1, OneAndZero, SubHalves
  <2>3. Sub(<<m, 0>>, One) = <<m - 1, 65535>>
    BY <2>1, OneAndZero, SubOne
  <2> QED BY <1>2, <1>4, <2>1, <2>2, <2>3
<1>5. CASE l # 0
  <2> DEFINE m == 65535 - h
             n == 65536 - l
  <2>1. /\ m \in HalfWord /\ 0 - h + 65535 = m
        /\ n \in HalfWord /\ n # 0 /\ 0 - l + 65536 = n /\ n - 1 = 65535 - l
    BY <1>1, <1>5, InHalfWord
  <2> HIDE DEF m, n
  <2>2. Sub(Zero, <<h, l>>) = <<m, n>>
    BY <1>1, <1>5, <2>1, OneAndZero, SubHalves
  <2>3. Sub(<<m, n>>, One) = <<m, n - 1>>
    BY <2>1, SubOne
  <2> QED BY <1>2, <2>1, <2>2, <2>3 DEF m
<1> QED BY <1>2, <1>3, <1>4, <1>5

LEMMA SubTwice ==
  ASSUME NEW x \in Word
  PROVE  /\ Sub(Zero, Sub(Zero, x)) = x
         /\ Sub(Sub(Zero, Sub(Sub(Zero, x), One)), One) = x
         /\ Sub(Sub(Zero, x), Zero) = Sub(Zero, x)
         /\ Sub(Zero, x) = Zero <=> x = Zero
         /\ Sub(Zero, x) \in Word
<1> DEFINE h == x[1]
           l == x[2]
<1>1. h \in HalfWord /\ l \in HalfWord /\ x = <<h, l>>
  BY WordHalves
<1> HIDE DEF h, l
<1>2. h \in Int /\ 0 <= h /\ h <= 65535 /\ l \in Int /\ 0 <= l /\ l <= 65535
  BY <1>1, HalfWordIsInt, InHalfWord
<1>3. Sub(Sub(Zero, Sub(Sub(Zero, x), One)), One) = x
  <2>1. Sub(Sub(Zero, x), One) = <<65535 - h, 65535 - l>>
    BY <1>1, Complement
  <2>2. 65535 - h \in HalfWord /\ 65535 - l \in HalfWord
    BY <1>1, Complement
  <2>3. Sub(Sub(Zero, <<65535 - h, 65535 - l>>), One) = <<65535 - (65535 - h), 65535 - (65535 - l)>>
    BY <2>2, Complement
  <2>4. 65535 - (65535 - h) = h /\ 65535 - (65535 - l) = l
    BY <1>2
  <2> QED BY <1>1, <2>1, <2>3, <2>4
<1> DEFINE y == Sub(Zero, x)
<1>4. PICK m \in HalfWord, n \in HalfWord :
        /\ y = <<m, n>> /\ Sub(Zero, <<m, n>>) = <<h, l>>
        /\ m = 0 /\ n = 0 <=> h = 0 /\ l = 0
  <2>1. CASE l = 0 /\ h = 0
    <3>1. Sub(<<0, 0>>, <<0, 0>>) = <<0 - 0, 0 - 0>>
      BY OneAndZero, SubHalves
    <3> QED BY <1>1, <2>1, <3>1, OneAndZero
  <2>2. CASE l = 0 /\ h # 0
    <3> DEFINE m == 65536 - h
    <3>1. m \in HalfWord /\ m > 0 /\ 0 - h + 65536 = m /\ 0 - m + 65536 = h
      BY <1>2, <2>2, InHalfWord
    <3> HIDE DEF m
    <3>2. Sub(<<0, 0>>, <<h, 0>>) = <<m, 0>>
      BY <1>1, <1>2, <2>2, <3>1, OneAndZero, SubHalves
    <3>3. Sub(<<0, 0>>, <<m, 0>>) = <<h, 0>>
      BY <3>1, OneAndZero, SubHalves
    <3> QED BY <1>1, <2>2, <3>1, <3>2, <3>3, OneAndZero
  <2>3. CASE l # 0
    <3> DEFINE m == 65535 - h
               n == 65536 - l
    <3>1. /\ m \in HalfWord /\ 0 <= m /\ 0 - h + 65535 = m /\ 0 - m + 65535 = h
          /\ n \in HalfWord /\ n > 0 /\ 0 - l + 65536 = n /\ 0 - n + 65536 = l
      BY <1>2, <2>3, InHalfWord
    <3> HIDE DEF m, n
    <3>2. Sub(<<0, 0>>, <<h, l>>) = <<m, n>>
      BY <1>1, <1>2, <2>3, <3>1, OneAndZero, SubHalves
    <3>3. Sub(<<0, 0>>, <<m, n>>) = <<h, l>>
      BY <3>1, OneAndZero, SubHalves
    <3> QED BY <1>1, <2>3, <3>1, <3>2, <3>3, OneAndZero
  <2> QED BY <2>1, <2>2, <2>3
<1>5. m \in Int /\ 0 <= m /\ n \in Int /\ 0 <= n /\ m - 0 = m /\ n - 0 = n
  BY HalfWordIsInt, InHalfWord
<1> HIDE DEF y
<1>6. Sub(y, Zero) = y
  BY <1>4, <1>5, OneAndZero, SubHalves
<1>7. y = Zero <=> x = Zero
  BY <1>1, <1>4, OneAndZero
<1>8. y \in Word
  BY <1>4, WordOfHalves
<1> QED BY <1>1, <1>3, <1>4, <1>6, <1>7, <1>8 DEF y

\* Two's complement of 64 bits.
LEMMA NegatedTwice ==
  ASSUME NEW bits \in Word64
  PROVE  Negated(Negated(bits)) = bits
<1>1. bits[1] \in Word /\ bits[2] \in Word /\ bits = <<bits[1], bits[2]>>
  BY DEF Word64
<1>2. CASE bits[2] = Zero
  <2>1. Negated(bits) = <<Sub(Zero, bits[1]), Zero>>
    BY <1>1, <1>2, SubTwice DEF Negated
  <2>2. Sub(Zero, bits[1]) \in Word
    BY <1>1, SubTwice
  <2>3. Negated(<<Sub(Zero, bits[1]), Zero>>) = <<Sub(Zero, Sub(Zero, bits[1])), Zero>>
    BY <1>1, <1>2, <2>2, SubTwice DEF Negated
  <2> QED BY <1>1, <1>2, <2>1, <2>3, SubTwice
<1>3. CASE bits[2] # Zero
  <2> DEFINE high == Sub(Sub(Zero, bits[1]), One)
             low == Sub(Zero, bits[2])
  <2>1. Negated(bits) = <<high, low>> /\ low # Zero
    BY <1>1, <1>3, SubTwice DEF Negated
  <2>2. Negated(<<high, low>>) = <<Sub(Sub(Zero, high), One), Sub(Zero, low)>>
    BY <2>1 DEF Negated
  <2> QED BY <1>1, <2>1, <2>2, SubTwice
<1> QED BY <1>2, <1>3

\* The SQL of PostgresTarget.Scan undoes the sign: read as an int64 and taken modulo 2^64,
\* or read as a uint64, the hash of a row is one signature.
THEOREM OneTargetSignature == Spec => []TargetHashesAgree
<1>1. ASSUME NEW bits \in Word64
      PROVE  ScannedTargetHash(AsInt64(bits)) = AsUint64(bits)
  <2>1. CASE bits[1][1] >= 32768
    <3>1. AsInt64(bits) = [negative |-> TRUE, magnitude |-> Negated(bits)]
      BY <2>1 DEF AsInt64
    <3>2. AsInt64(bits).negative = TRUE /\ AsInt64(bits).magnitude = Negated(bits)
      BY <3>1
    <3>3. Negated(Negated(bits)) = bits
      BY NegatedTwice
    <3> QED BY <3>2, <3>3 DEF ScannedTargetHash
  <2>2. CASE ~(bits[1][1] >= 32768)
    <3>1. AsInt64(bits) = [negative |-> FALSE, magnitude |-> bits]
      BY <2>2 DEF AsInt64
    <3> QED BY <3>1 DEF ScannedTargetHash, AsUint64
  <2> QED BY <2>1, <2>2
<1>2. Typed => TargetHashesAgree
  BY <1>1, PortIsHashBytes DEF Typed, TargetHashesAgree, TargetHash
<1> QED BY <1>2, TextsAreBytes, PTL
=============================================================================
