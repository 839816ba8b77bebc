--------------------------- MODULE HttpTextProofs ---------------------------
(***************************************************************************)
(* Proofs about the functions of HttpText, for texts of any length.        *)
(***************************************************************************)
EXTENDS HttpText, TextLemmas

-----------------------------------------------------------------------------
(* base64                                                                   *)

\* The bit of x whose value is p.
BitOf(x, p) == (x \div p) % 2

\* The bits of a character.
SixBits(x, u, v, w, k, m, n) ==
  /\ BitOf(x, 32) = u /\ BitOf(x, 16) = v /\ BitOf(x, 8) = w
  /\ BitOf(x, 4) = k /\ BitOf(x, 2) = m /\ BitOf(x, 1) = n

\* The characters of a round that is not padded.
First(a) == a \div 4
Second(a, b) == (16 * a + b \div 16) % 64
Third(b, c) == (4 * b + c \div 64) % 64
Fourth(c) == c % 64

\* The bits of the characters of a round: those of the first and the last one lie
\* within a byte, the others have some of two bytes.
LEMMA FirstCharacter ==
  ASSUME NEW a \in 0 .. 255
  PROVE  /\ First(a) \in 0 .. 63
         /\ SixBits(First(a), BitOf(a, 128), BitOf(a, 64), BitOf(a, 32),
                    BitOf(a, 16), BitOf(a, 8), BitOf(a, 4))
<1> DEFINE x == First(a)
<1>1. x \in 0 .. 63
  BY DEF BitOf, First
<1>2. BitOf(x, 32) = BitOf(a, 128)
  BY DEF BitOf, First
<1>3. BitOf(x, 16) = BitOf(a, 64)
  BY DEF BitOf, First
<1>4. BitOf(x, 8) = BitOf(a, 32)
  BY DEF BitOf, First
<1>5. BitOf(x, 4) = BitOf(a, 16)
  BY DEF BitOf, First
<1>6. BitOf(x, 2) = BitOf(a, 8)
  BY DEF BitOf, First
<1>7. BitOf(x, 1) = BitOf(a, 4)
  BY DEF BitOf, First
<1>8. QED
  BY <1>1, <1>2, <1>3, <1>4, <1>5, <1>6, <1>7, Zenon DEF SixBits, x

LEMMA SecondCharacter ==
  ASSUME NEW a \in 0 .. 255, NEW b \in 0 .. 255
  PROVE  /\ Second(a, b) \in 0 .. 63
         /\ SixBits(Second(a, b), BitOf(a, 2), BitOf(a, 1), BitOf(b, 128),
                    BitOf(b, 64), BitOf(b, 32), BitOf(b, 16))
<1> DEFINE x == Second(a, b)
           h == b \div 16
           p == a % 4
<1>1. h \in 0 .. 15 /\ p \in 0 .. 3
  OBVIOUS
<1>2. /\ BitOf(h, 8) = BitOf(b, 128) /\ BitOf(h, 4) = BitOf(b, 64)
      /\ BitOf(h, 2) = BitOf(b, 32) /\ BitOf(h, 1) = BitOf(b, 16)
  BY DEF BitOf
<1>3. BitOf(p, 2) = BitOf(a, 2) /\ BitOf(p, 1) = BitOf(a, 1)
  BY DEF BitOf
<1>4. x = 16 * p + h
  <2>1. x = (16 * a + h) % 64
    BY DEF Second
  <2> HIDE DEF h
  <2>2. (16 * a + h) % 64 = 16 * (a % 4) + h
    BY <1>1
  <2>3. QED
    BY <2>1, <2>2
<1> HIDE DEF h, p, x
<1>5. x \in 0 .. 63
  BY <1>1, <1>4
<1>6. BitOf(x, 32) = BitOf(p, 2) /\ BitOf(x, 16) = BitOf(p, 1)
  BY <1>1, <1>4 DEF BitOf
<1>7. BitOf(x, 8) = BitOf(h, 8) /\ BitOf(x, 4) = BitOf(h, 4)
  BY <1>1, <1>4 DEF BitOf
<1>8. BitOf(x, 2) = BitOf(h, 2) /\ BitOf(x, 1) = BitOf(h, 1)
  BY <1>1, <1>4 DEF BitOf
<1>9. BitOf(x, 32) = BitOf(a, 2) /\ BitOf(x, 16) = BitOf(a, 1)
  BY <1>3, <1>6, Zenon
<1>10. BitOf(x, 8) = BitOf(b, 128) /\ BitOf(x, 4) = BitOf(b, 64)
  BY <1>2, <1>7, Zenon
<1>11. BitOf(x, 2) = BitOf(b, 32) /\ BitOf(x, 1) = BitOf(b, 16)
  BY <1>2, <1>8, Zenon
<1>12. QED
  BY <1>5, <1>9, <1>10, <1>11, Zenon DEF x, SixBits

LEMMA ThirdCharacter ==
  ASSUME NEW b \in 0 .. 255, NEW c \in 0 .. 255
  PROVE  /\ Third(b, c) \in 0 .. 63
         /\ SixBits(Third(b, c), BitOf(b, 8), BitOf(b, 4), BitOf(b, 2),
                    BitOf(b, 1), BitOf(c, 128), BitOf(c, 64))
<1> DEFINE x == Third(b, c)
           h == c \div 64
           p == b % 16
<1>1. h \in 0 .. 3 /\ p \in 0 .. 15
  OBVIOUS
<1>2. BitOf(h, 2) = BitOf(c, 128) /\ BitOf(h, 1) = BitOf(c, 64)
  BY DEF BitOf
<1>3. /\ BitOf(p, 8) = BitOf(b, 8) /\ BitOf(p, 4) = BitOf(b, 4)
      /\ BitOf(p, 2) = BitOf(b, 2) /\ BitOf(p, 1) = BitOf(b, 1)
  BY DEF BitOf
<1>4. x = 4 * p + h
  <2>1. x = (4 * b + h) % 64
    BY DEF Third
  <2> HIDE DEF h
  <2>2. (4 * b + h) % 64 = 4 * (b % 16) + h
    BY <1>1, SMTT(20)
  <2>3. QED
    BY <2>1, <2>2
<1> HIDE DEF h, p, x
<1>5. x \in 0 .. 63
  BY <1>1, <1>4
<1>6. BitOf(x, 32) = BitOf(p, 8) /\ BitOf(x, 16) = BitOf(p, 4)
  BY <1>1, <1>4 DEF BitOf
<1>7. BitOf(x, 8) = BitOf(p, 2) /\ BitOf(x, 4) = BitOf(p, 1)
  BY <1>1, <1>4 DEF BitOf
<1>8. BitOf(x, 2) = BitOf(h, 2) /\ BitOf(x, 1) = BitOf(h, 1)
  BY <1>1, <1>4 DEF BitOf
<1>9. BitOf(x, 32) = BitOf(b, 8) /\ BitOf(x, 16) = BitOf(b, 4)
  BY <1>3, <1>6, Zenon
<1>10. BitOf(x, 8) = BitOf(b, 2) /\ BitOf(x, 4) = BitOf(b, 1)
  BY <1>3, <1>7, Zenon
<1>11. BitOf(x, 2) = BitOf(c, 128) /\ BitOf(x, 1) = BitOf(c, 64)
  BY <1>2, <1>8, Zenon
<1>12. QED
  BY <1>5, <1>9, <1>10, <1>11, Zenon DEF x, SixBits

LEMMA FourthCharacter ==
  ASSUME NEW c \in 0 .. 255
  PROVE  /\ Fourth(c) \in 0 .. 63
         /\ SixBits(Fourth(c), BitOf(c, 32), BitOf(c, 16), BitOf(c, 8),
                    BitOf(c, 4), BitOf(c, 2), BitOf(c, 1))
<1> DEFINE x == Fourth(c)
<1>1. x \in 0 .. 63
  BY DEF BitOf, Fourth
<1>2. BitOf(x, 32) = BitOf(c, 32)
  BY DEF BitOf, Fourth
<1>3. BitOf(x, 16) = BitOf(c, 16)
  BY DEF BitOf, Fourth
<1>4. BitOf(x, 8) = BitOf(c, 8)
  BY DEF BitOf, Fourth
<1>5. BitOf(x, 4) = BitOf(c, 4)
  BY DEF BitOf, Fourth
<1>6. BitOf(x, 2) = BitOf(c, 2)
  BY DEF BitOf, Fourth
<1>7. BitOf(x, 1) = BitOf(c, 1)
  BY DEF BitOf, Fourth
<1>8. QED
  BY <1>1, <1>2, <1>3, <1>4, <1>5, <1>6, <1>7, Zenon DEF SixBits, x

\* Three bytes of which the first left are there, and what the others are.
Bytes3(a, b, c, left) ==
  /\ a \in 0 .. 255 /\ b \in 0 .. 255 /\ c \in 0 .. 255
  /\ left \in Nat /\ left >= 1
  /\ left = 1 => b = 0
  /\ left <= 2 => c = 0

\* The bits that the characters of these hold.
Within(r, left) == r \in 0 .. 23 /\ (left = 1 => r < 12) /\ (left = 2 => r < 18)

\* The characters of a round.
Padded(a, b, c, left) ==
  <<First(a), Second(a, b), IF left > 1 THEN Third(b, c) ELSE Pad,
    IF left > 2 THEN Fourth(c) ELSE Pad>>

LEMMA QuadIs ==
  ASSUME NEW a, NEW b, NEW c, NEW left, Bytes3(a, b, c, left)
  PROVE  Quad(a, b, c, left) = Padded(a, b, c, left)
<1>0. left \in Nat /\ left >= 1 /\ (left = 1 => b = 0) /\ (left <= 2 => c = 0)
  BY DEF Bytes3
<1>1. (IF left > 1 THEN b \div 16 ELSE 0) = b \div 16
  <2>1. CASE left > 1
    BY <2>1
  <2>2. CASE left = 1
    BY <1>0, <2>2
  <2>3. QED
    BY <1>0, <2>1, <2>2
<1>2. (IF left > 2 THEN c \div 64 ELSE 0) = c \div 64
  <2>1. CASE left > 2
    BY <2>1
  <2>2. CASE left <= 2
    BY <1>0, <2>2
  <2>3. QED
    BY <1>0, <2>1, <2>2
<1>3. QED
  BY <1>1, <1>2, Zenon DEF Quad, Padded, First, Second, Third, Fourth

\* Bit r of the 24 bits of a round is bit r of its three bytes.
SameBit(q, t, r) ==
  BitOf(q[(r \div 6) + 1], Powers[6 - (r % 6)]) = BitOf(t[(r \div 8) + 1], Powers[8 - (r % 8)])

HoldsBit(q, a, b, c, r) ==
  /\ q[1] = First(a) /\ q[2] = Second(a, b)
  /\ r >= 12 => q[3] = Third(b, c)
  /\ r >= 18 => q[4] = Fourth(c)

LEMMA RoundBits ==
  ASSUME NEW a \in 0 .. 255, NEW b \in 0 .. 255, NEW c \in 0 .. 255, NEW r \in 0 .. 23,
         NEW q, HoldsBit(q, a, b, c, r)
  PROVE  SameBit(q, <<a, b, c>>, r)
<1> DEFINE t == <<a, b, c>>
<1> SUFFICES BitOf(q[(r \div 6) + 1], Powers[6 - (r % 6)])
               = BitOf(t[(r \div 8) + 1], Powers[8 - (r % 8)])
  BY DEF SameBit
<1>1. t[1] = a /\ t[2] = b /\ t[3] = c
  OBVIOUS
<1>2. /\ Powers[1] = 1 /\ Powers[2] = 2 /\ Powers[3] = 4 /\ Powers[4] = 8
      /\ Powers[5] = 16 /\ Powers[6] = 32 /\ Powers[7] = 64 /\ Powers[8] = 128
  BY DEF Powers
<1> HIDE DEF t
<1>4. CASE r \in 0 .. 5
  <2>1. q[1] = First(a)
    BY <1>4 DEF HoldsBit
  <2>2. SixBits(First(a), BitOf(a, 128), BitOf(a, 64), BitOf(a, 32),
                BitOf(a, 16), BitOf(a, 8), BitOf(a, 4))
    BY FirstCharacter
  <2>3. SixBits(q[1], BitOf(a, 128), BitOf(a, 64), BitOf(a, 32),
                BitOf(a, 16), BitOf(a, 8), BitOf(a, 4))
    BY <2>1, <2>2, Zenon
  <2>4. QED
    BY <1>1, <1>2, <1>4, <2>3 DEF SixBits
<1>5. CASE r \in 6 .. 11
  <2>1. q[2] = Second(a, b)
    BY <1>5 DEF HoldsBit
  <2>2. SixBits(Second(a, b), BitOf(a, 2), BitOf(a, 1), BitOf(b, 128),
                BitOf(b, 64), BitOf(b, 32), BitOf(b, 16))
    BY SecondCharacter
  <2>3. SixBits(q[2], BitOf(a, 2), BitOf(a, 1), BitOf(b, 128),
                BitOf(b, 64), BitOf(b, 32), BitOf(b, 16))
    BY <2>1, <2>2, Zenon
  <2>4. QED
    BY <1>1, <1>2, <1>5, <2>3 DEF SixBits
<1>6. CASE r \in 12 .. 17
  <2>1. q[3] = Third(b, c)
    BY <1>6 DEF HoldsBit
  <2>2. SixBits(Third(b, c), BitOf(b, 8), BitOf(b, 4), BitOf(b, 2),
                BitOf(b, 1), BitOf(c, 128), BitOf(c, 64))
    BY ThirdCharacter
  <2>3. SixBits(q[3], BitOf(b, 8), BitOf(b, 4), BitOf(b, 2),
                BitOf(b, 1), BitOf(c, 128), BitOf(c, 64))
    BY <2>1, <2>2, Zenon
  <2>4. QED
    BY <1>1, <1>2, <1>6, <2>3 DEF SixBits
<1>7. CASE r \in 18 .. 23
  <2>1. q[4] = Fourth(c)
    BY <1>7 DEF HoldsBit
  <2>2. SixBits(Fourth(c), BitOf(c, 32), BitOf(c, 16), BitOf(c, 8),
                BitOf(c, 4), BitOf(c, 2), BitOf(c, 1))
    BY FourthCharacter
  <2>3. SixBits(q[4], BitOf(c, 32), BitOf(c, 16), BitOf(c, 8),
                BitOf(c, 4), BitOf(c, 2), BitOf(c, 1))
    BY <2>1, <2>2, Zenon
  <2>4. QED
    BY <1>1, <1>2, <1>7, <2>3 DEF SixBits
<1>8. QED
  BY <1>4, <1>5, <1>6, <1>7

\* The missing bytes of the last round are 0.
LEMMA QuadBits ==
  ASSUME NEW a, NEW b, NEW c, NEW left, Bytes3(a, b, c, left), NEW r, Within(r, left)
  PROVE  SameBit(Quad(a, b, c, left), <<a, b, c>>, r)
<1> DEFINE q == Quad(a, b, c, left)
<1>1. q = Padded(a, b, c, left)
  BY QuadIs, Zenon
<1> HIDE DEF q
<1>2. q[1] = First(a) /\ q[2] = Second(a, b)
  BY <1>1 DEF Padded
<1>3. (r >= 12 => left > 1) /\ (r >= 18 => left > 2)
  BY DEF Bytes3, Within
<1>4. HoldsBit(q, a, b, c, r)
  BY <1>1, <1>2, <1>3 DEF Padded, HoldsBit
<1>5. SameBit(q, <<a, b, c>>, r)
  <2>1. a \in 0 .. 255 /\ b \in 0 .. 255 /\ c \in 0 .. 255 /\ r \in 0 .. 23
    BY Zenon DEF Bytes3, Within
  <2>2. QED
    BY <1>4, <2>1, RoundBits, Zenon
<1>6. QED
  BY <1>5 DEF q

\* The bytes of the input, with zeros after it, and the rounds they make.
ByteAt(bytes, i) == IF i <= Len(bytes) THEN bytes[i] ELSE 0
Rounds(bytes) == (Len(bytes) + 2) \div 3
Round(bytes, k) ==
  Quad(ByteAt(bytes, 3 * k - 2), ByteAt(bytes, 3 * k - 1), ByteAt(bytes, 3 * k),
       Len(bytes) - 3 * (k - 1))

LEMMA ByteAtIs ==
  ASSUME NEW bytes \in Seq(0 .. 255), NEW i \in Nat, i >= 1
  PROVE  /\ ByteAt(bytes, i) \in 0 .. 255
         /\ i > Len(bytes) => ByteAt(bytes, i) = 0
         /\ i <= Len(bytes) => ByteAt(bytes, i) = bytes[i]
<1>1. CASE i <= Len(bytes)
  <2>1. i \in 1 .. Len(bytes) /\ ~(i > Len(bytes))
    BY <1>1
  <2>2. bytes[i] \in 0 .. 255
    BY <2>1, ItsSymbols, Zenon
  <2>3. QED
    BY <1>1, <2>1, <2>2, Zenon DEF ByteAt
<1>2. CASE i > Len(bytes)
  BY <1>2 DEF ByteAt
<1>3. QED
  BY <1>1, <1>2

IsRound(q, n, k) ==
  /\ q \in Seq(0 .. 64) /\ Len(q) = 4
  /\ q[1] # Pad /\ q[2] # Pad
  /\ q[3] = Pad <=> n <= 3 * k - 2
  /\ q[4] = Pad <=> n <= 3 * k - 1

Triple(bytes, k) ==
  <<ByteAt(bytes, 3 * k - 2), ByteAt(bytes, 3 * k - 1), ByteAt(bytes, 3 * k)>>

LEMMA RoundIs ==
  ASSUME NEW bytes \in Seq(0 .. 255), NEW k \in Nat, k >= 1, 3 * (k - 1) < Len(bytes)
  PROVE  /\ IsRound(Round(bytes, k), Len(bytes), k)
         /\ \A r \in 0 .. 23 :
              (Len(bytes) = 3 * k - 2 => r < 12) /\ (Len(bytes) = 3 * k - 1 => r < 18) =>
              SameBit(Round(bytes, k), Triple(bytes, k), r)
<1> DEFINE a == ByteAt(bytes, 3 * k - 2)
           b == ByteAt(bytes, 3 * k - 1)
           c == ByteAt(bytes, 3 * k)
           left == Len(bytes) - 3 * (k - 1)
           q == Round(bytes, k)
<1>0. /\ 3 * k - 2 \in Nat /\ 3 * k - 2 >= 1
      /\ 3 * k - 1 \in Nat /\ 3 * k - 1 >= 1 /\ 3 * k \in Nat /\ 3 * k >= 1
  OBVIOUS
<1>1. a \in 0 .. 255 /\ b \in 0 .. 255 /\ c \in 0 .. 255
  BY <1>0, ByteAtIs, Zenon
<1>2. /\ left \in Nat /\ left >= 1
      /\ left = 1 <=> Len(bytes) = 3 * k - 2
      /\ left = 2 <=> Len(bytes) = 3 * k - 1
      /\ left <= 1 <=> Len(bytes) <= 3 * k - 2
      /\ left <= 2 <=> Len(bytes) <= 3 * k - 1
  OBVIOUS
<1>3. left = 1 => b = 0
  <2>1. left = 1 => 3 * k - 1 > Len(bytes)
    OBVIOUS
  <2> DEFINE i == 3 * k - 1
  <2>2. i \in Nat /\ i >= 1
    BY <1>0
  <2> HIDE DEF i
  <2>3. i > Len(bytes) => ByteAt(bytes, i) = 0
    BY <2>2, ByteAtIs
  <2>4. QED
    BY <2>1, <2>3, Zenon DEF i
<1>4. left <= 2 => c = 0
  <2>1. left <= 2 => 3 * k > Len(bytes)
    OBVIOUS
  <2> DEFINE i == 3 * k
  <2>2. i \in Nat /\ i >= 1
    BY <1>0
  <2> HIDE DEF i
  <2>3. i > Len(bytes) => ByteAt(bytes, i) = 0
    BY <2>2, ByteAtIs
  <2>4. QED
    BY <2>1, <2>3, Zenon DEF i
<1>5. q = Quad(a, b, c, left) /\ Triple(bytes, k) = <<a, b, c>>
  BY Zenon DEF Round, Triple
<1> HIDE DEF a, b, c, left, q
<1>6. Bytes3(a, b, c, left)
  BY <1>1, <1>2, <1>3, <1>4, Zenon DEF Bytes3
<1>7. q = Padded(a, b, c, left)
  BY <1>5, <1>6, QuadIs, Zenon
<1>8. /\ First(a) \in 0 .. 63 /\ Second(a, b) \in 0 .. 63
      /\ Third(b, c) \in 0 .. 63 /\ Fourth(c) \in 0 .. 63
  <2>1. First(a) \in 0 .. 63
    BY <1>1, FirstCharacter, Zenon
  <2>2. Second(a, b) \in 0 .. 63
    BY <1>1, SecondCharacter, Zenon
  <2>3. Third(b, c) \in 0 .. 63
    BY <1>1, ThirdCharacter, Zenon
  <2>4. Fourth(c) \in 0 .. 63
    BY <1>1, FourthCharacter, Zenon
  <2>5. QED
    BY <2>1, <2>2, <2>3, <2>4, Zenon
<1>9. q \in Seq(0 .. 64) /\ Len(q) = 4
  BY <1>7, <1>8 DEF Pad, Padded
<1>10. /\ q[1] # Pad /\ q[2] # Pad
       /\ q[3] = Pad <=> left <= 1
       /\ q[4] = Pad <=> left <= 2
  <2>1. /\ q[1] = First(a) /\ q[2] = Second(a, b)
        /\ q[3] = IF left > 1 THEN Third(b, c) ELSE Pad
        /\ q[4] = IF left > 2 THEN Fourth(c) ELSE Pad
    BY <1>7 DEF Padded
  <2>2. Pad \notin 0 .. 63
    BY DEF Pad
  <2>3. (~(left > 1) <=> left <= 1) /\ (~(left > 2) <=> left <= 2)
    BY <1>2
  <2>4. QED
    BY <1>8, <2>1, <2>2, <2>3, Zenon
<1>11. ASSUME NEW r \in 0 .. 23, left = 1 => r < 12, left = 2 => r < 18
       PROVE  SameBit(q, Triple(bytes, k), r)
  <2>1. SameBit(Quad(a, b, c, left), <<a, b, c>>, r)
    <3>1. Within(r, left)
      BY <1>11, Zenon DEF Within
    <3>2. QED
      BY <1>6, <3>1, QuadBits, Zenon
  <2>2. QED
    BY <1>5, <2>1, Zenon
<1>12. IsRound(q, Len(bytes), k)
  BY <1>2, <1>9, <1>10, Zenon DEF IsRound
<1>13. QED
  BY <1>2, <1>11, <1>12, Zenon DEF q

\* The encoded text is the rounds one after the other.
LEMMA EncodedIsRounds ==
  ASSUME NEW bytes \in Seq(0 .. 255)
  PROVE  /\ Rounds(bytes) \in Nat
         /\ 3 * Rounds(bytes) - 2 <= Len(bytes) \/ (Len(bytes) = 0 /\ Rounds(bytes) = 0)
         /\ Len(bytes) <= 3 * Rounds(bytes)
         /\ Len(base64_encode(bytes)) = 4 * Rounds(bytes)
         /\ \A k \in 1 .. Rounds(bytes), j \in 1 .. 4 :
              base64_encode(bytes)[4 * (k - 1) + j] = Round(bytes, k)[j]
<1> DEFINE R == Rounds(bytes)
           q == [k \in 1 .. R |-> Round(bytes, k)]
<1>1. /\ R \in Nat /\ Len(bytes) <= 3 * R
      /\ 3 * R - 2 <= Len(bytes) \/ (Len(bytes) = 0 /\ R = 0)
  BY DEF Rounds
<1>2. base64_encode(bytes) = FlattenSeq(q)
  BY Zenon DEF base64_encode, Rounds, Round, ByteAt
<1> HIDE DEF R
<1>3. \A k \in 1 .. R : Round(bytes, k) \in Seq(0 .. 64) /\ Len(Round(bytes, k)) = 4
  <2> SUFFICES ASSUME NEW k \in 1 .. R
               PROVE  Round(bytes, k) \in Seq(0 .. 64) /\ Len(Round(bytes, k)) = 4
    OBVIOUS
  <2>1. k \in Nat /\ k >= 1 /\ 3 * (k - 1) < Len(bytes)
    BY <1>1
  <2>2. IsRound(Round(bytes, k), Len(bytes), k)
    BY <2>1, RoundIs, Zenon
  <2>3. QED
    BY <2>2, Zenon DEF IsRound
<1>4. /\ q \in Seq(Seq(0 .. 64)) /\ Len(q) = R
      /\ \A k \in 1 .. R : q[k] = Round(bytes, k) /\ Len(q[k]) = 4
  BY <1>1, <1>3
<1> HIDE DEF q
<1>5. /\ Len(FlattenSeq(q)) = 4 * R
      /\ \A k \in 1 .. R, j \in 1 .. 4 : FlattenSeq(q)[4 * (k - 1) + j] = q[k][j]
  <2>1. \A k \in 1 .. Len(q) : Len(q[k]) = 4
    BY <1>4
  <2>2. MadeOfFours(FlattenSeq(q), q)
    BY <1>4, <2>1, FlattenFours
  <2>3. QED
    BY <1>4, <2>2, Zenon DEF MadeOfFours
<1>6. QED
  BY <1>1, <1>2, <1>4, <1>5 DEF R

\* The number of characters that hold bits, and which of a round do.
LEMMA UsedIs ==
  ASSUME NEW n \in Nat, NEW R \in Nat, n <= 3 * R, 3 * R - 2 <= n \/ (n = 0 /\ R = 0)
  PROVE  (8 * n + 5) \div 6 = n + R
<1>1. n = 3 * R \/ n = 3 * R - 1 \/ n = 3 * R - 2
  OBVIOUS
<1>2. QED
  BY <1>1

\* Bit i of all is bit r of round k.
LEMMA WhereBitIs ==
  ASSUME NEW i \in Nat
  PROVE  \E k \in Nat, r \in 0 .. 23 :
           /\ k >= 1 /\ i = 24 * (k - 1) + r
           /\ i \div 6 = 4 * (k - 1) + (r \div 6) /\ i % 6 = r % 6
           /\ i \div 8 = 3 * (k - 1) + (r \div 8) /\ i % 8 = r % 8
           /\ r \div 6 \in 0 .. 3 /\ r \div 8 \in 0 .. 2
<1> DEFINE m == i \div 24
           r == i % 24
<1>1. m \in Nat /\ r \in 0 .. 23 /\ i = 24 * m + r
  OBVIOUS
<1> HIDE DEF m, r
<1>2. i \div 6 = 4 * m + (r \div 6) /\ i % 6 = r % 6
  BY <1>1
<1>3. i \div 8 = 3 * m + (r \div 8) /\ i % 8 = r % 8
  BY <1>1
<1>4. r \div 6 \in 0 .. 3 /\ r \div 8 \in 0 .. 2
  BY <1>1
<1>5. m + 1 \in Nat /\ m + 1 >= 1 /\ (m + 1) - 1 = m
  BY <1>1
<1>6. QED
  BY <1>1, <1>2, <1>3, <1>4, <1>5

(* base64_encode computes the base64 of RFC 4648, for input of any length    *)
(* (src/src/HttpClient.cpp:597-621).                                        *)
THEOREM EncodesBase64 ==
  ASSUME NEW bytes \in Seq(0 .. 255)
  PROVE  IsBase64(base64_encode(bytes), bytes)
<1> DEFINE R == Rounds(bytes)
           n == Len(bytes)
           e == base64_encode(bytes)
<1>1. /\ R \in Nat /\ n \in Nat /\ n <= 3 * R
      /\ 3 * R - 2 <= n \/ (n = 0 /\ R = 0)
      /\ Len(e) = 4 * R
      /\ \A k \in 1 .. R, j \in 1 .. 4 : e[4 * (k - 1) + j] = Round(bytes, k)[j]
  BY EncodedIsRounds
<1>2. R = (n + 2) \div 3
  BY DEF Rounds
<1> HIDE DEF R, n, e
<1>3. (8 * n + 5) \div 6 = n + R
  BY <1>1, UsedIs
<1>4. ASSUME NEW k \in 1 .. R PROVE k \in Nat /\ k >= 1 /\ 3 * (k - 1) < n
  BY <1>1
<1>5. ASSUME NEW i \in 1 .. Len(e) PROVE (e[i] = Pad) <=> (i > n + R)
  <2>1. PICK k \in 1 .. R, j \in 1 .. 4 : i = 4 * (k - 1) + j
    <3> DEFINE m == (i - 1) \div 4
    <3>1. m \in 0 .. R - 1 /\ i - 4 * m \in 1 .. 4
      BY <1>1
    <3> HIDE DEF m
    <3>2. m + 1 \in 1 .. R /\ i = 4 * ((m + 1) - 1) + (i - 4 * m)
      BY <1>1, <3>1
    <3>3. QED
      BY <3>1, <3>2
  <2>2. e[i] = Round(bytes, k)[j]
    BY <1>1, <2>1
  <2>3. /\ Round(bytes, k)[1] # Pad /\ Round(bytes, k)[2] # Pad
        /\ Round(bytes, k)[3] = Pad <=> n <= 3 * k - 2
        /\ Round(bytes, k)[4] = Pad <=> n <= 3 * k - 1
    <3>1. IsRound(Round(bytes, k), n, k)
      BY <1>4, RoundIs, Zenon DEF n
    <3>2. QED
      BY <3>1, Zenon DEF IsRound
  <2>4. CASE j = 1 \/ j = 2
    <3>1. ~(i > n + R)
      BY <1>1, <2>1, <2>4
    <3>2. QED
      BY <2>2, <2>3, <2>4, <3>1
  <2>5. CASE j = 3
    <3>1. i > n + R <=> n <= 3 * k - 2
      BY <1>1, <2>1, <2>5
    <3>2. QED
      BY <2>2, <2>3, <2>5, <3>1
  <2>6. CASE j = 4
    <3>1. i > n + R <=> n <= 3 * k - 1
      BY <1>1, <2>1, <2>6
    <3>2. QED
      BY <2>2, <2>3, <2>6, <3>1
  <2>7. QED
    BY <2>4, <2>5, <2>6
<1>6. ASSUME NEW i \in 0 .. (6 * (n + R) - 1)
      PROVE  Bit(e, 6, i) = IF i < 8 * n THEN Bit(bytes, 8, i) ELSE 0
  <2>1. PICK k \in Nat, r \in 0 .. 23 :
           /\ k >= 1 /\ i = 24 * (k - 1) + r
           /\ i \div 6 = 4 * (k - 1) + (r \div 6) /\ i % 6 = r % 6
           /\ i \div 8 = 3 * (k - 1) + (r \div 8) /\ i % 8 = r % 8
           /\ r \div 6 \in 0 .. 3 /\ r \div 8 \in 0 .. 2
    <3>1. i \in Nat
      BY <1>1
    <3>2. QED
      BY <3>1, WhereBitIs, Zenon
  <2>2. k \in 1 .. R /\ (n = 3 * k - 2 => r < 12) /\ (n = 3 * k - 1 => r < 18)
    <3>1. k >= 1 /\ i = 24 * (k - 1) + r
      BY <2>1
    <3>2. /\ R \in Nat /\ n \in Nat /\ n <= 3 * R
          /\ 3 * R - 2 <= n \/ (n = 0 /\ R = 0)
      BY <1>1
    <3>3. i < 6 * (n + R) /\ i \in Nat
      BY <3>2
    <3>4. k <= R
      BY <3>1, <3>2, <3>3
    <3>5. n = 3 * k - 2 => r < 12
      BY <3>1, <3>2, <3>3, <3>4
    <3>6. n = 3 * k - 1 => r < 18
      BY <3>1, <3>2, <3>3, <3>4
    <3>7. QED
      BY <3>1, <3>4, <3>5, <3>6
  <2> DEFINE q == Round(bytes, k)
             t == Triple(bytes, k)
             u == r \div 6
             v == r \div 8
  <2>3. SameBit(q, t, r)
    BY <1>4, <2>2, RoundIs, Zenon DEF n
  <2>4. BitOf(q[u + 1], Powers[6 - (r % 6)]) = BitOf(t[v + 1], Powers[8 - (r % 8)])
    BY <2>3, Zenon DEF SameBit
  <2>5. u \in 0 .. 3 /\ v \in 0 .. 2
    BY <2>1
  <2>6. i \div 6 = 4 * (k - 1) + u /\ i \div 8 = 3 * (k - 1) + v
    BY <2>1
  <2> HIDE DEF q, u, v
  <2>7. Bit(e, 6, i) = BitOf(q[u + 1], Powers[6 - (r % 6)])
    <3>1. u + 1 \in 1 .. 4 /\ (i \div 6) + 1 = 4 * (k - 1) + (u + 1)
      BY <2>1, <2>5, <2>6
    <3>2. e[(i \div 6) + 1] = q[u + 1]
      BY <1>1, <2>2, <3>1 DEF q
    <3>3. Bit(e, 6, i) = BitOf(e[(i \div 6) + 1], Powers[6 - (i % 6)])
      BY Zenon DEF Bit, BitOf
    <3>4. QED
      BY <2>1, <3>2, <3>3, Zenon
  <2>8. t[v + 1] = ByteAt(bytes, (i \div 8) + 1)
    <3>1. CASE v = 0
      <4>1. (i \div 8) + 1 = 3 * k - 2
        BY <2>6, <3>1
      <4>2. QED
        BY <3>1, <4>1 DEF Triple
    <3>2. CASE v = 1
      <4>1. (i \div 8) + 1 = 3 * k - 1
        BY <2>6, <3>2
      <4>2. QED
        BY <3>2, <4>1 DEF Triple
    <3>3. CASE v = 2
      <4>1. (i \div 8) + 1 = 3 * k
        BY <2>6, <3>3
      <4>2. QED
        BY <3>3, <4>1 DEF Triple
    <3>4. QED
      BY <2>5, <3>1, <3>2, <3>3
  <2> HIDE DEF t
  <2>9. Bit(e, 6, i) = BitOf(ByteAt(bytes, (i \div 8) + 1), Powers[8 - (i % 8)])
    BY <2>1, <2>4, <2>7, <2>8, Zenon
  <2>10. CASE i < 8 * n
    <3>1. (i \div 8) + 1 \in Nat /\ (i \div 8) + 1 >= 1 /\ (i \div 8) + 1 <= n
      BY <1>1, <2>10
    <3>2. ByteAt(bytes, (i \div 8) + 1) = bytes[(i \div 8) + 1]
      BY <3>1, ByteAtIs, Zenon DEF n
    <3>3. Bit(e, 6, i) = Bit(bytes, 8, i)
      BY <2>9, <3>2, Zenon DEF Bit, BitOf
    <3>4. QED
      BY <2>10, <3>3, Zenon
  <2>11. CASE ~(i < 8 * n)
    <3>1. (i \div 8) + 1 \in Nat /\ (i \div 8) + 1 >= 1 /\ (i \div 8) + 1 > n
      BY <1>1, <2>11
    <3>2. ByteAt(bytes, (i \div 8) + 1) = 0
      BY <3>1, ByteAtIs, Zenon DEF n
    <3>3. BitOf(0, Powers[8 - (i % 8)]) = 0
      <4>1. i % 8 \in 0 .. 7
        OBVIOUS
      <4> DEFINE m == 8 - (i % 8)
      <4>2. m \in 1 .. 8
        BY <4>1
      <4> HIDE DEF m
      <4>3. Powers[m] \in {1, 2, 4, 8, 16, 32, 64, 128}
        BY <4>2 DEF Powers
      <4>4. \A p \in {1, 2, 4, 8, 16, 32, 64, 128} : BitOf(0, p) = 0
        BY DEF BitOf
      <4>5. QED
        <5>1. BitOf(0, Powers[m]) = 0
          BY <4>3, <4>4
        <5>2. QED
          BY <5>1, Zenon DEF m
    <3>4. QED
      BY <2>9, <2>11, <3>2, <3>3, Zenon
  <2>12. QED
    BY <2>10, <2>11
<1>7. QED
  BY <1>1, <1>2, <1>3, <1>5, <1>6, Zenon DEF IsBase64, n, e
LEMMA DecDigitValues ==
  /\ \A d \in DOMAIN DecDigit : DecDigit[d] \in 0 .. 9
  /\ Space \notin DOMAIN DecDigit /\ "\r" \notin DOMAIN DecDigit
<1>1. DOMAIN DecDigit = {"0", "1", "2", "3", "4", "5", "6", "7", "8", "9"}
  BY DEF DecDigit
<1>2. ASSUME NEW d \in DOMAIN DecDigit PROVE DecDigit[d] \in 0 .. 9
  <2> DEFINE q == <<"0", "1", "2", "3", "4", "5", "6", "7", "8", "9">>
  <2>1. /\ q[0 + 1] = "0" /\ q[1 + 1] = "1" /\ q[2 + 1] = "2" /\ q[3 + 1] = "3" /\ q[4 + 1] = "4"
        /\ q[5 + 1] = "5" /\ q[6 + 1] = "6" /\ q[7 + 1] = "7" /\ q[8 + 1] = "8" /\ q[9 + 1] = "9"
    OBVIOUS
  <2>2. DecDigit[d] = CHOOSE n \in 0 .. 9 : q[n + 1] = d
    BY <1>1, <1>2 DEF DecDigit
  <2> HIDE DEF q
  <2>3. \E n \in 0 .. 9 : q[n + 1] = d
    BY <1>1, <1>2, <2>1
  <2>4. QED
    BY <2>2, <2>3
<1>3. Space \notin DOMAIN DecDigit
  <2>1. \A d \in DOMAIN DecDigit : d \in {"0", "1", "2", "3", "4", "5", "6", "7", "8", "9"}
    BY <1>1
  <2>2. Space \notin {"0", "1", "2", "3", "4", "5", "6", "7", "8", "9"}
    BY Zenon DEF Space
  <2>3. QED
    BY <2>1, <2>2
<1>4. QED
  BY <1>1, <1>2, <1>3

LEMMA HexDigitValues ==
  /\ \A d \in DOMAIN HexDigit : HexDigit[d] \in 0 .. 15
  /\ Space \notin DOMAIN HexDigit /\ "\r" \notin DOMAIN HexDigit
<1> DEFINE low == <<"a", "b", "c", "d", "e", "f">>
           up == <<"A", "B", "C", "D", "E", "F">>
<1>1. DOMAIN DecDigit = {"0", "1", "2", "3", "4", "5", "6", "7", "8", "9"}
  BY DEF DecDigit
<1>2. DOMAIN HexDigit = DOMAIN DecDigit \cup {"a", "b", "c", "d", "e", "f", "A", "B", "C", "D", "E", "F"}
  BY DEF HexDigit
<1>3. ASSUME NEW d \in DOMAIN HexDigit, d \notin DOMAIN DecDigit PROVE HexDigit[d] \in 10 .. 15
  <2>1. /\ low[10 - 9] = "a" /\ low[11 - 9] = "b" /\ low[12 - 9] = "c"
        /\ low[13 - 9] = "d" /\ low[14 - 9] = "e" /\ low[15 - 9] = "f"
        /\ up[10 - 9] = "A" /\ up[11 - 9] = "B" /\ up[12 - 9] = "C"
        /\ up[13 - 9] = "D" /\ up[14 - 9] = "E" /\ up[15 - 9] = "F"
    OBVIOUS
  <2>2. HexDigit[d] = CHOOSE n \in 10 .. 15 : low[n - 9] = d \/ up[n - 9] = d
    BY <1>2, <1>3 DEF HexDigit
  <2> HIDE DEF low, up
  <2>3. \E n \in 10 .. 15 : low[n - 9] = d \/ up[n - 9] = d
    BY <1>2, <1>3, <2>1
  <2>4. QED
    BY <2>2, <2>3
<1>4. ASSUME NEW d \in DOMAIN DecDigit PROVE HexDigit[d] \in 0 .. 15
  <2>1. HexDigit[d] = DecDigit[d]
    BY DEF HexDigit
  <2>2. DecDigit[d] \in 0 .. 9
    BY DecDigitValues
  <2>3. QED
    BY <2>1, <2>2
<1>5. Space \notin DOMAIN HexDigit
  <2>1. Space \notin {"a", "b", "c", "d", "e", "f", "A", "B", "C", "D", "E", "F"}
    BY Zenon DEF Space
  <2>2. QED
    BY <1>2, <2>1, DecDigitValues
<1>6. QED
  BY <1>1, <1>2, <1>3, <1>4, <1>5

\* What is found is the first place that holds the needle.
LEMMA PlaceHolds ==
  ASSUME NEW A, NEW text \in Seq(A), NEW needle \in Seq(A), NEW i \in Len(needle) .. Len(text)
  PROVE  SubSeq(text, i - Len(needle) + 1, i) = needle <=> Holds(text, i - Len(needle), needle)
<1> DEFINE k == i - Len(needle)
<1>1. k \in Nat /\ k + Len(needle) = i /\ i \in 0 .. Len(text) /\ k + 1 >= 1 /\ Len(needle) \in Nat
  OBVIOUS
<1>2. ASSUME Holds(text, k, needle) PROVE SubSeq(text, k + 1, i) = needle
  <2>1. SubSeq(text, k + 1, k + Len(needle)) = needle
    BY <1>1, <1>2, PartHeld
  <2>2. QED
    BY <1>1, <2>1
<1>3. ASSUME SubSeq(text, k + 1, i) = needle PROVE Holds(text, k, needle)
  <2>1. \A j \in 1 .. Len(SubSeq(text, k + 1, i)) : SubSeq(text, k + 1, i)[j] = text[(k + 1) + j - 1]
    BY <1>1, PartIs
  <2>2. \A j \in 1 .. Len(needle) : needle[j] = text[(k + 1) + j - 1]
    BY <1>3, <2>1
  <2>3. \A j \in 1 .. Len(needle) : (k + 1) + j - 1 = k + j
    BY <1>1
  <2>4. \A j \in 1 .. Len(needle) : text[k + j] = needle[j]
    BY <2>2, <2>3
  <2>5. QED
    BY <1>1, <2>4 DEF Holds
<1>4. QED
  BY <1>2, <1>3

LEMMA NeedleAt ==
  ASSUME NEW A, NEW text \in Seq(A), NEW needle \in Seq(A), NEW k \in Nat,
         Holds(text, k, needle), \A m \in Nat : m < k => ~Holds(text, m, needle)
  PROVE  FindAfter(text, needle) = k + Len(needle)
<1> DEFINE ends == {i \in Len(needle) .. Len(text) :
                      SubSeq(text, i - Len(needle) + 1, i) = needle}
           e == k + Len(needle)
<1>1. e \in Len(needle) .. Len(text) /\ e - Len(needle) = k
  BY DEF Holds
<1>2. e \in ends
  BY <1>1, PlaceHolds
<1>3. ASSUME NEW i \in ends PROVE e <= i
  <2>1. i \in Len(needle) .. Len(text) /\ i - Len(needle) \in Nat
    OBVIOUS
  <2>2. Holds(text, i - Len(needle), needle)
    BY <2>1, PlaceHolds
  <2>3. QED
    BY <1>1, <2>1, <2>2
<1>4. ends \in SUBSET Nat /\ ends # {} /\ \A i \in ends : i \in Nat
  <2>1. Len(needle) \in Nat /\ Len(text) \in Nat
    OBVIOUS
  <2>2. \A i \in Len(needle) .. Len(text) : i \in Nat
    BY <2>1
  <2>3. \A i \in ends : i \in Nat
    BY <2>2
  <2>4. QED
    BY <1>2, <2>3
<1>5. FindAfter(text, needle) = Min(ends)
  BY <1>4 DEF FindAfter
<1> HIDE DEF ends
<1>6. Min(ends) \in ends /\ \A y \in ends : Min(ends) <= y
  BY <1>4, LeastIs
<1>7. Min(ends) <= e /\ e <= Min(ends) /\ Min(ends) \in Nat /\ e \in Nat
  BY <1>2, <1>3, <1>4, <1>6
<1>8. QED
  BY <1>5, <1>7

LEMMA NeedleNowhere ==
  ASSUME NEW A, NEW text \in Seq(A), NEW needle \in Seq(A),
         \A m \in Nat : ~Holds(text, m, needle)
  PROVE  FindAfter(text, needle) = NotFound
<1>1. ASSUME NEW i \in Len(needle) .. Len(text) PROVE SubSeq(text, i - Len(needle) + 1, i) # needle
  <2>1. i - Len(needle) \in Nat
    OBVIOUS
  <2>2. QED
    BY <2>1, PlaceHolds
<1>2. QED
  BY <1>1 DEF FindAfter

\* What a scanner takes is the first run of symbols of a set.
LEMMA RunIs ==
  ASSUME NEW A, NEW text \in Seq(A), NEW symbols, NEW k \in 0 .. Len(text),
         \A i \in 1 .. k : text[i] \in symbols,
         k < Len(text) => text[k + 1] \notin symbols
  PROVE  Prefix(text, symbols) = Upto(text, k)
<1> DEFINE stops == {i \in 1 .. Len(text) : text[i] \notin symbols}
<1>1. CASE k = Len(text)
  <2>1. stops = {}
    BY <1>1
  <2>2. Upto(text, k) = text
    BY <1>1 DEF Upto
  <2>3. QED
    BY <2>1, <2>2 DEF Prefix
<1>2. CASE k < Len(text)
  <2>1. k + 1 \in stops /\ \A i \in stops : k + 1 <= i
    BY <1>2
  <2>2. stops \in SUBSET Nat /\ stops # {}
    BY <2>1
  <2>3. Prefix(text, symbols) = Upto(text, Min(stops) - 1)
    BY <2>2 DEF Prefix
  <2> HIDE DEF stops
  <2>4. Min(stops) \in stops /\ \A y \in stops : Min(stops) <= y
    BY <2>2, LeastIs
  <2>5. Min(stops) \in Nat /\ Min(stops) <= k + 1 /\ k + 1 <= Min(stops)
    BY <2>1, <2>2, <2>4
  <2>6. Min(stops) - 1 = k
    BY <2>5
  <2>7. QED
    BY <2>3, <2>6
<1>3. QED
  BY <1>1, <1>2

\* The symbols of texts. Those that the scanners look for are different ones.
Named == {Space, Version10, Version11, LengthField, ChunkedField, "\r", "\n", "0"}
Symbol == STRING \cup Named

LEMMA NamedSymbols ==
  /\ Space \in Symbol /\ Version10 \in Symbol /\ Version11 \in Symbol
  /\ LengthField \in Symbol /\ ChunkedField \in Symbol
  /\ "\r" \in Symbol /\ "\n" \in Symbol /\ "0" \in Symbol
  BY Zenon DEF Symbol, Named

LEMMA DifferentSymbols ==
  /\ Version10 # Version11 /\ LengthField # ChunkedField
  /\ \A x \in {Version10, Version11, LengthField, ChunkedField} :
       x \notin {Space, "\r", "\n", "0"}
  /\ Space \notin {"\r", "\n", "0"}
<1>1. Version10 # Version11 /\ LengthField # ChunkedField
  BY Zenon DEF Version10, Version11, LengthField, ChunkedField
<1>2. \A x \in {Version10, Version11, LengthField, ChunkedField} : x \notin {Space, "\r", "\n", "0"}
  BY Zenon DEF Space, Version10, Version11, LengthField, ChunkedField
<1>3. Space \notin {"\r", "\n", "0"}
  BY Zenon DEF Space
<1>4. QED
  BY <1>1, <1>2, <1>3, Zenon

\* The number that a run of digits stands for, digit by digit.
Counts(v, run, digits, base, n) ==
  v = [i \in 0 .. n |-> IF i = 0 THEN 0 ELSE base * v[i - 1] + digits[run[i]]]

LEMMA OneMoreDigit ==
  ASSUME NEW run, NEW digits, NEW base, NEW n \in Nat, NEW v, Counts(v, run, digits, base, n)
  PROVE  \E w : Counts(w, run, digits, base, n + 1)
<1> DEFINE w == [i \in 0 .. n + 1 |->
                   IF i = n + 1 THEN base * v[n] + digits[run[n + 1]] ELSE v[i]]
<1>1. \A i \in 0 .. n : v[i] = IF i = 0 THEN 0 ELSE base * v[i - 1] + digits[run[i]]
  BY Zenon DEF Counts
<1>2. /\ w[n + 1] = base * v[n] + digits[run[n + 1]]
      /\ \A i \in 0 .. n : w[i] = v[i] /\ i # n + 1
      /\ n \in 0 .. n /\ n + 1 # 0 /\ (n + 1) - 1 = n
  OBVIOUS
<1>3. \A i \in 0 .. n : i # 0 => i - 1 \in 0 .. n
  OBVIOUS
<1>4. \A i \in 0 .. n + 1 : i \in 0 .. n \/ i = n + 1
  OBVIOUS
<1>5. w = [i \in 0 .. n + 1 |-> w[i]]
  OBVIOUS
<1> HIDE DEF w
<1>6. \A i \in 0 .. n + 1 : w[i] = IF i = 0 THEN 0 ELSE base * w[i - 1] + digits[run[i]]
  <2>1. ASSUME NEW i \in 0 .. n PROVE w[i] = IF i = 0 THEN 0 ELSE base * w[i - 1] + digits[run[i]]
    <3>1. CASE i = 0
      BY <1>1, <1>2, <3>1, Zenon
    <3>2. CASE i # 0
      <4>1. w[i] = v[i] /\ w[i - 1] = v[i - 1]
        BY <1>2, <1>3, <3>2, Zenon
      <4>2. v[i] = base * v[i - 1] + digits[run[i]]
        BY <1>1, <3>2, Zenon
      <4>3. QED
        BY <3>2, <4>1, <4>2, Zenon
    <3>3. QED
      BY <3>1, <3>2
  <2>2. w[n + 1] = base * w[(n + 1) - 1] + digits[run[n + 1]]
    BY <1>2
  <2>3. QED
    BY <1>2, <1>4, <2>1, <2>2, Zenon
<1>7. Counts(w, run, digits, base, n + 1)
  BY <1>5, <1>6, Zenon DEF Counts
<1>8. QED
  BY <1>7, Zenon

LEMMA ValueCounts ==
  ASSUME NEW run, NEW digits, NEW base, Len(run) \in Nat
  PROVE  \E v : /\ Value(run, digits, base) = v[Len(run)]
                /\ \A i \in 0 .. Len(run) :
                     v[i] = IF i = 0 THEN 0 ELSE base * v[i - 1] + digits[run[i]]
<1> DEFINE N == Len(run)
           S == {n \in Nat : \E v : Counts(v, run, digits, base, n - 1)}
<1>1. Counts([i \in 0 .. 0 |-> 0], run, digits, base, 1 - 1)
  BY DEF Counts
<1>2. 1 \in S
  BY <1>1
<1>3. ASSUME NEW n \in 1 .. (N + 1) - 1, n \in S PROVE n + 1 \in S
  <2>1. n - 1 \in Nat /\ (n - 1) + 1 = (n + 1) - 1 /\ n + 1 \in Nat
    OBVIOUS
  <2>2. \E v : Counts(v, run, digits, base, n - 1)
    BY <1>3
  <2>3. \E v : Counts(v, run, digits, base, (n - 1) + 1)
    BY <2>1, <2>2, OneMoreDigit, Zenon
  <2>4. QED
    BY <2>1, <2>3
<1> HIDE DEF S
<1>4. N + 1 \in S
  <2>1. N + 1 \in Nat /\ N + 1 \in 1 .. N + 1
    OBVIOUS
  <2>2. \A n \in 1 .. N + 1 : n \in S
    BY <1>2, <1>3, <2>1, AllPositions
  <2>3. QED
    BY <2>1, <2>2
<1>5. (N + 1) - 1 = N
  OBVIOUS
<1>6. \E v : Counts(v, run, digits, base, N)
  BY <1>4, <1>5 DEF S
<1> DEFINE u == CHOOSE v : v = [i \in 0 .. N |->
                  IF i = 0 THEN 0 ELSE base * v[i - 1] + digits[run[i]]]
<1>7. Value(run, digits, base) = u[N]
  BY Zenon DEF Value
<1>8. Counts(u, run, digits, base, N)
  BY <1>6, Zenon DEF Counts
<1>9. \A i \in 0 .. N : u[i] = IF i = 0 THEN 0 ELSE base * u[i - 1] + digits[run[i]]
  <2> HIDE DEF u
  <2>1. QED
    BY <1>8, Zenon DEF Counts
<1>10. QED
  BY <1>7, <1>9, Zenon

LEMMA ValueIsNat ==
  ASSUME NEW run, NEW digits, NEW base \in Nat, Len(run) \in Nat,
         \A i \in 1 .. Len(run) : digits[run[i]] \in Nat
  PROVE  Value(run, digits, base) \in Nat
<1> DEFINE N == Len(run)
<1>1. PICK v : /\ Value(run, digits, base) = v[N]
               /\ \A i \in 0 .. N : v[i] = IF i = 0 THEN 0 ELSE base * v[i - 1] + digits[run[i]]
  BY ValueCounts
<1> DEFINE S == {n \in Nat : v[n - 1] \in Nat}
<1>2. 1 \in S
  BY <1>1
<1>3. ASSUME NEW n \in 1 .. (N + 1) - 1, n \in S PROVE n + 1 \in S
  <2>1. v[n - 1] \in Nat /\ n \in 1 .. N /\ (n + 1) - 1 = n
    BY <1>3
  <2>2. v[n] = base * v[n - 1] + digits[run[n]]
    BY <1>1, <2>1
  <2>3. \A x, y, z \in Nat : x * y + z \in Nat
    OBVIOUS
  <2>4. digits[run[n]] \in Nat
    BY <2>1
  <2>5. v[n] \in Nat
    BY <2>1, <2>2, <2>3, <2>4
  <2>6. QED
    BY <2>1, <2>5
<1>4. N + 1 \in S
  <2>1. N + 1 \in Nat /\ N + 1 \in 1 .. N + 1
    OBVIOUS
  <2> HIDE DEF S
  <2>2. \A n \in 1 .. N + 1 : n \in S
    BY <1>2, <1>3, <2>1, AllPositions
  <2>3. QED
    BY <2>1, <2>2
<1>5. (N + 1) - 1 = N
  OBVIOUS
<1>6. QED
  BY <1>1, <1>4, <1>5

\* A status code of which one or two digits have arrived is below 100.
LEMMA ShortValue ==
  ASSUME NEW run, NEW digits, Len(run) \in 1 .. 2,
         \A i \in 1 .. Len(run) : digits[run[i]] \in 0 .. 9
  PROVE  Value(run, digits, 10) \in 0 .. 99
<1>1. PICK v : /\ Value(run, digits, 10) = v[Len(run)]
               /\ \A i \in 0 .. Len(run) : v[i] = IF i = 0 THEN 0 ELSE 10 * v[i - 1] + digits[run[i]]
  BY ValueCounts
<1>2. v[0] = 0 /\ v[1] = 10 * v[0] + digits[run[1]]
  <2>1. 0 \in 0 .. Len(run) /\ 1 \in 0 .. Len(run) /\ 1 - 1 = 0
    OBVIOUS
  <2>2. QED
    BY <1>1, <2>1
<1>3. CASE Len(run) = 1
  BY <1>1, <1>2, <1>3
<1>4. CASE Len(run) = 2
  <2>1. v[2] = 10 * v[1] + digits[run[2]]
    BY <1>1, <1>4
  <2>2. QED
    BY <1>1, <1>2, <1>4, <2>1
<1>5. QED
  BY <1>3, <1>4

\* A number after spaces is scanned up to its end.
LEMMA NumberIs ==
  ASSUME NEW text \in Seq(Symbol), NEW number \in Seq(Symbol), Len(number) > 0,
         NEW k \in Nat, Holds(text, k, number),
         NEW digits, NEW base, Space \notin DOMAIN digits,
         \A i \in 1 .. k : text[i] = Space,
         \A i \in 1 .. Len(number) : number[i] \in DOMAIN digits,
         k + Len(number) < Len(text) => text[k + Len(number) + 1] \notin DOMAIN digits
  PROVE  Scan(skipSpaceCharacters(text), digits, base) = Value(number, digits, base)
<1> DEFINE d == Len(number)
<1>1. /\ d \in Nat /\ d > 0 /\ k + d <= Len(text)
      /\ \A i \in 1 .. d : text[k + i] \in DOMAIN digits
      /\ k + d < Len(text) => text[k + d + 1] \notin DOMAIN digits
  BY DEF Holds
<1>2. SubSeq(text, k + 1, k + d) = number
  BY PartHeld
<1> HIDE DEF d
<1> DEFINE rest == From(text, k)
           run == Prefix(rest, DOMAIN digits)
<1> HIDE DEF rest, run
<1>3. /\ Len(text) \in Nat /\ k \in 0 .. Len(text) /\ k < Len(text)
      /\ 1 \in 1 .. d /\ d \in 0 .. Len(text) - k
  BY <1>1
<1>4. Prefix(text, {Space}) = Upto(text, k)
  <2>1. text[k + 1] \notin {Space}
    BY <1>3, <1>1
  <2>2. \A i \in 1 .. k : text[i] \in {Space}
    OBVIOUS
  <2>3. QED
    BY <1>3, <2>1, <2>2, RunIs
<1>5. Len(Upto(text, k)) = k
  BY <1>3, PartIs DEF Upto
<1>6. skipSpaceCharacters(text) = rest
  BY <1>4, <1>5 DEF skipSpaceCharacters, rest
<1>7. /\ rest \in Seq(Symbol) /\ Len(rest) = Len(text) - k
      /\ \A i \in 1 .. Len(rest) : rest[i] = text[k + i]
  <2>1. k + 1 \in Nat /\ k + 1 >= 1 /\ Len(text) \in 0 .. Len(text) /\ k + 1 <= Len(text)
    BY <1>3
  <2>2. /\ rest \in Seq(Symbol)
        /\ Len(rest) = IF k + 1 <= Len(text) THEN Len(text) - (k + 1) + 1 ELSE 0
        /\ \A i \in 1 .. Len(rest) : rest[i] = text[(k + 1) + i - 1]
    BY <2>1, PartIs DEF rest, From
  <2>3. \A i \in 1 .. Len(rest) : (k + 1) + i - 1 = k + i
    OBVIOUS
  <2>4. QED
    BY <1>3, <2>1, <2>2, <2>3
<1>8. run = Upto(rest, d)
  <2>1. d \in 0 .. Len(rest) /\ \A i \in 1 .. d : rest[i] \in DOMAIN digits
    <3>1. \A i \in 1 .. d : i \in 1 .. Len(rest)
      BY <1>3, <1>7
    <3>2. QED
      BY <1>3, <1>7, <1>1, <3>1
  <2>2. d < Len(rest) => rest[d + 1] \notin DOMAIN digits
    <3>1. d < Len(rest) => d + 1 \in 1 .. Len(rest) /\ k + (d + 1) = k + d + 1 /\ k + d < Len(text)
      BY <1>3, <1>7
    <3>2. QED
      BY <1>7, <1>1, <3>1
  <2>3. QED
    BY <1>7, <2>1, <2>2, RunIs DEF run
<1>9. Upto(rest, d) = SubSeq(text, k + 1, k + d)
  <2>1. /\ k + 1 \in Nat /\ k + 1 >= 1 /\ Len(text) \in 0 .. Len(text) /\ (k + 1) - 1 <= Len(text)
        /\ d \in 0 .. Len(text) - (k + 1) + 1 /\ 1 \in Nat /\ 1 >= 1
        /\ (k + 1) + 1 - 1 = k + 1 /\ (k + 1) + d - 1 = k + d
    BY <1>3
  <2>2. SubSeq(SubSeq(text, k + 1, Len(text)), 1, d) = SubSeq(text, (k + 1) + 1 - 1, (k + 1) + d - 1)
    BY <2>1, PartOfPart
  <2>3. QED
    BY <2>1, <2>2 DEF Upto, rest, From
<1>10. run # <<>>
  <2>1. Len(Upto(rest, d)) = d
    BY <1>3, <1>7, PartIs DEF Upto
  <2>2. QED
    BY <1>3, <1>8, <2>1
<1>11. Scan(rest, digits, base) = Value(run, digits, base)
  BY <1>10 DEF Scan, run
<1>12. QED
  BY <1>6, <1>8, <1>9, <1>11, <1>2

LEMMA NumeralScanned ==
  ASSUME NEW digits, NEW base, Space \notin DOMAIN digits,
         NEW size \in Seq(Symbol), NEW n, Numeral(size, digits, base, n),
         NEW text \in Seq(Symbol), Holds(text, 0, size),
         Len(size) < Len(text) => text[Len(size) + 1] \notin DOMAIN digits
  PROVE  /\ Scan(skipSpaceCharacters(text), digits, base) \in {n}
         /\ Len(size) >= 1
         /\ \A i \in 1 .. Len(size) : size[i] \in DOMAIN digits \cup {Space}
<1>1. PICK k \in 0 .. Len(size) - 1 :
        /\ \A i \in 1 .. k : size[i] = Space
        /\ \A i \in k + 1 .. Len(size) : size[i] \in DOMAIN digits
        /\ n = Value(From(size, k), digits, base)
  BY DEF Numeral
<1> DEFINE number == From(size, k)
<1>2. /\ Len(size) \in Nat /\ Len(size) >= 1 /\ k \in Nat /\ k + 1 \in Nat /\ k + 1 >= 1
      /\ Len(size) \in 0 .. Len(size) /\ k + 1 <= Len(size)
      /\ Len(size) <= Len(text) /\ Len(text) \in Nat
      /\ \A i \in 1 .. Len(size) : text[i] = size[i]
  BY DEF Holds
<1>3. /\ number \in Seq(Symbol) /\ Len(number) = Len(size) - k
      /\ \A i \in 1 .. Len(number) : number[i] = size[k + i]
  <2>1. /\ number \in Seq(Symbol)
        /\ Len(number) = IF k + 1 <= Len(size) THEN Len(size) - (k + 1) + 1 ELSE 0
        /\ \A i \in 1 .. Len(number) : number[i] = size[(k + 1) + i - 1]
    BY <1>2, PartIs, SMTT(20) DEF From
  <2> HIDE DEF number
  <2>2. \A i \in 1 .. Len(number) : (k + 1) + i - 1 = k + i
    BY <1>2
  <2>3. QED
    BY <1>2, <2>1, <2>2
<1> HIDE DEF number
<1>4. Len(number) > 0 /\ k + Len(number) = Len(size) /\ Len(number) \in Nat
  BY <1>2, <1>3
<1>5. \A i \in 1 .. Len(number) : k + i \in k + 1 .. Len(size) /\ k + i \in 1 .. Len(size)
  BY <1>2, <1>4
<1>6. \A i \in 1 .. Len(number) : number[i] \in DOMAIN digits
  BY <1>1, <1>3, <1>5
<1>7. Holds(text, k, number)
  BY <1>2, <1>3, <1>4, <1>5 DEF Holds
<1>8. \A i \in 1 .. k : text[i] = Space
  BY <1>1, <1>2
<1>9. k + Len(number) < Len(text) => text[k + Len(number) + 1] \notin DOMAIN digits
  BY <1>4
<1>10. Scan(skipSpaceCharacters(text), digits, base) = Value(number, digits, base)
  <2>1. number \in Seq(Symbol)
    BY <1>3
  <2>2. k \in Nat
    BY <1>2
  <2>3. Len(number) > 0
    BY <1>4
  <2>4. QED
    BY <1>6, <1>7, <1>8, <1>9, <2>1, <2>2, <2>3, NumberIs
<1>11. \A i \in 1 .. Len(size) : i \in 1 .. k \/ i \in k + 1 .. Len(size)
  BY <1>2
<1>12. QED
  BY <1>1, <1>2, <1>10, <1>11 DEF number

\* The end of a line.
LEMMA LineEndIs ==
  /\ CRLF \in Seq(Symbol) /\ Len(CRLF) = 2 /\ CRLF[1] = "\r" /\ CRLF[2] = "\n"
  BY NamedSymbols DEF CRLF

LEMMA LineIs ==
  ASSUME NEW line \in Seq(Symbol)
  PROVE  /\ line \o CRLF \in Seq(Symbol) /\ Len(line \o CRLF) = Len(line) + 2
         /\ \A i \in 1 .. Len(line) : (line \o CRLF)[i] = line[i]
         /\ (line \o CRLF)[Len(line) + 1] = "\r" /\ (line \o CRLF)[Len(line) + 2] = "\n"
<1>1. CRLF \in Seq(Symbol)
  BY LineEndIs
<1>2. /\ line \o CRLF \in Seq(Symbol) /\ Len(line \o CRLF) = Len(line) + Len(CRLF)
      /\ \A i \in 1 .. Len(line) : (line \o CRLF)[i] = line[i]
      /\ \A i \in 1 .. Len(CRLF) : (line \o CRLF)[Len(line) + i] = CRLF[i]
  BY <1>1, JoinIs
<1>3. 1 \in 1 .. 2 /\ 2 \in 1 .. 2
  OBVIOUS
<1>4. QED
  BY <1>2, <1>3, LineEndIs

LEMMA LineEndHeld ==
  ASSUME NEW text \in Seq(Symbol), NEW m \in Nat
  PROVE  Holds(text, m, CRLF) <=> m + 2 <= Len(text) /\ text[m + 1] = "\r" /\ text[m + 2] = "\n"
  BY LineEndIs DEF Holds

LEMMA LineEndFound ==
  ASSUME NEW text \in Seq(Symbol), NEW line \in Seq(Symbol), \A i \in 1 .. Len(line) : line[i] # "\r",
         Holds(text, 0, line \o CRLF)
  PROVE  FindAfter(text, CRLF) = Len(line) + 2
<1> DEFINE k == Len(line)
<1>1. k \in Nat /\ k + 2 <= Len(text) /\ Len(text) \in Nat
      /\ (\A i \in 1 .. k : text[i] = line[i]) /\ text[k + 1] = "\r" /\ text[k + 2] = "\n"
  <2>1. /\ line \o CRLF \in Seq(Symbol) /\ Len(line \o CRLF) = k + 2
        /\ \A i \in 1 .. k : (line \o CRLF)[i] = line[i]
        /\ (line \o CRLF)[k + 1] = "\r" /\ (line \o CRLF)[k + 2] = "\n"
    BY LineIs
  <2>2. \A i \in 1 .. k + 2 : text[i] = (line \o CRLF)[i]
    BY <2>1 DEF Holds
  <2>3. k + 1 \in 1 .. k + 2 /\ k + 2 \in 1 .. k + 2 /\ (\A i \in 1 .. k : i \in 1 .. k + 2) /\ k \in Nat /\ Len(text) \in Nat
    OBVIOUS
  <2>4. k + 2 <= Len(text)
    BY <2>1, <2>3 DEF Holds
  <2> HIDE DEF k
  <2>5. QED
    BY <2>1, <2>2, <2>3, <2>4
<1> HIDE DEF k
<1>2. Holds(text, k, CRLF)
  BY <1>1, LineEndHeld
<1>3. ASSUME NEW m \in Nat, m < k PROVE ~Holds(text, m, CRLF)
  <2>1. m + 1 \in 1 .. k
    BY <1>1, <1>3
  <2>2. text[m + 1] # "\r"
    BY <1>1, <2>1 DEF k
  <2>3. QED
    BY <2>2, LineEndHeld
<1>4. FindAfter(text, CRLF) = k + Len(CRLF)
  <2>1. CRLF \in Seq(Symbol) /\ k \in Nat
    BY <1>1, LineEndIs
  <2>2. QED
    BY <1>2, <1>3, <2>1, NeedleAt
<1>5. QED
  BY <1>4, LineEndIs DEF k

LEMMA LineEndMissing ==
  ASSUME NEW text \in Seq(Symbol), NEW line \in Seq(Symbol), \A i \in 1 .. Len(line) : line[i] # "\r",
         Len(text) < Len(line) + 2, \A i \in 1 .. Len(text) : i <= Len(line) => text[i] = line[i]
  PROVE  FindAfter(text, CRLF) = NotFound
<1>1. ASSUME NEW m \in Nat PROVE ~Holds(text, m, CRLF)
  <2>1. CASE m + 2 > Len(text)
    BY <2>1, LineEndHeld
  <2>2. CASE m + 2 <= Len(text)
    <3>1. m + 1 \in 1 .. Len(text) /\ m + 1 \in 1 .. Len(line)
      BY <2>2
    <3>2. text[m + 1] # "\r"
      BY <3>1
    <3>3. QED
      BY <3>2, LineEndHeld
  <2>3. QED
    BY <2>1, <2>2
<1>2. QED
  BY <1>1, LineEndIs, NeedleNowhere

-----------------------------------------------------------------------------
(* Chunks.                                                                  *)

LEMMA HexScanned ==
  ASSUME NEW size \in Seq(Symbol), NEW n, Numeral(size, HexDigit, 16, n),
         NEW text \in Seq(Symbol), Holds(text, 0, size), text[Len(size) + 1] = "\r"
  PROVE  /\ Scan(skipSpaceCharacters(text), HexDigit, 16) \in {n}
         /\ \A i \in 1 .. Len(size) : size[i] \in DOMAIN HexDigit \cup {Space}
<1>1. Space \notin DOMAIN HexDigit
  BY HexDigitValues
<1>2. Len(size) < Len(text) => text[Len(size) + 1] \notin DOMAIN HexDigit
  BY HexDigitValues
<1>3. QED
  BY <1>1, <1>2, NumeralScanned

\* The line of a chunk: its size is what stands in it.
LEMMA ChunkLineIs ==
  ASSUME NEW text \in Seq(Symbol), NEW size \in Seq(Symbol), NEW n, Numeral(size, HexDigit, 16, n),
         Holds(text, 0, size \o CRLF)
  PROVE  get_chunk_offset(text) = Len(size) + 2 /\ get_chunk_length(text) = n
<1>1. /\ size \o CRLF \in Seq(Symbol) /\ Len(size \o CRLF) = Len(size) + 2
      /\ \A i \in 1 .. Len(size) : (size \o CRLF)[i] = size[i]
      /\ (size \o CRLF)[Len(size) + 1] = "\r"
  BY LineIs
<1>2. Holds(text, 0, size) /\ text[Len(size) + 1] = "\r"
  <2>1. Len(size) \in Nat /\ Len(text) \in Nat /\ Len(size) + 1 \in 1 .. Len(size) + 2
    OBVIOUS
  <2>2. Len(size) + 2 <= Len(text) /\ \A i \in 1 .. Len(size) + 2 : text[i] = (size \o CRLF)[i]
    BY <1>1, <2>1 DEF Holds
  <2>3. text[Len(size) + 1] = "\r"
    BY <1>1, <2>1, <2>2
  <2>4. 0 + Len(size) <= Len(text) /\ \A i \in 1 .. Len(size) : text[0 + i] = size[i]
    BY <1>1, <2>1, <2>2
  <2>5. QED
    BY <2>3, <2>4 DEF Holds
<1>4. /\ Scan(skipSpaceCharacters(text), HexDigit, 16) \in {n}
      /\ \A i \in 1 .. Len(size) : size[i] \in DOMAIN HexDigit \cup {Space}
  BY <1>2, HexScanned
<1>5. \A i \in 1 .. Len(size) : size[i] # "\r"
  BY <1>4, HexDigitValues, DifferentSymbols
<1>6. get_chunk_offset(text) = Len(size) + 2
  BY <1>5, LineEndFound DEF get_chunk_offset
<1>7. QED
  BY <1>4, <1>6 DEF get_chunk_length, NotFound

LEMMA NumeralLine ==
  ASSUME NEW size \in Seq(Symbol), NEW n, Numeral(size, HexDigit, 16, n)
  PROVE  \A i \in 1 .. Len(size) : size[i] # "\r"
<1>1. Holds(size, 0, size)
  BY DEF Holds
<1>2. \A i \in 1 .. Len(size) : size[i] \in DOMAIN HexDigit \cup {Space}
  <2>1. Space \notin DOMAIN HexDigit
    BY HexDigitValues
  <2>2. ~(Len(size) < Len(size))
    OBVIOUS
  <2>3. QED
    BY <1>1, <2>1, <2>2, NumeralScanned
<1>3. QED
  BY <1>2, HexDigitValues, DifferentSymbols

LEMMA ChunkLineMissing ==
  ASSUME NEW text \in Seq(Symbol), NEW size \in Seq(Symbol), NEW n, Numeral(size, HexDigit, 16, n),
         Len(text) < Len(size) + 2, \A i \in 1 .. Len(text) : i <= Len(size) => text[i] = size[i]
  PROVE  get_next_chunk_offset(text) = NotFound
<1>1. get_chunk_offset(text) = NotFound
  BY NumeralLine, LineEndMissing DEF get_chunk_offset
<1>2. get_chunk_length(text) = NotFound
  BY <1>1 DEF get_chunk_length
<1>3. QED
  BY <1>2 DEF get_next_chunk_offset

\* The text of a chunk, and where its parts are.
ChunkText(size, data) == size \o CRLF \o data \o CRLF

LEMMA ChunkTextIs ==
  ASSUME NEW size \in Seq(Symbol), NEW data \in Seq(Symbol)
  PROVE  LET t == ChunkText(size, data)
             k == Len(size)
             d == Len(data)
         IN /\ t \in Seq(Symbol) /\ Len(t) = k + d + 4
            /\ \A i \in 1 .. k : t[i] = size[i]
            /\ t[k + 1] = "\r" /\ t[k + 2] = "\n"
            /\ \A i \in 1 .. d : t[k + 2 + i] = data[i]
            /\ t[k + 2 + d + 1] = "\r" /\ t[k + 2 + d + 2] = "\n"
<1> DEFINE k == Len(size)
           d == Len(data)
           u == size \o CRLF
           v == u \o data
           t == v \o CRLF
<1>1. /\ u \in Seq(Symbol) /\ Len(u) = k + 2
      /\ \A i \in 1 .. k : u[i] = size[i]
      /\ u[k + 1] = "\r" /\ u[k + 2] = "\n"
  BY LineIs
<1>2. k \in Nat /\ d \in Nat
  OBVIOUS
<1> HIDE DEF u
<1>3. /\ v \in Seq(Symbol) /\ Len(v) = Len(u) + d
      /\ \A i \in 1 .. Len(u) : v[i] = u[i]
      /\ \A i \in 1 .. d : v[Len(u) + i] = data[i]
  <2>1. u \in Seq(Symbol)
    BY <1>1
  <2>2. /\ v \in Seq(Symbol) /\ Len(v) = Len(u) + Len(data)
        /\ \A i \in 1 .. Len(u) : v[i] = u[i]
        /\ \A i \in 1 .. Len(data) : v[Len(u) + i] = data[i]
    BY <2>1, JoinIs
  <2>3. QED
    BY <2>2
<1> HIDE DEF v
<1>4. /\ t \in Seq(Symbol) /\ Len(t) = Len(v) + 2
      /\ \A i \in 1 .. Len(v) : t[i] = v[i]
      /\ t[Len(v) + 1] = "\r" /\ t[Len(v) + 2] = "\n"
  BY <1>3, LineIs
<1>5. t = ChunkText(size, data)
  BY DEF u, v, t, ChunkText
<1> HIDE DEF k, d, t
<1>6. Len(v) = k + 2 + d /\ Len(t) = k + d + 4
  BY <1>1, <1>2, <1>3, <1>4
<1>7. \A i \in 1 .. k : t[i] = size[i]
  <2>1. \A i \in 1 .. k : i \in 1 .. Len(u) /\ i \in 1 .. Len(v)
    BY <1>1, <1>2, <1>6
  <2>2. QED
    BY <1>1, <1>3, <1>4, <2>1
<1>8. t[k + 1] = "\r" /\ t[k + 2] = "\n"
  <2>1. k + 1 \in 1 .. Len(u) /\ k + 1 \in 1 .. Len(v) /\ k + 2 \in 1 .. Len(u) /\ k + 2 \in 1 .. Len(v)
    BY <1>1, <1>2, <1>6
  <2>2. QED
    BY <1>1, <1>3, <1>4, <2>1
<1>9. \A i \in 1 .. d : t[k + 2 + i] = data[i]
  <2>1. \A i \in 1 .. d : k + 2 + i \in 1 .. Len(v)
    BY <1>2, <1>6
  <2>2. QED
    BY <1>1, <1>3, <1>4, <2>1
<1>10. t[k + 2 + d + 1] = "\r" /\ t[k + 2 + d + 2] = "\n"
  BY <1>4, <1>6
<1>11. QED
  BY <1>4, <1>5, <1>6, <1>7, <1>8, <1>9, <1>10 DEF k, d

LEMMA ChunkIs ==
  ASSUME NEW text \in Seq(Symbol), NEW size \in Seq(Symbol), NEW data \in Seq(Symbol), data # <<>>,
         Numeral(size, HexDigit, 16, Len(data)), Holds(text, 0, ChunkText(size, data))
  PROVE  /\ get_next_chunk_offset(text) = Len(ChunkText(size, data))
         /\ ChunkData(text) = data
<1> DEFINE k == Len(size)
           d == Len(data)
           t == ChunkText(size, data)
           n == Len(text)
<1>1. /\ t \in Seq(Symbol) /\ Len(t) = k + d + 4
      /\ \A i \in 1 .. k : t[i] = size[i]
      /\ t[k + 1] = "\r" /\ t[k + 2] = "\n"
      /\ \A i \in 1 .. d : t[k + 2 + i] = data[i]
      /\ t[k + 2 + d + 1] = "\r" /\ t[k + 2 + d + 2] = "\n"
  BY ChunkTextIs
<1>2. k \in Nat /\ d \in Nat /\ d > 0 /\ n \in Nat
  OBVIOUS
<1>3. Len(t) <= n /\ \A i \in 1 .. Len(t) : text[i] = t[i]
  BY DEF Holds
<1> HIDE DEF t
<1>4. /\ \A i \in 1 .. k : text[i] = size[i]
      /\ text[k + 1] = "\r" /\ text[k + 2] = "\n"
      /\ \A i \in 1 .. d : text[k + 2 + i] = data[i]
      /\ text[k + 2 + d + 1] = "\r" /\ text[k + 2 + d + 2] = "\n"
      /\ k + 2 + d + 2 <= n
  <2>1. /\ \A i \in 1 .. k : i \in 1 .. Len(t)
        /\ k + 1 \in 1 .. Len(t) /\ k + 2 \in 1 .. Len(t)
        /\ \A i \in 1 .. d : k + 2 + i \in 1 .. Len(t)
        /\ k + 2 + d + 1 \in 1 .. Len(t) /\ k + 2 + d + 2 \in 1 .. Len(t)
    BY <1>1, <1>2
  <2>2. k + 2 + d + 2 <= n
    BY <1>1, <1>2, <1>3
  <2> HIDE DEF k, d, n
  <2>3. QED
    BY <1>1, <1>3, <2>1, <2>2
<1>5. Holds(text, 0, size \o CRLF)
  <2>1. /\ size \o CRLF \in Seq(Symbol) /\ Len(size \o CRLF) = k + 2
        /\ \A i \in 1 .. k : (size \o CRLF)[i] = size[i]
        /\ (size \o CRLF)[k + 1] = "\r" /\ (size \o CRLF)[k + 2] = "\n"
    BY LineIs
  <2>2. \A i \in 1 .. k + 2 : i \in 1 .. k \/ i = k + 1 \/ i = k + 2
    BY <1>2
  <2>3. \A i \in 1 .. k + 2 : text[0 + i] = (size \o CRLF)[i]
    BY <1>4, <2>1, <2>2, SMTT(20)
  <2>4. 0 + (k + 2) <= n
    BY <1>2, <1>4
  <2>5. QED
    BY <2>1, <2>3, <2>4 DEF Holds
<1>6. get_chunk_offset(text) = k + 2 /\ get_chunk_length(text) = d
  BY <1>5, ChunkLineIs
<1>7. Holds(text, k + 2, data) /\ Holds(text, k + 2 + d, CRLF)
  <2>1. k + 2 + d <= n
    BY <1>2, <1>4
  <2>2. k + 2 + d \in Nat
    BY <1>2
  <2>3. QED
    BY <1>4, <2>1, <2>2, LineEndHeld DEF Holds
<1>8. ChunkData(text) = data
  <2>1. k + 2 \in Nat
    BY <1>2
  <2>2. SubSeq(text, (k + 2) + 1, (k + 2) + Len(data)) = data
    BY <1>7, <2>1, PartHeld
  <2>3. QED
    BY <1>6, <2>2 DEF ChunkData
<1>9. SubSeq(text, (k + 2 + d) + 1, (k + 2 + d) + 2) = CRLF
  <2>1. k + 2 + d \in Nat /\ CRLF \in Seq(Symbol) /\ Len(CRLF) = 2
    BY <1>2, LineEndIs
  <2>2. SubSeq(text, (k + 2 + d) + 1, (k + 2 + d) + Len(CRLF)) = CRLF
    BY <1>7, <2>1, PartHeld
  <2>3. QED
    BY <2>1, <2>2
<1>10. get_next_chunk_offset(text) = (k + 2 + d) + 2
  <2>1. d \notin {0, NotFound} /\ ~((k + 2) + d + 2 > n)
    BY <1>2, <1>4 DEF NotFound
  <2> HIDE DEF k, d, n
  <2>2. QED
    BY <1>6, <1>9, <2>1 DEF get_next_chunk_offset, n
<1>11. QED
  BY <1>1, <1>2, <1>8, <1>10 DEF t

LEMMA ChunkCut ==
  ASSUME NEW text \in Seq(Symbol), NEW size \in Seq(Symbol), NEW data \in Seq(Symbol), data # <<>>,
         Numeral(size, HexDigit, 16, Len(data)), Len(text) < Len(ChunkText(size, data)),
         \A i \in 1 .. Len(text) : text[i] = ChunkText(size, data)[i]
  PROVE  get_next_chunk_offset(text) = NotFound
<1> DEFINE k == Len(size)
           d == Len(data)
           t == ChunkText(size, data)
           n == Len(text)
<1>1. /\ t \in Seq(Symbol) /\ Len(t) = k + d + 4
      /\ \A i \in 1 .. k : t[i] = size[i]
      /\ t[k + 1] = "\r" /\ t[k + 2] = "\n"
  BY ChunkTextIs
<1>2. k \in Nat /\ d \in Nat /\ d > 0 /\ n \in Nat
  OBVIOUS
<1>3. n < k + d + 4 /\ \A i \in 1 .. n : text[i] = t[i]
  BY <1>1
<1> HIDE DEF t
<1>4. CASE n < k + 2
  <2>1. \A i \in 1 .. n : i <= k => i \in 1 .. k
    BY <1>2
  <2>2. \A i \in 1 .. n : i <= k => text[i] = size[i]
    BY <1>1, <1>3, <2>1
  <2>3. QED
    BY <1>4, <2>2, ChunkLineMissing
<1>5. CASE n >= k + 2
  <2>1. Holds(text, 0, size \o CRLF)
    <3>1. /\ size \o CRLF \in Seq(Symbol) /\ Len(size \o CRLF) = k + 2
          /\ \A i \in 1 .. k : (size \o CRLF)[i] = size[i]
          /\ (size \o CRLF)[k + 1] = "\r" /\ (size \o CRLF)[k + 2] = "\n"
      BY LineIs
    <3>2. \A i \in 1 .. k + 2 : i \in 1 .. n
      BY <1>2, <1>5
    <3>3. \A i \in 1 .. k + 2 : i \in 1 .. k \/ i = k + 1 \/ i = k + 2
      BY <1>2
    <3>6. \A i \in 1 .. k + 2 : text[0 + i] = (size \o CRLF)[i]
      BY <1>1, <1>3, <3>1, <3>2, <3>3, SMTT(20)
    <3>4. 0 + (k + 2) <= n
      BY <1>2, <1>5
    <3>5. QED
      BY <3>1, <3>6, <3>4 DEF Holds
  <2>2. get_chunk_offset(text) = k + 2 /\ get_chunk_length(text) = d
    BY <2>1, ChunkLineIs
  <2>3. d \notin {0, NotFound} /\ (k + 2) + d + 2 > n
    BY <1>2, <1>3 DEF NotFound
  <2> HIDE DEF k, d, n
  <2>4. QED
    BY <2>2, <2>3 DEF get_next_chunk_offset, n
<1>6. QED
  BY <1>2, <1>4, <1>5

LEMMA LastChunkIs ==
  ASSUME NEW text \in Seq(Symbol), NEW size \in Seq(Symbol), Numeral(size, HexDigit, 16, 0),
         Holds(text, 0, size \o CRLF)
  PROVE  get_next_chunk_offset(text) = 0
<1>1. get_chunk_length(text) = 0
  BY ChunkLineIs
<1>2. QED
  BY <1>1 DEF get_next_chunk_offset

-----------------------------------------------------------------------------
(* The walk from chunk to chunk.                                            *)

LEMMA PrefixIs ==
  ASSUME NEW A, NEW text \in Seq(A), NEW symbols
  PROVE  /\ Prefix(text, symbols) \in Seq(A)
         /\ Len(Prefix(text, symbols)) <= Len(text)
         /\ \A i \in 1 .. Len(Prefix(text, symbols)) : Prefix(text, symbols)[i] \in symbols
<1> DEFINE stops == {i \in 1 .. Len(text) : text[i] \notin symbols}
<1>1. CASE stops = {}
  <2>1. Prefix(text, symbols) = text
    BY <1>1 DEF Prefix
  <2>2. \A i \in 1 .. Len(text) : text[i] \in symbols
    BY <1>1
  <2>3. QED
    BY <2>1, <2>2
<1>2. CASE stops # {}
  <2> DEFINE j == Min(stops) - 1
  <2>1. Prefix(text, symbols) = SubSeq(text, 1, j)
    BY <1>2 DEF Prefix, Upto
  <2>2. stops \in SUBSET Nat
    OBVIOUS
  <2>3. Min(stops) \in stops /\ \A y \in stops : Min(stops) <= y
    BY <1>2, <2>2, LeastIs
  <2>4. j \in 0 .. Len(text)
    BY <2>3
  <2>5. \A i \in 1 .. j : text[i] \in symbols
    BY <2>3
  <2> HIDE DEF j, stops
  <2>6. /\ SubSeq(text, 1, j) \in Seq(A)
        /\ Len(SubSeq(text, 1, j)) = IF 1 <= j THEN j - 1 + 1 ELSE 0
        /\ \A i \in 1 .. Len(SubSeq(text, 1, j)) : SubSeq(text, 1, j)[i] = text[1 + i - 1]
    BY <2>4, PartIs
  <2>7. Len(SubSeq(text, 1, j)) = j
    BY <2>4, <2>6
  <2>8. \A i \in 1 .. j : SubSeq(text, 1, j)[i] \in symbols
    BY <2>5, <2>6, <2>7
  <2>9. QED
    BY <2>1, <2>4, <2>6, <2>7, <2>8
<1>3. QED
  BY <1>1, <1>2

\* A size is a number, or none was found.
LEMMA HexIsNat ==
  ASSUME NEW text \in Seq(Symbol)
  PROVE  Scan(text, HexDigit, 16) \in Nat \cup {NotFound}
<1> DEFINE run == Prefix(text, DOMAIN HexDigit)
<1>1. run \in Seq(Symbol) /\ \A i \in 1 .. Len(run) : run[i] \in DOMAIN HexDigit
  BY PrefixIs
<1>2. Len(run) \in Nat /\ 16 \in Nat
  BY <1>1
<1>3. \A i \in 1 .. Len(run) : HexDigit[run[i]] \in Nat
  BY <1>1, HexDigitValues, SMTT(20)
<1>4. Value(run, HexDigit, 16) \in Nat
  <2> HIDE DEF run
  <2>1. QED
    BY <1>2, <1>3, ValueIsNat
<1>5. QED
  BY <1>4 DEF Scan

LEMMA FromIs ==
  ASSUME NEW A, NEW text \in Seq(A), NEW k \in 0 .. Len(text)
  PROVE  /\ From(text, k) \in Seq(A) /\ Len(From(text, k)) = Len(text) - k
         /\ \A i \in 1 .. Len(text) - k : From(text, k)[i] = text[k + i]
<1>1. k + 1 \in Nat /\ k + 1 >= 1 /\ Len(text) \in 0 .. Len(text) /\ k \in Nat /\ Len(text) \in Nat
  OBVIOUS
<1>2. /\ From(text, k) \in Seq(A)
      /\ Len(From(text, k)) = IF k + 1 <= Len(text) THEN Len(text) - (k + 1) + 1 ELSE 0
      /\ \A i \in 1 .. Len(From(text, k)) : From(text, k)[i] = text[(k + 1) + i - 1]
  BY <1>1, PartIs DEF From
<1>3. Len(From(text, k)) = Len(text) - k
  BY <1>1, <1>2
<1>4. \A i \in 1 .. Len(text) - k : (k + 1) + i - 1 = k + i
  BY <1>1
<1>5. QED
  BY <1>2, <1>3, <1>4

LEMMA UptoIs ==
  ASSUME NEW A, NEW text \in Seq(A), NEW k \in 0 .. Len(text)
  PROVE  /\ Upto(text, k) \in Seq(A) /\ Len(Upto(text, k)) = k
         /\ \A i \in 1 .. k : Upto(text, k)[i] = text[i]
<1>1. /\ Upto(text, k) \in Seq(A)
      /\ Len(Upto(text, k)) = IF 1 <= k THEN k - 1 + 1 ELSE 0
      /\ \A i \in 1 .. Len(Upto(text, k)) : Upto(text, k)[i] = text[1 + i - 1]
  BY PartIs DEF Upto
<1>2. Len(Upto(text, k)) = k
  BY <1>1
<1>3. QED
  BY <1>1, <1>2

LEMMA FindInText ==
  ASSUME NEW A, NEW text \in Seq(A), NEW needle \in Seq(A)
  PROVE  FindAfter(text, needle) \in {NotFound} \cup Len(needle) .. Len(text)
<1> DEFINE ends == {i \in Len(needle) .. Len(text) :
                      SubSeq(text, i - Len(needle) + 1, i) = needle}
<1>1. CASE ends = {}
  BY <1>1 DEF FindAfter
<1>2. CASE ends # {}
  <2>1. ends \in SUBSET Nat
    OBVIOUS
  <2>2. FindAfter(text, needle) = Min(ends)
    BY <1>2 DEF FindAfter
  <2>3. Min(ends) \in ends
    BY <1>2, <2>1, LeastIs
  <2>4. QED
    BY <2>2, <2>3
<1>3. QED
  BY <1>1, <1>2

\* The walk never leaves the text.
LEMMA NextInText ==
  ASSUME NEW text \in Seq(Symbol)
  PROVE  get_next_chunk_offset(text) \in {0, NotFound} \cup 1 .. Len(text)
<1> DEFINE o == get_chunk_offset(text)
           c == get_chunk_length(text)
<1>1. o \in {NotFound} \cup 2 .. Len(text)
  BY FindInText, LineEndIs DEF get_chunk_offset
<1>2. c \in Nat \cup {NotFound} /\ (o = NotFound => c = NotFound)
  <2>1. skipSpaceCharacters(text) \in Seq(Symbol)
    <3> DEFINE k == Len(Prefix(text, {Space}))
    <3>1. k \in 0 .. Len(text)
      BY PrefixIs
    <3> HIDE DEF k
    <3>2. From(text, k) \in Seq(Symbol)
      BY <3>1, FromIs
    <3>3. QED
      BY <3>2 DEF k, skipSpaceCharacters
  <2>2. QED
    BY <2>1, HexIsNat DEF get_chunk_length
<1> HIDE DEF o, c
<1>3. CASE c \in {0, NotFound}
  BY <1>3 DEF get_next_chunk_offset, c
<1>4. CASE c \notin {0, NotFound}
  <2>1. c \in Nat /\ o \in 2 .. Len(text) /\ Len(text) \in Nat
    BY <1>1, <1>2, <1>4
  <2>2. get_next_chunk_offset(text) = NotFound \/ (o + c + 2 <= Len(text) /\ get_next_chunk_offset(text) = o + c + 2)
    <3>1. ~(o + c + 2 > Len(text)) => o + c + 2 <= Len(text)
      BY <2>1
    <3>2. QED
      BY <1>4, <3>1 DEF get_next_chunk_offset, o, c
  <2>3. QED
    BY <2>1, <2>2
<1>5. QED
  BY <1>3, <1>4

\* The walk over the text from the position low on.
Walks(w, text, low) ==
  w = [at \in low .. Len(text) |->
        LET chunk == From(text, at)
            next == get_next_chunk_offset(chunk)
        IN IF next \in {0, NotFound} THEN [last |-> next = 0, data |-> <<>>]
           ELSE LET rest == w[at + next]
                IN [last |-> rest.last, data |-> ChunkData(chunk) \o rest.data]]

WalkStep(w, text, at) ==
  LET chunk == From(text, at)
      next == get_next_chunk_offset(chunk)
  IN IF next \in {0, NotFound} THEN [last |-> next = 0, data |-> <<>>]
     ELSE LET rest == w[at + next]
          IN [last |-> rest.last, data |-> ChunkData(chunk) \o rest.data]

LEMMA OneMoreStep ==
  ASSUME NEW text \in Seq(Symbol), NEW low \in Nat, low < Len(text), NEW v, Walks(v, text, low + 1)
  PROVE  \E w : Walks(w, text, low)
<1> DEFINE w == [at \in low .. Len(text) |-> IF at = low THEN WalkStep(v, text, low) ELSE v[at]]
<1>1. \A at \in low + 1 .. Len(text) : v[at] = WalkStep(v, text, at)
  BY Zenon DEF Walks, WalkStep
<1>2. /\ \A at \in low + 1 .. Len(text) : at \in low .. Len(text) /\ at # low
      /\ low \in low .. Len(text)
      /\ \A at \in low .. Len(text) : at = low \/ at \in low + 1 .. Len(text)
  OBVIOUS
<1>3. w[low] = WalkStep(v, text, low) /\ \A at \in low + 1 .. Len(text) : w[at] = v[at]
  BY <1>2
<1>4. w = [at \in low .. Len(text) |-> w[at]]
  OBVIOUS
<1> HIDE DEF w
<1>5. ASSUME NEW at \in low .. Len(text) PROVE WalkStep(w, text, at) = WalkStep(v, text, at)
  <2> DEFINE next == get_next_chunk_offset(From(text, at))
  <2>1. next \in {0, NotFound} \cup 1 .. Len(text) - at
    <3>1. at \in 0 .. Len(text)
      OBVIOUS
    <3>2. From(text, at) \in Seq(Symbol) /\ Len(From(text, at)) = Len(text) - at
      BY <3>1, FromIs
    <3>3. QED
      BY <3>2, NextInText
  <2> HIDE DEF next
  <2>2. CASE next \in {0, NotFound}
    BY <2>2, Zenon DEF WalkStep, next
  <2>3. CASE next \notin {0, NotFound}
    <3>1. at + next \in low + 1 .. Len(text)
      <4>1. next \in 1 .. Len(text) - at
        BY <2>1, <2>3
      <4>2. QED
        BY <4>1
    <3>2. w[at + next] = v[at + next]
      BY <1>3, <3>1
    <3>3. QED
      BY <2>3, <3>2, Zenon DEF WalkStep, next
  <2>4. QED
    BY <2>2, <2>3
<1>6. \A at \in low .. Len(text) : w[at] = WalkStep(w, text, at)
  <2>1. w[low] = WalkStep(w, text, low)
    BY <1>2, <1>3, <1>5, Zenon
  <2>2. \A at \in low + 1 .. Len(text) : w[at] = WalkStep(w, text, at)
    BY <1>1, <1>2, <1>3, <1>5, Zenon
  <2>3. QED
    BY <1>2, <2>1, <2>2, Zenon
<1>7. Walks(w, text, low)
  BY <1>4, <1>6, Zenon DEF Walks, WalkStep
<1>8. QED
  BY <1>7, Zenon

LEMMA WalkExists ==
  ASSUME NEW text \in Seq(Symbol)
  PROVE  \E w : Walks(w, text, 0)
<1> DEFINE N == Len(text)
           S == {n \in Nat : \E w : Walks(w, text, (N + 1) - n)}
<1>1. N \in Nat
  OBVIOUS
<1>2. 1 \in S
  <2> DEFINE v == [at \in N .. N |-> WalkStep(<<>>, text, at)]
  <2>1. \A at \in N .. N : v[at] = WalkStep(v, text, at)
    <3> SUFFICES v[N] = WalkStep(v, text, N)
      OBVIOUS
    <3>1. v[N] = WalkStep(<<>>, text, N)
      BY <1>1
    <3>2. From(text, N) \in Seq(Symbol) /\ Len(From(text, N)) = 0
      <4>1. N \in 0 .. Len(text)
        BY <1>1
      <4>2. QED
        BY <4>1, FromIs
    <3>3. get_next_chunk_offset(From(text, N)) \in {0, NotFound}
      <4>1. get_next_chunk_offset(From(text, N)) \in {0, NotFound} \cup 1 .. Len(From(text, N))
        BY <3>2, NextInText
      <4>2. 1 .. Len(From(text, N)) = {}
        BY <3>2
      <4>3. QED
        BY <4>1, <4>2, Zenon
    <3> HIDE DEF v
    <3>4. QED
      BY <3>1, <3>3, Zenon DEF WalkStep
  <2>2. v = [at \in N .. N |-> v[at]]
    OBVIOUS
  <2> HIDE DEF v
  <2>3. Walks(v, text, N)
    BY <2>1, <2>2, Zenon DEF Walks, WalkStep
  <2>4. (N + 1) - 1 = N
    BY <1>1
  <2>5. QED
    BY <2>3, <2>4
<1>3. ASSUME NEW n \in 1 .. (N + 1) - 1, n \in S PROVE n + 1 \in S
  <2> DEFINE low == (N + 1) - (n + 1)
  <2>1. low \in Nat /\ low < Len(text) /\ low + 1 = (N + 1) - n /\ n + 1 \in Nat
    BY <1>1
  <2>2. \E w : Walks(w, text, (N + 1) - n)
    BY <1>3
  <2> HIDE DEF low
  <2>3. \E w : Walks(w, text, low)
    BY <2>1, <2>2, OneMoreStep, Zenon
  <2>4. QED
    BY <2>1, <2>3 DEF low
<1> HIDE DEF S
<1>4. N + 1 \in S
  <2>1. N + 1 \in Nat /\ N + 1 \in 1 .. N + 1
    BY <1>1
  <2>2. \A n \in 1 .. N + 1 : n \in S
    BY <1>2, <1>3, <2>1, AllPositions
  <2>3. QED
    BY <2>1, <2>2
<1>5. (N + 1) - (N + 1) = 0
  BY <1>1
<1>6. QED
  BY <1>4, <1>5 DEF S

LEMMA ChunksWalk ==
  ASSUME NEW text \in Seq(Symbol)
  PROVE  \E w : Chunks(text) = w[0] /\ \A at \in 0 .. Len(text) : w[at] = WalkStep(w, text, at)
<1> DEFINE u == CHOOSE w : w = [at \in 0 .. Len(text) |->
                  LET chunk == From(text, at)
                      next == get_next_chunk_offset(chunk)
                  IN IF next \in {0, NotFound} THEN [last |-> next = 0, data |-> <<>>]
                     ELSE LET rest == w[at + next]
                          IN [last |-> rest.last, data |-> ChunkData(chunk) \o rest.data]]
<1>1. Chunks(text) = u[0]
  BY Zenon DEF Chunks
<1>2. \E w : Walks(w, text, 0)
  BY WalkExists
<1>3. Walks(u, text, 0)
  BY <1>2, Zenon DEF Walks
<1> HIDE DEF u
<1>4. \A at \in 0 .. Len(text) : u[at] = WalkStep(u, text, at)
  BY <1>3, Zenon DEF Walks, WalkStep
<1>5. QED
  BY <1>1, <1>4, Zenon

\* Chunks one after the other: their data, up to where no further one is.
LEMMA ChunksRead ==
  ASSUME NEW text \in Seq(Symbol), NEW d \in Seq(Seq(Symbol)), NEW e, e[1] = 0,
         \A i \in 1 .. Len(d) + 1 : e[i] \in 0 .. Len(text),
         \A i \in 1 .. Len(d) :
           /\ get_next_chunk_offset(From(text, e[i])) = e[i + 1] - e[i]
           /\ ChunkData(From(text, e[i])) = d[i]
           /\ e[i] < e[i + 1],
         get_next_chunk_offset(From(text, e[Len(d) + 1])) \in {0, NotFound}
  PROVE  Chunks(text) = [last |-> get_next_chunk_offset(From(text, e[Len(d) + 1])) = 0,
                         data |-> FlattenSeq(d)]
<1> DEFINE m == Len(d)
           N == Len(text)
           stop == get_next_chunk_offset(From(text, e[Len(d) + 1])) = 0
           rest(i) == SubSeq(d, i, m)
<1>1. PICK w : Chunks(text) = w[0] /\ \A at \in 0 .. Len(text) : w[at] = WalkStep(w, text, at)
  BY ChunksWalk
<1> DEFINE Good(i) == w[e[i]] = [last |-> stop, data |-> FlattenSeq(rest(i))]
           S == {n \in Nat : Good((m + 2) - n)}
<1>2. m \in Nat /\ rest(m + 1) = <<>> /\ rest(1) = d
  OBVIOUS
<1>3. Good(m + 1)
  <2>1. w[e[m + 1]] = WalkStep(w, text, e[m + 1])
    BY <1>1, <1>2
  <2>2. w[e[m + 1]] = [last |-> stop, data |-> <<>>]
    BY <2>1, Zenon DEF WalkStep
  <2>3. QED
    BY <1>2, <2>2, FlattenNothing
<1>4. ASSUME NEW i \in 1 .. m, Good(i + 1) PROVE Good(i)
  <2> DEFINE next == get_next_chunk_offset(From(text, e[i]))
             q == rest(i)
  <2>1. /\ e[i] \in 0 .. N /\ e[i + 1] \in 0 .. N /\ e[i] < e[i + 1]
        /\ next = e[i + 1] - e[i] /\ ChunkData(From(text, e[i])) = d[i]
    BY <1>2
  <2> HIDE DEF next
  <2>2. next \notin {0, NotFound} /\ e[i] + next = e[i + 1]
    <3>1. e[i] \in Int /\ e[i + 1] \in Int /\ e[i] < e[i + 1] /\ next = e[i + 1] - e[i]
      BY <1>2, <2>1
    <3>2. \A x, y \in Int : x < y => y - x \notin {0, -1} /\ x + (y - x) = y
      OBVIOUS
    <3>3. e[i + 1] - e[i] \notin {0, -1} /\ e[i] + (e[i + 1] - e[i]) = e[i + 1]
      BY <3>1, <3>2, Zenon
    <3>4. QED
      BY <3>1, <3>3 DEF NotFound
  <2>3. w[e[i]] = WalkStep(w, text, e[i])
    BY <1>1, <2>1
  <2>4. w[e[i]] = [last |-> w[e[i + 1]].last, data |-> d[i] \o w[e[i + 1]].data]
    BY <2>1, <2>2, <2>3, Zenon DEF WalkStep, next
  <2>5. w[e[i + 1]] = [last |-> stop, data |-> FlattenSeq(rest(i + 1))]
    BY <1>4
  <2>6. w[e[i + 1]].last = stop /\ w[e[i + 1]].data = FlattenSeq(rest(i + 1))
    <3> HIDE DEF stop, rest
    <3>1. QED
      BY <2>5
  <2>7. q \in Seq(Seq(Symbol)) /\ q # <<>> /\ q[1] = d[i] /\ Tail(q) = rest(i + 1)
    <3> HIDE DEF Good
    <3>0. i \in Nat /\ i >= 1 /\ m \in 0 .. Len(d) /\ i <= m /\ i + 1 \in Nat /\ i + 1 >= 1 /\ m - i + 1 >= 1
      BY <1>2
    <3>1. /\ q \in Seq(Seq(Symbol)) /\ Len(q) = m - i + 1
          /\ \A j \in 1 .. Len(q) : q[j] = d[i + j - 1]
      <4>1. /\ SubSeq(d, i, m) \in Seq(Seq(Symbol))
            /\ Len(SubSeq(d, i, m)) = IF i <= m THEN m - i + 1 ELSE 0
            /\ \A j \in 1 .. Len(SubSeq(d, i, m)) : SubSeq(d, i, m)[j] = d[i + j - 1]
        BY <3>0, PartIs
      <4>2. QED
        BY <3>0, <4>1
    <3>2. Tail(q) = SubSeq(q, 2, Len(q))
      BY <3>0, <3>1
    <3>3. SubSeq(SubSeq(d, i, m), 2, m - i + 1) = SubSeq(d, i + 2 - 1, i + (m - i + 1) - 1)
      <4>1. 2 \in Nat /\ 2 >= 1 /\ m - i + 1 \in 0 .. m - i + 1 /\ i - 1 <= m
        BY <3>0
      <4>2. QED
        BY <3>0, <4>1, PartOfPart
    <3>4. i + 2 - 1 = i + 1 /\ i + (m - i + 1) - 1 = m
      BY <3>0
    <3>5. q # <<>> /\ 1 \in 1 .. Len(q) /\ i + 1 - 1 = i
      <4> HIDE DEF q
      <4>1. Len(q) >= 1
        BY <3>0, <3>1
      <4>2. QED
        BY <3>0, <4>1
    <3>6. QED
      BY <3>1, <3>2, <3>3, <3>4, <3>5
  <2>8. FlattenSeq(q) = d[i] \o FlattenSeq(rest(i + 1))
    BY <2>7, FlattenFirst
  <2> HIDE DEF m, rest, stop
  <2>9. QED
    BY <2>4, <2>6, <2>8
<1>5. 1 \in S
  <2>1. (m + 2) - 1 = m + 1
    BY <1>2
  <2>2. QED
    BY <1>3, <2>1
<1>6. ASSUME NEW n \in 1 .. (m + 1) - 1, n \in S PROVE n + 1 \in S
  <2>1. (m + 2) - (n + 1) \in 1 .. m /\ ((m + 2) - (n + 1)) + 1 = (m + 2) - n /\ n + 1 \in Nat
    BY <1>2
  <2>2. Good((m + 2) - n)
    BY <1>6
  <2> HIDE DEF Good
  <2>3. Good((m + 2) - (n + 1))
    BY <1>4, <2>1, <2>2
  <2>4. QED
    BY <2>1, <2>3
<1>7. Good(1)
  <2> HIDE DEF S, Good
  <2>1. m + 1 \in Nat /\ m + 1 \in 1 .. m + 1 /\ (m + 2) - (m + 1) = 1
    BY <1>2
  <2>2. \A n \in 1 .. m + 1 : n \in S
    BY <1>5, <1>6, <2>1, AllPositions
  <2>3. QED
    BY <2>1, <2>2 DEF S
<1>8. QED
  BY <1>1, <1>2, <1>7
=============================================================================
