----------------------------- MODULE UrlProofs -----------------------------
(***************************************************************************)
(* Proofs about Url, for every set of parts and components of any length:  *)
(* what percentEncode makes of a component, and what parseUrl makes of a    *)
(* url that was written from its parts.                                    *)
(***************************************************************************)
EXTENDS Credentials, HttpTextProofs

\* What urls are made of.
Symbols == STRING \cup Numbers \cup DOMAIN Codes \cup HexDigits
             \cup {":", "80", "443", "0", "http", "https"}

Delimiters == {"/", "?", "#", "@"}

Ascii(s) == ~Has(s, {"high"})

-----------------------------------------------------------------------------
(* The codes of characters, and the characters that are encoded.            *)
LEMMA CodeIs ==
  ASSUME NEW c \in DOMAIN Codes, c # "high"
  PROVE  \E d, e \in HexDigits : Codes[c] = <<d, e>>
<1>1. c \in {" ", "%", "/", "?", "#", "@"}
  BY DEF Codes
<1>2. CASE c = " "
  BY <1>2 DEF Codes, HexDigits
<1>3. CASE c = "%"
  BY <1>3 DEF Codes, HexDigits
<1>4. CASE c = "/"
  BY <1>4 DEF Codes, HexDigits
<1>5. CASE c = "?"
  BY <1>5 DEF Codes, HexDigits
<1>6. CASE c = "#"
  BY <1>6 DEF Codes, HexDigits
<1>7. CASE c = "@"
  BY <1>7 DEF Codes, HexDigits
<1>8. QED
  BY <1>1, <1>2, <1>3, <1>4, <1>5, <1>6, <1>7

LEMMA ReservedIs ==
  ASSUME NEW id \in Delimiters
  PROVE  /\ Reserved(id) \subseteq DOMAIN Codes
         /\ "%" \in Reserved(id) /\ " " \in Reserved(id) /\ "#" \in Reserved(id)
         /\ id \in {"/", "@"} => "?" \in Reserved(id)
         /\ id = "@" => "/" \in Reserved(id) /\ "@" \in Reserved(id)
         /\ HexDigits \cap Reserved(id) = {}
         /\ "%" \notin HexDigits /\ id # "%"
  BY DEF Delimiters, Reserved, Codes, HexDigits

\* A character that a component copies.
Kept(s, id, i) ==
  (i = 1 /\ s[i] = id) \/ s[i] \notin Reserved(id) \/ EscapeAt(s, i)

LEMMA EscapeIs ==
  ASSUME NEW s \in Seq(Symbols), NEW i \in Int
  PROVE  BeginsEscape(s, i) <=> EscapeAt(s, i)
  BY DEF BeginsEscape, EscapeAt

-----------------------------------------------------------------------------
(* Where the characters of s are in t, which s is encoded as.                *)
EncodedAs(s, id, t, o) ==
  /\ o[1] = 0 /\ o[Len(s) + 1] = Len(t)
  /\ \A i \in 1 .. Len(s) : o[i] \in Nat /\ o[i + 1] \in Nat /\ o[i + 1] <= Len(t)
  /\ \A i \in 1 .. Len(s) : Kept(s, id, i) => o[i + 1] = o[i] + 1 /\ t[o[i] + 1] = s[i]
  /\ \A i \in 1 .. Len(s) : ~Kept(s, id, i) =>
       /\ o[i + 1] = o[i] + 3
       /\ t[o[i] + 1] = "%"
       /\ t[o[i] + 2] \in HexDigits /\ t[o[i] + 3] \in HexDigits
       /\ s[i] \in DOMAIN Codes /\ Codes[s[i]] = <<t[o[i] + 2], t[o[i] + 3]>>
  /\ \A k \in 1 .. Len(t) : \E i \in 1 .. Len(s) :
       k = o[i] + 1 \/ (~Kept(s, id, i) /\ k \in {o[i] + 2, o[i] + 3})

Piece(s, id, i) == IF Kept(s, id, i) THEN <<s[i]>> ELSE <<"%">> \o Codes[s[i]]

LEMMA PieceIs ==
  ASSUME NEW s \in Seq(Symbols), Ascii(s), NEW id \in Delimiters, NEW i \in 1 .. Len(s)
  PROVE  /\ Piece(s, id, i) \in Seq(Symbols)
         /\ Kept(s, id, i) => Len(Piece(s, id, i)) = 1 /\ Piece(s, id, i)[1] = s[i]
         /\ ~Kept(s, id, i) =>
              /\ Len(Piece(s, id, i)) = 3 /\ Piece(s, id, i)[1] = "%"
              /\ Piece(s, id, i)[2] \in HexDigits /\ Piece(s, id, i)[3] \in HexDigits
              /\ s[i] \in DOMAIN Codes
              /\ Codes[s[i]] = <<Piece(s, id, i)[2], Piece(s, id, i)[3]>>
<1>1. CASE Kept(s, id, i)
  BY <1>1 DEF Piece
<1>2. CASE ~Kept(s, id, i)
  <2>1. s[i] \in DOMAIN Codes /\ s[i] # "high"
    BY <1>2, ReservedIs DEF Kept, Ascii, Has
  <2>2. PICK d, e \in HexDigits : Codes[s[i]] = <<d, e>>
    BY <2>1, CodeIs
  <2>3. Piece(s, id, i) = <<"%">> \o <<d, e>>
    BY <1>2, <2>2 DEF Piece
  <2>4. "%" \in Symbols /\ d \in Symbols /\ e \in Symbols
    BY DEF Symbols, Codes
  <2>5. QED
    BY <1>2, <2>1, <2>2, <2>3, <2>4
<1>3. QED
  BY <1>1, <1>2

LEMMA EncodedIs ==
  ASSUME NEW s \in Seq(Symbols), s # <<>>, Ascii(s), NEW id \in Delimiters
  PROVE  /\ percentEncode(s, id) \in Seq(Symbols)
         /\ percentEncode(s, id) # <<>>
         /\ \E o : EncodedAs(s, id, percentEncode(s, id), o)
<1> DEFINE q == [i \in 1 .. Len(s) |-> Piece(s, id, i)]
           t == percentEncode(s, id)
           N == Len(s)
<1>1. t = FlattenSeq(q)
  BY DEF percentEncode, Piece, Kept
<1>2. q \in Seq(Seq(Symbols)) /\ Len(q) = N
  BY PieceIs
<1>3. \A i \in 1 .. N : q[i] = Piece(s, id, i)
  OBVIOUS
<1>4. N \in Nat /\ N >= 1
  OBVIOUS
<1> HIDE DEF q, t, N
<1>5. q # <<>>
  BY <1>2, <1>4
<1>6. t \in Seq(Symbols)
  BY <1>1, <1>2, <1>5, Flattened
<1>7. PICK o : Offsets(o, q) /\ MadeOf(t, q, o, N)
  BY <1>1, <1>2, <1>5, Flattened
<1>8. /\ o \in [1 .. N + 1 -> Nat] /\ o[1] = 0
      /\ \A i \in 1 .. N : o[i + 1] = o[i] + Len(q[i])
  BY <1>2, <1>7 DEF Offsets
<1>9. /\ Len(t) = o[N] + Len(q[N])
      /\ \A i \in 1 .. N : \A j \in 1 .. Len(q[i]) :
           o[i] + j \in 1 .. Len(t) /\ t[o[i] + j] = q[i][j]
      /\ \A k \in 1 .. Len(t) : \E i \in 1 .. N : \E j \in 1 .. Len(q[i]) : k = o[i] + j
  BY <1>7 DEF MadeOf
<1>10. ASSUME NEW i \in 1 .. N
       PROVE  /\ o[i] \in Nat /\ o[i + 1] \in Nat /\ o[i + 1] <= Len(t)
              /\ Kept(s, id, i) => o[i + 1] = o[i] + 1 /\ t[o[i] + 1] = s[i]
              /\ ~Kept(s, id, i) =>
                   /\ o[i + 1] = o[i] + 3 /\ t[o[i] + 1] = "%"
                   /\ t[o[i] + 2] \in HexDigits /\ t[o[i] + 3] \in HexDigits
                   /\ s[i] \in DOMAIN Codes /\ Codes[s[i]] = <<t[o[i] + 2], t[o[i] + 3]>>
  <2>1. o[i] \in Nat /\ o[i + 1] \in Nat /\ o[i + 1] = o[i] + Len(q[i])
    BY <1>4, <1>8
  <2>2. \A j \in 1 .. Len(q[i]) : o[i] + j \in 1 .. Len(t) /\ t[o[i] + j] = q[i][j]
    BY <1>9
  <2>3. q[i] = Piece(s, id, i) /\ i \in 1 .. Len(s)
    BY <1>3 DEF N
  <2>4. CASE Kept(s, id, i)
    <3>1. Len(q[i]) = 1 /\ q[i][1] = s[i]
      BY <2>3, <2>4, PieceIs
    <3>2. o[i] + 1 \in 1 .. Len(t) /\ t[o[i] + 1] = q[i][1]
      BY <2>2, <3>1
    <3>3. QED
      BY <2>1, <2>4, <3>1, <3>2
  <2>5. CASE ~Kept(s, id, i)
    <3>1. /\ Len(q[i]) = 3 /\ q[i][1] = "%"
          /\ q[i][2] \in HexDigits /\ q[i][3] \in HexDigits
          /\ s[i] \in DOMAIN Codes /\ Codes[s[i]] = <<q[i][2], q[i][3]>>
      BY <2>3, <2>5, PieceIs
    <3>2. /\ t[o[i] + 1] = q[i][1] /\ t[o[i] + 2] = q[i][2] /\ t[o[i] + 3] = q[i][3]
          /\ o[i] + 3 \in 1 .. Len(t)
      BY <2>2, <3>1
    <3>3. QED
      BY <2>1, <2>5, <3>1, <3>2
  <2>6. QED
    BY <2>4, <2>5
<1>11. ASSUME NEW k \in 1 .. Len(t)
       PROVE  \E i \in 1 .. N : k = o[i] + 1 \/ (~Kept(s, id, i) /\ k \in {o[i] + 2, o[i] + 3})
  <2>1. PICK i \in 1 .. N : \E j \in 1 .. Len(q[i]) : k = o[i] + j
    BY <1>9
  <2>2. PICK j \in 1 .. Len(q[i]) : k = o[i] + j
    BY <2>1
  <2>3. q[i] = Piece(s, id, i) /\ i \in 1 .. Len(s)
    BY <1>3 DEF N
  <2>4. CASE Kept(s, id, i)
    <3>1. Len(q[i]) = 1
      BY <2>3, <2>4, PieceIs
    <3>2. QED
      BY <2>2, <3>1
  <2>5. CASE ~Kept(s, id, i)
    <3>1. Len(q[i]) = 3
      BY <2>3, <2>5, PieceIs
    <3>2. QED
      BY <2>2, <2>5, <3>1
  <2>6. QED
    BY <2>4, <2>5
<1>12. o[N + 1] = Len(t)
  <2>1. N \in 1 .. N
    BY <1>4
  <2>2. QED
    BY <1>8, <1>9, <2>1
<1>13. EncodedAs(s, id, t, o)
  BY <1>8, <1>10, <1>11, <1>12 DEF EncodedAs, N
<1>14. t # <<>>
  <2>1. 1 \in 1 .. N
    BY <1>4
  <2>2. /\ o[1] \in Nat /\ o[1 + 1] \in Nat /\ o[1 + 1] <= Len(t)
        /\ o[1 + 1] = o[1] + 1 \/ o[1 + 1] = o[1] + 3
    BY <1>10, <2>1
  <2>3. Len(t) >= 1
    BY <1>6, <2>2
  <2>4. QED
    BY <2>3
<1>15. QED
  BY <1>6, <1>13, <1>14 DEF t

-----------------------------------------------------------------------------
(* The escapes of t: those of s and those that are new.                      *)
LEMMA Escapes ==
  ASSUME NEW s \in Seq(Symbols), NEW id \in Delimiters, NEW t \in Seq(Symbols),
         NEW o, EncodedAs(s, id, t, o), NEW i \in 1 .. Len(s)
  PROVE  /\ ~Kept(s, id, i) => BeginsEscape(t, o[i] + 1)
         /\ EscapeAt(s, i) => BeginsEscape(t, o[i] + 1)
         /\ EscapeAt(s, i) =>
              /\ i + 1 \in 1 .. Len(s) /\ i + 2 \in 1 .. Len(s)
              /\ Kept(s, id, i) /\ Kept(s, id, i + 1) /\ Kept(s, id, i + 2)
              /\ o[i + 1] = o[i] + 1 /\ o[i + 2] = o[i] + 2 /\ o[i + 3] = o[i] + 3
              /\ t[o[i] + 2] = s[i + 1] /\ t[o[i] + 3] = s[i + 2]
<1>1. o[i] \in Nat /\ o[i + 1] \in Nat /\ o[i + 1] <= Len(t)
  BY DEF EncodedAs
<1>2. ASSUME ~Kept(s, id, i) PROVE BeginsEscape(t, o[i] + 1)
  <2>1. o[i + 1] = o[i] + 3 /\ t[o[i] + 1] = "%" /\ t[o[i] + 2] \in HexDigits /\ t[o[i] + 3] \in HexDigits
    BY <1>2, Zenon DEF EncodedAs
  <2>2. o[i] + 1 + 1 = o[i] + 2 /\ o[i] + 1 + 2 = o[i] + 3
    BY <1>1
  <2>3. o[i] + 1 + 1 <= Len(t) /\ o[i] + 1 + 2 <= Len(t)
    <3> DEFINE x == o[i]
               n == Len(t)
    <3>1. x \in Nat /\ n \in Nat
      BY <1>1
    <3>2. x + 3 <= n
      BY <1>1, <2>1, Zenon
    <3> HIDE DEF x, n
    <3>3. x + 1 + 1 <= n /\ x + 1 + 2 <= n
      BY <3>1, <3>2
    <3>4. QED
      BY <3>3 DEF x, n
  <2>4. QED
    BY <2>1, <2>2, <2>3 DEF BeginsEscape
<1>3. ASSUME EscapeAt(s, i)
      PROVE  /\ i + 1 \in 1 .. Len(s) /\ i + 2 \in 1 .. Len(s)
             /\ Kept(s, id, i) /\ Kept(s, id, i + 1) /\ Kept(s, id, i + 2)
             /\ o[i + 1] = o[i] + 1 /\ o[i + 2] = o[i] + 2 /\ o[i + 3] = o[i] + 3
             /\ t[o[i] + 1] = "%" /\ t[o[i] + 2] = s[i + 1] /\ t[o[i] + 3] = s[i + 2]
             /\ o[i] + 3 <= Len(t)
             /\ s[i + 1] \in HexDigits /\ s[i + 2] \in HexDigits
  <2>1. /\ i + 1 \in 1 .. Len(s) /\ i + 2 \in 1 .. Len(s) /\ s[i] = "%"
        /\ s[i + 1] \in HexDigits /\ s[i + 2] \in HexDigits
    BY <1>3 DEF EscapeAt
  <2>2. Kept(s, id, i) /\ Kept(s, id, i + 1) /\ Kept(s, id, i + 2)
    BY <1>3, <2>1, ReservedIs DEF Kept
  <2>3. o[i + 1] = o[i] + 1 /\ t[o[i] + 1] = s[i]
    BY <2>2 DEF EncodedAs
  <2>4. o[(i + 1) + 1] = o[i + 1] + 1 /\ t[o[i + 1] + 1] = s[i + 1]
    BY <2>1, <2>2 DEF EncodedAs
  <2>5. /\ o[(i + 2) + 1] = o[i + 2] + 1 /\ t[o[i + 2] + 1] = s[i + 2]
        /\ o[(i + 2) + 1] <= Len(t)
    BY <2>1, <2>2 DEF EncodedAs
  <2>6. (i + 1) + 1 = i + 2 /\ (i + 2) + 1 = i + 3
    OBVIOUS
  <2>7. o[i + 2] = o[i] + 2 /\ o[i + 3] = o[i] + 3
    <3>1. o[i + 1] = o[i] + 1 /\ o[i + 2] = o[i + 1] + 1 /\ o[i + 3] = o[i + 2] + 1
      BY <2>3, <2>4, <2>5, <2>6, Zenon
    <3> DEFINE x == o[i]
    <3>2. x \in Nat
      BY <1>1
    <3> HIDE DEF x
    <3>3. o[i + 2] = (x + 1) + 1 /\ o[i + 3] = ((x + 1) + 1) + 1
      BY <3>1, Zenon DEF x
    <3>4. o[i + 2] = x + 2 /\ o[i + 3] = x + 3
      BY <3>2, <3>3
    <3>5. QED
      BY <3>4 DEF x
  <2>8. o[i + 1] + 1 = o[i] + 2 /\ o[i + 2] + 1 = o[i] + 3
    <3> DEFINE x == o[i]
    <3>1. x \in Nat
      BY <1>1
    <3> HIDE DEF x
    <3>2. (x + 1) + 1 = x + 2 /\ (x + 2) + 1 = x + 3
      BY <3>1
    <3>3. QED
      BY <2>3, <2>7, <3>2, Zenon DEF x
  <2>9. QED
    BY <2>1, <2>2, <2>3, <2>4, <2>5, <2>6, <2>7, <2>8
<1>4. ASSUME EscapeAt(s, i) PROVE BeginsEscape(t, o[i] + 1)
  <2>1. /\ t[o[i] + 1] = "%" /\ t[o[i] + 2] \in HexDigits /\ t[o[i] + 3] \in HexDigits
        /\ o[i] + 3 <= Len(t)
    BY <1>3, <1>4
  <2>2. /\ o[i] + 1 + 1 = o[i] + 2 /\ o[i] + 1 + 2 = o[i] + 3
        /\ o[i] + 1 + 1 <= Len(t) /\ o[i] + 1 + 2 <= Len(t)
    <3> DEFINE x == o[i]
               n == Len(t)
    <3>1. x \in Nat /\ n \in Nat /\ x + 3 <= n
      BY <1>1, <2>1
    <3> HIDE DEF x, n
    <3>2. x + 1 + 1 = x + 2 /\ x + 1 + 2 = x + 3 /\ x + 1 + 1 <= n /\ x + 1 + 2 <= n
      BY <3>1
    <3>3. QED
      BY <3>2 DEF x, n
  <2>3. QED
    BY <2>1, <2>2 DEF BeginsEscape
<1>5. QED
  BY <1>2, <1>3, <1>4

LEMMA NothingEncoded ==
  ASSUME NEW id
  PROVE  percentEncode(<<>>, id) = <<>>
  BY FlattenNothing DEF percentEncode

(* Encoding leaves no reserved character but the one that the component      *)
(* begins with, and each "%" begins an escape.                               *)
LEMMA EncodedClean ==
  ASSUME NEW s \in Seq(Symbols), Ascii(s), NEW id \in Delimiters
  PROVE  LET t == percentEncode(s, id)
         IN \A k \in 1 .. Len(t) :
              \/ k = 1 /\ t[k] = id
              \/ t[k] \notin Reserved(id) /\ (t[k] \in HexDigits \/ \E i \in 1 .. Len(s) : t[k] = s[i])
              \/ BeginsEscape(t, k)
<1> DEFINE t == percentEncode(s, id)
<1>1. CASE s = <<>>
  <2>1. t = <<>>
    BY <1>1, NothingEncoded
  <2>2. QED
    BY <2>1
<1>2. CASE s # <<>>
  <2>1. t \in Seq(Symbols)
    BY <1>2, EncodedIs
  <2>2. PICK o : EncodedAs(s, id, t, o)
    BY <1>2, EncodedIs
  <2> HIDE DEF t
  <2> SUFFICES ASSUME NEW k \in 1 .. Len(t)
               PROVE  \/ k = 1 /\ t[k] = id
                      \/ t[k] \notin Reserved(id)
                         /\ (t[k] \in HexDigits \/ \E i \in 1 .. Len(s) : t[k] = s[i])
                      \/ BeginsEscape(t, k)
    BY DEF t
  <2>3. PICK i \in 1 .. Len(s) : k = o[i] + 1 \/ (~Kept(s, id, i) /\ k \in {o[i] + 2, o[i] + 3})
    BY <2>2 DEF EncodedAs
  <2>4. CASE k = o[i] + 1 /\ Kept(s, id, i)
    <3>1. t[k] = s[i]
      BY <2>2, <2>4 DEF EncodedAs
    <3>2. CASE i = 1 /\ s[i] = id
      BY <2>2, <2>4, <3>1, <3>2 DEF EncodedAs
    <3>3. CASE s[i] \notin Reserved(id)
      BY <3>1, <3>3
    <3>4. CASE EscapeAt(s, i)
      BY <2>1, <2>2, <2>4, <3>4, Escapes
    <3>5. QED
      BY <2>4, <3>2, <3>3, <3>4 DEF Kept
  <2>5. CASE k = o[i] + 1 /\ ~Kept(s, id, i)
    BY <2>1, <2>2, <2>5, Escapes
  <2>6. CASE ~Kept(s, id, i) /\ k \in {o[i] + 2, o[i] + 3}
    <3>1. t[k] \in HexDigits
      BY <2>2, <2>6 DEF EncodedAs
    <3>2. QED
      BY <3>1, ReservedIs
  <2>7. QED
    BY <2>3, <2>4, <2>5, <2>6
<1>3. QED
  BY <1>1, <1>2

(* A component that percentEncode has encoded is what it makes of itself:    *)
(* Url(parts) and then parseUrl may both encode it                           *)
(* (src/src/Url.cpp:319-389).                                                *)
THEOREM EncodingIsIdempotent ==
  ASSUME NEW s \in Seq(Symbols), Ascii(s), NEW id \in Delimiters
  PROVE  percentEncode(percentEncode(s, id), id) = percentEncode(s, id)
<1> DEFINE t == percentEncode(s, id)
<1>1. t \in Seq(Symbols)
  <2>1. CASE s = <<>>
    BY <2>1, NothingEncoded
  <2>2. CASE s # <<>>
    BY <2>2, EncodedIs
  <2>3. QED
    BY <2>1, <2>2
<1>2. \A k \in 1 .. Len(t) : Kept(t, id, k)
  <2>1. \A k \in 1 .. Len(t) :
          (k = 1 /\ t[k] = id) \/ t[k] \notin Reserved(id) \/ BeginsEscape(t, k)
    BY EncodedClean
  <2> HIDE DEF t
  <2>2. \A k \in 1 .. Len(t) : BeginsEscape(t, k) => EscapeAt(t, k)
    BY <1>1, EscapeIs
  <2>3. QED
    BY <2>1, <2>2 DEF Kept
<1> HIDE DEF t
<1>3. [k \in 1 .. Len(t) |-> Piece(t, id, k)] = [k \in 1 .. Len(t) |-> <<t[k]>>]
  BY <1>2 DEF Piece
<1>4. percentEncode(t, id) = FlattenSeq([k \in 1 .. Len(t) |-> Piece(t, id, k)])
  BY DEF percentEncode, Piece, Kept
<1>5. QED
  BY <1>1, <1>3, <1>4, FlattenSymbols DEF t

-----------------------------------------------------------------------------
(* The octets that a component stands for.                                   *)
OctetAt(s, i) ==
  IF InEscape(s, i) THEN <<>>
  ELSE IF BeginsEscape(s, i) THEN <<<<s[i + 1], s[i + 2]>>>>
  ELSE <<IF s[i] \in DOMAIN Codes THEN Codes[s[i]] ELSE <<s[i]>>>>

LEMMA DigitsEscaped ==
  ASSUME NEW s, NEW i, InEscape(s, i), NEW n \in Int, n = i
  PROVE  s[i] \in HexDigits
<1>1. PICK k \in {1, 2} : BeginsEscape(s, i - k)
  BY DEF InEscape
<1>2. s[(i - k) + k] \in HexDigits
  BY <1>1 DEF BeginsEscape
<1>3. (i - k) + k = i
  OBVIOUS
<1>4. QED
  BY <1>2, <1>3

LEMMA OctetIs ==
  ASSUME NEW s \in Seq(Symbols), Ascii(s), NEW i \in 1 .. Len(s)
  PROVE  OctetAt(s, i) \in Seq(Seq(Symbols))
<1>1. CASE InEscape(s, i)
  BY <1>1 DEF OctetAt
<1>2. CASE ~InEscape(s, i) /\ BeginsEscape(s, i)
  <2>1. i + 1 \in 1 .. Len(s) /\ i + 2 \in 1 .. Len(s)
    BY <1>2 DEF BeginsEscape
  <2>2. s[i + 1] \in Symbols /\ s[i + 2] \in Symbols
    BY <2>1
  <2>3. QED
    BY <1>2, <2>2 DEF OctetAt
<1>3. CASE ~InEscape(s, i) /\ ~BeginsEscape(s, i) /\ s[i] \in DOMAIN Codes
  <2>1. s[i] # "high"
    BY DEF Ascii, Has
  <2>2. PICK d, e \in HexDigits : Codes[s[i]] = <<d, e>>
    BY <1>3, <2>1, CodeIs
  <2>3. d \in Symbols /\ e \in Symbols
    BY DEF Symbols
  <2>4. OctetAt(s, i) = <<<<d, e>>>>
    BY <1>3, <2>2 DEF OctetAt
  <2>5. QED
    BY <2>3, <2>4
<1>4. CASE ~InEscape(s, i) /\ ~BeginsEscape(s, i) /\ s[i] \notin DOMAIN Codes
  <2>1. OctetAt(s, i) = <<<<s[i]>>>>
    BY <1>4 DEF OctetAt
  <2>2. QED
    BY <2>1
<1>5. QED
  BY <1>1, <1>2, <1>3, <1>4

LEMMA OffsetsIncrease ==
  ASSUME NEW s \in Seq(Symbols), NEW id, NEW t, NEW o, EncodedAs(s, id, t, o)
  PROVE  \A n \in 1 .. Len(s) : \A m \in 1 .. n - 1 : o[m + 1] <= o[n]
<1> DEFINE N == Len(s)
           S == {n \in 1 .. N : \A m \in 1 .. n - 1 : o[m + 1] <= o[n]}
<1>1. /\ N \in Nat
      /\ \A i \in 1 .. N : o[i] \in Nat /\ o[i + 1] \in Nat
      /\ \A i \in 1 .. N : o[i + 1] = o[i] + 1 \/ o[i + 1] = o[i] + 3
  BY DEF EncodedAs
<1> HIDE DEF N
<1>2. N >= 1 => 1 \in S
  BY <1>1
<1>3. ASSUME NEW n \in 1 .. N - 1, n \in S PROVE n + 1 \in S
  <2>1. n + 1 \in 1 .. N /\ n \in 1 .. N
    BY <1>1
  <2>2. ASSUME NEW m \in 1 .. (n + 1) - 1 PROVE o[m + 1] <= o[n + 1]
    <3>1. m \in 1 .. N
      BY <1>1
    <3>2. o[m + 1] \in Nat /\ o[n + 1] \in Nat /\ o[n] \in Nat /\ o[n] <= o[n + 1]
      BY <1>1, <2>1, <3>1
    <3>3. CASE m = n
      BY <3>2, <3>3
    <3>4. CASE m # n
      <4>1. m \in 1 .. n - 1
        BY <3>4
      <4>2. o[m + 1] <= o[n]
        BY <1>3, <4>1
      <4>3. QED
        BY <3>2, <4>2
    <3>5. QED
      BY <3>3, <3>4
  <2>3. QED
    BY <2>1, <2>2
<1> HIDE DEF S
<1>4. \A n \in 1 .. N : n \in S
  BY <1>1, <1>2, <1>3, AllPositions
<1>5. QED
  BY <1>4 DEF S, N

\* A character that was copied is in an escape, or begins one, where it did so in s.
LEMMA CopiedOctet ==
  ASSUME NEW s \in Seq(Symbols), NEW id \in Delimiters, NEW t \in Seq(Symbols),
         NEW o, EncodedAs(s, id, t, o), NEW i \in 1 .. Len(s), Kept(s, id, i)
  PROVE  OctetAt(t, o[i] + 1) = OctetAt(s, i)
<1> DEFINE k == o[i] + 1
<1>1. /\ o[i] \in Nat /\ o[i + 1] = k /\ k \in 1 .. Len(t) /\ t[k] = s[i]
  <2>1. /\ o[i] \in Nat /\ o[i + 1] <= Len(t)
        /\ o[i + 1] = o[i] + 1 /\ t[o[i] + 1] = s[i]
    BY Zenon DEF EncodedAs
  <2>2. o[i] + 1 \in 1 .. Len(t)
    BY <2>1
  <2>3. QED
    BY <2>1, <2>2, Zenon
<1>2. \A n \in 1 .. Len(s) : s[n] = "%" /\ Kept(s, id, n) => EscapeAt(s, n)
  BY ReservedIs DEF Kept
<1>3. BeginsEscape(t, k) <=> EscapeAt(s, i)
  <2>1. ASSUME BeginsEscape(t, k) PROVE EscapeAt(s, i)
    <3>1. s[i] = "%"
      BY <1>1, <2>1 DEF BeginsEscape
    <3>2. QED
      BY <1>2, <3>1
  <2>2. QED
    BY <2>1, Escapes
<1>4. EscapeAt(s, i) => t[k + 1] = s[i + 1] /\ t[k + 2] = s[i + 2]
  <2>1. EscapeAt(s, i) => t[o[i] + 2] = s[i + 1] /\ t[o[i] + 3] = s[i + 2]
    BY Escapes
  <2>2. k + 1 = o[i] + 2 /\ k + 2 = o[i] + 3
    BY <1>1
  <2>3. QED
    BY <2>1, <2>2
<1>5. InEscape(s, i) => InEscape(t, k)
  <2> SUFFICES ASSUME NEW j \in {1, 2}, j < i, BeginsEscape(s, i - j) PROVE InEscape(t, k)
    BY DEF InEscape
  <2> DEFINE h == i - j
  <2>1. h \in 1 .. Len(s) /\ h + j = i
    OBVIOUS
  <2> HIDE DEF h
  <2>2. EscapeAt(s, h)
    BY <2>1, EscapeIs DEF h
  <2>3. BeginsEscape(t, o[h] + 1) /\ o[h + 1] = o[h] + 1 /\ o[h + 2] = o[h] + 2
    BY <2>1, <2>2, Escapes
  <2>4. o[h] \in Nat
    BY <2>1 DEF EncodedAs
  <2>5. o[i] = o[h] + j
    BY <2>1, <2>3
  <2>6. k - j = o[h] + 1 /\ j < k
    BY <2>4, <2>5
  <2>7. QED
    BY <2>3, <2>6 DEF InEscape
<1>6. InEscape(t, k) => InEscape(s, i)
  <2> SUFFICES ASSUME NEW j \in {1, 2}, j < k, BeginsEscape(t, k - j) PROVE InEscape(s, i)
    BY DEF InEscape
  <2>1. k - j \in 1 .. Len(t) /\ t[k - j] = "%"
    <3>1. t[k - j] = "%"
      BY Zenon DEF BeginsEscape
    <3>2. k \in 1 .. Len(t) /\ Len(t) \in Nat
      BY <1>1
    <3> HIDE DEF k
    <3>3. k - j \in 1 .. Len(t)
      BY <3>2
    <3>4. QED
      BY <3>1, <3>3
  <2>2. PICK h \in 1 .. Len(s) :
          k - j = o[h] + 1 \/ (~Kept(s, id, h) /\ k - j \in {o[h] + 2, o[h] + 3})
    BY <2>1 DEF EncodedAs
  <2>3. /\ o[h] \in Nat /\ o[h + 1] \in Nat
        /\ ~Kept(s, id, h) => /\ o[h + 1] = o[h] + 3
                              /\ t[o[h] + 2] \in HexDigits /\ t[o[h] + 3] \in HexDigits
        /\ Kept(s, id, h) => t[o[h] + 1] = s[h]
    BY DEF EncodedAs
  <2>4. k - j = o[h] + 1
    BY <2>1, <2>2, <2>3, ReservedIs
  <2>5. /\ h < i => o[h + 1] <= o[i]
        /\ i < h => o[i + 1] <= o[h]
    BY OffsetsIncrease
  <2>6. Kept(s, id, h) /\ h < i
    <3> DEFINE x == o[h]  y == o[i]  z == o[h + 1]
    <3>1. /\ x \in Nat /\ y \in Nat /\ z \in Nat /\ (y + 1) - j = x + 1
          /\ h < i => z <= y
          /\ i < h => y + 1 <= x
          /\ h = i => x = y
          /\ ~Kept(s, id, h) => z = x + 3
      BY <1>1, <2>3, <2>4, <2>5
    <3> HIDE DEF x, y, z
    <3>2. h < i
      BY <3>1
    <3>3. Kept(s, id, h)
      BY <3>1, <3>2
    <3>4. QED
      BY <3>2, <3>3
  <2>7. EscapeAt(s, h)
    BY <1>2, <2>1, <2>3, <2>4, <2>6
  <2>8. /\ h + 1 \in 1 .. Len(s) /\ h + 2 \in 1 .. Len(s)
        /\ o[h + 1] = o[h] + 1 /\ o[h + 2] = o[h] + 2 /\ o[h + 3] = o[h] + 3
    BY <2>7, Escapes
  <2>9. /\ i > h + 1 => o[(h + 1) + 1] <= o[i]
        /\ i > h + 2 => o[(h + 2) + 1] <= o[i]
    <3>1. /\ i > h + 1 => h + 1 \in 1 .. i - 1
          /\ i > h + 2 => h + 2 \in 1 .. i - 1
      BY <2>8
    <3>2. \A m \in 1 .. i - 1 : o[m + 1] <= o[i]
      BY OffsetsIncrease
    <3>3. QED
      BY <3>1, <3>2, Zenon
  <2>10. i = h + j
    <3> DEFINE x == o[h]  y == o[i]
    <3>1. (h + 1) + 1 = h + 2 /\ (h + 2) + 1 = h + 3
      OBVIOUS
    <3>2. /\ x \in Nat /\ y \in Nat /\ y = x + j
          /\ i > h + 1 => x + 2 <= y
          /\ i > h + 2 => x + 3 <= y
          /\ i = h + 1 => y = x + 1
      <4>1. x \in Nat /\ y \in Nat /\ (y + 1) - j = x + 1
        BY <1>1, <2>3, <2>4
      <4>2. /\ i > h + 1 => o[h + 2] <= y
            /\ i > h + 2 => o[h + 3] <= y
            /\ o[h + 1] = x + 1 /\ o[h + 2] = x + 2 /\ o[h + 3] = x + 3
        BY <2>8, <2>9, <3>1, Zenon
      <4>3. i = h + 1 => y = x + 1
        BY <2>8
      <4> HIDE DEF x, y
      <4>4. y = x + j
        BY <4>1
      <4>5. QED
        BY <4>1, <4>2, <4>3, <4>4, Zenon
    <3> HIDE DEF x, y
    <3>3. QED
      BY <2>6, <3>2
  <2>11. BeginsEscape(s, i - j) /\ j < i
    <3>1. i - j = h /\ j < i
      BY <2>10
    <3>2. BeginsEscape(s, h)
      BY <2>7, EscapeIs
    <3>3. QED
      BY <3>1, <3>2
  <2>12. QED
    BY <2>11 DEF InEscape
<1>7. BeginsEscape(s, i) <=> EscapeAt(s, i)
  BY EscapeIs
<1> HIDE DEF k
<1>8. OctetAt(t, k) = OctetAt(s, i)
  BY <1>1, <1>3, <1>4, <1>5, <1>6, <1>7 DEF OctetAt
<1>9. QED
  BY <1>8 DEF k

\* A character that was encoded gives the octet that it gave before.
LEMMA NewOctet ==
  ASSUME NEW s \in Seq(Symbols), NEW id \in Delimiters, NEW t \in Seq(Symbols),
         NEW o, EncodedAs(s, id, t, o), NEW i \in 1 .. Len(s), ~Kept(s, id, i)
  PROVE  /\ OctetAt(t, o[i] + 1) = OctetAt(s, i)
         /\ OctetAt(t, o[i] + 2) = <<>> /\ OctetAt(t, o[i] + 3) = <<>>
<1> DEFINE k == o[i] + 1
<1>1. /\ o[i] \in Nat /\ t[k] = "%" /\ s[i] \in DOMAIN Codes
      /\ Codes[s[i]] = <<t[o[i] + 2], t[o[i] + 3]>>
  BY Zenon DEF EncodedAs
<1>2. BeginsEscape(t, k)
  BY Escapes
<1>3. k \in Int /\ k >= 1 /\ o[i] + 2 = k + 1 /\ o[i] + 3 = k + 2
  <2> DEFINE x == o[i]
  <2>1. x \in Nat
    BY <1>1
  <2> HIDE DEF x
  <2>2. x + 1 \in Int /\ x + 1 >= 1 /\ x + 2 = x + 1 + 1 /\ x + 3 = x + 1 + 2
    BY <2>1
  <2>3. QED
    BY <2>2, Zenon DEF x, k
<1> HIDE DEF k
<1>4. ~InEscape(t, k)
  BY <1>1, <1>3, DigitsEscaped, ReservedIs
<1>5. OctetAt(t, k) = <<Codes[s[i]]>>
  BY <1>1, <1>2, <1>3, <1>4 DEF OctetAt
<1>6. ~InEscape(s, i)
  <2>1. s[i] \notin HexDigits
    BY <1>1 DEF Codes, HexDigits
  <2>2. QED
    BY <2>1, DigitsEscaped
<1>7. ~BeginsEscape(s, i)
  BY EscapeIs DEF Kept
<1>8. OctetAt(s, i) = <<Codes[s[i]]>>
  BY <1>1, <1>6, <1>7 DEF OctetAt
<1>9. InEscape(t, k + 1) /\ InEscape(t, k + 2)
  <2>1. (k + 1) - 1 = k /\ (k + 2) - 2 = k /\ 1 < k + 1 /\ 2 < k + 2
    BY <1>3
  <2>2. QED
    BY <1>2, <2>1 DEF InEscape
<1>10. OctetAt(t, k + 1) = <<>> /\ OctetAt(t, k + 2) = <<>>
  BY <1>9 DEF OctetAt
<1>11. OctetAt(t, o[i] + 2) = <<>> /\ OctetAt(t, o[i] + 3) = <<>>
  BY <1>3, <1>10, Zenon
<1>12. OctetAt(t, o[i] + 1) = OctetAt(s, i)
  BY <1>5, <1>8, Zenon DEF k
<1>13. QED
  BY <1>11, <1>12

\* What an encoded component is made of.
LEMMA EncodedFrom ==
  ASSUME NEW s \in Seq(Symbols), Ascii(s), NEW id \in Delimiters
  PROVE  /\ percentEncode(s, id) \in Seq(Symbols)
         /\ Ascii(percentEncode(s, id))
         /\ \A c : ~Has(s, {c}) /\ c # "%" /\ c \notin HexDigits
                     => ~Has(percentEncode(s, id), {c})
<1> DEFINE t == percentEncode(s, id)
<1>1. CASE s = <<>>
  <2>1. t = <<>>
    BY <1>1, NothingEncoded
  <2>2. QED
    BY <2>1 DEF Has, Ascii
<1>2. CASE s # <<>>
  <2>1. t \in Seq(Symbols)
    BY <1>2, EncodedIs
  <2>2. PICK o : EncodedAs(s, id, t, o)
    BY <1>2, EncodedIs
  <2> HIDE DEF t
  <2>3. \A k \in 1 .. Len(t) : \/ t[k] = "%"
                                \/ t[k] \in HexDigits
                                \/ \E i \in 1 .. Len(s) : t[k] = s[i]
    <3> SUFFICES ASSUME NEW k \in 1 .. Len(t)
                 PROVE  \/ t[k] = "%"
                        \/ t[k] \in HexDigits
                        \/ \E i \in 1 .. Len(s) : t[k] = s[i]
      OBVIOUS
    <3>1. PICK i \in 1 .. Len(s) : k = o[i] + 1 \/ (~Kept(s, id, i) /\ k \in {o[i] + 2, o[i] + 3})
      BY <2>2 DEF EncodedAs
    <3>2. CASE Kept(s, id, i)
      BY <2>2, <3>1, <3>2 DEF EncodedAs
    <3>3. CASE ~Kept(s, id, i)
      BY <2>2, <3>1, <3>3 DEF EncodedAs
    <3>4. QED
      BY <3>2, <3>3
  <2>4. \A c : ~Has(s, {c}) /\ c # "%" /\ c \notin HexDigits => ~Has(t, {c})
    BY <2>3 DEF Has
  <2>5. "high" # "%" /\ "high" \notin HexDigits
    BY DEF HexDigits
  <2>6. Ascii(t)
    BY <2>4, <2>5 DEF Ascii
  <2>7. QED
    BY <2>1, <2>4, <2>6 DEF t
<1>3. QED
  BY <1>1, <1>2

(* percentEncode changes none of the octets that a component of ascii        *)
(* characters stands for, whether or not parts of it were escaped already    *)
(* (src/src/Url.cpp:319-389).                                                *)
THEOREM SameOctets ==
  ASSUME NEW s \in Seq(Symbols), Ascii(s), NEW id \in Delimiters
  PROVE  Octets(percentEncode(s, id)) = Octets(s)
<1> DEFINE t == percentEncode(s, id)
           a == [i \in 1 .. Len(s) |-> OctetAt(s, i)]
           b == [k \in 1 .. Len(t) |-> OctetAt(t, k)]
<1>1. CASE s = <<>>
  BY <1>1, NothingEncoded
<1>2. CASE s # <<>>
  <2>1. t \in Seq(Symbols) /\ Ascii(t)
    BY EncodedFrom
  <2>2. PICK o : EncodedAs(s, id, t, o)
    BY <1>2, EncodedIs
  <2>3. Octets(s) = FlattenSeq(a) /\ Octets(t) = FlattenSeq(b)
    BY DEF Octets, OctetAt
  <2> HIDE DEF t
  <2>4. /\ a \in Seq(Seq(Seq(Symbols))) /\ a # <<>> /\ Len(a) = Len(s)
        /\ \A i \in 1 .. Len(s) : a[i] = OctetAt(s, i)
    BY <1>2, OctetIs
  <2>5. /\ b \in Seq(Seq(Seq(Symbols))) /\ Len(b) = Len(t)
        /\ \A k \in 1 .. Len(t) : b[k] = OctetAt(t, k)
    BY <2>1, OctetIs
  <2> HIDE DEF a, b
  <2>6. ASSUME NEW i \in 1 .. Len(a)
        PROVE  /\ o[i] \in Nat /\ o[i + 1] \in Nat /\ o[i + 1] <= Len(b)
               /\ b[o[i] + 1] = a[i]
               /\ \/ o[i + 1] = o[i] + 1
                  \/ o[i + 1] = o[i] + 3 /\ b[o[i] + 2] = <<>> /\ b[o[i] + 3] = <<>>
    <3>1. i \in 1 .. Len(s)
      BY <2>4
    <3>2. /\ o[i] \in Nat /\ o[i + 1] \in Nat /\ o[i + 1] <= Len(t)
          /\ Kept(s, id, i) => o[i + 1] = o[i] + 1
          /\ ~Kept(s, id, i) => o[i + 1] = o[i] + 3
      BY <2>2, <3>1 DEF EncodedAs
    <3>3. CASE Kept(s, id, i)
      <4>1. o[i] + 1 \in 1 .. Len(t)
        BY <2>1, <3>2, <3>3
      <4>2. b[o[i] + 1] = OctetAt(t, o[i] + 1)
        BY <2>5, <4>1, Zenon
      <4>3. OctetAt(t, o[i] + 1) = OctetAt(s, i)
        BY <2>1, <2>2, <3>1, <3>3, CopiedOctet, ZenonT(60)
      <4>4. QED
        BY <2>4, <2>5, <3>1, <3>2, <3>3, <4>2, <4>3
    <3>4. CASE ~Kept(s, id, i)
      <4>1. o[i] + 1 \in 1 .. Len(t) /\ o[i] + 2 \in 1 .. Len(t) /\ o[i] + 3 \in 1 .. Len(t)
        <5> DEFINE x == o[i]
        <5>1. x \in Nat /\ x + 3 <= Len(t) /\ Len(t) \in Nat
          BY <2>1, <3>2, <3>4
        <5> HIDE DEF x
        <5>2. x + 1 \in 1 .. Len(t) /\ x + 2 \in 1 .. Len(t) /\ x + 3 \in 1 .. Len(t)
          BY <5>1
        <5>3. QED
          BY <5>2 DEF x
      <4>2. /\ b[o[i] + 1] = OctetAt(t, o[i] + 1)
            /\ b[o[i] + 2] = OctetAt(t, o[i] + 2)
            /\ b[o[i] + 3] = OctetAt(t, o[i] + 3)
        BY <2>5, <4>1, Zenon
      <4>3. /\ OctetAt(t, o[i] + 1) = OctetAt(s, i)
            /\ OctetAt(t, o[i] + 2) = <<>> /\ OctetAt(t, o[i] + 3) = <<>>
        BY <2>1, <2>2, <3>1, <3>4, NewOctet
      <4>4. QED
        BY <2>4, <2>5, <3>1, <3>2, <3>4, <4>2, <4>3
    <3>5. QED
      BY <3>3, <3>4
  <2>7. o[1] = 0 /\ o[Len(a) + 1] = Len(b)
    BY <2>2, <2>4, <2>5 DEF EncodedAs
  <2>8. FlattenSeq(a) = FlattenSeq(b)
    BY <2>4, <2>5, <2>6, <2>7, Regrouped, Zenon
  <2>9. QED
    BY <2>3, <2>8 DEF t
<1>3. QED
  BY <1>1, <1>2

-----------------------------------------------------------------------------
(* Where the parts of a url are in the string that is written of them.       *)
PartsOfUrl ==
  [protocol : {<<"http">>, <<"https">>}, port : Symbols, user : Seq(Symbols),
   password : Seq(Symbols), host : Seq(Symbols), path : Seq(Symbols),
   query : Seq(Symbols), fragment : Seq(Symbols)]

NoCredentials(p) == p.user = <<>> /\ p.password = <<>>

CredentialPart(p) == IF NoCredentials(p) THEN <<>> ELSE p.user \o <<":">> \o p.password \o <<"@">>
PortPart(p)       == IF p.port = "" THEN <<>> ELSE <<":", p.port>>

HostAt(p)     == 4 + Len(CredentialPart(p))
PortAt(p)     == HostAt(p) + Len(p.host)
PathAt(p)     == PortAt(p) + Len(PortPart(p))
QueryAt(p)    == PathAt(p) + Len(p.path)
FragmentAt(p) == QueryAt(p) + Len(p.query)

Laid(s, p) ==
  /\ s \in Seq(Symbols) /\ Len(s) = FragmentAt(p) + Len(p.fragment)
  /\ Holds(s, 0, p.protocol) /\ Holds(s, 1, <<":", "/", "/">>)
  /\ Holds(s, 4, CredentialPart(p)) /\ Holds(s, HostAt(p), p.host)
  /\ Holds(s, PortAt(p), PortPart(p)) /\ Holds(s, PathAt(p), p.path)
  /\ Holds(s, QueryAt(p), p.query) /\ Holds(s, FragmentAt(p), p.fragment)

LEMMA OffsetsAre ==
  ASSUME NEW p \in PartsOfUrl
  PROVE  /\ CredentialPart(p) \in Seq(Symbols) /\ PortPart(p) \in Seq(Symbols)
         /\ HostAt(p) \in Nat /\ HostAt(p) = 4 + Len(CredentialPart(p))
         /\ PortAt(p) \in Nat /\ PortAt(p) = HostAt(p) + Len(p.host)
         /\ PathAt(p) \in Nat /\ PathAt(p) = PortAt(p) + Len(PortPart(p))
         /\ QueryAt(p) \in Nat /\ QueryAt(p) = PathAt(p) + Len(p.path)
         /\ FragmentAt(p) \in Nat /\ FragmentAt(p) = QueryAt(p) + Len(p.query)
         /\ Len(CredentialPart(p)) \in Nat /\ Len(PortPart(p)) \in Nat /\ Len(p.host) \in Nat
         /\ Len(p.path) \in Nat /\ Len(p.query) \in Nat /\ Len(p.fragment) \in Nat
<1>1. /\ p.user \in Seq(Symbols) /\ p.password \in Seq(Symbols) /\ p.host \in Seq(Symbols)
      /\ p.path \in Seq(Symbols) /\ p.query \in Seq(Symbols) /\ p.fragment \in Seq(Symbols)
      /\ p.port \in Symbols
  BY DEF PartsOfUrl
<1>2. ":" \in Symbols /\ "@" \in Symbols
  BY DEF Symbols, Codes
<1>3. CredentialPart(p) \in Seq(Symbols)
  <2>1. <<":">> \in Seq(Symbols) /\ <<"@">> \in Seq(Symbols)
    BY <1>2
  <2>2. p.user \o <<":">> \in Seq(Symbols)
    BY <1>1, <2>1
  <2>3. p.user \o <<":">> \o p.password \in Seq(Symbols)
    BY <1>1, <2>2
  <2>4. p.user \o <<":">> \o p.password \o <<"@">> \in Seq(Symbols)
    BY <2>1, <2>3
  <2>5. QED
    BY <2>4 DEF CredentialPart
<1>4. PortPart(p) \in Seq(Symbols)
  <2>1. <<":", p.port>> \in Seq(Symbols)
    BY <1>1, <1>2
  <2>2. <<>> \in Seq(Symbols)
    OBVIOUS
  <2>3. QED
    BY <2>1, <2>2, Zenon DEF PortPart
<1>5. /\ Len(CredentialPart(p)) \in Nat /\ Len(PortPart(p)) \in Nat /\ Len(p.host) \in Nat
      /\ Len(p.path) \in Nat /\ Len(p.query) \in Nat /\ Len(p.fragment) \in Nat
  BY <1>1, <1>3, <1>4
<1>6. QED
  <2>1. HostAt(p) \in Nat /\ HostAt(p) = 4 + Len(CredentialPart(p))
    BY <1>5 DEF HostAt
  <2>2. PortAt(p) \in Nat /\ PortAt(p) = HostAt(p) + Len(p.host)
    <3>1. PortAt(p) = HostAt(p) + Len(p.host)
      BY Zenon DEF PortAt
    <3> DEFINE h == HostAt(p)
               n == Len(p.host)
    <3>2. h \in Nat /\ n \in Nat
      BY <1>5, <2>1, Zenon
    <3> HIDE DEF h, n
    <3>3. h + n \in Nat
      BY <3>2
    <3>4. QED
      BY <3>1, <3>3, Zenon DEF h, n
  <2>3. PathAt(p) \in Nat /\ PathAt(p) = PortAt(p) + Len(PortPart(p))
    BY <1>5, <2>2 DEF PathAt
  <2>4. QueryAt(p) \in Nat /\ QueryAt(p) = PathAt(p) + Len(p.path)
    BY <1>5, <2>3 DEF QueryAt
  <2>5. FragmentAt(p) \in Nat /\ FragmentAt(p) = QueryAt(p) + Len(p.query)
    BY <1>5, <2>4 DEF FragmentAt
  <2>6. QED
    BY <1>3, <1>4, <1>5, <2>1, <2>2, <2>3, <2>4, <2>5

LEMMA WrittenIs ==
  ASSUME NEW p \in PartsOfUrl
  PROVE  Laid(Written(p, p.port), p)
<1> DEFINE s1 == p.protocol \o <<":", "/", "/">>
           s2 == s1 \o CredentialPart(p)
           s3 == s2 \o p.host
           s4 == s3 \o PortPart(p)
           s5 == s4 \o p.path
           s6 == s5 \o p.query
           s7 == s6 \o p.fragment
<1>1. /\ p.host \in Seq(Symbols) /\ p.path \in Seq(Symbols) /\ p.query \in Seq(Symbols)
      /\ p.fragment \in Seq(Symbols)
  BY DEF PartsOfUrl
<1>2. CredentialPart(p) \in Seq(Symbols) /\ PortPart(p) \in Seq(Symbols)
  BY OffsetsAre
<1>3. /\ s1 \in Seq(Symbols) /\ Len(s1) = 4
      /\ Holds(s1, 0, p.protocol) /\ Holds(s1, 1, <<":", "/", "/">>)
      /\ p.protocol \in Seq(Symbols) /\ <<":", "/", "/">> \in Seq(Symbols)
  <2>1. p.protocol \in {<<"http">>, <<"https">>}
    BY DEF PartsOfUrl
  <2>2. ":" \in Symbols /\ "/" \in Symbols /\ "http" \in Symbols /\ "https" \in Symbols
    BY DEF Symbols, Codes
  <2>3. /\ p.protocol \in Seq(Symbols) /\ Len(p.protocol) = 1
        /\ <<":", "/", "/">> \in Seq(Symbols) /\ Len(<<":", "/", "/">>) = 3
    <3>1. <<"http">> \in Seq(Symbols) /\ <<"https">> \in Seq(Symbols)
      BY <2>2
    <3>2. Len(<<"http">>) = 1 /\ Len(<<"https">>) = 1
      OBVIOUS
    <3>3. <<":", "/", "/">> \in Seq(Symbols) /\ Len(<<":", "/", "/">>) = 3
      BY <2>2
    <3>4. p.protocol \in Seq(Symbols) /\ Len(p.protocol) = 1
      BY <2>1, <3>1, <3>2, Zenon
    <3>5. QED
      BY <3>3, <3>4
  <2>4. s1 \in Seq(Symbols) /\ Len(s1) = 4
    BY <2>3, JoinIs
  <2>5. Holds(s1, 1, <<":", "/", "/">>)
    BY <2>3, HeldLast
  <2>6. Holds(s1, 0, p.protocol)
    BY <2>3 DEF Holds
  <2>7. QED
    BY <2>3, <2>4, <2>5, <2>6
<1> HIDE DEF s1
<1>4. /\ s2 \in Seq(Symbols) /\ Len(s2) = HostAt(p)
      /\ Holds(s2, 0, p.protocol) /\ Holds(s2, 1, <<":", "/", "/">>)
      /\ Holds(s2, 4, CredentialPart(p))
  <2>1. s2 \in Seq(Symbols) /\ Len(s2) = HostAt(p)
    <3>1. s2 \in Seq(Symbols) /\ Len(s2) = Len(s1) + Len(CredentialPart(p))
      BY <1>2, <1>3, JoinIs, Zenon
    <3>2. QED
      BY <1>2, <1>3, <3>1 DEF HostAt
  <2>2. Holds(s2, 4, CredentialPart(p))
    BY <1>2, <1>3, HeldLast
  <2>3. Holds(s2, 0, p.protocol) /\ Holds(s2, 1, <<":", "/", "/">>)
    BY <1>2, <1>3, HeldBefore
  <2>4. QED
    BY <2>1, <2>2, <2>3
<1> HIDE DEF s2
<1>5. /\ s3 \in Seq(Symbols) /\ Len(s3) = PortAt(p)
      /\ Holds(s3, 0, p.protocol) /\ Holds(s3, 1, <<":", "/", "/">>)
      /\ Holds(s3, 4, CredentialPart(p)) /\ Holds(s3, HostAt(p), p.host)
  <2>1. s3 \in Seq(Symbols) /\ Len(s3) = PortAt(p)
    <3>1. s3 \in Seq(Symbols) /\ Len(s3) = Len(s2) + Len(p.host)
      BY <1>1, <1>4, JoinIs, Zenon
    <3>2. QED
      BY <1>1, <1>4, <3>1 DEF PortAt
  <2>2. Holds(s3, HostAt(p), p.host)
    BY <1>1, <1>4, HeldLast
  <2>3. /\ Holds(s3, 0, p.protocol) /\ Holds(s3, 1, <<":", "/", "/">>)
        /\ Holds(s3, 4, CredentialPart(p))
    BY <1>1, <1>2, <1>3, <1>4, HeldBefore
  <2>4. QED
    BY <2>1, <2>2, <2>3
<1> HIDE DEF s3
<1>6. /\ s4 \in Seq(Symbols) /\ Len(s4) = PathAt(p)
      /\ Holds(s4, 0, p.protocol) /\ Holds(s4, 1, <<":", "/", "/">>)
      /\ Holds(s4, 4, CredentialPart(p)) /\ Holds(s4, HostAt(p), p.host)
      /\ Holds(s4, PortAt(p), PortPart(p))
  <2>1. s4 \in Seq(Symbols) /\ Len(s4) = PathAt(p)
    <3>1. s4 \in Seq(Symbols) /\ Len(s4) = Len(s3) + Len(PortPart(p))
      BY <1>2, <1>5, JoinIs, Zenon
    <3>2. QED
      BY <1>2, <1>5, <3>1 DEF PathAt
  <2>2. Holds(s4, PortAt(p), PortPart(p))
    BY <1>2, <1>5, HeldLast
  <2>3. HostAt(p) \in Nat
    BY OffsetsAre
  <2>4. /\ Holds(s4, 0, p.protocol) /\ Holds(s4, 1, <<":", "/", "/">>)
        /\ Holds(s4, 4, CredentialPart(p)) /\ Holds(s4, HostAt(p), p.host)
    BY <1>1, <1>2, <1>3, <1>5, <2>3, HeldBefore
  <2>5. QED
    BY <2>1, <2>2, <2>4
<1> HIDE DEF s4
<1>7. /\ s5 \in Seq(Symbols) /\ Len(s5) = QueryAt(p)
      /\ Holds(s5, 0, p.protocol) /\ Holds(s5, 1, <<":", "/", "/">>)
      /\ Holds(s5, 4, CredentialPart(p)) /\ Holds(s5, HostAt(p), p.host)
      /\ Holds(s5, PortAt(p), PortPart(p)) /\ Holds(s5, PathAt(p), p.path)
  <2>1. s5 \in Seq(Symbols) /\ Len(s5) = QueryAt(p)
    <3>1. s5 \in Seq(Symbols) /\ Len(s5) = Len(s4) + Len(p.path)
      BY <1>1, <1>6, JoinIs, Zenon
    <3>2. QED
      BY <1>1, <1>6, <3>1 DEF QueryAt
  <2>2. Holds(s5, PathAt(p), p.path)
    BY <1>1, <1>6, HeldLast
  <2>3. HostAt(p) \in Nat /\ PortAt(p) \in Nat
    BY OffsetsAre
  <2>4. /\ Holds(s5, 0, p.protocol) /\ Holds(s5, 1, <<":", "/", "/">>)
        /\ Holds(s5, 4, CredentialPart(p)) /\ Holds(s5, HostAt(p), p.host)
        /\ Holds(s5, PortAt(p), PortPart(p))
    BY <1>1, <1>2, <1>3, <1>6, <2>3, HeldBefore
  <2>5. QED
    BY <2>1, <2>2, <2>4
<1> HIDE DEF s5
<1>8. /\ s6 \in Seq(Symbols) /\ Len(s6) = FragmentAt(p)
      /\ Holds(s6, 0, p.protocol) /\ Holds(s6, 1, <<":", "/", "/">>)
      /\ Holds(s6, 4, CredentialPart(p)) /\ Holds(s6, HostAt(p), p.host)
      /\ Holds(s6, PortAt(p), PortPart(p)) /\ Holds(s6, PathAt(p), p.path)
      /\ Holds(s6, QueryAt(p), p.query)
  <2>1. s6 \in Seq(Symbols) /\ Len(s6) = FragmentAt(p)
    <3>1. s6 \in Seq(Symbols) /\ Len(s6) = Len(s5) + Len(p.query)
      BY <1>1, <1>7, JoinIs, Zenon
    <3>2. QED
      BY <1>1, <1>7, <3>1 DEF FragmentAt
  <2>2. Holds(s6, QueryAt(p), p.query)
    BY <1>1, <1>7, HeldLast
  <2>3. HostAt(p) \in Nat /\ PortAt(p) \in Nat /\ PathAt(p) \in Nat
    BY OffsetsAre
  <2>4. /\ Holds(s6, 0, p.protocol) /\ Holds(s6, 1, <<":", "/", "/">>)
        /\ Holds(s6, 4, CredentialPart(p)) /\ Holds(s6, HostAt(p), p.host)
        /\ Holds(s6, PortAt(p), PortPart(p)) /\ Holds(s6, PathAt(p), p.path)
    BY <1>1, <1>2, <1>3, <1>7, <2>3, HeldBefore
  <2>5. QED
    BY <2>1, <2>2, <2>4
<1> HIDE DEF s6
<1>9. Laid(s7, p)
  <2>1. s7 \in Seq(Symbols) /\ Len(s7) = FragmentAt(p) + Len(p.fragment)
    <3>1. s7 \in Seq(Symbols) /\ Len(s7) = Len(s6) + Len(p.fragment)
      BY <1>1, <1>8, JoinIs, Zenon
    <3>2. QED
      BY <1>8, <3>1, Zenon
  <2>2. Holds(s7, FragmentAt(p), p.fragment)
    BY <1>1, <1>8, HeldLast
  <2>3. HostAt(p) \in Nat /\ PortAt(p) \in Nat /\ PathAt(p) \in Nat /\ QueryAt(p) \in Nat
    BY OffsetsAre
  <2>4. /\ Holds(s7, 0, p.protocol) /\ Holds(s7, 1, <<":", "/", "/">>)
        /\ Holds(s7, 4, CredentialPart(p)) /\ Holds(s7, HostAt(p), p.host)
        /\ Holds(s7, PortAt(p), PortPart(p)) /\ Holds(s7, PathAt(p), p.path)
        /\ Holds(s7, QueryAt(p), p.query)
    BY <1>1, <1>2, <1>3, <1>8, <2>3, HeldBefore
  <2>5. QED
    BY <2>1, <2>2, <2>4 DEF Laid
<1>10. Written(p, p.port) = s7
  BY Zenon DEF Written, CredentialPart, PortPart, NoCredentials, s1, s2, s3, s4, s5, s6
<1>11. QED
  BY <1>9, <1>10

-----------------------------------------------------------------------------
(* Searching for the first of some characters.                               *)
Without(s, m, n, chars) == \A j \in m .. n : s[j] \notin chars

LEMMA FoundAt ==
  ASSUME NEW s \in Seq(Symbols), NEW chars, NEW from \in Nat, from >= 1,
         NEW i \in from .. Len(s), s[i] \in chars, Without(s, from, i - 1, chars)
  PROVE  FindFirstOf(s, chars, from) = i /\ EndAt(s, chars, from) = i
<1> DEFINE I == {j \in from .. Len(s) : s[j] \in chars}
<1>1. I \in SUBSET Nat /\ i \in I
  OBVIOUS
<1>2. \A j \in I : i <= j
  BY DEF Without
<1>3. FindFirstOf(s, chars, from) = IF I # {} THEN Min(I) ELSE 0
  BY DEF FindFirstOf, SelectInSubSeq
<1> HIDE DEF I
<1>4. Min(I) \in I /\ \A j \in I : Min(I) <= j
  BY <1>1, LeastIs
<1>5. Min(I) = i
  <2> DEFINE m == Min(I)
  <2>1. m \in Nat /\ m <= i /\ i <= m
    BY <1>1, <1>2, <1>4
  <2> HIDE DEF m
  <2>2. m = i
    BY <2>1
  <2>3. QED
    BY <2>2 DEF m
<1>6. FindFirstOf(s, chars, from) = i
  BY <1>1, <1>3, <1>5
<1>7. QED
  BY <1>6 DEF EndAt

LEMMA NoneFound ==
  ASSUME NEW s, NEW chars, NEW from, Without(s, from, Len(s), chars)
  PROVE  FindFirstOf(s, chars, from) = 0 /\ EndAt(s, chars, from) = Len(s) + 1
<1>1. {j \in from .. Len(s) : s[j] \in chars} = {}
  BY DEF Without
<1>2. FindFirstOf(s, chars, from) = 0
  BY <1>1 DEF FindFirstOf, SelectInSubSeq
<1>3. QED
  BY <1>2 DEF EndAt

\* To where a component that ends at one of some characters, or at the end, reaches.
LEMMA EndsAt ==
  ASSUME NEW s \in Seq(Symbols), NEW chars, NEW from \in Nat, from >= 1,
         NEW i \in Nat, from <= i, i <= Len(s) + 1,
         i <= Len(s) => s[i] \in chars, Without(s, from, i - 1, chars)
  PROVE  EndAt(s, chars, from) = i
<1>1. CASE i <= Len(s)
  BY <1>1, FoundAt
<1>2. CASE i = Len(s) + 1
  BY <1>2, NoneFound DEF Without
<1>3. QED
  BY <1>1, <1>2

LEMMA WithoutPart ==
  ASSUME NEW s, NEW x \in Seq(Symbols), NEW k \in Nat, NEW chars, Holds(s, k, x), ~Has(x, chars)
  PROVE  Without(s, k + 1, k + Len(x), chars)
<1> SUFFICES ASSUME NEW j \in k + 1 .. k + Len(x) PROVE s[j] \notin chars
  BY DEF Without
<1>1. j - k \in 1 .. Len(x) /\ k + (j - k) = j
  OBVIOUS
<1>2. s[k + (j - k)] = x[j - k]
  BY <1>1 DEF Holds
<1>3. QED
  BY <1>1, <1>2 DEF Has

LEMMA WithoutBoth ==
  ASSUME NEW s, NEW chars, NEW m \in Nat, NEW n \in Nat, NEW l \in Nat,
         Without(s, m, n, chars), Without(s, n + 1, l, chars)
  PROVE  Without(s, m, l, chars)
  BY DEF Without

LEMMA WithoutFewer ==
  ASSUME NEW s, NEW chars, NEW m \in Nat, NEW n \in Nat, Without(s, m, n, chars),
         NEW fewer, fewer \subseteq chars
  PROVE  Without(s, m, n, fewer)
  BY DEF Without

(* The offsets h, o, a, q, f, after which the host, the port, the path, the  *)
(* query and the fragment are in a url that the parser takes apart.          *)
Shaped(s, h, o, a, q, f) ==
  /\ h \in Nat /\ o \in Nat /\ a \in Nat /\ q \in Nat /\ f \in Nat
  /\ 4 <= h /\ h <= o /\ o <= a /\ a <= q /\ q <= f /\ f <= Len(s)
  /\ s[1] # ":" /\ s[2] = ":" /\ s[3] = "/" /\ s[4] = "/"
  /\ Without(s, h + 1, o, {":", "/", "?", "#", "@"})
  /\ a # o => /\ a = o + 2 /\ s[o + 1] = ":" /\ s[o + 2] \in Numbers
              /\ s[o + 2] \notin {":", "/", "?", "#", "@"}
  /\ a < q => s[a + 1] = "/"
  /\ Without(s, a + 1, q, {"?", "#"})
  /\ q < f => s[q + 1] = "?"
  /\ Without(s, q + 1, f, {"#"})
  /\ f < Len(s) => s[f + 1] = "#"
  /\ a = q => \/ q = f /\ f = Len(s)
              \/ a # o /\ Without(s, q + 1, Len(s), {"/", "@"})
  /\ q = f => Without(s, f + 1, Len(s), {"?"})

LEMMA SeparatorFound ==
  ASSUME NEW s \in Seq(Symbols), NEW h \in Nat, NEW o \in Nat, NEW a \in Nat,
         NEW q \in Nat, NEW f \in Nat, Shaped(s, h, o, a, q, f)
  PROVE  Separator(s) = 2 /\ AfterSeparator(s) = 5
<1> DEFINE at == {i \in 1 .. Len(s) - 2 : SubSeq(s, i, i + 2) = <<":", "/", "/">>}
<1>1. Len(s) \in Nat /\ Len(s) >= 4 /\ s[1] # ":" /\ s[2] = ":" /\ s[3] = "/" /\ s[4] = "/"
  <2>1. /\ h \in Nat /\ o \in Nat /\ a \in Nat /\ q \in Nat /\ f \in Nat
        /\ 4 <= h /\ h <= o /\ o <= a /\ a <= q /\ q <= f /\ f <= Len(s)
    BY Zenon DEF Shaped
  <2>2. s[1] # ":" /\ s[2] = ":" /\ s[3] = "/" /\ s[4] = "/"
    BY Zenon DEF Shaped
  <2>3. QED
    BY <2>1, <2>2
<1>2. 2 \in at
  <2>1. SubSeq(s, 2, 4) = <<":", "/", "/">>
    <3> DEFINE u == SubSeq(s, 2, 4)
    <3>1. /\ u \in Seq(Symbols) /\ Len(u) = 3
          /\ \A i \in 1 .. 3 : u[i] = s[2 + i - 1]
      BY <1>1, PartIs
    <3> HIDE DEF u
    <3>2. u[1] = s[2] /\ u[2] = s[3] /\ u[3] = s[4]
      BY <3>1
    <3>3. u = <<":", "/", "/">>
      BY <1>1, <3>1, <3>2
    <3>4. QED
      BY <3>3 DEF u
  <2>2. QED
    BY <1>1, <2>1
<1>3. 1 \notin at
  <2>1. /\ Len(SubSeq(s, 1, 3)) = 3 /\ SubSeq(s, 1, 3)[1] = s[1]
    BY <1>1
  <2>2. SubSeq(s, 1, 1 + 2)[1] # <<":", "/", "/">>[1]
    BY <1>1, <2>1
  <2>3. QED
    BY <2>2
<1>4. at \in SUBSET Nat
  OBVIOUS
<1>5. Separator(s) = IF at = {} THEN 0 ELSE Min(at)
  BY Zenon DEF Separator, Min
<1> HIDE DEF at
<1>6. \A i \in at : i >= 1
  BY DEF at
<1>7. Min(at) \in at /\ \A i \in at : Min(at) <= i
  BY <1>2, <1>4, LeastIs
<1>8. Min(at) = 2
  <2> DEFINE m == Min(at)
  <2>1. m \in Nat /\ m # 1 /\ m >= 1 /\ m <= 2
    BY <1>2, <1>3, <1>4, <1>6, <1>7
  <2> HIDE DEF m
  <2>2. m = 2
    BY <2>1
  <2>3. QED
    BY <2>2 DEF m
<1>9. QED
  BY <1>2, <1>5, <1>8 DEF AfterSeparator

\* The numbers in Shaped alone.
LEMMA InOrder ==
  ASSUME NEW s \in Seq(Symbols), NEW h \in Nat, NEW o \in Nat, NEW a \in Nat,
         NEW q \in Nat, NEW f \in Nat, Shaped(s, h, o, a, q, f)
  PROVE  /\ h \in Nat /\ o \in Nat /\ a \in Nat /\ q \in Nat /\ f \in Nat /\ Len(s) \in Nat
         /\ 4 <= h /\ h <= o /\ o <= a /\ a <= q /\ q <= f /\ f <= Len(s)
         /\ a # o => a = o + 2
<1>1. Len(s) \in Nat
  OBVIOUS
<1>2. QED
  BY <1>1, Zenon DEF Shaped

(* No "@" before the first "/": no credentials.                              *)
LEMMA NoCredentialFound ==
  ASSUME NEW s \in Seq(Symbols), NEW h \in Nat, NEW o \in Nat, NEW a \in Nat,
         NEW q \in Nat, NEW f \in Nat, Shaped(s, h, o, a, q, f), h = 4
  PROVE  ~HasCredential(s, 5)
<1> DEFINE C == {"@", "/"}
<1>1. /\ h \in Nat /\ o \in Nat /\ a \in Nat /\ q \in Nat /\ f \in Nat /\ Len(s) \in Nat
      /\ 4 <= h /\ h <= o /\ o <= a /\ a <= q /\ q <= f /\ f <= Len(s)
      /\ a # o => a = o + 2
  BY InOrder
<1>2. Without(s, 5, o, C)
  <2>1. Without(s, h + 1, o, {":", "/", "?", "#", "@"}) /\ h + 1 = 5
    BY DEF Shaped
  <2>2. QED
    BY <2>1 DEF Without
<1>3. Without(s, 5, a, C)
  <2>1. CASE a = o
    BY <1>1, <1>2, <2>1
  <2>2. CASE a # o
    <3>1. s[o + 1] = ":" /\ s[o + 2] \notin {":", "/", "?", "#", "@"}
      BY <2>2, Zenon DEF Shaped
    <3>2. s[o + 1] \notin C /\ s[o + 2] \notin C
      BY <3>1
    <3> HIDE DEF C
    <3>3. \A j \in o + 1 .. a : j = o + 1 \/ j = o + 2
      BY <1>1, <2>2
    <3>4. Without(s, o + 1, a, C)
      BY <3>2, <3>3 DEF Without
    <3>5. QED
      BY <1>1, <1>2, <3>4, WithoutBoth
  <2>3. QED
    BY <2>1, <2>2
<1>4. CASE a < q
  <2>1. s[a + 1] = "/"
    BY <1>4, Zenon DEF Shaped
  <2>2. a + 1 \in 5 .. Len(s) /\ (a + 1) - 1 = a
    BY <1>1, <1>4
  <2>3. FindFirstOf(s, C, 5) = a + 1
    <3>1. s[a + 1] \in C
      BY <2>1
    <3> HIDE DEF C
    <3>2. QED
      BY <1>3, <2>2, <3>1, FoundAt
  <2>4. QED
    BY <2>1, <2>3 DEF HasCredential
<1>5. CASE a = q
  <2>1. Without(s, a + 1, Len(s), C)
    <3>1. \/ q = f /\ f = Len(s)
          \/ Without(s, q + 1, Len(s), {"/", "@"})
      BY <1>5, Zenon DEF Shaped
    <3>2. QED
      BY <1>1, <1>5, <3>1 DEF Without
  <2> HIDE DEF C
  <2>2. Without(s, 5, Len(s), C)
    BY <1>1, <1>3, <2>1, WithoutBoth
  <2>3. FindFirstOf(s, C, 5) = 0
    BY <2>2, NoneFound
  <2>4. QED
    BY <2>3 DEF HasCredential, C
<1>6. QED
  BY <1>1, <1>4, <1>5

LEMMA CredentialFound ==
  ASSUME NEW s \in Seq(Symbols), NEW h \in Nat, 5 <= h, h <= Len(s), s[h] = "@",
         Without(s, 5, h - 1, {"@", "/"})
  PROVE  HasCredential(s, 5) /\ EndAt(s, {"@"}, 5) = h
<1>1. h \in 5 .. Len(s) /\ s[h] \in {"@", "/"} /\ s[h] \in {"@"}
  OBVIOUS
<1>2. Without(s, 5, h - 1, {"@"})
  BY DEF Without
<1>3. FindFirstOf(s, {"@", "/"}, 5) = h
  BY <1>1, FoundAt
<1>4. EndAt(s, {"@"}, 5) = h
  BY <1>1, <1>2, FoundAt
<1>5. h # 0
  OBVIOUS
<1>6. QED
  BY <1>3, <1>4, <1>5, Zenon DEF HasCredential

(* The first symbol that is not a given one.                                 *)
Others(s, from, c) == {j \in from .. Len(s) : s[j] # c}

LEMMA FirstOther ==
  ASSUME NEW s \in Seq(Symbols), NEW from \in Nat, from <= Len(s), NEW c, s[from] # c
  PROVE  Others(s, from, c) # {} /\ Min(Others(s, from, c)) = from
<1> DEFINE I == Others(s, from, c)  m == Min(I)
<1>1. from \in I /\ I \in SUBSET Nat /\ \A j \in I : from <= j
  BY DEF Others
<1> HIDE DEF I
<1>2. m \in I /\ \A j \in I : m <= j
  BY <1>1, LeastIs
<1>3. m \in Nat /\ m <= from /\ from <= m
  BY <1>1, <1>2
<1> HIDE DEF m
<1>4. m = from
  BY <1>3
<1>5. QED
  BY <1>1, <1>4, Zenon DEF m, I

(* Without blanks the number of a port begins right after the ":".           *)
LEMMA PortIsNext ==
  ASSUME NEW s \in Seq(Symbols), NEW end \in Nat, end + 1 \in Nat, end + 1 <= Len(s),
         s[end + 1] # " "
  PROVE  PortFrom(s, end) = end + 1
<1>1. PortFrom(s, end) = IF Others(s, end + 1, " ") # {} THEN Min(Others(s, end + 1, " "))
                                                         ELSE 0
  BY Zenon DEF PortFrom, SelectInSubSeq, Others
<1>2. Others(s, end + 1, " ") # {} /\ Min(Others(s, end + 1, " ")) = end + 1
  BY FirstOther, Zenon
<1>3. QED
  BY <1>1, <1>2, Zenon

(* The host ends before the port, or before the path, or at the end.         *)
LEMMA HostIsFound ==
  ASSUME NEW s \in Seq(Symbols), NEW h \in Nat, NEW o \in Nat, NEW a \in Nat,
         NEW q \in Nat, NEW f \in Nat, Shaped(s, h, o, a, q, f)
  PROVE  /\ HostEnd(s, h + 1) = o + 1 /\ HostFound(s, h + 1)
         /\ HasPort(s, o + 1) <=> a # o
         /\ a # o => PortFound(s, o + 1) /\ PortFrom(s, o + 1) = o + 2
<1> DEFINE C == {":", "/"}
<1>1. /\ h \in Nat /\ o \in Nat /\ a \in Nat /\ q \in Nat /\ f \in Nat /\ Len(s) \in Nat
      /\ 4 <= h /\ h <= o /\ o <= a /\ a <= q /\ q <= f /\ f <= Len(s)
      /\ a # o => a = o + 2
  BY InOrder
<1>2. Without(s, h + 1, o, {":", "/", "?", "#", "@"})
  BY Zenon DEF Shaped
<1>3. Without(s, h + 1, o, C) /\ Without(s, h + 1, o, {"?", "#"})
  BY <1>2 DEF Without
<1>4. /\ h + 1 \in Nat /\ h + 1 >= 1 /\ h + 1 <= o + 1 /\ o + 1 \in Nat
      /\ o + 1 <= Len(s) + 1 /\ (o + 1) - 1 = o
  BY <1>1
<1>5. CASE a # o
  <2>1. s[o + 1] = ":" /\ s[o + 2] \in Numbers
    BY <1>5, Zenon DEF Shaped
  <2>2. o + 1 \in h + 1 .. Len(s) /\ o + 1 <= Len(s) /\ o + 1 < Len(s) /\ o + 1 + 1 = o + 2
    BY <1>1, <1>5
  <2>3. FindFirstOf(s, C, h + 1) = o + 1 /\ EndAt(s, C, h + 1) = o + 1
    <3>1. s[o + 1] \in C
      BY <2>1
    <3> HIDE DEF C
    <3>2. QED
      BY <1>3, <1>4, <2>2, <3>1, FoundAt
  <2>4. /\ o + 1 # 0 /\ o + 2 # 0 /\ o + 1 \in Nat /\ o + 1 + 1 \in Nat
        /\ o + 1 + 1 <= Len(s)
    BY <1>1, <1>5
  <2>5. s[o + 1 + 1] # " "
    <3>1. " " \notin Numbers
      BY NumbersAssumption, Zenon
    <3>2. QED
      BY <2>1, <2>2, <3>1, Zenon
  <2>6. PortFrom(s, o + 1) = o + 2
    BY <2>2, <2>4, <2>5, PortIsNext, Zenon
  <2>7. QED
    BY <1>5, <2>1, <2>2, <2>3, <2>4, <2>6, Zenon DEF HostEnd, HostFound, HasPort, PortFound
<1>6. CASE a = o /\ a < q
  <2>1. s[a + 1] = "/" /\ a = o
    BY <1>6, Zenon DEF Shaped
  <2>2. o + 1 \in h + 1 .. Len(s) /\ o + 1 # 0
    BY <1>1, <1>6
  <2>3. FindFirstOf(s, C, h + 1) = o + 1 /\ EndAt(s, C, h + 1) = o + 1
    <3>1. s[o + 1] \in C
      BY <2>1
    <3> HIDE DEF C
    <3>2. QED
      BY <1>3, <1>4, <2>2, <3>1, FoundAt
  <2>4. s[o + 1] # ":"
    BY <2>1
  <2>5. QED
    BY <1>6, <2>2, <2>3, <2>4, Zenon DEF HostEnd, HostFound, HasPort
<1>7. CASE a = o /\ a = q
  <2>1. q = f /\ f = Len(s) /\ a = o
    BY <1>7, Zenon DEF Shaped
  <2>2. Len(s) = o
    BY <1>7, <2>1
  <2>3. EndAt(s, C, h + 1) = o + 1
    BY <1>3, <2>2, NoneFound
  <2>4. FindFirstOf(s, {"?", "#"}, h + 1) = 0
    BY <1>3, <2>2, NoneFound
  <2>5. ~(o + 1 <= Len(s))
    BY <1>1, <2>2
  <2>6. QED
    BY <1>7, <2>3, <2>4, <2>5, Zenon DEF HostEnd, HostFound, HasPort
<1>8. QED
  BY <1>1, <1>5, <1>6, <1>7

(* The path, if any, and where the search for the query begins.              *)
LEMMA PathIsFound ==
  ASSUME NEW s \in Seq(Symbols), NEW h \in Nat, NEW o \in Nat, NEW a \in Nat,
         NEW q \in Nat, NEW f \in Nat, Shaped(s, h, o, a, q, f), NEW x \in Nat,
         a = o => x = o + 1, a # o => x = o + 2
  PROVE  /\ PathFrom(s, x) = IF a < q THEN a + 1 ELSE 0
         /\ PathEnd(s, x) = IF a < q THEN q + 1 ELSE x
         /\ x \in {a, a + 1} /\ x >= 1 /\ Without(s, x, a, {"/", "?", "#", "@"})
<1>1. /\ h \in Nat /\ o \in Nat /\ a \in Nat /\ q \in Nat /\ f \in Nat /\ Len(s) \in Nat
      /\ 4 <= h /\ h <= o /\ o <= a /\ a <= q /\ q <= f /\ f <= Len(s)
      /\ a # o => a = o + 2
  BY InOrder
<1>2. x \in {a, a + 1} /\ x >= 1 /\ (x = a => a # o /\ x = o + 2)
  BY <1>1
<1>3. Without(s, x, a, {"/", "?", "#", "@"})
  <2>1. CASE x = a
    <3>1. s[x] \notin {":", "/", "?", "#", "@"}
      BY <1>2, <2>1, Zenon DEF Shaped
    <3>2. \A j \in x .. a : j = x
      BY <1>1, <2>1
    <3>3. QED
      BY <3>1, <3>2 DEF Without
  <2>2. CASE x = a + 1
    BY <1>1, <2>2 DEF Without
  <2>3. QED
    BY <1>2, <2>1, <2>2
<1>4. Without(s, x, a, {"/"})
  BY <1>3 DEF Without
<1>5. CASE a < q
  <2>1. s[a + 1] = "/" /\ Without(s, a + 1, q, {"?", "#"})
    BY <1>5, Zenon DEF Shaped
  <2>2. a + 1 \in x .. Len(s) /\ (a + 1) - 1 = a /\ s[a + 1] \in {"/"}
    BY <1>1, <1>2, <1>5, <2>1
  <2>3. PathFrom(s, x) = a + 1
    BY <1>2, <1>4, <2>2, FoundAt DEF PathFrom
  <2>4. EndAt(s, {"?", "#"}, a + 1) = q + 1
    <3>1. /\ a + 1 \in Nat /\ a + 1 >= 1 /\ q + 1 \in Nat /\ a + 1 <= q + 1
          /\ q + 1 <= Len(s) + 1 /\ (q + 1) - 1 = q
      BY <1>1, <1>5
    <3>2. q + 1 <= Len(s) => s[q + 1] \in {"?", "#"}
      <4>1. CASE q < f
        BY <4>1 DEF Shaped
      <4>2. CASE q = f
        <5>1. f < Len(s) => s[f + 1] = "#"
          BY Zenon DEF Shaped
        <5>2. QED
          BY <1>1, <4>2, <5>1
      <4>3. QED
        BY <1>1, <4>1, <4>2
    <3>3. QED
      BY <2>1, <3>1, <3>2, EndsAt
  <2>5. a + 1 # 0
    BY <1>1
  <2>6. QED
    BY <1>2, <1>3, <1>5, <2>3, <2>4, <2>5 DEF PathEnd
<1>6. CASE a = q
  <2>1. Without(s, a + 1, Len(s), {"/"})
    <3>1. (q = f /\ f = Len(s)) \/ Without(s, q + 1, Len(s), {"/", "@"})
      BY <1>6, Zenon DEF Shaped
    <3>2. QED
      BY <1>1, <1>6, <3>1 DEF Without
  <2>2. Without(s, x, Len(s), {"/"})
    BY <1>1, <1>4, <2>1, WithoutBoth
  <2>3. PathFrom(s, x) = 0
    BY <2>2, NoneFound DEF PathFrom
  <2>4. QED
    BY <1>1, <1>2, <1>3, <1>6, <2>3 DEF PathEnd
<1>7. QED
  BY <1>1, <1>5, <1>6

(* The query, if any, and the "#" or the end of the url.                     *)
LEMMA QueryIsFound ==
  ASSUME NEW s \in Seq(Symbols), NEW h \in Nat, NEW o \in Nat, NEW a \in Nat,
         NEW q \in Nat, NEW f \in Nat, Shaped(s, h, o, a, q, f), NEW e \in Nat, e \in {q, q + 1}, e >= 1,
         Without(s, e, q, {"/", "?", "#", "@"})
  PROVE  /\ QueryFrom(s, e) = IF q < f THEN q + 1 ELSE 0
         /\ q < f => QueryEnd(s, e) = f + 1
         /\ EndAt(s, {"#"}, QueryEnd(s, e)) = f + 1
<1>1. /\ q \in Nat /\ f \in Nat /\ Len(s) \in Nat
      /\ q <= f /\ f <= Len(s)
  BY InOrder
<1>2. /\ q < f => s[q + 1] = "?"
      /\ Without(s, q + 1, f, {"#"})
      /\ f < Len(s) => s[f + 1] = "#"
      /\ q = f => Without(s, f + 1, Len(s), {"?"})
  BY Zenon DEF Shaped
<1>3. Without(s, e, q, {"?"}) /\ Without(s, e, q, {"#"})
  BY DEF Without
<1>4. f + 1 \in Nat /\ f + 1 <= Len(s) + 1 /\ (f + 1) - 1 = f
  BY <1>1
<1>5. f + 1 <= Len(s) => s[f + 1] \in {"#"}
  BY <1>1, <1>2
<1>6. CASE q < f
  <2>1. q + 1 \in e .. Len(s) /\ (q + 1) - 1 = q /\ s[q + 1] \in {"?"}
    BY <1>1, <1>2, <1>6
  <2>2. QueryFrom(s, e) = q + 1
    BY <1>3, <2>1, FoundAt DEF QueryFrom
  <2>3. EndAt(s, {"#"}, q + 1 + 1) = f + 1
    <3>1. Without(s, q + 1 + 1, f, {"#"})
      BY <1>1, <1>2 DEF Without
    <3>2. q + 1 + 1 \in Nat /\ q + 1 + 1 >= 1 /\ q + 1 + 1 <= f + 1
      BY <1>1, <1>6
    <3>3. QED
      BY <1>4, <1>5, <3>1, <3>2, EndsAt
  <2>4. QueryEnd(s, e) = f + 1
    <3>1. q + 1 # 0
      BY <1>1
    <3>2. QED
      BY <2>2, <2>3, <3>1, Zenon DEF QueryEnd
  <2>5. EndAt(s, {"#"}, f + 1) = f + 1
    <3>1. Without(s, f + 1, f, {"#"})
      BY <1>1 DEF Without
    <3>2. f + 1 >= 1 /\ f + 1 <= f + 1
      BY <1>1
    <3>3. QED
      BY <1>4, <1>5, <3>1, <3>2, EndsAt
  <2>6. QED
    BY <1>6, <2>2, <2>4, <2>5, Zenon
<1>7. CASE q = f
  <2>1. Without(s, q + 1, Len(s), {"?"})
    BY <1>2, <1>7
  <2>2. Without(s, e, Len(s), {"?"})
    BY <1>1, <1>3, <2>1, WithoutBoth
  <2>3. QueryFrom(s, e) = 0
    BY <2>2, NoneFound DEF QueryFrom
  <2>4. QueryEnd(s, e) = e
    BY <2>3 DEF QueryEnd
  <2>5. EndAt(s, {"#"}, e) = f + 1
    <3>1. e <= f + 1
      BY <1>1, <1>7
    <3>2. QED
      BY <1>3, <1>4, <1>5, <1>7, <3>1, EndsAt
  <2>6. ~(q < f)
    BY <1>1, <1>7
  <2>7. QED
    BY <2>3, <2>4, <2>5, <2>6, Zenon
<1>8. QED
  BY <1>1, <1>6, <1>7

\* A url that the parser takes apart has this shape.
LEMMA ServedIsShaped ==
  ASSUME NEW p \in PartsOfUrl, IsServed(p), NEW s \in Seq(Symbols), Laid(s, p)
  PROVE  Shaped(s, HostAt(p), PortAt(p), PathAt(p), QueryAt(p), FragmentAt(p))
<1> DEFINE h == HostAt(p)  o == PortAt(p)  a == PathAt(p)  q == QueryAt(p)  f == FragmentAt(p)
           n == Len(s)
           host == p.host  path == p.path  query == p.query  fragment == p.fragment
           pp == PortPart(p)  cp == CredentialPart(p)
<1>1. /\ host \in Seq(Symbols) /\ path \in Seq(Symbols) /\ query \in Seq(Symbols)
      /\ fragment \in Seq(Symbols) /\ pp \in Seq(Symbols) /\ cp \in Seq(Symbols)
  BY OffsetsAre DEF PartsOfUrl
<1>2. /\ h \in Nat /\ h = 4 + Len(cp) /\ o \in Nat /\ o = h + Len(host)
      /\ a \in Nat /\ a = o + Len(pp) /\ q \in Nat /\ q = a + Len(path)
      /\ f \in Nat /\ f = q + Len(query)
  BY OffsetsAre, Zenon
<1>3. /\ n = f + Len(fragment)
      /\ Holds(s, 0, p.protocol) /\ Holds(s, 1, <<":", "/", "/">>)
      /\ Holds(s, 4, cp) /\ Holds(s, h, host)
      /\ Holds(s, o, pp) /\ Holds(s, a, path)
      /\ Holds(s, q, query) /\ Holds(s, f, fragment)
  BY Zenon DEF Laid
<1>4. FollowsGrammar(p)
  BY Zenon DEF IsServed
<1>5. /\ ~Has(host, {":", "/", "?", "#", "@"})
      /\ p.port \in Numbers \cup {""}
      /\ path # <<>> => path[1] = "/" /\ ~Has(path, {"?", "#"})
      /\ query # <<>> => query[1] = "?" /\ ~Has(query, {"#"})
      /\ fragment # <<>> => fragment[1] = "#"
  BY <1>4, Zenon DEF FollowsGrammar
<1>6. /\ \/ path # <<>>
         \/ query = <<>> /\ fragment = <<>>
         \/ p.port # "" /\ ~Has(query, {"/", "@"}) /\ ~Has(fragment, {"/", "@"})
      /\ query # <<>> \/ ~Has(fragment, {"?"})
  BY Zenon DEF IsServed
<1>7. s[1] # ":" /\ s[2] = ":" /\ s[3] = "/" /\ s[4] = "/"
  <2>1. p.protocol \in {<<"http">>, <<"https">>}
    BY DEF PartsOfUrl
  <2>2. Len(p.protocol) = 1 /\ p.protocol[1] # ":"
    BY <2>1
  <2>3. s[0 + 1] = p.protocol[1]
    BY <1>3, <2>2 DEF Holds
  <2>4. \A i \in 1 .. 3 : s[1 + i] = <<":", "/", "/">>[i]
    BY <1>3 DEF Holds
  <2>5. s[1 + 1] = ":" /\ s[1 + 2] = "/" /\ s[1 + 3] = "/"
    BY <2>4
  <2>6. QED
    BY <2>2, <2>3, <2>5
<1>8. a # o => /\ a = o + 2 /\ s[o + 1] = ":" /\ s[o + 2] \in Numbers
               /\ s[o + 2] \notin {":", "/", "?", "#", "@"}
  <2>1. CASE p.port = ""
    <3>1. Len(pp) = 0
      BY <2>1 DEF PortPart
    <3>2. a = o
      BY <1>2, <3>1
    <3>3. QED
      BY <3>2
  <2>2. CASE p.port # ""
    <3>1. pp = <<":", p.port>> /\ Len(pp) = 2
      BY <2>2 DEF PortPart
    <3>2. s[o + 1] = pp[1] /\ s[o + 2] = pp[2]
      BY <1>3, <3>1 DEF Holds
    <3>3. a = o + 2
      BY <1>2, <3>1
    <3>4. p.port \in Numbers /\ p.port \notin {":", "/", "?", "#", "@"}
      BY <1>5, <2>2, NumbersAssumption, Zenon
    <3>5. s[o + 1] = ":" /\ s[o + 2] = p.port
      BY <3>1, <3>2
    <3>6. QED
      BY <3>3, <3>4, <3>5
  <2>3. QED
    BY <2>1, <2>2
<1> HIDE DEF h, o, a, q, f, n, host, path, query, fragment, pp, cp
<1>9. p.port # "" => a # o
  <2>1. p.port # "" => Len(pp) = 2
    BY DEF PortPart, pp
  <2>2. Len(pp) = 2 => a # o
    BY <1>2
  <2>3. QED
    BY <2>1, <2>2, Zenon
<1>10. /\ n \in Nat /\ 4 <= h /\ h <= o /\ o <= a /\ a <= q /\ q <= f /\ f <= n
       /\ a < q <=> path # <<>>
       /\ q < f <=> query # <<>>
       /\ f < n <=> fragment # <<>>
  <2> DEFINE i == Len(cp)  j == Len(host)  k == Len(pp)
             x == Len(path)  y == Len(query)  z == Len(fragment)
  <2>1. /\ i \in Nat /\ j \in Nat /\ k \in Nat /\ x \in Nat /\ y \in Nat /\ z \in Nat
        /\ h = 4 + i /\ o = h + j /\ a = o + k /\ q = a + x /\ f = q + y /\ n = f + z
    <3>1. /\ i \in Nat /\ j \in Nat /\ k \in Nat /\ x \in Nat /\ y \in Nat /\ z \in Nat
      BY <1>1
    <3>2. QED
      BY <1>2, <1>3, <3>1, Zenon
  <2>2. /\ path # <<>> <=> x # 0
        /\ query # <<>> <=> y # 0
        /\ fragment # <<>> <=> z # 0
    BY <1>1
  <2>3. h \in Nat /\ o \in Nat /\ a \in Nat /\ q \in Nat /\ f \in Nat
    BY <1>2
  <2> HIDE DEF i, j, k, x, y, z
  <2>4. /\ n \in Nat /\ 4 <= h /\ h <= o /\ o <= a /\ a <= q /\ q <= f /\ f <= n
        /\ a < q <=> x # 0
        /\ q < f <=> y # 0
        /\ f < n <=> z # 0
    BY <2>1, <2>3
  <2>5. QED
    BY <2>2, <2>4, Zenon
<1>11. Without(s, h + 1, o, {":", "/", "?", "#", "@"})
  BY <1>1, <1>2, <1>3, <1>5, WithoutPart
<1>12. a < q => s[a + 1] = "/"
  <2>1. path # <<>> => 1 \in 1 .. Len(path)
    BY <1>1
  <2>2. path # <<>> => s[a + 1] = path[1]
    BY <1>3, <2>1, Zenon DEF Holds
  <2>3. QED
    BY <1>5, <1>10, <2>2, Zenon
<1>13. Without(s, a + 1, q, {"?", "#"})
  <2>1. ~Has(path, {"?", "#"})
    <3>1. ~Has(<<>>, {"?", "#"})
      BY DEF Has
    <3>2. QED
      BY <1>5, <3>1, Zenon
  <2>2. QED
    BY <1>1, <1>2, <1>3, <2>1, WithoutPart
<1>14. q < f => s[q + 1] = "?"
  <2>1. query # <<>> => 1 \in 1 .. Len(query)
    BY <1>1
  <2>2. query # <<>> => s[q + 1] = query[1]
    BY <1>3, <2>1, Zenon DEF Holds
  <2>3. QED
    BY <1>5, <1>10, <2>2, Zenon
<1>15. Without(s, q + 1, f, {"#"})
  <2>1. ~Has(query, {"#"})
    <3>1. ~Has(<<>>, {"#"})
      BY DEF Has
    <3>2. QED
      BY <1>5, <3>1, Zenon
  <2>2. QED
    BY <1>1, <1>2, <1>3, <2>1, WithoutPart
<1>16. f < n => s[f + 1] = "#"
  <2>1. fragment # <<>> => 1 \in 1 .. Len(fragment)
    BY <1>1
  <2>2. fragment # <<>> => s[f + 1] = fragment[1]
    BY <1>3, <2>1, Zenon DEF Holds
  <2>3. QED
    BY <1>5, <1>10, <2>2, Zenon
<1>17. a = q => \/ q = f /\ f = n
                \/ a # o /\ Without(s, q + 1, n, {"/", "@"})
  <2> SUFFICES ASSUME a = q PROVE \/ q = f /\ f = n
                                  \/ a # o /\ Without(s, q + 1, n, {"/", "@"})
    OBVIOUS
  <2>1. path = <<>>
    BY <1>2, <1>10
  <2>2. CASE query = <<>> /\ fragment = <<>>
    BY <1>2, <1>10, <2>2
  <2>3. CASE p.port # "" /\ ~Has(query, {"/", "@"}) /\ ~Has(fragment, {"/", "@"})
    <3>1. Without(s, q + 1, f, {"/", "@"}) /\ Without(s, f + 1, n, {"/", "@"})
      BY <1>1, <1>2, <1>3, <2>3, WithoutPart
    <3>2. Without(s, q + 1, n, {"/", "@"})
      BY <1>2, <1>10, <3>1, WithoutBoth
    <3>3. QED
      BY <1>9, <2>3, <3>2
  <2>4. QED
    BY <1>6, <2>1, <2>2, <2>3
<1>18. q = f => Without(s, f + 1, n, {"?"})
  <2> SUFFICES ASSUME q = f PROVE Without(s, f + 1, n, {"?"})
    OBVIOUS
  <2>1. ~Has(fragment, {"?"})
    <3>1. ~(q < f)
      BY <1>2
    <3>2. QED
      BY <1>6, <1>10, <3>1, Zenon
  <2>2. QED
    BY <1>1, <1>2, <1>3, <2>1, WithoutPart
<1>19. Shaped(s, h, o, a, q, f)
  BY <1>2, <1>7, <1>8, <1>10, <1>11, <1>12, <1>13, <1>14, <1>15, <1>16, <1>17, <1>18
     DEF Shaped, n
<1>20. QED
  BY <1>19 DEF h, o, a, q, f

(* The user and the password are found, and the host after them.             *)
LEMMA CredentialsAre ==
  ASSUME NEW p \in PartsOfUrl, IsServed(p), NEW s \in Seq(Symbols), Laid(s, p)
  PROVE  /\ UserOf(Credential(s, 5)) = p.user
         /\ PasswordOf(Credential(s, 5)) = p.password
         /\ HostFrom(s, 5) = HostAt(p) + 1
<1>1. /\ HostAt(p) \in Nat /\ HostAt(p) = 4 + Len(CredentialPart(p))
      /\ PortAt(p) \in Nat /\ PathAt(p) \in Nat /\ QueryAt(p) \in Nat /\ FragmentAt(p) \in Nat
  BY OffsetsAre, Zenon
<1>2. Shaped(s, HostAt(p), PortAt(p), PathAt(p), QueryAt(p), FragmentAt(p))
  BY ServedIsShaped
<1>3. CASE NoCredentials(p)
  <2>1. HostAt(p) = 4
    <3>1. Len(CredentialPart(p)) = 0
      BY <1>3 DEF CredentialPart
    <3>2. QED
      BY <1>1, <3>1
  <2>2. ~HasCredential(s, 5)
    BY <1>1, <1>2, <2>1, NoCredentialFound
  <2>3. Credential(s, 5) = <<>> /\ HostFrom(s, 5) = 5
    BY <2>2 DEF Credential, HostFrom
  <2>4. UserOf(<<>>) = <<>> /\ PasswordOf(<<>>) = <<>>
    BY DEF UserOf, PasswordOf
  <2>5. QED
    BY <1>3, <2>1, <2>3, <2>4 DEF NoCredentials
<1>4. CASE ~NoCredentials(p)
  <2> DEFINE user == p.user  password == p.password
             u == Len(user)  h == HostAt(p)
             b == user \o <<":">>
             c == b \o password
  <2>1. user \in Seq(Symbols) /\ password \in Seq(Symbols)
    BY DEF PartsOfUrl
  <2>2. <<":">> \in Seq(Symbols) /\ <<"@">> \in Seq(Symbols)
    <3>1. ":" \in Symbols /\ "@" \in Symbols
      BY DEF Symbols, Codes
    <3>2. QED
      BY <3>1
  <2>3. ~Has(user, {":", "/", "@"}) /\ ~Has(password, {"/", "@"})
    BY Zenon DEF IsServed, FollowsGrammar
  <2>4. CredentialPart(p) = c \o <<"@">>
    BY <1>4, Zenon DEF CredentialPart
  <2>5. Holds(s, 4, c \o <<"@">>) /\ h = 4 + Len(c \o <<"@">>) /\ h \in Nat
    BY <1>1, <2>4, Zenon DEF Laid
  <2> HIDE DEF user, password, h
  <2>6. /\ b \in Seq(Symbols) /\ Len(b) = u + 1 /\ u \in Nat /\ b[u + 1] = ":"
        /\ \A i \in 1 .. u : b[i] = user[i]
    BY <2>1, <2>2
  <2>7. Holds(b, 0, user)
    BY <2>6 DEF Holds
  <2> HIDE DEF b, u
  <2>8. /\ c \in Seq(Symbols) /\ Len(c) = u + 1 + Len(password)
        /\ \A i \in 1 .. u + 1 : c[i] = b[i]
        /\ \A i \in 1 .. Len(password) : c[(u + 1) + i] = password[i]
    <3> HIDE DEF c
    <3>1. /\ c \in Seq(Symbols) /\ Len(c) = Len(b) + Len(password)
          /\ \A i \in 1 .. Len(b) : c[i] = b[i]
          /\ \A i \in 1 .. Len(password) : c[Len(b) + i] = password[i]
      <4>1. b \in Seq(Symbols) /\ password \in Seq(Symbols)
        BY <2>1, <2>6
      <4>2. QED
        BY <4>1, JoinIs DEF c
    <3>2. Len(b) = u + 1
      BY <2>6
    <3>3. QED
      BY <3>1, <3>2
  <2>9. Holds(c, 0, user) /\ Holds(c, u + 1, password)
    <3>1. Holds(c, 0, user)
      BY <2>1, <2>6, <2>7, HeldBefore
    <3>2. Holds(c, Len(b), password)
      BY <2>1, <2>6, HeldLast
    <3>3. QED
      BY <2>6, <3>1, <3>2
  <2> HIDE DEF c
  <2>10. ~Has(c, {"@", "/"})
    <3> SUFFICES ASSUME NEW i \in 1 .. Len(c) PROVE c[i] \notin {"@", "/"}
      BY DEF Has
    <3>1. CASE i <= u
      <4>1. i \in 1 .. u /\ i \in 1 .. u + 1
        BY <2>6, <3>1
      <4>2. c[i] = user[i] /\ i \in 1 .. Len(user)
        BY <2>6, <2>8, <4>1 DEF u
      <4>3. QED
        BY <2>3, <4>2 DEF Has
    <3>2. CASE i = u + 1
      <4>1. c[i] = ":"
        BY <2>6, <2>8, <3>2
      <4>2. QED
        BY <4>1
    <3>3. CASE i > u + 1
      <4> DEFINE j == i - (u + 1)
      <4>1. j \in 1 .. Len(password) /\ (u + 1) + j = i
        BY <2>1, <2>6, <2>8, <3>3
      <4>2. c[i] = password[j]
        BY <2>8, <4>1
      <4>3. QED
        BY <2>3, <4>1, <4>2 DEF Has
    <3>4. QED
      BY <2>6, <2>8, <3>1, <3>2, <3>3
  <2>11. /\ Holds(s, 4, c) /\ h = 4 + Len(c) + 1 /\ s[h] = "@" /\ h <= Len(s)
    <3> DEFINE d == c \o <<"@">>
    <3>1. /\ d \in Seq(Symbols) /\ Len(d) = Len(c) + 1 /\ d[Len(c) + 1] = "@"
          /\ \A i \in 1 .. Len(c) : d[i] = c[i]
      BY <2>2, <2>8
    <3>2. Holds(s, 4, d) /\ h = 4 + Len(d)
      BY <2>5
    <3> HIDE DEF d
    <3>3. /\ 4 + (Len(c) + 1) <= Len(s)
          /\ \A i \in 1 .. Len(c) + 1 : s[4 + i] = d[i]
      BY <3>1, <3>2 DEF Holds
    <3>4. Len(c) \in Nat /\ Len(s) \in Nat
      BY <2>8
    <3>5. Holds(s, 4, c)
      BY <3>1, <3>3, <3>4 DEF Holds
    <3>6. h = 4 + (Len(c) + 1) /\ h = 4 + Len(c) + 1 /\ Len(c) + 1 \in 1 .. Len(c) + 1
      BY <3>1, <3>2, <3>4
    <3>7. s[h] = "@"
      BY <3>1, <3>3, <3>6
    <3>8. QED
      BY <3>3, <3>5, <3>6, <3>7
  <2>12. Len(c) \in Nat /\ 5 <= h /\ h - 1 = 4 + Len(c)
    BY <2>5, <2>8, <2>11
  <2>13. Without(s, 5, h - 1, {"@", "/"})
    <3>1. Without(s, 4 + 1, 4 + Len(c), {"@", "/"})
      BY <2>8, <2>10, <2>11, WithoutPart
    <3>2. QED
      BY <2>12, <3>1
  <2>14. HasCredential(s, 5) /\ EndAt(s, {"@"}, 5) = h
    BY <2>5, <2>11, <2>12, <2>13, CredentialFound
  <2>15. Credential(s, 5) = c
    <3>1. 4 \in Nat /\ c \in Seq(Symbols) /\ Holds(s, 4, c)
      BY <2>8, <2>11
    <3>2. SubSeq(s, 4 + 1, 4 + Len(c)) = c
      BY <3>1, PartHeld, Zenon
    <3>3. Credential(s, 5) = SubSeq(s, 5, h - 1)
      BY <2>14, Zenon DEF Credential
    <3>4. 4 + 1 = 5 /\ h - 1 = 4 + Len(c)
      BY <2>12
    <3>5. QED
      BY <3>2, <3>3, <3>4, Zenon
  <2>16. EndAt(c, {":"}, 1) = u + 1
    <3>1. u + 1 \in 1 .. Len(c) /\ (u + 1) - 1 = u
      BY <2>1, <2>6, <2>8
    <3>2. c[u + 1] \in {":"}
      BY <2>6, <2>8
    <3>3. Without(c, 1, u, {":"})
      <4>1. \A i \in 1 .. u : c[i] = user[i]
        BY <2>6, <2>8
      <4>2. \A i \in 1 .. u : user[i] # ":"
        BY <2>3 DEF Has, u
      <4>3. QED
        BY <4>1, <4>2 DEF Without
    <3>4. QED
      BY <2>8, <3>1, <3>2, <3>3, FoundAt
  <2>17. UserOf(c) = user
    <3>1. SubSeq(c, 0 + 1, 0 + u) = user
      BY <2>1, <2>8, <2>9, PartHeld DEF u
    <3>2. UserOf(c) = SubSeq(c, 1, (u + 1) - 1)
      BY <2>16 DEF UserOf
    <3>3. (u + 1) - 1 = 0 + u
      BY <2>6
    <3>4. QED
      BY <3>1, <3>2, <3>3
  <2>18. PasswordOf(c) = password
    <3>1. SubSeq(c, (u + 1) + 1, (u + 1) + Len(password)) = password
      BY <2>1, <2>6, <2>8, <2>9, PartHeld
    <3>2. PasswordOf(c) = SubSeq(c, (u + 1) + 1, Len(c))
      BY <2>16 DEF PasswordOf
    <3>3. QED
      BY <2>8, <3>1, <3>2
  <2>19. HostFrom(s, 5) = h + 1
    BY <2>14 DEF HostFrom
  <2>20. QED
    BY <2>15, <2>17, <2>18, <2>19 DEF user, password, h
<1>5. QED
  BY <1>3, <1>4

-----------------------------------------------------------------------------
(* What parseUrl makes of a url that was written from its parts.             *)
Recovered(p) ==
  [protocol |-> p.protocol,
   user     |-> percentEncode(p.user, "@"),
   password |-> percentEncode(p.password, "@"),
   host     |-> p.host,
   port     |-> IF p.port = "" THEN DefaultPort(p.protocol) ELSE p.port,
   path     |-> percentEncode(p.path, "/"),
   query    |-> percentEncode(p.query, "?"),
   fragment |-> percentEncode(Bare(p.fragment), "#")]

LEMMA ParsedIs ==
  ASSUME NEW p \in PartsOfUrl, IsServed(p), NEW s \in Seq(Symbols), Laid(s, p)
  PROVE  Parsed(s) = [ok |-> TRUE, url |-> Recovered(p)]
<1> DEFINE offs     == AfterSeparator(s)
           cred     == Credential(s, offs)
           hostFrom == HostFrom(s, offs)
           hostEnd  == HostEnd(s, hostFrom)
           pathFrom == IF HasPort(s, hostEnd) THEN hostEnd + 1 ELSE hostEnd
           pathEnd  == PathEnd(s, pathFrom)
           queryEnd == QueryEnd(s, pathEnd)
           protocol == SubSeq(s, 1, Separator(s) - 1)
           host     == SubSeq(s, hostFrom, hostEnd - 1)
           port     == IF HasPort(s, hostEnd) THEN s[PortFrom(s, hostEnd)] ELSE DefaultPort(protocol)
           path     == Component(s, PathFrom(s, pathFrom), pathEnd)
           query    == Component(s, QueryFrom(s, pathEnd), queryEnd)
           fragment == Fragment(s, queryEnd)
           h == HostAt(p)  o == PortAt(p)  a == PathAt(p)  q == QueryAt(p)  f == FragmentAt(p)
           n == Len(s)
           hs == p.host  ps == p.path  qs == p.query  fs == p.fragment  pp == PortPart(p)
<1>1. /\ h \in Nat /\ o \in Nat /\ a \in Nat /\ q \in Nat /\ f \in Nat /\ n \in Nat
  <2>1. n \in Nat
    OBVIOUS
  <2>2. QED
    BY <2>1, OffsetsAre, Zenon
<1>30. /\ o = h + Len(hs) /\ a = o + Len(pp) /\ q = a + Len(ps)
       /\ f = q + Len(qs) /\ n = f + Len(fs) /\ Len(pp) \in Nat
  BY OffsetsAre, Zenon DEF Laid
<1>2. /\ Holds(s, 0, p.protocol) /\ Holds(s, h, hs) /\ Holds(s, o, pp)
      /\ Holds(s, a, ps) /\ Holds(s, q, qs) /\ Holds(s, f, fs)
  BY Zenon DEF Laid
<1>3. Shaped(s, h, o, a, q, f)
  BY ServedIsShaped, Zenon
<1>4. /\ UserOf(Credential(s, 5)) = p.user
      /\ PasswordOf(Credential(s, 5)) = p.password
      /\ HostFrom(s, 5) = h + 1
  BY CredentialsAre, Zenon
<1>5. /\ p.protocol \in {<<"http">>, <<"https">>} /\ hs \in Seq(Symbols)
      /\ ps \in Seq(Symbols) /\ qs \in Seq(Symbols) /\ fs \in Seq(Symbols)
      /\ p.port \in Symbols
  BY DEF PartsOfUrl
<1>6. /\ qs # <<>> => qs[1] = "?"
      /\ fs # <<>> => fs[1] = "#"
  BY Zenon DEF IsServed, FollowsGrammar
<1>7. p.port = "" <=> a = o
  <2>1. p.port = "" => Len(pp) = 0
    BY DEF PortPart
  <2>2. p.port # "" => Len(pp) = 2
    BY DEF PortPart
  <2> DEFINE k == Len(pp)
  <2>3. k \in Nat /\ o \in Nat /\ a = o + k
    BY <1>1, <1>30, Zenon
  <2> HIDE DEF k, o, a
  <2>4. (k = 0 => a = o) /\ (k = 2 => a # o)
    BY <2>3
  <2>5. QED
    BY <2>1, <2>2, <2>4, Zenon DEF k
<1>8. a # o => s[o + 2] = p.port
  <2>1. p.port # "" => pp[2] = p.port /\ 2 \in 1 .. Len(pp)
    <3>1. p.port # "" => pp = <<":", p.port>>
      BY Zenon DEF PortPart
    <3>2. <<":", p.port>>[2] = p.port /\ 2 \in 1 .. Len(<<":", p.port>>)
      OBVIOUS
    <3>3. QED
      BY <3>1, <3>2, Zenon
  <2>2. p.port # "" => s[o + 2] = p.port
    BY <1>2, <2>1, Zenon DEF Holds
  <2>3. QED
    BY <1>7, <2>2, Zenon
<1> HIDE DEF h, o, a, q, f, n, hs, ps, qs, fs, pp
<1>9. 4 <= h /\ h <= o /\ o <= a /\ a <= q /\ q <= f /\ f <= n /\ (a # o => a = o + 2)
  BY <1>1, <1>3, InOrder, ZenonT(40) DEF n
<1>10. Separator(s) = 2 /\ offs = 5
  BY <1>1, <1>3, SeparatorFound
<1>11. hostFrom = h + 1
  BY <1>4, <1>10, Zenon
<1>12. /\ HostEnd(s, h + 1) = o + 1 /\ HostFound(s, h + 1)
       /\ HasPort(s, o + 1) <=> a # o
       /\ a # o => PortFound(s, o + 1) /\ PortFrom(s, o + 1) = o + 2
  BY <1>1, <1>3, HostIsFound
<1>13. hostEnd = o + 1
  BY <1>11, <1>12, Zenon
<1>14. UserOf(cred) = p.user /\ PasswordOf(cred) = p.password
  BY <1>4, <1>10, Zenon
<1> HIDE DEF offs, cred, hostFrom, hostEnd
<1>15. pathFrom \in Nat /\ (a = o => pathFrom = o + 1) /\ (a # o => pathFrom = o + 2)
  <2>1. o + 1 + 1 = o + 2 /\ o + 1 \in Nat /\ o + 2 \in Nat
    BY <1>1
  <2>2. QED
    BY <1>12, <1>13, <2>1, Zenon
<1> HIDE DEF pathFrom
<1>16. /\ PathFrom(s, pathFrom) = IF a < q THEN a + 1 ELSE 0
       /\ PathEnd(s, pathFrom) = IF a < q THEN q + 1 ELSE pathFrom
       /\ pathFrom \in {a, a + 1} /\ pathFrom >= 1 /\ Without(s, pathFrom, a, {"/", "?", "#", "@"})
  <2>1. PathFrom(s, pathFrom) = IF a < q THEN a + 1 ELSE 0
    BY <1>1, <1>3, <1>15, PathIsFound, SMTT(30)
  <2>2. PathEnd(s, pathFrom) = IF a < q THEN q + 1 ELSE pathFrom
    BY <1>1, <1>3, <1>15, PathIsFound, SMTT(30)
  <2>3. /\ pathFrom \in {a, a + 1} /\ pathFrom >= 1
        /\ Without(s, pathFrom, a, {"/", "?", "#", "@"})
    BY <1>1, <1>3, <1>15, PathIsFound, SMTT(30)
  <2>4. QED
    BY <2>1, <2>2, <2>3
<1>17. pathEnd \in Nat /\ pathEnd \in {q, q + 1} /\ pathEnd >= 1
       /\ Without(s, pathEnd, q, {"/", "?", "#", "@"})
  <2>1. CASE a < q
    <3>1. pathEnd = q + 1
      BY <1>16, <2>1, Zenon
    <3> HIDE DEF pathEnd
    <3>2. \A j \in pathEnd .. q : FALSE
      BY <1>1, <3>1
    <3>3. QED
      BY <1>1, <3>1, <3>2 DEF Without
  <2>2. CASE ~(a < q)
    <3>1. pathEnd = pathFrom
      BY <1>16, <2>2, Zenon
    <3> HIDE DEF pathEnd
    <3>2. a = q
      BY <1>1, <1>9, <2>2
    <3>3. QED
      BY <1>15, <1>16, <3>1, <3>2
  <2>3. QED
    BY <2>1, <2>2
<1>18. path = ps
  <2>1. CASE a < q
    <3>1. SubSeq(s, a + 1, a + Len(ps)) = ps
      BY <1>1, <1>2, <1>5, PartHeld
    <3>2. pathEnd = q + 1 /\ PathFrom(s, pathFrom) = a + 1
      BY <1>16, <2>1, Zenon
    <3>3. a + 1 # 0 /\ (q + 1) - 1 = q
      BY <1>1
    <3>4. QED
      BY <1>30, <3>1, <3>2, <3>3, Zenon DEF Component
  <2>2. CASE ~(a < q)
    <3>1. PathFrom(s, pathFrom) = 0
      BY <1>16, <2>2, Zenon
    <3>2. path = <<>>
      BY <3>1, Zenon DEF Component
    <3>3. Len(ps) = 0
      <4>1. Len(ps) \in Nat /\ q = a + Len(ps)
        BY <1>5, <1>30
      <4>2. QED
        BY <1>1, <2>2, <4>1
    <3>4. QED
      BY <1>5, <3>2, <3>3
  <2>3. QED
    BY <2>1, <2>2
<1> HIDE DEF pathEnd
<1>19. /\ QueryFrom(s, pathEnd) = IF q < f THEN q + 1 ELSE 0
       /\ q < f => QueryEnd(s, pathEnd) = f + 1
       /\ EndAt(s, {"#"}, QueryEnd(s, pathEnd)) = f + 1
  BY <1>1, <1>3, <1>17, QueryIsFound
<1>20. query = qs
  <2>1. CASE q < f
    <3>1. SubSeq(s, q + 1, q + Len(qs)) = qs
      BY <1>1, <1>2, <1>5, PartHeld
    <3>2. queryEnd = f + 1 /\ QueryFrom(s, pathEnd) = q + 1
      BY <1>19, <2>1, Zenon
    <3>3. q + 1 # 0 /\ (f + 1) - 1 = f
      BY <1>1
    <3>4. QED
      BY <1>30, <3>1, <3>2, <3>3, Zenon DEF Component
  <2>2. CASE ~(q < f)
    <3>1. QueryFrom(s, pathEnd) = 0
      BY <1>19, <2>2, Zenon
    <3>2. query = <<>>
      BY <3>1, Zenon DEF Component
    <3>3. Len(qs) = 0
      <4>1. Len(qs) \in Nat /\ f = q + Len(qs)
        BY <1>5, <1>30
      <4>2. QED
        BY <1>1, <2>2, <4>1
    <3>4. QED
      BY <1>5, <3>2, <3>3
  <2>3. QED
    BY <2>1, <2>2
<1>21. fragment = Bare(fs)
  <2>1. fragment = SubSeq(s, f + 1 + 1, n)
    BY <1>19, Zenon DEF Fragment, n
  <2> DEFINE t == fs
  <2>2. CASE t = <<>>
    <3>1. Len(t) = 0
      BY <2>2
    <3>2. n = f + 0
      BY <1>30, <3>1, Zenon
    <3>3. n \in 0 .. Len(s) /\ f + 1 + 1 \in Nat /\ f + 1 + 1 >= 1 /\ ~(f + 1 + 1 <= n)
      BY <1>1, <3>2 DEF n
    <3>4. fragment = <<>>
      BY <2>1, <3>3, PartIs
    <3>5. QED
      BY <2>2, <3>4 DEF Bare
  <2>3. CASE t # <<>>
    <3> DEFINE r == Tail(t)
    <3>1. /\ t \in Seq(Symbols) /\ r \in Seq(Symbols) /\ Len(t) \in Nat /\ Len(t) >= 1
          /\ Len(r) = Len(t) - 1 /\ \A i \in 1 .. Len(r) : r[i] = t[i + 1]
      BY <1>5, <2>3
    <3>2. f + Len(t) <= Len(s) /\ \A i \in 1 .. Len(t) : s[f + i] = t[i]
      BY <1>2, Zenon DEF Holds
    <3>3. Bare(t) = r
      BY <1>6, <2>3, Zenon DEF Bare
    <3>4. n = f + Len(t)
      BY <1>30, Zenon
    <3> HIDE DEF r, t
    <3>5. Holds(s, f + 1, r)
      <4>1. (f + 1) + Len(r) <= Len(s)
        BY <1>1, <3>1, <3>2
      <4>2. ASSUME NEW i \in 1 .. Len(r) PROVE s[(f + 1) + i] = r[i]
        <5>1. i + 1 \in 1 .. Len(t) /\ (f + 1) + i = f + (i + 1)
          BY <1>1, <3>1
        <5>2. QED
          BY <3>1, <3>2, <5>1
      <4>3. QED
        BY <4>1, <4>2 DEF Holds
    <3>6. f + 1 \in Nat /\ n = (f + 1) + Len(r)
      BY <1>1, <3>1, <3>4
    <3>7. SubSeq(s, (f + 1) + 1, (f + 1) + Len(r)) = r
      BY <3>1, <3>5, <3>6, PartHeld
    <3>8. fragment = r
      BY <2>1, <3>6, <3>7, Zenon
    <3>9. QED
      BY <3>3, <3>8 DEF t
  <2>4. QED
    BY <2>2, <2>3
<1>22. protocol = p.protocol
  <2>1. p.protocol \in Seq(Symbols) /\ Len(p.protocol) = 1
    <3>1. "http" \in Symbols /\ "https" \in Symbols
      BY DEF Symbols
    <3>2. <<"http">> \in Seq(Symbols) /\ <<"https">> \in Seq(Symbols)
      BY <3>1
    <3>3. Len(<<"http">>) = 1 /\ Len(<<"https">>) = 1
      OBVIOUS
    <3>4. QED
      BY <1>5, <3>2, <3>3, Zenon
  <2>2. 0 \in Nat /\ 0 + 1 = 1 /\ 2 - 1 = 1
    OBVIOUS
  <2>3. SubSeq(s, 0 + 1, 0 + Len(p.protocol)) = p.protocol
    BY <1>2, <2>1, <2>2, PartHeld, Zenon
  <2>4. QED
    BY <1>10, <2>1, <2>2, <2>3, Zenon
<1>23. host = hs
  <2>1. SubSeq(s, h + 1, h + Len(hs)) = hs
    BY <1>1, <1>2, <1>5, PartHeld
  <2>2. hostEnd - 1 = o
    BY <1>1, <1>13
  <2>3. QED
    BY <1>11, <1>30, <2>1, <2>2, Zenon
<1>24. port = IF p.port = "" THEN DefaultPort(p.protocol) ELSE p.port
  BY <1>7, <1>8, <1>12, <1>13, <1>22, Zenon
<1>25. Separator(s) # 0 /\ HostFound(s, hostFrom)
       /\ ~(HasPort(s, hostEnd) /\ ~PortFound(s, hostEnd))
  <2>1. 2 # 0
    OBVIOUS
  <2>2. QED
    BY <1>10, <1>11, <1>12, <1>13, <2>1, Zenon
<1>26. Parsed(s) =
         [ok |-> TRUE, url |->
            [protocol |-> protocol,
             user     |-> percentEncode(UserOf(cred), "@"),
             password |-> percentEncode(PasswordOf(cred), "@"),
             host     |-> host,
             port     |-> port,
             path     |-> percentEncode(path, "/"),
             query    |-> percentEncode(query, "?"),
             fragment |-> percentEncode(fragment, "#")]]
  <2> HIDE DEF protocol, host, path, query, fragment, port
  <2>1. QED
    BY <1>25, Zenon DEF Parsed, offs, cred, hostFrom, hostEnd, pathFrom, pathEnd,
       protocol, host, path, query, fragment, port
<1> HIDE DEF protocol, host, path, query, fragment, port
<1>27. QED
  BY <1>14, <1>18, <1>20, <1>21, <1>22, <1>23, <1>24, <1>26, Zenon
     DEF Recovered, hs, ps, qs, fs

-----------------------------------------------------------------------------
(* Components that are encoded can be parsed again, with the same result.    *)
LEMMA FirstKept ==
  ASSUME NEW s \in Seq(Symbols), Ascii(s), NEW id \in Delimiters, s # <<>>, s[1] = id
  PROVE  percentEncode(s, id) # <<>> /\ percentEncode(s, id)[1] = id
<1> DEFINE t == percentEncode(s, id)
<1>1. t # <<>> /\ \E o : EncodedAs(s, id, t, o)
  BY EncodedIs
<1>2. PICK o : EncodedAs(s, id, t, o)
  BY <1>1
<1> HIDE DEF t
<1>3. 1 \in 1 .. Len(s) /\ Kept(s, id, 1)
  BY DEF Kept
<1>4. o[1] = 0 /\ t[o[1] + 1] = s[1]
  BY <1>2, <1>3, Zenon DEF EncodedAs
<1>5. t[1] = id
  BY <1>4
<1>6. QED
  BY <1>1, <1>5 DEF t

LEMMA StillWithout ==
  ASSUME NEW s \in Seq(Symbols), Ascii(s), NEW id \in Delimiters,
         NEW chars \in SUBSET {"/", "?", "#", "@"}, ~Has(s, chars)
  PROVE  ~Has(percentEncode(s, id), chars)
<1>1. \A c \in {"/", "?", "#", "@"} : c # "%" /\ c \notin HexDigits
  BY DEF HexDigits
<1>2. \A c \in chars : ~Has(s, {c})
  BY DEF Has
<1>3. \A c \in chars : ~Has(percentEncode(s, id), {c})
  BY <1>1, <1>2, EncodedFrom
<1>4. QED
  BY <1>3 DEF Has

\* Of a fragment, "#" is copied and the rest is encoded as if it stood alone.
LEMMA FragmentEncoded ==
  ASSUME NEW s \in Seq(Symbols), Ascii(s), s # <<>>, s[1] = "#", ~Has(Tail(s), {"#"})
  PROVE  percentEncode(s, "#") = <<"#">> \o percentEncode(Tail(s), "#")
<1> DEFINE r == Tail(s)
           id == "#"
           q == [i \in 1 .. Len(s) |-> Piece(s, id, i)]
           u == [i \in 1 .. Len(r) |-> Piece(r, id, i)]
<1>1. /\ Len(s) \in Nat /\ Len(s) >= 1 /\ r \in Seq(Symbols) /\ Len(r) = Len(s) - 1
      /\ \A i \in 1 .. Len(r) : r[i] = s[i + 1]
  OBVIOUS
<1>2. id \in Delimiters
  BY DEF Delimiters
<1>3. percentEncode(s, id) = FlattenSeq(q) /\ percentEncode(r, id) = FlattenSeq(u)
  BY DEF percentEncode, Piece, Kept
<1> HIDE DEF r, id
<1>4. q \in Seq(Seq(Symbols)) /\ q # <<>> /\ Len(q) = Len(s)
  BY <1>1, <1>2, PieceIs
<1>5. q[1] = <<"#">>
  <2>1. Kept(s, id, 1)
    BY DEF Kept, id
  <2>2. QED
    BY <1>1, <2>1 DEF Piece
<1>6. ASSUME NEW i \in 1 .. Len(r) PROVE q[i + 1] = u[i]
  <2>1. i + 1 \in 1 .. Len(s) /\ i + 1 # 1 /\ r[i] = s[i + 1]
    BY <1>1
  <2>2. EscapeAt(s, i + 1) <=> EscapeAt(r, i)
    <3>1. (i + 1) + 2 <= Len(s) <=> i + 2 <= Len(r)
      BY <1>1
    <3>2. i + 2 <= Len(r) => r[i + 1] = s[(i + 1) + 1] /\ r[i + 2] = s[(i + 1) + 2]
      <4>1. i + 2 <= Len(r) => i + 1 \in 1 .. Len(r) /\ i + 2 \in 1 .. Len(r)
        BY <1>1
      <4>2. (i + 2) + 1 = (i + 1) + 2
        OBVIOUS
      <4>3. QED
        BY <1>1, <4>1, <4>2
    <3>3. QED
      BY <2>1, <3>1, <3>2, Zenon DEF EscapeAt
  <2>3. Kept(s, id, i + 1) <=> Kept(r, id, i)
    <3>1. r[i] # id
      BY DEF Has, id, r
    <3>2. QED
      BY <2>1, <2>2, <3>1, Zenon DEF Kept
  <2>4. q[i + 1] = Piece(s, id, i + 1) /\ u[i] = Piece(r, id, i)
    BY <2>1
  <2>5. QED
    BY <2>1, <2>3, <2>4, Zenon DEF Piece
<1> HIDE DEF q
<1>7. Tail(q) = u
  <2>1. Len(Tail(q)) = Len(r) /\ \A i \in 1 .. Len(r) : Tail(q)[i] = q[i + 1]
    BY <1>1, <1>4
  <2>2. Tail(q) \in Seq(Seq(Symbols))
    BY <1>4
  <2> DEFINE v == Tail(q)
  <2>3. u = [i \in 1 .. Len(r) |-> v[i]]
    BY <1>6, <2>1
  <2> HIDE DEF u, v
  <2>4. v = [i \in 1 .. Len(v) |-> v[i]]
    <3>1. v \in Seq(Seq(Symbols))
      BY <2>2 DEF v
    <3>2. QED
      BY <3>1
  <2>5. v = u
    BY <2>1, <2>3, <2>4, Zenon DEF v
  <2>6. QED
    BY <2>5 DEF v
<1>8. FlattenSeq(q) = q[1] \o FlattenSeq(Tail(q))
  BY <1>4, FlattenFirst
<1>9. QED
  BY <1>3, <1>5, <1>7, <1>8, Zenon DEF r, id

LEMMA BareIs ==
  ASSUME NEW s \in Seq(Symbols), Ascii(s),
         s # <<>> => s[1] = "#" /\ ~Has(Bare(s), {"#"})
  PROVE  /\ Bare(s) \in Seq(Symbols) /\ Ascii(Bare(s)) /\ ~Has(Bare(s), {"#"})
         /\ Bare(percentEncode(s, "#")) = percentEncode(Bare(s), "#")
         /\ Bare(percentEncode(Bare(s), "#")) = percentEncode(Bare(s), "#")
<1>1. "#" \in Delimiters
  BY DEF Delimiters
<1>2. CASE s = <<>>
  <2>1. Bare(s) = s /\ ~Has(s, {"#"})
    BY <1>2 DEF Bare, Has
  <2>2. percentEncode(s, "#") = s
    BY <1>2, NothingEncoded
  <2>3. QED
    BY <2>1, <2>2
<1>3. CASE s # <<>>
  <2> DEFINE r == Tail(s)
             t == percentEncode(r, "#")
  <2>1. Bare(s) = r
    BY <1>3 DEF Bare
  <2>2. /\ r \in Seq(Symbols) /\ Len(s) \in Nat /\ Len(r) = Len(s) - 1
        /\ \A i \in 1 .. Len(r) : r[i] = s[i + 1]
    BY <1>3
  <2>3. ~Has(r, {"#"})
    BY <1>3, <2>1
  <2>4. Ascii(r)
    <3> HIDE DEF r
    <3>1. \A i \in 1 .. Len(r) : i + 1 \in 1 .. Len(s)
      BY <2>2
    <3>2. QED
      BY <2>2, <3>1 DEF Ascii, Has
  <2>5. percentEncode(s, "#") = <<"#">> \o t
    BY <1>3, <2>3, FragmentEncoded
  <2>6. t \in Seq(Symbols)
    BY <1>1, <2>2, <2>4, EncodedFrom
  <2>7. ~Has(t, {"#"})
    <3> HIDE DEF r
    <3>1. QED
      BY <1>1, <2>2, <2>3, <2>4, StillWithout
  <2> HIDE DEF t, r
  <2>8. Bare(t) = t
    BY <2>6, <2>7 DEF Bare, Has
  <2>9. Bare(<<"#">> \o t) = t
    <3> DEFINE x == <<"#">> \o t
    <3>1. x # <<>> /\ x[1] = "#" /\ Tail(x) = t
      BY <2>6
    <3> HIDE DEF x
    <3>2. Bare(x) = t
      BY <3>1 DEF Bare
    <3>3. QED
      BY <3>2 DEF x
  <2>10. QED
    BY <2>1, <2>2, <2>3, <2>4, <2>5, <2>8, <2>9 DEF t
<1>4. QED
  BY <1>2, <1>3

LEMMA PartsAre ==
  ASSUME NEW p \in Parts
  PROVE  p \in PartsOfUrl
<1>1. STRING \subseteq Symbols
  BY DEF Symbols
<1>2. p \in [protocol : {<<"http">>, <<"https">>}, port : STRING, user : Seq(STRING),
             password : Seq(STRING), host : Seq(STRING), path : Seq(STRING),
             query : Seq(STRING), fragment : Seq(STRING)]
  BY PartsAssumption
<1>3. \A s \in Seq(STRING) : s \in Seq(Symbols)
  BY <1>1, MoreSymbols
<1>4. QED
  BY <1>1, <1>2, <1>3 DEF PartsOfUrl

LEMMA ComponentsAre ==
  ASSUME NEW p \in PartsOfUrl, IsAscii(p)
  PROVE  /\ Ascii(p.user) /\ Ascii(p.password) /\ Ascii(p.path) /\ Ascii(p.query)
         /\ Ascii(p.fragment)
         /\ p.user \in Seq(Symbols) /\ p.password \in Seq(Symbols) /\ p.path \in Seq(Symbols)
         /\ p.query \in Seq(Symbols) /\ p.fragment \in Seq(Symbols)
  BY DEF PartsOfUrl, IsAscii, Ascii

LEMMA DefaultPortIs ==
  ASSUME NEW s, s \in {<<"http">>, <<"https">>}
  PROVE  DefaultPort(s) \in {"80", "443"}
<1>1. <<"http">> # <<"https">>
  BY SMT
<1>2. CASE s = <<"http">>
  BY <1>1, <1>2 DEF DefaultPort
<1>3. CASE s = <<"https">>
  BY <1>1, <1>3 DEF DefaultPort
<1>4. QED
  BY <1>2, <1>3

(* The url that Url(parts) writes can be taken apart if one written of the   *)
(* parts can, and gives the same.                                            *)
LEMMA EncodedIsServed ==
  ASSUME NEW p \in PartsOfUrl, IsServed(p), IsAscii(p), p.port = ""
  PROVE  /\ Encoded(p) \in PartsOfUrl /\ IsServed(Encoded(p))
         /\ Recovered(Encoded(p)) = Recovered(p)
<1> DEFINE e == Encoded(p)
           path == percentEncode(p.path, "/")
           query == percentEncode(p.query, "?")
           fragment == percentEncode(p.fragment, "#")
           port == DefaultPort(p.protocol)
<1>1. /\ Ascii(p.user) /\ Ascii(p.password) /\ Ascii(p.path) /\ Ascii(p.query)
      /\ Ascii(p.fragment)
      /\ p.path \in Seq(Symbols) /\ p.query \in Seq(Symbols) /\ p.fragment \in Seq(Symbols)
  BY ComponentsAre
<1>2. {"/", "?", "#", "@"} = Delimiters
  BY DEF Delimiters
<1>3. port \in {"80", "443"}
  BY DefaultPortIs DEF PartsOfUrl
<1>4. port \in Symbols /\ port \in Numbers /\ port # ""
  BY <1>3, NumbersAssumption DEF Symbols
<1>5. path \in Seq(Symbols) /\ query \in Seq(Symbols) /\ fragment \in Seq(Symbols)
  BY <1>1, <1>2, EncodedFrom
<1>6. /\ e = [p EXCEPT !.port = port, !.path = path, !.query = query, !.fragment = fragment]
  BY Zenon DEF Encoded
<1> HIDE DEF e, path, query, fragment, port
<1>7. /\ e \in PartsOfUrl
      /\ e.protocol = p.protocol /\ e.user = p.user /\ e.password = p.password /\ e.host = p.host
      /\ e.port = port /\ e.path = path /\ e.query = query /\ e.fragment = fragment
  BY <1>4, <1>5, <1>6 DEF PartsOfUrl
<1>8. /\ ~Has(p.user, {":", "/", "@"}) /\ ~Has(p.password, {"/", "@"})
      /\ ~Has(p.host, {":", "/", "?", "#", "@"})
      /\ p.path # <<>> => p.path[1] = "/" /\ ~Has(p.path, {"?", "#"})
      /\ p.query # <<>> => p.query[1] = "?" /\ ~Has(p.query, {"#"})
      /\ p.fragment # <<>> => p.fragment[1] = "#" /\ ~Has(Bare(p.fragment), {"#"})
  BY Zenon DEF IsServed, FollowsGrammar
<1>9. /\ p.path # <<>> \/ (p.query = <<>> /\ p.fragment = <<>>)
      /\ p.query # <<>> \/ ~Has(p.fragment, {"?"})
  BY Zenon DEF IsServed
<1>10. path = <<>> <=> p.path = <<>>
  BY <1>1, <1>2, EncodedIs, NothingEncoded DEF path
<1>11. query = <<>> <=> p.query = <<>>
  BY <1>1, <1>2, EncodedIs, NothingEncoded DEF query
<1>12. fragment = <<>> <=> p.fragment = <<>>
  BY <1>1, <1>2, EncodedIs, NothingEncoded DEF fragment
<1>13. path # <<>> => path[1] = "/" /\ ~Has(path, {"?", "#"})
  BY <1>1, <1>2, <1>8, <1>10, FirstKept, StillWithout DEF path
<1>14. query # <<>> => query[1] = "?" /\ ~Has(query, {"#"})
  BY <1>1, <1>2, <1>8, <1>11, FirstKept, StillWithout DEF query
<1>15. /\ Bare(p.fragment) \in Seq(Symbols) /\ Ascii(Bare(p.fragment))
       /\ ~Has(Bare(p.fragment), {"#"})
       /\ Bare(fragment) = percentEncode(Bare(p.fragment), "#")
  BY <1>1, <1>8, BareIs DEF fragment
<1>16. fragment # <<>> => fragment[1] = "#" /\ ~Has(Bare(fragment), {"#"})
  <2>1. ~Has(Bare(fragment), {"#"})
    BY <1>2, <1>15, StillWithout
  <2>2. fragment # <<>> => fragment[1] = "#"
    BY <1>1, <1>2, <1>8, <1>12, FirstKept DEF fragment
  <2>3. QED
    BY <2>1, <2>2
<1>17. ~Has(p.fragment, {"?"}) => ~Has(fragment, {"?"})
  BY <1>1, <1>2, StillWithout DEF fragment
<1>18. FollowsGrammar(e)
  BY <1>4, <1>7, <1>8, <1>13, <1>14, <1>16, Zenon DEF FollowsGrammar
<1>19. IsServed(e)
  BY <1>7, <1>9, <1>10, <1>11, <1>12, <1>17, <1>18, Zenon DEF IsServed
<1>20. /\ percentEncode(path, "/") = path
       /\ percentEncode(query, "?") = query
       /\ percentEncode(Bare(fragment), "#") = percentEncode(Bare(p.fragment), "#")
  BY <1>1, <1>2, <1>15, EncodingIsIdempotent DEF path, query
<1>21. Recovered(e) = Recovered(p)
  BY <1>4, <1>7, <1>20, Zenon DEF Recovered, path, query, port
<1>22. QED
  BY <1>7, <1>19, <1>21 DEF e

-----------------------------------------------------------------------------
(* What the url strings and the urls are.                                    *)
TextIsWritten ==
  \/ text = Written(parts, parts.port)
  \/ parts.port = "" /\ text = Written(Encoded(parts), Encoded(parts).port)

UrlIsMade ==
  /\ call = "Url(parts)" => parts.port = "" /\ url = Encoded(parts)
  /\ call = "parseUrl" => url = Parsed(text).url

IInv == parts \in Parts /\ TextIsWritten /\ UrlIsMade

LEMMA Initially == Init => IInv
  BY DEF Init, IInv, TextIsWritten, UrlIsMade

LEMMA Inductive ==
  ASSUME IInv, [Next]_vars
  PROVE  IInv'
<1>1. CASE ConstructFromParts
  BY <1>1 DEF ConstructFromParts, IInv, TextIsWritten, UrlIsMade
<1>2. CASE ParseUrl
  BY <1>2 DEF ParseUrl, IInv, TextIsWritten, UrlIsMade
<1>3. CASE ConstructFromUrl
  BY <1>3 DEF ConstructFromUrl, IInv, TextIsWritten, UrlIsMade
<1>4. CASE UNCHANGED vars
  BY <1>4 DEF vars, IInv, TextIsWritten, UrlIsMade
<1>5. QED
  BY <1>1, <1>2, <1>3, <1>4 DEF Next

LEMMA AlwaysWritten == Spec => []IInv
  BY Initially, Inductive, PTL DEF Spec

\* What a url string that can be taken apart gives.
LEMMA UrlIsRecovered ==
  ASSUME IInv, call = "parseUrl", IsServed(parts), IsAscii(parts)
  PROVE  url = Recovered(parts)
<1>1. parts \in PartsOfUrl
  BY PartsAre DEF IInv
<1>2. \E p \in PartsOfUrl : /\ IsServed(p) /\ Recovered(p) = Recovered(parts)
                            /\ text = Written(p, p.port)
  <2>1. CASE text = Written(parts, parts.port)
    BY <1>1, <2>1, Zenon
  <2>2. CASE parts.port = "" /\ text = Written(Encoded(parts), Encoded(parts).port)
    BY <1>1, <2>2, EncodedIsServed, Zenon
  <2>3. QED
    BY <2>1, <2>2, Zenon DEF IInv, TextIsWritten
<1>3. PICK p \in PartsOfUrl : /\ IsServed(p) /\ Recovered(p) = Recovered(parts)
                              /\ text = Written(p, p.port)
  BY <1>2
<1>4. Laid(text, p)
  BY <1>3, WrittenIs, Zenon
<1>5. text \in Seq(Symbols)
  BY <1>4, Zenon DEF Laid
<1>6. Parsed(text) = [ok |-> TRUE, url |-> Recovered(p)]
  BY <1>3, <1>4, <1>5, ParsedIs, Zenon
<1>7. Parsed(text).url = Recovered(p)
  BY <1>6
<1>8. QED
  BY <1>3, <1>7, Zenon DEF IInv, UrlIsMade

LEMMA RecoveredIs ==
  ASSUME NEW p \in PartsOfUrl
  PROVE  Recovered(p) =
           [p EXCEPT
             !.port     = IF p.port = "" THEN DefaultPort(p.protocol)
                                         ELSE p.port,
             !.path     = percentEncode(p.path, "/"),
             !.query    = percentEncode(p.query, "?"),
             !.fragment = percentEncode(Bare(p.fragment), "#"),
             !.user     = percentEncode(p.user, "@"),
             !.password = percentEncode(p.password, "@")]
<1>1. p = [protocol |-> p.protocol, port |-> p.port, user |-> p.user, password |-> p.password,
           host |-> p.host, path |-> p.path, query |-> p.query, fragment |-> p.fragment]
  BY DEF PartsOfUrl
<1> DEFINE port == IF p.port = "" THEN DefaultPort(p.protocol) ELSE p.port
           path == percentEncode(p.path, "/")
           query == percentEncode(p.query, "?")
           fragment == percentEncode(Bare(p.fragment), "#")
           user == percentEncode(p.user, "@")
           password == percentEncode(p.password, "@")
<1>2. Recovered(p) = [protocol |-> p.protocol, user |-> user, password |-> password,
                      host |-> p.host, port |-> port, path |-> path, query |-> query,
                      fragment |-> fragment]
  BY Zenon DEF Recovered
<1> HIDE DEF port, path, query, fragment, user, password
<1> DEFINE e == [p EXCEPT !.port = port, !.path = path, !.query = query, !.fragment = fragment,
                          !.user = user, !.password = password]
<1>3. e = [p EXCEPT !.port = port, !.path = path, !.query = query, !.fragment = fragment,
                    !.user = user, !.password = password]
  BY Zenon
<1>4. p \in [protocol : {p.protocol}, user : {p.user, user}, password : {p.password, password},
             host : {p.host}, port : {p.port, port}, path : {p.path, path},
             query : {p.query, query}, fragment : {p.fragment, fragment}]
  BY <1>1
<1> HIDE DEF e
<1>5. /\ e \in [protocol : {p.protocol}, user : {p.user, user}, password : {p.password, password},
                host : {p.host}, port : {p.port, port}, path : {p.path, path},
                query : {p.query, query}, fragment : {p.fragment, fragment}]
      /\ e.protocol = p.protocol /\ e.host = p.host /\ e.user = user /\ e.password = password
      /\ e.port = port /\ e.path = path /\ e.query = query /\ e.fragment = fragment
  BY <1>3, <1>4
<1>6. e = [protocol |-> p.protocol, user |-> user, password |-> password,
           host |-> p.host, port |-> port, path |-> path, query |-> query,
           fragment |-> fragment]
  BY <1>5
<1>7. QED
  BY <1>2, <1>6, Zenon DEF e, port, path, query, fragment, user, password

(* parseUrl gives back the parts that a url string was written from, encoded, *)
(* whatever they are, if the parser serves them: of a string written by hand  *)
(* and of one that Url(parts) has made (src/src/Url.cpp:197-389).             *)
THEOREM PartsRecovered == Spec => []RecoversParts
<1>1. IInv => RecoversParts
  <2> SUFFICES ASSUME IInv, call = "parseUrl", IsServed(parts), IsAscii(parts)
               PROVE  url = [parts EXCEPT
             !.port     = IF parts.port = "" THEN DefaultPort(parts.protocol)
                                             ELSE parts.port,
             !.path     = percentEncode(parts.path, "/"),
             !.query    = percentEncode(parts.query, "?"),
             !.fragment = percentEncode(Bare(parts.fragment), "#"),
             !.user     = percentEncode(parts.user, "@"),
             !.password = percentEncode(parts.password, "@")]
    BY Zenon DEF RecoversParts
  <2>1. url = Recovered(parts)
    BY UrlIsRecovered
  <2>2. parts \in PartsOfUrl
    BY PartsAre DEF IInv
  <2>3. QED
    BY <2>1, <2>2, RecoveredIs, Zenon
<1>2. QED
  BY <1>1, AlwaysWritten, PTL

LEMMA CleanIs ==
  ASSUME NEW s \in Seq(Symbols), Ascii(s), NEW id \in Delimiters,
         NEW unsafe, unsafe \subseteq Reserved(id) \ {"%"}, id \in unsafe => ~Has(s, {id})
  PROVE  IsClean(percentEncode(s, id), unsafe)
<1> DEFINE t == percentEncode(s, id)
<1> SUFFICES ASSUME NEW k \in 1 .. Len(t)
             PROVE  t[k] \notin unsafe /\ (t[k] = "%" => BeginsEscape(t, k))
  BY DEF IsClean
<1>1. \/ k = 1 /\ t[k] = id
      \/ t[k] \notin Reserved(id)
      \/ BeginsEscape(t, k)
  BY EncodedClean
<1>2. id \in unsafe => ~Has(t, {id})
  <2>1. {id} \in SUBSET {"/", "?", "#", "@"}
    BY DEF Delimiters
  <2>2. QED
    BY <2>1, StillWithout
<1> HIDE DEF t
<1>3. BeginsEscape(t, k) => t[k] = "%"
  BY DEF BeginsEscape
<1>4. "%" \in Reserved(id) /\ id # "%"
  BY ReservedIs
<1>5. t[k] = id => id \notin unsafe
  BY <1>2 DEF Has
<1>6. "%" \notin unsafe
  OBVIOUS
<1>7. QED
  BY <1>1, <1>3, <1>4, <1>5, <1>6

LEMMA UnsafeIs ==
  /\ {" ", "?", "#"} \subseteq Reserved("/") \ {"%"}
  /\ {" ", "#"} \subseteq Reserved("?") \ {"%"}
  /\ {" ", "#"} \subseteq Reserved("#") \ {"%"}
  /\ {" ", "/", "@", "?"} \subseteq Reserved("@") \ {"%"}
<1>1. /\ Reserved("/") = DOMAIN Codes \ {"@", "/"}
      /\ Reserved("?") = DOMAIN Codes \ {"@", "/", "?"}
      /\ Reserved("#") = DOMAIN Codes \ {"@", "/", "?"}
      /\ Reserved("@") = DOMAIN Codes
  BY DEF Reserved
<1>2. DOMAIN Codes = {" ", "%", "/", "?", "#", "@", "high"}
  BY DEF Codes
<1>3. QED
  BY <1>1, <1>2

LEMMA EncodedFields ==
  ASSUME NEW p \in PartsOfUrl
  PROVE  /\ Encoded(p).path = percentEncode(p.path, "/")
         /\ Encoded(p).query = percentEncode(p.query, "?")
         /\ Encoded(p).fragment = percentEncode(p.fragment, "#")
  BY DEF Encoded, PartsOfUrl

(* No component of a url that a string gives, or that Url(parts) makes, holds *)
(* a character that would end it early, and each stands for the octets of the *)
(* part that it was made of, however often it was encoded                     *)
(* (src/src/Url.cpp:319-389).                                                 *)
THEOREM ComponentsEncodedOnce == Spec => []EncodedOnce
<1>1. ASSUME IInv, call \in {"parseUrl", "Url(parts)"}, IsServed(parts), IsAscii(parts)
      PROVE  /\ IsClean(url.path, {" ", "?", "#"}) /\ Octets(url.path) = Octets(parts.path)
             /\ IsClean(url.query, {" ", "#"}) /\ Octets(url.query) = Octets(parts.query)
             /\ IsClean(Bare(url.fragment), {" ", "#"})
             /\ Octets(Bare(url.fragment)) = Octets(Bare(parts.fragment))
             /\ call = "parseUrl" =>
                  /\ IsClean(url.user, {" ", "/", "@", "?"})
                  /\ Octets(url.user) = Octets(parts.user)
                  /\ IsClean(url.password, {" ", "/", "@", "?"})
                  /\ Octets(url.password) = Octets(parts.password)
  <2> DEFINE bare == Bare(parts.fragment)
  <2>1. parts \in PartsOfUrl
    BY <1>1, PartsAre DEF IInv
  <2>2. /\ Ascii(parts.user) /\ Ascii(parts.password) /\ Ascii(parts.path)
        /\ Ascii(parts.query) /\ Ascii(parts.fragment)
        /\ parts.user \in Seq(Symbols) /\ parts.password \in Seq(Symbols)
        /\ parts.path \in Seq(Symbols) /\ parts.query \in Seq(Symbols)
        /\ parts.fragment \in Seq(Symbols)
    BY <1>1, <2>1, ComponentsAre, Zenon
  <2>3. /\ ~Has(parts.user, {":", "/", "@"}) /\ ~Has(parts.password, {"/", "@"})
        /\ parts.path # <<>> => ~Has(parts.path, {"?", "#"})
        /\ parts.query # <<>> => ~Has(parts.query, {"#"})
        /\ parts.fragment # <<>> => parts.fragment[1] = "#" /\ ~Has(bare, {"#"})
    BY <1>1, Zenon DEF IsServed, FollowsGrammar
  <2>4. /\ "/" \in Delimiters /\ "?" \in Delimiters /\ "#" \in Delimiters /\ "@" \in Delimiters
    BY DEF Delimiters
  <2>5. /\ bare \in Seq(Symbols) /\ Ascii(bare) /\ ~Has(bare, {"#"})
        /\ Bare(percentEncode(parts.fragment, "#")) = percentEncode(bare, "#")
        /\ Bare(percentEncode(bare, "#")) = percentEncode(bare, "#")
    BY <2>2, <2>3, BareIs
  <2>6. call = "parseUrl" =>
          /\ url.path = percentEncode(parts.path, "/")
          /\ url.query = percentEncode(parts.query, "?")
          /\ url.fragment = percentEncode(bare, "#")
          /\ url.user = percentEncode(parts.user, "@")
          /\ url.password = percentEncode(parts.password, "@")
    <3> SUFFICES ASSUME call = "parseUrl"
                 PROVE  /\ url.path = percentEncode(parts.path, "/")
                        /\ url.query = percentEncode(parts.query, "?")
                        /\ url.fragment = percentEncode(bare, "#")
                        /\ url.user = percentEncode(parts.user, "@")
                        /\ url.password = percentEncode(parts.password, "@")
      OBVIOUS
    <3>1. url = Recovered(parts)
      BY <1>1, UrlIsRecovered
    <3>2. QED
      BY <3>1 DEF Recovered
  <2>7. call = "Url(parts)" =>
          /\ url.path = percentEncode(parts.path, "/")
          /\ url.query = percentEncode(parts.query, "?")
          /\ url.fragment = percentEncode(parts.fragment, "#")
    <3>1. call = "Url(parts)" => url = Encoded(parts)
      BY <1>1 DEF IInv, UrlIsMade
    <3>2. QED
      BY <2>1, <3>1, EncodedFields, Zenon
  <2> HIDE DEF bare
  <2>8. /\ url.path = percentEncode(parts.path, "/")
        /\ url.query = percentEncode(parts.query, "?")
        /\ Bare(url.fragment) = percentEncode(bare, "#")
    BY <1>1, <2>5, <2>6, <2>7
  <2>9. IsClean(url.path, {" ", "?", "#"}) /\ Octets(url.path) = Octets(parts.path)
    <3>1. "/" \notin {" ", "?", "#"}
      OBVIOUS
    <3>2. IsClean(percentEncode(parts.path, "/"), {" ", "?", "#"})
      BY <2>2, <2>4, <3>1, UnsafeIs, CleanIs
    <3>3. QED
      BY <2>2, <2>4, <2>8, <3>2, SameOctets, Zenon
  <2>10. IsClean(url.query, {" ", "#"}) /\ Octets(url.query) = Octets(parts.query)
    <3>1. "?" \notin {" ", "#"}
      OBVIOUS
    <3>2. IsClean(percentEncode(parts.query, "?"), {" ", "#"})
      BY <2>2, <2>4, <3>1, UnsafeIs, CleanIs
    <3>3. QED
      BY <2>2, <2>4, <2>8, <3>2, SameOctets, Zenon
  <2>11. /\ IsClean(Bare(url.fragment), {" ", "#"})
         /\ Octets(Bare(url.fragment)) = Octets(bare)
    <3>1. IsClean(percentEncode(bare, "#"), {" ", "#"})
      BY <2>4, <2>5, UnsafeIs, CleanIs
    <3>2. QED
      BY <2>4, <2>5, <2>8, <3>1, SameOctets, Zenon
  <2>12. ASSUME NEW s \in {parts.user, parts.password}
         PROVE  /\ IsClean(percentEncode(s, "@"), {" ", "/", "@", "?"})
                /\ Octets(percentEncode(s, "@")) = Octets(s)
    <3>1. s \in Seq(Symbols) /\ Ascii(s)
      BY <2>2
    <3>2. ~Has(s, {"@"})
      BY <2>3 DEF Has
    <3>3. QED
      BY <2>4, <3>1, <3>2, UnsafeIs, CleanIs, SameOctets
  <2>13. call = "parseUrl" =>
           /\ IsClean(url.user, {" ", "/", "@", "?"})
           /\ Octets(url.user) = Octets(parts.user)
           /\ IsClean(url.password, {" ", "/", "@", "?"})
           /\ Octets(url.password) = Octets(parts.password)
    BY <2>6, <2>12, Zenon
  <2>14. QED
    BY <2>9, <2>10, <2>11, <2>13, Zenon DEF bare
<1>2. IInv => EncodedOnce
  BY <1>1, Zenon DEF EncodedOnce
<1>3. QED
  BY <1>2, AlwaysWritten, PTL

-----------------------------------------------------------------------------
(* The credentials of any url that is parsed.                                *)
LEMMA EndInText ==
  ASSUME NEW s \in Seq(Symbols), NEW chars, NEW from \in Nat, from >= 1
  PROVE  EndAt(s, chars, from) \in 1 .. Len(s) + 1
<1> DEFINE I == {j \in from .. Len(s) : s[j] \in chars}
<1>1. FindFirstOf(s, chars, from) = IF I # {} THEN Min(I) ELSE 0
  BY DEF FindFirstOf, SelectInSubSeq
<1>2. I \in SUBSET Nat /\ \A i \in I : i \in 1 .. Len(s)
  OBVIOUS
<1> HIDE DEF I
<1>3. I # {} => Min(I) \in 1 .. Len(s)
  BY <1>2, LeastIs
<1>4. FindFirstOf(s, chars, from) \in 0 .. Len(s)
  BY <1>1, <1>3
<1>5. QED
  BY <1>4 DEF EndAt

LEMMA SeparatorIs ==
  ASSUME NEW s \in Seq(Symbols)
  PROVE  AfterSeparator(s) \in Nat /\ AfterSeparator(s) >= 1
<1> DEFINE at == {i \in 1 .. Len(s) - 2 : SubSeq(s, i, i + 2) = <<":", "/", "/">>}
<1>1. at \in SUBSET Nat
  OBVIOUS
<1>2. Separator(s) = IF at = {} THEN 0 ELSE CHOOSE i \in at : \A j \in at : i <= j
  BY Zenon DEF Separator
<1> HIDE DEF at
<1>3. CASE at = {}
  BY <1>2, <1>3 DEF AfterSeparator
<1>4. CASE at # {}
  <2>1. \E i \in at : \A j \in at : i <= j
    BY <1>1, <1>4, LeastIs
  <2>2. Separator(s) \in at
    BY <1>2, <1>4, <2>1, Zenon
  <2>3. Separator(s) \in Nat
    BY <1>1, <2>2
  <2>4. QED
    BY <2>3 DEF AfterSeparator
<1>5. QED
  BY <1>3, <1>4

LEMMA CredentialIs ==
  ASSUME NEW s \in Seq(Symbols)
  PROVE  /\ UserOf(Credential(s, AfterSeparator(s))) \in Seq(Symbols)
         /\ PasswordOf(Credential(s, AfterSeparator(s))) \in Seq(Symbols)
<1> DEFINE from == AfterSeparator(s)
           c == Credential(s, from)
           e == EndAt(c, {":"}, 1)
<1>1. from \in Nat /\ from >= 1
  BY SeparatorIs
<1> HIDE DEF from
<1>2. c \in Seq(Symbols)
  <2> DEFINE n == EndAt(s, {"@"}, from) - 1
  <2>1. EndAt(s, {"@"}, from) \in 1 .. Len(s) + 1
    BY <1>1, EndInText
  <2>2. n \in 0 .. Len(s)
    BY <2>1
  <2> HIDE DEF n
  <2>3. SubSeq(s, from, n) \in Seq(Symbols) /\ <<>> \in Seq(Symbols)
    BY <1>1, <2>2, PartIs
  <2>4. QED
    BY <2>3, Zenon DEF Credential, n
<1> HIDE DEF c
<1>3. e \in 1 .. Len(c) + 1
  BY <1>2, EndInText
<1> HIDE DEF e
<1>4. SubSeq(c, 1, e - 1) \in Seq(Symbols)
  <2>1. e - 1 \in 0 .. Len(c)
    BY <1>2, <1>3
  <2>2. QED
    BY <1>2, <2>1, PartIs
<1>5. SubSeq(c, e + 1, Len(c)) \in Seq(Symbols)
  <2>1. e + 1 \in Nat /\ e + 1 >= 1 /\ Len(c) \in 0 .. Len(c)
    BY <1>2, <1>3
  <2>2. QED
    BY <1>2, <2>1, PartIs
<1>6. QED
  BY <1>4, <1>5, Zenon DEF UserOf, PasswordOf, c, e, from

\* Characters that are not in ascii too become symbols.
LEMMA EncodedIsText ==
  ASSUME NEW s \in Seq(Symbols), NEW id \in Delimiters
  PROVE  percentEncode(s, id) \in Seq(Symbols)
<1> DEFINE q == [i \in 1 .. Len(s) |-> Piece(s, id, i)]
<1>1. \A c \in DOMAIN Codes : <<"%">> \o Codes[c] \in Seq(Symbols)
  <2> SUFFICES ASSUME NEW c \in DOMAIN Codes PROVE <<"%">> \o Codes[c] \in Seq(Symbols)
    OBVIOUS
  <2>1. "%" \in Symbols
    BY DEF Symbols, Codes
  <2>2. CASE c = "high"
    <3>1. Codes[c] = <<"F", "F", "F", "F", "F", "F", "C", "3">>
      BY <2>2 DEF Codes
    <3>2. "F" \in Symbols /\ "C" \in Symbols /\ "3" \in Symbols
      BY DEF Symbols, HexDigits
    <3>3. Codes[c] \in Seq(Symbols)
      BY <3>1, <3>2
    <3>4. QED
      BY <2>1, <3>3
  <2>3. CASE c # "high"
    <3>1. PICK d, e \in HexDigits : Codes[c] = <<d, e>>
      BY <2>3, CodeIs
    <3>2. d \in Symbols /\ e \in Symbols
      BY DEF Symbols
    <3>3. Codes[c] \in Seq(Symbols)
      BY <3>1, <3>2
    <3>4. QED
      BY <2>1, <3>3
  <2>4. QED
    BY <2>2, <2>3
<1>2. \A i \in 1 .. Len(s) : Piece(s, id, i) \in Seq(Symbols)
  <2> SUFFICES ASSUME NEW i \in 1 .. Len(s) PROVE Piece(s, id, i) \in Seq(Symbols)
    OBVIOUS
  <2>1. s[i] \in Symbols
    OBVIOUS
  <2>2. <<s[i]>> \in Seq(Symbols)
    BY <2>1
  <2>3. ~Kept(s, id, i) => s[i] \in DOMAIN Codes
    BY ReservedIs DEF Kept
  <2>4. QED
    BY <1>1, <2>2, <2>3, Zenon DEF Piece
<1>3. percentEncode(s, id) = FlattenSeq(q)
  BY Zenon DEF percentEncode, Piece, Kept
<1>4. q \in Seq(Seq(Symbols))
  BY <1>2
<1> HIDE DEF q
<1>5. CASE q = <<>>
  <2>1. <<>> \in Seq(Symbols)
    OBVIOUS
  <2>2. QED
    BY <1>3, <1>5, <2>1, FlattenNothing
<1>6. CASE q # <<>>
  BY <1>3, <1>4, <1>6, Flattened
<1>7. QED
  BY <1>5, <1>6

LEMMA TextIs ==
  ASSUME IInv
  PROVE  text \in Seq(Symbols)
<1>1. parts \in PartsOfUrl
  BY PartsAre DEF IInv
<1>2. CASE text = Written(parts, parts.port)
  BY <1>1, <1>2, WrittenIs DEF Laid
<1>3. CASE parts.port = "" /\ text = Written(Encoded(parts), Encoded(parts).port)
  <2> DEFINE path == percentEncode(parts.path, "/")
             query == percentEncode(parts.query, "?")
             fragment == percentEncode(parts.fragment, "#")
             port == DefaultPort(parts.protocol)
  <2>1. /\ parts.path \in Seq(Symbols) /\ parts.query \in Seq(Symbols)
        /\ parts.fragment \in Seq(Symbols) /\ parts.protocol \in {<<"http">>, <<"https">>}
    BY <1>1 DEF PartsOfUrl
  <2>2. "/" \in Delimiters /\ "?" \in Delimiters /\ "#" \in Delimiters
    BY DEF Delimiters
  <2>3. path \in Seq(Symbols) /\ query \in Seq(Symbols) /\ fragment \in Seq(Symbols)
    BY <2>1, <2>2, EncodedIsText
  <2>4. port \in Symbols
    BY <2>1, DefaultPortIs DEF Symbols
  <2>5. Encoded(parts) = [parts EXCEPT !.port = port, !.path = path, !.query = query,
                                       !.fragment = fragment]
    BY Zenon DEF Encoded
  <2> HIDE DEF path, query, fragment, port
  <2>6. Encoded(parts) \in PartsOfUrl
    BY <1>1, <2>3, <2>4, <2>5 DEF PartsOfUrl
  <2>7. QED
    BY <1>3, <2>6, WrittenIs DEF Laid
<1>4. QED
  BY <1>2, <1>3 DEF IInv, TextIsWritten

LEMMA ParsedCredentials ==
  ASSUME NEW s \in Seq(Symbols)
  PROVE  Parsed(s).url.user \in Seq(Symbols) /\ Parsed(s).url.password \in Seq(Symbols)
<1> DEFINE cred == Credential(s, AfterSeparator(s))
           user == UserOf(cred)
           password == PasswordOf(cred)
<1>1. user \in Seq(Symbols) /\ password \in Seq(Symbols)
  BY CredentialIs
<1>2. percentEncode(user, "@") \in Seq(Symbols) /\ percentEncode(password, "@") \in Seq(Symbols)
  <2>1. "@" \in Delimiters
    BY DEF Delimiters
  <2> HIDE DEF user, password
  <2>2. QED
    BY <1>1, <2>1, EncodedIsText
<1>3. /\ Parsed(s).url.user \in {user, percentEncode(user, "@")}
      /\ Parsed(s).url.password \in {password, percentEncode(password, "@")}
  BY DEF Parsed, Nothing
<1>4. QED
  BY <1>1, <1>2, <1>3

-----------------------------------------------------------------------------
LEMMA BytesAre ==
  ASSUME NEW s \in Seq(Symbols)
  PROVE  Bytes(s) \in Seq(0 .. 255) /\ Len(Bytes(s)) = Len(s)
<1> DEFINE b(i) == IF s[i] \in DOMAIN Byte THEN Byte[s[i]] ELSE 119
<1>1. \A i \in 1 .. Len(s) : b(i) \in 0 .. 255
  BY ByteAssumption
<1>2. Bytes(s) = [i \in 1 .. Len(s) |-> b(i)]
  BY Zenon DEF Bytes
<1> HIDE DEF b
<1>3. Len(s) \in Nat
  OBVIOUS
<1>4. QED
  BY <1>1, <1>2, <1>3

LEMMA ByteIs ==
  ASSUME NEW s, NEW i \in 1 .. Len(s)
  PROVE  Bytes(s)[i] = IF s[i] \in DOMAIN Byte THEN Byte[s[i]] ELSE 119
  BY Zenon DEF Bytes

LEMMA BytesJoined ==
  ASSUME NEW u \in Seq(Symbols), NEW p \in Seq(Symbols)
  PROVE  Bytes(u \o <<":">> \o p) = Bytes(u) \o <<58>> \o Bytes(p)
<1> DEFINE s == u \o <<":">> \o p
           x == Bytes(u)
           y == Bytes(p)
           t == x \o <<58>> \o y
           z == Bytes(s)
<1>1. /\ s \in Seq(Symbols) /\ Len(s) = Len(u) + 1 + Len(p)
      /\ \A i \in 1 .. Len(u) : s[i] = u[i]
      /\ s[Len(u) + 1] = ":"
      /\ \A i \in 1 .. Len(p) : s[Len(u) + 1 + i] = p[i]
  <2>1. ":" \in Symbols
    BY DEF Symbols
  <2>2. QED
    BY <2>1, JoinAround
<1>2. /\ x \in Seq(0 .. 255) /\ Len(x) = Len(u)
      /\ y \in Seq(0 .. 255) /\ Len(y) = Len(p)
      /\ z \in Seq(0 .. 255) /\ Len(z) = Len(s)
  <2> HIDE DEF s
  <2>1. QED
    BY <1>1, BytesAre
<1> HIDE DEF s, x, y, z
<1>3. /\ t \in Seq(0 .. 255) /\ Len(t) = Len(x) + 1 + Len(y)
      /\ \A i \in 1 .. Len(x) : t[i] = x[i]
      /\ t[Len(x) + 1] = 58
      /\ \A i \in 1 .. Len(y) : t[Len(x) + 1 + i] = y[i]
  <2>1. 58 \in 0 .. 255
    OBVIOUS
  <2> DEFINE B == 0 .. 255
  <2>2. x \in Seq(B) /\ y \in Seq(B) /\ 58 \in B
    BY <1>2, <2>1
  <2> HIDE DEF B
  <2>3. /\ t \in Seq(B) /\ Len(t) = Len(x) + 1 + Len(y)
        /\ \A i \in 1 .. Len(x) : t[i] = x[i]
        /\ t[Len(x) + 1] = 58
        /\ \A i \in 1 .. Len(y) : t[Len(x) + 1 + i] = y[i]
    BY <2>2, JoinAround
  <2>4. QED
    BY <2>3, Zenon DEF B
<1> HIDE DEF t
<1>4. Len(z) = Len(t)
  BY <1>1, <1>2, <1>3
<1>5. ASSUME NEW i \in 1 .. Len(z) PROVE z[i] = t[i]
  <2>1. CASE i \in 1 .. Len(u)
    <3>1. s[i] = u[i] /\ i \in 1 .. Len(x) /\ i \in 1 .. Len(s)
      BY <1>1, <1>2, <2>1
    <3>2. z[i] = x[i]
      <4>1. z[i] = IF s[i] \in DOMAIN Byte THEN Byte[s[i]] ELSE 119
        BY <3>1, ByteIs DEF z
      <4>2. x[i] = IF u[i] \in DOMAIN Byte THEN Byte[u[i]] ELSE 119
        BY <2>1, ByteIs DEF x
      <4>3. QED
        BY <3>1, <4>1, <4>2
    <3>3. QED
      BY <1>3, <3>1, <3>2, Zenon
  <2>2. CASE i = Len(u) + 1
    <3>1. i \in 1 .. Len(s) /\ s[i] = ":"
      BY <1>1, <1>2, <2>2
    <3>2. z[i] = Byte[":"]
      BY <3>1, ByteIs, ByteAssumption DEF z
    <3>3. QED
      BY <1>2, <1>3, <2>2, <3>2, ByteAssumption
  <2>3. CASE i > Len(u) + 1
    <3> DEFINE j == i - (Len(u) + 1)
    <3>1. j \in 1 .. Len(p) /\ i = Len(u) + 1 + j
      BY <1>1, <1>2, <2>3
    <3> HIDE DEF j
    <3>2. s[i] = p[j] /\ t[i] = y[j]
      BY <1>1, <1>2, <1>3, <3>1
    <3>3. i \in 1 .. Len(s)
      BY <1>2
    <3>4. z[i] = y[j]
      <4>1. z[i] = IF s[i] \in DOMAIN Byte THEN Byte[s[i]] ELSE 119
        BY <3>3, ByteIs DEF z
      <4>2. y[j] = IF p[j] \in DOMAIN Byte THEN Byte[p[j]] ELSE 119
        BY <3>1, ByteIs DEF y
      <4>3. QED
        BY <3>2, <4>1, <4>2
    <3>5. QED
      BY <3>2, <3>4
  <2>4. QED
    BY <1>1, <1>2, <2>1, <2>2, <2>3
<1>6. z = t
  BY <1>2, <1>3, <1>4, <1>5, EqualTexts
<1>7. QED
  BY <1>6 DEF s, t, x, y, z

(* The credentials of any url string are sent as the base64 of the user, ":"  *)
(* and the password that the parser gives (src/src/HttpClient.cpp:170-173,    *)
(* 597-621).                                                                  *)
THEOREM CredentialsSent == Spec => []CredentialsArrive
<1>1. ASSUME IInv, call = "parseUrl", url.user # <<>> \/ url.password # <<>>
      PROVE  IsBase64(Authorization(Bytes(url.user), Bytes(url.password)),
                      Bytes(url.user \o <<":">> \o url.password))
  <2> DEFINE u == url.user
             p == url.password
  <2>1. u \in Seq(Symbols) /\ p \in Seq(Symbols)
    <3>1. url = Parsed(text).url
      BY <1>1, Zenon DEF IInv, UrlIsMade
    <3>2. QED
      BY <1>1, <3>1, TextIs, ParsedCredentials, Zenon
  <2>2. u # <<>> \/ p # <<>>
    BY <1>1
  <2> HIDE DEF u, p
  <2>3. Bytes(u) # <<>> \/ Bytes(p) # <<>>
    BY <2>1, <2>2, BytesAre
  <2>4. Authorization(Bytes(u), Bytes(p)) = base64_encode(Bytes(u \o <<":">> \o p))
    BY <2>1, <2>3, BytesJoined, Zenon DEF Authorization
  <2>5. Bytes(u \o <<":">> \o p) \in Seq(0 .. 255)
    <3>1. ":" \in Symbols
      BY DEF Symbols
    <3>2. u \o <<":">> \o p \in Seq(Symbols)
      BY <2>1, <3>1
    <3>3. QED
      BY <3>2, BytesAre, Zenon
  <2>6. IsBase64(base64_encode(Bytes(u \o <<":">> \o p)), Bytes(u \o <<":">> \o p))
    BY <2>5, EncodesBase64, Zenon
  <2>7. QED
    BY <2>4, <2>6, Zenon DEF u, p
<1>2. IInv => CredentialsArrive
  BY <1>1, Zenon DEF CredentialsArrive
<1>3. QED
  BY <1>2, AlwaysWritten, PTL

=============================================================================
