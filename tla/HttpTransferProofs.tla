-------------------------- MODULE HttpTransferProofs --------------------------
(***************************************************************************)
(* Proofs about HttpTransfer, for every set of responses, every buffer     *)
(* size and both platforms, and whether or not realloc fails.              *)
(***************************************************************************)
EXTENDS HttpResponses, HttpTextProofs, FiniteSetTheorems, TLAPS

-----------------------------------------------------------------------------
(* Texts put together of parts.                                             *)

\* Lines none of which is empty.
Lines(text) == \A i \in 1 .. Len(text) : text[i] = "\n" => i < Len(text) /\ text[i + 1] # "\r"

(* Nor are any in two such texts, one after the other.                      *)
LEMMA LinesJoin ==
  ASSUME NEW x \in Seq(Symbol), NEW y \in Seq(Symbol), Lines(x), Lines(y)
  PROVE  Lines(x \o y)
<1>1. /\ Len(x \o y) = Len(x) + Len(y) /\ Len(x) \in Nat /\ Len(y) \in Nat
      /\ \A i \in 1 .. Len(x) : (x \o y)[i] = x[i]
      /\ \A i \in 1 .. Len(y) : (x \o y)[Len(x) + i] = y[i]
  BY JoinIs
<1> DEFINE z == x \o y
<1> HIDE DEF z
<1>2. ASSUME NEW i \in 1 .. Len(z), z[i] = "\n" PROVE i < Len(z) /\ z[i + 1] # "\r"
  <2>1. CASE i \in 1 .. Len(x)
    <3>1. x[i] = "\n"
      BY <1>1, <1>2, <2>1 DEF z
    <3>2. i < Len(x) /\ x[i + 1] # "\r"
      BY <2>1, <3>1 DEF Lines
    <3>3. i + 1 \in 1 .. Len(x)
      BY <1>1, <2>1, <3>2
    <3>4. QED
      BY <1>1, <2>1, <3>2, <3>3 DEF z
  <2>2. CASE i \notin 1 .. Len(x)
    <3> DEFINE j == i - Len(x)
    <3>1. j \in 1 .. Len(y) /\ i = Len(x) + j
      BY <1>1, <1>2, <2>2 DEF z
    <3> HIDE DEF j
    <3>2. y[j] = "\n"
      BY <1>1, <1>2, <3>1 DEF z
    <3>3. j < Len(y) /\ y[j + 1] # "\r"
      BY <3>1, <3>2 DEF Lines
    <3>4. j + 1 \in 1 .. Len(y) /\ i + 1 = Len(x) + (j + 1) /\ i < Len(x) + Len(y)
      BY <1>1, <3>1, <3>3
    <3>5. QED
      BY <1>1, <3>3, <3>4 DEF z
  <2>3. QED
    BY <2>1, <2>2
<1>3. QED
  BY <1>2 DEF z, Lines

(* What two texts lack, they lack together.                                 *)
LEMMA WithoutJoin ==
  ASSUME NEW x \in Seq(Symbol), NEW y \in Seq(Symbol), NEW symbols,
         Without(x, symbols), Without(y, symbols)
  PROVE  Without(x \o y, symbols)
<1>1. /\ Len(x \o y) = Len(x) + Len(y) /\ Len(x) \in Nat /\ Len(y) \in Nat
      /\ \A i \in 1 .. Len(x) : (x \o y)[i] = x[i]
      /\ \A i \in 1 .. Len(y) : (x \o y)[Len(x) + i] = y[i]
  BY JoinIs
<1> DEFINE z == x \o y
<1> HIDE DEF z
<1>2. ASSUME NEW i \in 1 .. Len(z) PROVE z[i] \notin symbols
  <2>1. CASE i \in 1 .. Len(x)
    BY <1>1, <2>1 DEF z, Without
  <2>2. CASE i \notin 1 .. Len(x)
    <3> DEFINE j == i - Len(x)
    <3>1. j \in 1 .. Len(y) /\ i = Len(x) + j
      BY <1>1, <1>2, <2>2 DEF z
    <3> HIDE DEF j
    <3>2. QED
      BY <1>1, <3>1 DEF z, Without
  <2>3. QED
    BY <2>1, <2>2
<1>3. QED
  BY <1>2 DEF z, Without

\* Symbols that are digits or spaces are none of the others.
LEMMA DigitSymbols ==
  /\ \A d \in DOMAIN DecDigit \cup {Space} :
       d \notin {"\r", "\n", Version10, Version11, LengthField, ChunkedField}
  /\ \A d \in DOMAIN HexDigit \cup {Space} :
       d \notin {"\r", "\n", Version10, Version11, LengthField, ChunkedField}
  /\ "0" \in DOMAIN DecDigit /\ DecDigit["0"] = 0
<1>1. /\ DOMAIN DecDigit = {"0", "1", "2", "3", "4", "5", "6", "7", "8", "9"}
      /\ DOMAIN HexDigit = DOMAIN DecDigit \cup {"a", "b", "c", "d", "e", "f", "A", "B", "C", "D", "E", "F"}
  BY DEF DecDigit, HexDigit
<1>2. \A x \in {Version10, Version11, LengthField, ChunkedField} :
        x \notin {"0", "1", "2", "3", "4", "5", "6", "7", "8", "9",
                  "a", "b", "c", "d", "e", "f", "A", "B", "C", "D", "E", "F"}
  BY Zenon DEF Version10, Version11, LengthField, ChunkedField
<1>3. \A d \in DOMAIN HexDigit \cup {Space} :
        d \notin {"\r", "\n", Version10, Version11, LengthField, ChunkedField}
  <2>1. ASSUME NEW d \in DOMAIN HexDigit
        PROVE  d \notin {"\r", "\n", Version10, Version11, LengthField, ChunkedField}
    BY <1>1, <1>2
  <2>2. QED
    BY <2>1, DifferentSymbols
<1>4. DecDigit["0"] = 0
  <2> DEFINE q == <<"0", "1", "2", "3", "4", "5", "6", "7", "8", "9">>
  <2>1. /\ q[0 + 1] = "0"
        /\ \A n \in 1 .. 9 : q[n + 1] # "0"
    <3>1. /\ q[1 + 1] = "1" /\ q[2 + 1] = "2" /\ q[3 + 1] = "3" /\ q[4 + 1] = "4"
          /\ q[5 + 1] = "5" /\ q[6 + 1] = "6" /\ q[7 + 1] = "7" /\ q[8 + 1] = "8" /\ q[9 + 1] = "9"
      OBVIOUS
    <3>2. \A n \in 1 .. 9 : n = 1 \/ n = 2 \/ n = 3 \/ n = 4 \/ n = 5 \/ n = 6 \/ n = 7 \/ n = 8 \/ n = 9
      OBVIOUS
    <3>3. q[0 + 1] = "0"
      OBVIOUS
    <3> HIDE DEF q
    <3>4. QED
      BY <3>1, <3>2, <3>3
  <2>2. DecDigit["0"] = CHOOSE n \in 0 .. 9 : q[n + 1] = "0"
    BY DEF DecDigit
  <2> HIDE DEF q
  <2>3. \A n \in 0 .. 9 : q[n + 1] = "0" <=> n = 0
    BY <2>1
  <2>4. QED
    BY <2>2, <2>3
<1>5. "0" \in DOMAIN DecDigit
  BY <1>1
<1>6. \A d \in DOMAIN DecDigit \cup {Space} :
        d \notin {"\r", "\n", Version10, Version11, LengthField, ChunkedField}
  <2>1. DOMAIN DecDigit \subseteq DOMAIN HexDigit
    BY <1>1, Zenon
  <2>2. QED
    BY <1>3, <2>1, Zenon
<1>7. QED
  BY <1>3, <1>4, <1>5, <1>6, Zenon

-----------------------------------------------------------------------------
(* The parts of a response that a grammatical script makes.                 *)

(* The parts of a script are texts ...                                      *)
LEMMA ScriptSymbols ==
  ASSUME NEW s, Grammatical(s)
  PROVE  /\ s.version \in Symbol
         /\ s.status \in Seq(Symbol) /\ s.before \in Seq(Symbol) /\ s.after \in Seq(Symbol)
         /\ s.size \in Seq(Symbol) /\ s.body \in Seq(Symbol)
<1>1. STRING \subseteq Symbol
  BY Zenon DEF Symbol
<1>2. \A t \in Seq(STRING) : t \in Seq(Symbol)
  BY <1>1, MoreSymbols
<1>3. {s.status, s.before, s.after, s.size, s.body} \subseteq Seq(STRING)
  BY Zenon DEF Grammatical
<1>4. s.version \in {Version10, Version11}
  BY Zenon DEF Grammatical
<1>5. s.version \in Symbol
  BY <1>4, NamedSymbols
<1>6. QED
  BY <1>2, <1>3, <1>5, Zenon

(* ... and so are those of its chunks ...                                   *)
LEMMA ChunkSymbols ==
  ASSUME NEW s, Grammatical(s)
  PROVE  /\ Len(s.chunks) \in Nat
         /\ \A i \in 1 .. Len(s.chunks) :
              s.chunks[i].size \in Seq(Symbol) /\ s.chunks[i].data \in Seq(Symbol)
<1>1. STRING \subseteq Symbol
  BY Zenon DEF Symbol
<1>2. \A t \in Seq(STRING) : t \in Seq(Symbol)
  BY <1>1, MoreSymbols
<1>3. s.chunks \in Seq([size : Seq(STRING), data : Seq(STRING)])
  BY Zenon DEF Grammatical
<1>4. \A i \in 1 .. Len(s.chunks) : s.chunks[i] \in [size : Seq(STRING), data : Seq(STRING)]
  <2> DEFINE A == [size : Seq(STRING), data : Seq(STRING)]
  <2>1. s.chunks \in Seq(A)
    BY <1>3
  <2> HIDE DEF A
  <2>2. \A i \in 1 .. Len(s.chunks) : s.chunks[i] \in A
    BY <2>1, ItsSymbols
  <2>3. QED
    BY <2>2 DEF A
<1>5. \A i \in 1 .. Len(s.chunks) :
        s.chunks[i].size \in Seq(STRING) /\ s.chunks[i].data \in Seq(STRING)
  BY <1>4, Zenon
<1>6. Len(s.chunks) \in Nat
  BY <1>3
<1>7. QED
  BY <1>2, <1>5, <1>6, Zenon

(* ... the line that frames the content ...                                 *)
LEMMA FramingSymbols ==
  ASSUME NEW s, Grammatical(s)
  PROVE  /\ FramingLine(s) \in Seq(Symbol)
         /\ s.frame = "length" => FramingLine(s) = CRLF \o <<LengthField>> \o s.size
         /\ s.frame = "chunks" => FramingLine(s) = CRLF \o <<ChunkedField>>
         /\ s.frame = "close" => FramingLine(s) = <<>>
         /\ s.frame \in {"length", "chunks", "close"}
<1>1. s.frame \in {"length", "chunks", "close"}
  BY Zenon DEF Grammatical
<1>2. /\ CRLF \o <<LengthField>> \in Seq(Symbol) /\ CRLF \o <<ChunkedField>> \in Seq(Symbol)
  BY LineEndIs, NamedSymbols, OneSymbol, JoinIs
<1>3. CASE s.frame = "length"
  <2>1. FramingLine(s) = CRLF \o <<LengthField>> \o s.size
    BY <1>3 DEF FramingLine
  <2>2. CRLF \o <<LengthField>> \o s.size \in Seq(Symbol)
    BY <1>2, ScriptSymbols, JoinIs
  <2>3. QED
    BY <1>3, <2>1, <2>2
<1>4. CASE s.frame = "chunks"
  <2>1. FramingLine(s) = CRLF \o <<ChunkedField>>
    BY <1>4 DEF FramingLine
  <2>2. QED
    BY <1>2, <1>4, <2>1
<1>5. CASE s.frame = "close"
  <2>1. FramingLine(s) = <<>>
    BY <1>5 DEF FramingLine
  <2>2. QED
    BY <1>5, <2>1
<1>6. QED
  BY <1>1, <1>3, <1>4, <1>5

(* ... the line that a content quotes ...                                   *)
LEMMA QuotationSymbols ==
  ASSUME NEW s, Grammatical(s)
  PROVE  /\ Quotation(s) \in Seq(Symbol) /\ Page(s) \in Seq(Symbol)
         /\ s.quotes = "length" => Quotation(s) = CRLF \o <<LengthField, Space, "0">>
         /\ s.quotes = "chunked" => Quotation(s) = CRLF \o <<ChunkedField>>
         /\ s.quotes = "nothing" => Quotation(s) = <<>>
         /\ s.quotes \in {"nothing", "length", "chunked"}
<1>1. s.quotes \in {"nothing", "length", "chunked"}
  BY Zenon DEF Grammatical
<1>2. <<LengthField, Space, "0">> \in Seq(Symbol)
  BY NamedSymbols
<1>3. CRLF \o <<LengthField, Space, "0">> \in Seq(Symbol) /\ CRLF \o <<ChunkedField>> \in Seq(Symbol)
  BY <1>2, LineEndIs, NamedSymbols, OneSymbol, JoinIs
<1>4. s.quotes = "length" => Quotation(s) = CRLF \o <<LengthField, Space, "0">>
  BY DEF Quotation
<1>5. s.quotes = "chunked" => Quotation(s) = CRLF \o <<ChunkedField>>
  BY DEF Quotation
<1>6. s.quotes = "nothing" => Quotation(s) = <<>>
  BY DEF Quotation
<1>7. <<>> \in Seq(Symbol)
  OBVIOUS
<1>8. Quotation(s) \in Seq(Symbol)
  BY <1>1, <1>3, <1>4, <1>5, <1>6, <1>7
<1>9. Page(s) \in Seq(Symbol)
  BY <1>8, ScriptSymbols, JoinIs DEF Page
<1>10. QED
  BY <1>1, <1>4, <1>5, <1>6, <1>8, <1>9

(* ... and the start, with version and status at its beginning.             *)
LEMMA StartIs ==
  ASSUME NEW s, Grammatical(s)
  PROVE  /\ Start(s) \in Seq(Symbol) /\ Len(Start(s)) = 4 + Len(s.before)
         /\ Start(s)[1] = s.version
         /\ \A i \in 1 .. 3 : Start(s)[1 + i] = s.status[i]
         /\ \A i \in 1 .. Len(s.before) : Start(s)[4 + i] = s.before[i]
<1> DEFINE v == <<s.version>>
           x == v \o s.status
<1>1. v \in Seq(Symbol) /\ Len(v) = 1 /\ v[1] = s.version
  BY ScriptSymbols
<1>2. Len(s.status) = 3
  BY Zenon DEF Grammatical
<1> HIDE DEF v
<1>3. /\ x \in Seq(Symbol) /\ Len(x) = 4 /\ x[1] = s.version
      /\ \A i \in 1 .. 3 : x[1 + i] = s.status[i]
  <2>1. v \in Seq(Symbol) /\ s.status \in Seq(Symbol)
    BY <1>1, ScriptSymbols
  <2>2. /\ x \in Seq(Symbol) /\ Len(x) = Len(v) + Len(s.status)
        /\ \A i \in 1 .. Len(v) : x[i] = v[i]
        /\ \A i \in 1 .. Len(s.status) : x[Len(v) + i] = s.status[i]
    BY <2>1, JoinIs
  <2> HIDE DEF x
  <2>3. QED
    BY <1>1, <1>2, <2>2
<1> HIDE DEF x
<1>4. /\ x \o s.before \in Seq(Symbol) /\ Len(x \o s.before) = Len(x) + Len(s.before)
      /\ \A i \in 1 .. Len(x) : (x \o s.before)[i] = x[i]
      /\ \A i \in 1 .. Len(s.before) : (x \o s.before)[Len(x) + i] = s.before[i]
  <2>1. s.before \in Seq(Symbol)
    BY ScriptSymbols
  <2>2. x \in Seq(Symbol)
    BY <1>3
  <2>3. QED
    BY <2>1, <2>2, JoinIs
<1>5. Start(s) = x \o s.before
  BY DEF Start, x, v
<1> DEFINE z == x \o s.before
<1> HIDE DEF z
<1>6. QED
  BY <1>3, <1>4, <1>5 DEF z

\* A line that begins with the name of a field.
LEMMA FieldIs ==
  ASSUME NEW field \in Symbol
  PROVE  /\ CRLF \o <<field>> \in Seq(Symbol) /\ Len(CRLF \o <<field>>) = 3
         /\ (CRLF \o <<field>>)[1] = "\r" /\ (CRLF \o <<field>>)[2] = "\n"
         /\ (CRLF \o <<field>>)[3] = field
<1> DEFINE y == <<field>>
           z == CRLF \o y
<1>1. y \in Seq(Symbol) /\ Len(y) = 1 /\ y[1] = field
  OBVIOUS
<1>2. CRLF \in Seq(Symbol) /\ Len(CRLF) = 2 /\ CRLF[1] = "\r" /\ CRLF[2] = "\n"
  BY LineEndIs
<1> HIDE DEF y
<1>3. /\ z \in Seq(Symbol) /\ Len(z) = Len(CRLF) + Len(y)
      /\ \A i \in 1 .. Len(CRLF) : z[i] = CRLF[i]
      /\ \A i \in 1 .. Len(y) : z[Len(CRLF) + i] = y[i]
  <2>1. y \in Seq(Symbol) /\ CRLF \in Seq(Symbol)
    BY <1>1, <1>2
  <2>2. QED
    BY <2>1, JoinIs
<1> HIDE DEF z
<1>4. /\ z \in Seq(Symbol) /\ Len(z) = 3 /\ z[1] = "\r" /\ z[2] = "\n" /\ z[3] = field
  BY <1>1, <1>2, <1>3
<1>5. QED
  BY <1>4 DEF z, y

(* A numeral consists of digits and spaces.                                 *)
LEMMA NumeralSymbols ==
  ASSUME NEW digits, NEW base, NEW n, NEW size \in Seq(Symbol), Numeral(size, digits, base, n)
  PROVE  \A i \in 1 .. Len(size) : size[i] \in DOMAIN digits \cup {Space}
<1>1. PICK k \in 0 .. Len(size) - 1 :
        /\ \A i \in 1 .. k : size[i] = Space
        /\ \A i \in k + 1 .. Len(size) : size[i] \in DOMAIN digits
  BY DEF Numeral
<1>2. \A i \in 1 .. Len(size) : i \in 1 .. k \/ i \in k + 1 .. Len(size)
  OBVIOUS
<1>3. QED
  BY <1>1, <1>2

(* So does the announced length.                                            *)
LEMMA LengthNumeral ==
  ASSUME NEW s, Grammatical(s), s.frame = "length"
  PROVE  /\ Numeral(s.size, DecDigit, 10, Len(Page(s)))
         /\ \A i \in 1 .. Len(s.size) : s.size[i] \in DOMAIN DecDigit \cup {Space}
<1>1. Numeral(s.size, DecDigit, 10, Len(Page(s)))
  BY Zenon DEF Grammatical, FramedBySize
<1>2. s.size \in Seq(Symbol)
  BY ScriptSymbols
<1>3. \A i \in 1 .. Len(s.size) : s.size[i] \in DOMAIN DecDigit \cup {Space}
  BY <1>1, <1>2, NumeralSymbols
<1>4. QED
  BY <1>1, <1>3

\* The header: where its parts are, and that no empty line is among them.
LEMMA HeaderIs ==
  ASSUME NEW s, Grammatical(s)
  PROVE  LET a == Len(Start(s))
             b == Len(FramingLine(s))
         IN /\ Header(s) \in Seq(Symbol) /\ Len(Header(s)) = a + b + Len(s.after)
            /\ \A i \in 1 .. a : Header(s)[i] = Start(s)[i]
            /\ \A i \in 1 .. b : Header(s)[a + i] = FramingLine(s)[i]
            /\ \A i \in 1 .. Len(s.after) : Header(s)[a + b + i] = s.after[i]
<1> DEFINE x == Start(s)
           y == FramingLine(s)
           u == x \o y
           z == u \o s.after
<1>1. x \in Seq(Symbol) /\ y \in Seq(Symbol) /\ s.after \in Seq(Symbol)
  BY StartIs, FramingSymbols, ScriptSymbols
<1>2. /\ u \in Seq(Symbol) /\ Len(u) = Len(x) + Len(y)
      /\ \A i \in 1 .. Len(x) : u[i] = x[i]
      /\ \A i \in 1 .. Len(y) : u[Len(x) + i] = y[i]
  BY <1>1, JoinIs
<1>3. Len(x) \in Nat /\ Len(y) \in Nat
  BY <1>1
<1> HIDE DEF u
<1>4. /\ z \in Seq(Symbol) /\ Len(z) = Len(u) + Len(s.after)
      /\ \A i \in 1 .. Len(u) : z[i] = u[i]
      /\ \A i \in 1 .. Len(s.after) : z[Len(u) + i] = s.after[i]
  <2>1. u \in Seq(Symbol)
    BY <1>2
  <2>2. QED
    BY <1>1, <2>1, JoinIs
<1>5. Header(s) = z
  BY DEF Header, z, u
<1> HIDE DEF x, y, z
<1>6. (\A i \in 1 .. Len(x) : i \in 1 .. Len(u)) /\ (\A i \in 1 .. Len(y) : Len(x) + i \in 1 .. Len(u))
  BY <1>2, <1>3
<1>7. /\ \A i \in 1 .. Len(x) : z[i] = x[i]
      /\ \A i \in 1 .. Len(y) : z[Len(x) + i] = y[i]
  BY <1>2, <1>4, <1>6
<1>8. QED
  BY <1>2, <1>4, <1>5, <1>7 DEF x, y

(* No line of the start is empty, and none frames the content ...           *)
LEMMA StartLines ==
  ASSUME NEW s, Grammatical(s)
  PROVE  Lines(Start(s)) /\ Without(Start(s), {LengthField, ChunkedField})
<1> DEFINE x == Start(s)
           m == Len(s.before)
<1>1. /\ x \in Seq(Symbol) /\ Len(x) = 4 + m /\ x[1] = s.version
      /\ \A i \in 1 .. 3 : x[1 + i] = s.status[i]
      /\ \A i \in 1 .. m : x[4 + i] = s.before[i]
  BY StartIs
<1>2. m \in Nat
  BY ScriptSymbols
<1>3. x[1] \notin {"\n", LengthField, ChunkedField}
  <2>1. s.version \in {Version10, Version11}
    BY Zenon DEF Grammatical
  <2>2. Version10 \notin {LengthField, ChunkedField} /\ Version11 \notin {LengthField, ChunkedField}
    BY Zenon DEF Version10, Version11, LengthField, ChunkedField
  <2>3. QED
    BY <1>1, <2>1, <2>2, DifferentSymbols
<1>4. \A i \in 1 .. 3 : x[1 + i] \notin {"\n", LengthField, ChunkedField}
  <2>1. \A i \in 1 .. 3 : s.status[i] \in DOMAIN DecDigit
    BY Zenon DEF Grammatical
  <2>2. QED
    BY <1>1, <2>1, DigitSymbols
<1>5. \A i \in 1 .. m : s.before[i] \notin {LengthField, ChunkedField}
  BY Zenon DEF Grammatical, OtherLines, Without
<1>6. \A i \in 1 .. m : s.before[i] = "\n" => i < m /\ s.before[i + 1] # "\r"
  BY Zenon DEF Grammatical, OtherLines
<1> HIDE DEF x, m
<1>7. \A i \in 1 .. 4 + m : i = 1 \/ (i - 1 \in 1 .. 3 /\ i = 1 + (i - 1)) \/ (i - 4 \in 1 .. m /\ i = 4 + (i - 4))
  BY <1>2
<1>8. \A i \in 1 .. 4 + m : x[i] \notin {LengthField, ChunkedField}
  BY <1>1, <1>3, <1>4, <1>5, <1>7
<1>9. ASSUME NEW i \in 1 .. 4 + m, x[i] = "\n" PROVE i < 4 + m /\ x[i + 1] # "\r"
  <2>1. i # 1 /\ i - 1 \notin 1 .. 3
    BY <1>3, <1>4, <1>9
  <2>2. i - 4 \in 1 .. m /\ i = 4 + (i - 4)
    BY <1>7, <2>1
  <2>3. s.before[i - 4] = "\n"
    BY <1>1, <1>9, <2>2
  <2>4. i - 4 < m /\ s.before[(i - 4) + 1] # "\r"
    BY <1>6, <2>2, <2>3
  <2>5. (i - 4) + 1 \in 1 .. m /\ i + 1 = 4 + ((i - 4) + 1) /\ i < 4 + m
    BY <1>2, <2>2, <2>4
  <2>6. x[i + 1] = s.before[(i - 4) + 1]
    BY <1>1, <2>5
  <2>7. QED
    BY <2>4, <2>5, <2>6
<1>10. QED
  BY <1>1, <1>8, <1>9 DEF Lines, Without, x

(* ... nor is the framing line empty, and it is of its own kind ...         *)
LEMMA FramingLines ==
  ASSUME NEW s, Grammatical(s)
  PROVE  /\ Lines(FramingLine(s))
         /\ s.frame # "chunks" => Without(FramingLine(s), {ChunkedField})
         /\ s.frame # "length" => Without(FramingLine(s), {LengthField})
<1>1. s.frame \in {"length", "chunks", "close"}
  BY FramingSymbols
<1>2. ASSUME NEW field \in {LengthField, ChunkedField}
      PROVE  /\ Lines(CRLF \o <<field>>)
             /\ \A other \in {LengthField, ChunkedField} : other # field => Without(CRLF \o <<field>>, {other})
  <2> DEFINE z == CRLF \o <<field>>
  <2>1. Len(z) = 3 /\ z[1] = "\r" /\ z[2] = "\n" /\ z[3] = field
    BY NamedSymbols, FieldIs
  <2>2. "\r" # "\n" /\ field \notin {"\r", "\n"}
    BY DifferentSymbols
  <2> HIDE DEF z
  <2>3. \A i \in 1 .. 3 : i = 1 \/ i = 2 \/ i = 3
    OBVIOUS
  <2>4. Lines(z)
    BY <2>1, <2>2, <2>3 DEF Lines
  <2>5. \A other \in {LengthField, ChunkedField} : other # field => Without(z, {other})
    BY <2>1, <2>3, DifferentSymbols DEF Without
  <2>6. QED
    BY <2>4, <2>5 DEF z
<1>3. CASE s.frame = "length"
  <2> DEFINE z == CRLF \o <<LengthField>>
  <2>1. FramingLine(s) = z \o s.size
    BY <1>3, FramingSymbols
  <2>2. Lines(z) /\ Without(z, {ChunkedField})
    BY <1>2, DifferentSymbols
  <2>3. \A i \in 1 .. Len(s.size) : s.size[i] \notin {"\n", ChunkedField}
    BY <1>3, LengthNumeral, DigitSymbols
  <2>4. Lines(s.size) /\ Without(s.size, {ChunkedField})
    BY <2>3 DEF Lines, Without
  <2>5. z \in Seq(Symbol) /\ s.size \in Seq(Symbol)
    BY NamedSymbols, FieldIs, ScriptSymbols
  <2> HIDE DEF z
  <2>6. Lines(z \o s.size)
    BY <2>2, <2>4, <2>5, LinesJoin
  <2>7. Without(z \o s.size, {ChunkedField})
    BY <2>2, <2>4, <2>5, WithoutJoin
  <2>8. QED
    BY <1>3, <2>1, <2>6, <2>7
<1>4. CASE s.frame = "chunks"
  <2>1. FramingLine(s) = CRLF \o <<ChunkedField>>
    BY <1>4, FramingSymbols
  <2>2. QED
    BY <1>2, <1>4, <2>1, DifferentSymbols
<1>5. CASE s.frame = "close"
  <2>1. FramingLine(s) = <<>>
    BY <1>5, FramingSymbols
  <2>2. QED
    BY <2>1 DEF Lines, Without
<1>6. QED
  BY <1>1, <1>3, <1>4, <1>5

(* ... so that this holds of the header.                                    *)
LEMMA HeaderLines ==
  ASSUME NEW s, Grammatical(s)
  PROVE  /\ Lines(Header(s))
         /\ s.frame # "chunks" => Without(Header(s), {ChunkedField})
         /\ s.frame # "length" => Without(Header(s), {LengthField})
<1> DEFINE x == Start(s)
           y == FramingLine(s)
           u == x \o y
<1>1. x \in Seq(Symbol) /\ y \in Seq(Symbol) /\ s.after \in Seq(Symbol)
  BY StartIs, FramingSymbols, ScriptSymbols
<1>2. Without(s.after, {LengthField, ChunkedField}) /\ Lines(s.after)
  BY Zenon DEF Grammatical, OtherLines, Lines
<1>3. \A t : Without(t, {LengthField, ChunkedField}) => Without(t, {LengthField}) /\ Without(t, {ChunkedField})
  BY DEF Without
<1>4. Lines(x) /\ Without(x, {LengthField}) /\ Without(x, {ChunkedField})
  BY <1>3, StartLines
<1>5. Lines(y) /\ (s.frame # "chunks" => Without(y, {ChunkedField})) /\ (s.frame # "length" => Without(y, {LengthField}))
  BY FramingLines
<1>6. Header(s) = u \o s.after
  BY DEF Header
<1> HIDE DEF x, y
<1>7. u \in Seq(Symbol)
  BY <1>1, JoinIs
<1>8. Lines(u)
  BY <1>1, <1>4, <1>5, LinesJoin
<1>9. (s.frame # "chunks" => Without(u, {ChunkedField})) /\ (s.frame # "length" => Without(u, {LengthField}))
  BY <1>1, <1>4, <1>5, WithoutJoin
<1> HIDE DEF u
<1>10. Lines(u \o s.after)
  BY <1>1, <1>2, <1>7, <1>8, LinesJoin
<1>11. /\ s.frame # "chunks" => Without(u \o s.after, {ChunkedField})
       /\ s.frame # "length" => Without(u \o s.after, {LengthField})
  BY <1>1, <1>2, <1>3, <1>7, <1>9, WithoutJoin
<1>12. QED
  BY <1>6, <1>10, <1>11

-----------------------------------------------------------------------------
(* The body and the whole text.                                             *)

(* The texts of the chunks.                                                 *)
LEMMA ChunkTextsAre ==
  ASSUME NEW s, Grammatical(s)
  PROVE  /\ ChunkTexts(s) \in Seq(Seq(Symbol)) /\ Len(ChunkTexts(s)) = Len(s.chunks)
         /\ \A i \in 1 .. Len(s.chunks) :
              ChunkTexts(s)[i] = ChunkText(s.chunks[i].size, s.chunks[i].data)
<1>1. Len(s.chunks) \in Nat
  BY ChunkSymbols
<1>2. \A i \in 1 .. Len(s.chunks) : ChunkText(s.chunks[i].size, s.chunks[i].data) \in Seq(Symbol)
  BY ChunkSymbols, ChunkTextIs
<1>3. ChunkTexts(s) = [i \in 1 .. Len(s.chunks) |-> ChunkText(s.chunks[i].size, s.chunks[i].data)]
  BY DEF ChunkTexts, ChunkText
<1> DEFINE A == Seq(Symbol)
           f == [i \in 1 .. Len(s.chunks) |-> ChunkText(s.chunks[i].size, s.chunks[i].data)]
           n == Len(s.chunks)
<1>4. f \in Seq(A) /\ Len(f) = n
  <2>1. \A i \in 1 .. n : f[i] \in A
    BY <1>2
  <2>2. DOMAIN f = 1 .. n
    OBVIOUS
  <2>3. f = [i \in 1 .. n |-> f[i]]
    OBVIOUS
  <2> HIDE DEF f, A
  <2>4. f \in [1 .. n -> A]
    BY <2>1, <2>3
  <2>5. QED
    BY <1>1, <2>2, <2>4
<1>5. QED
  BY <1>3, <1>4

(* The body is a text.                                                      *)
LEMMA BodySymbols ==
  ASSUME NEW s, Grammatical(s)
  PROVE  Body(s) \in Seq(Symbol)
<1>1. FlattenSeq(ChunkTexts(s)) \in Seq(Symbol)
  <2>1. ChunkTexts(s) \in Seq(Seq(Symbol))
    BY ChunkTextsAre
  <2>2. CASE ChunkTexts(s) = <<>>
    <3>1. FlattenSeq(ChunkTexts(s)) = <<>>
      BY <2>2, FlattenNothing
    <3>2. QED
      BY <3>1
  <2>3. CASE ChunkTexts(s) # <<>>
    BY <2>1, <2>3, Flattened
  <2>4. QED
    BY <2>2, <2>3
<1>2. s.size \in Seq(Symbol) /\ s.body \in Seq(Symbol) /\ Page(s) \in Seq(Symbol)
  BY ScriptSymbols, QuotationSymbols
<1>3. FlattenSeq(ChunkTexts(s)) \o s.size \in Seq(Symbol)
  BY <1>1, <1>2, JoinIs
<1>4. FlattenSeq(ChunkTexts(s)) \o s.size \o CRLF \in Seq(Symbol)
  BY <1>3, LineIs
<1>5. FlattenSeq(ChunkTexts(s)) \o s.size \o CRLF \o s.body \in Seq(Symbol)
  BY <1>2, <1>4, JoinIs
<1>6. QED
  BY <1>2, <1>5 DEF Body

\* The text of a response.
Written(s) == Header(s) \o CRLF \o CRLF \o Body(s)

(* It consists of the header, an empty line and the body.                   *)
LEMMA WrittenIs ==
  ASSUME NEW s, Grammatical(s)
  PROVE  LET t == Written(s)
             h == Len(Header(s))
         IN /\ t \in Seq(Symbol) /\ Len(t) = h + 4 + Len(Body(s))
            /\ \A i \in 1 .. h : t[i] = Header(s)[i]
            /\ t[h + 1] = "\r" /\ t[h + 2] = "\n" /\ t[h + 3] = "\r" /\ t[h + 4] = "\n"
            /\ \A i \in 1 .. Len(Body(s)) : t[h + 4 + i] = Body(s)[i]
<1> DEFINE x == Header(s)
           y == Body(s)
           u == x \o CRLF
           v == u \o CRLF
           t == v \o y
           h == Len(x)
<1>1. x \in Seq(Symbol) /\ y \in Seq(Symbol)
  BY HeaderIs, BodySymbols
<1>2. h \in Nat
  BY <1>1
<1> HIDE DEF x, y
<1>3. /\ u \in Seq(Symbol) /\ Len(u) = h + 2
      /\ \A i \in 1 .. h : u[i] = x[i]
      /\ u[h + 1] = "\r" /\ u[h + 2] = "\n"
  BY <1>1, LineIs
<1> HIDE DEF u
<1>4. /\ v \in Seq(Symbol) /\ Len(v) = Len(u) + 2
      /\ \A i \in 1 .. Len(u) : v[i] = u[i]
      /\ v[Len(u) + 1] = "\r" /\ v[Len(u) + 2] = "\n"
  <2>1. u \in Seq(Symbol)
    BY <1>3
  <2>2. QED
    BY <2>1, LineIs
<1> HIDE DEF v, h
<1>5. /\ v \in Seq(Symbol) /\ Len(v) = h + 4
      /\ \A i \in 1 .. h : v[i] = x[i]
      /\ v[h + 1] = "\r" /\ v[h + 2] = "\n" /\ v[h + 3] = "\r" /\ v[h + 4] = "\n"
  <2>1. h + 1 \in 1 .. Len(u) /\ h + 2 \in 1 .. Len(u) /\ \A i \in 1 .. h : i \in 1 .. Len(u)
    BY <1>2, <1>3
  <2>2. v[h + 3] = "\r" /\ v[h + 4] = "\n"
    BY <1>2, <1>3, <1>4
  <2>3. QED
    BY <1>2, <1>3, <1>4, <2>1, <2>2
<1>6. /\ t \in Seq(Symbol) /\ Len(t) = Len(v) + Len(y)
      /\ \A i \in 1 .. Len(v) : t[i] = v[i]
      /\ \A i \in 1 .. Len(y) : t[Len(v) + i] = y[i]
  <2>1. v \in Seq(Symbol)
    BY <1>5
  <2>2. QED
    BY <1>1, <2>1, JoinIs
<1>7. t = Written(s)
  BY DEF Written, t, v, u, x, y
<1> HIDE DEF t
<1>8. /\ Len(t) = h + 4 + Len(y)
      /\ \A i \in 1 .. h : t[i] = x[i]
      /\ t[h + 1] = "\r" /\ t[h + 2] = "\n" /\ t[h + 3] = "\r" /\ t[h + 4] = "\n"
      /\ \A i \in 1 .. Len(y) : t[h + 4 + i] = y[i]
  <2>1. /\ h + 1 \in 1 .. Len(v) /\ h + 2 \in 1 .. Len(v) /\ h + 3 \in 1 .. Len(v) /\ h + 4 \in 1 .. Len(v)
        /\ \A i \in 1 .. h : i \in 1 .. Len(v)
    BY <1>2, <1>5
  <2>2. QED
    BY <1>5, <1>6, <2>1
<1>9. QED
  BY <1>6, <1>7, <1>8 DEF h, x, y

-----------------------------------------------------------------------------
(* What is found in the part of a text that has been received.              *)

(* A cut text holds what lies before the cut.                               *)
LEMMA CutHolds ==
  ASSUME NEW A, NEW text \in Seq(A), NEW needle \in Seq(A), NEW n \in 0 .. Len(text), NEW m \in Nat
  PROVE  Holds(Upto(text, n), m, needle) <=> Holds(text, m, needle) /\ m + Len(needle) <= n
<1>1. Len(Upto(text, n)) = n /\ \A i \in 1 .. n : Upto(text, n)[i] = text[i]
  BY UptoIs
<1>2. n \in Nat /\ n <= Len(text) /\ Len(needle) \in Nat /\ Len(text) \in Nat
  OBVIOUS
<1> DEFINE u == Upto(text, n)
           d == Len(needle)
<1> HIDE DEF u
<1>3. ASSUME m + d <= n PROVE \A i \in 1 .. d : m + i \in 1 .. n
  BY <1>2, <1>3
<1>4. ASSUME m + d <= n PROVE \A i \in 1 .. d : u[m + i] = text[m + i]
  BY <1>1, <1>3, <1>4 DEF u
<1>5. ASSUME m + d <= n PROVE m + d <= Len(text) /\ m + d <= Len(u)
  BY <1>1, <1>2, <1>5 DEF u
<1>6. Len(u) = n
  BY <1>1 DEF u
<1> HIDE DEF d
<1>7. QED
  BY <1>4, <1>5, <1>6 DEF u, d, Holds

(* What a text holds is found once it has arrived.                          *)
LEMMA FoundFirst ==
  ASSUME NEW A, NEW text \in Seq(A), NEW needle \in Seq(A), NEW k \in Nat,
         Holds(text, k, needle), \A m \in Nat : m < k => ~Holds(text, m, needle),
         NEW n \in 0 .. Len(text)
  PROVE  FindAfter(Upto(text, n), needle) =
           IF k + Len(needle) <= n THEN k + Len(needle) ELSE NotFound
<1>1. Upto(text, n) \in Seq(A)
  BY UptoIs
<1>2. CASE k + Len(needle) <= n
  <2>1. Holds(Upto(text, n), k, needle)
    BY <1>2, CutHolds
  <2>2. \A m \in Nat : m < k => ~Holds(Upto(text, n), m, needle)
    BY CutHolds
  <2>3. FindAfter(Upto(text, n), needle) = k + Len(needle)
    BY <1>1, <2>1, <2>2, NeedleAt
  <2>4. QED
    BY <1>2, <2>3
<1>3. CASE ~(k + Len(needle) <= n)
  <2>1. ASSUME NEW m \in Nat PROVE ~Holds(Upto(text, n), m, needle)
    <3>1. CASE m < k
      BY <3>1, CutHolds
    <3>2. CASE ~(m < k)
      <4>1. ~(m + Len(needle) <= n)
        BY <1>3, <3>2
      <4>2. QED
        BY <4>1, CutHolds
    <3>3. QED
      BY <3>1, <3>2
  <2>2. QED
    BY <1>1, <1>3, <2>1, NeedleNowhere
<1>4. QED
  BY <1>2, <1>3

(* What a text does not hold is not found in a part of it.                  *)
LEMMA FoundInNone ==
  ASSUME NEW A, NEW text \in Seq(A), NEW needle \in Seq(A),
         \A m \in Nat : ~Holds(text, m, needle), NEW n \in 0 .. Len(text)
  PROVE  FindAfter(Upto(text, n), needle) = NotFound
<1>1. Upto(text, n) \in Seq(A)
  BY UptoIs
<1>2. \A m \in Nat : ~Holds(Upto(text, n), m, needle)
  BY CutHolds
<1>3. QED
  BY <1>1, <1>2, NeedleNowhere

(* The end of a line and an empty one.                                      *)
LEMMA BlankLineIs ==
  LET b == CRLF \o CRLF
  IN b \in Seq(Symbol) /\ Len(b) = 4 /\ b[1] = "\r" /\ b[2] = "\n" /\ b[3] = "\r" /\ b[4] = "\n"
<1> DEFINE b == CRLF \o CRLF
<1>1. CRLF \in Seq(Symbol) /\ Len(CRLF) = 2 /\ CRLF[1] = "\r" /\ CRLF[2] = "\n"
  BY LineEndIs
<1>2. /\ b \in Seq(Symbol) /\ Len(b) = Len(CRLF) + 2
      /\ \A i \in 1 .. Len(CRLF) : b[i] = CRLF[i]
      /\ b[Len(CRLF) + 1] = "\r" /\ b[Len(CRLF) + 2] = "\n"
  BY <1>1, LineIs
<1> HIDE DEF b
<1>3. QED
  BY <1>1, <1>2 DEF b

(* The end of the header is found where the header ends, once it has arrived, *)
(* although the content may have empty lines too (HttpClient.cpp:499-506).   *)
THEOREM HeaderEnd ==
  ASSUME NEW s, Grammatical(s), NEW n \in 0 .. Len(Written(s))
  PROVE  get_content_offset(Upto(Written(s), n)) =
           IF Len(Header(s)) + 4 <= n THEN Len(Header(s)) + 4 ELSE NotFound
<1> DEFINE t == Written(s)
           h == Len(Header(s))
           b == CRLF \o CRLF
<1>1. /\ t \in Seq(Symbol) /\ Len(t) = h + 4 + Len(Body(s))
      /\ \A i \in 1 .. h : t[i] = Header(s)[i]
      /\ t[h + 1] = "\r" /\ t[h + 2] = "\n" /\ t[h + 3] = "\r" /\ t[h + 4] = "\n"
  BY WrittenIs
<1>2. b \in Seq(Symbol) /\ Len(b) = 4 /\ b[1] = "\r" /\ b[2] = "\n" /\ b[3] = "\r" /\ b[4] = "\n"
  BY BlankLineIs
<1>3. h \in Nat /\ Len(Body(s)) \in Nat
  BY HeaderIs, BodySymbols
<1>4. \A i \in 1 .. h : Header(s)[i] = "\n" => i < h /\ Header(s)[i + 1] # "\r"
  BY HeaderLines DEF Lines
<1>5. "\r" # "\n"
  OBVIOUS
<1> HIDE DEF t, h, b
<1>6. \A i \in 1 .. 4 : i = 1 \/ i = 2 \/ i = 3 \/ i = 4
  OBVIOUS
<1>7. Holds(t, h, b)
  BY <1>1, <1>2, <1>3, <1>6 DEF Holds
<1>8. ASSUME NEW m \in Nat, m < h PROVE ~Holds(t, m, b)
  <2> SUFFICES ASSUME Holds(t, m, b) PROVE FALSE
    OBVIOUS
  <2>1. t[m + 2] = "\n" /\ t[m + 3] = "\r"
    BY <1>2 DEF Holds
  <2>2. CASE m + 2 <= h
    <3>1. m + 2 \in 1 .. h
      BY <1>3, <2>2
    <3>2. Header(s)[m + 2] = "\n"
      BY <1>1, <2>1, <3>1
    <3>3. m + 2 < h /\ Header(s)[(m + 2) + 1] # "\r"
      BY <1>4, <3>1, <3>2
    <3>4. (m + 2) + 1 \in 1 .. h /\ (m + 2) + 1 = m + 3
      BY <1>3, <3>3
    <3>5. QED
      BY <1>1, <2>1, <3>3, <3>4
  <2>3. CASE m + 2 = h + 1
    BY <1>1, <1>5, <2>1, <2>3
  <2>4. m + 2 <= h \/ m + 2 = h + 1
    BY <1>3, <1>8
  <2>5. QED
    BY <2>2, <2>3, <2>4
<1>9. n \in 0 .. Len(t)
  BY DEF t
<1>10. FindAfter(Upto(t, n), b) = IF h + Len(b) <= n THEN h + Len(b) ELSE NotFound
  <2>1. t \in Seq(Symbol) /\ b \in Seq(Symbol) /\ h \in Nat
    BY <1>1, <1>2, <1>3
  <2>2. QED
    BY <1>7, <1>8, <1>9, <2>1, FoundFirst
<1>11. QED
  BY <1>2, <1>10 DEF t, b, h, get_content_offset

\* A field that a text has not got up to a position is not found before.
LEMMA FieldNotBefore ==
  ASSUME NEW text \in Seq(Symbol), NEW field \in {LengthField, ChunkedField}, NEW k \in Nat,
         \A i \in 1 .. Len(text) : i <= k + 2 => text[i] # field,
         NEW m \in Nat, m < k
  PROVE  ~Holds(text, m, CRLF \o <<field>>)
<1>1. field \in Symbol
  BY NamedSymbols
<1>2. Len(CRLF \o <<field>>) = 3 /\ (CRLF \o <<field>>)[3] = field
  BY <1>1, FieldIs
<1>3. Holds(text, m, CRLF \o <<field>>) => m + 3 <= Len(text) /\ text[m + 3] = field
  BY <1>2 DEF Holds
<1>4. m + 3 <= Len(text) => m + 3 \in 1 .. Len(text) /\ m + 3 <= k + 2
  OBVIOUS
<1>5. QED
  BY <1>3, <1>4

(* A field that a text has not got at all is not found.                     *)
LEMMA FieldNowhere ==
  ASSUME NEW text \in Seq(Symbol), NEW field \in {LengthField, ChunkedField},
         Without(text, {field}), NEW m \in Nat
  PROVE  ~Holds(text, m, CRLF \o <<field>>)
<1>1. \A i \in 1 .. Len(text) : i <= (m + 1) + 2 => text[i] # field
  BY DEF Without
<1>2. m + 1 \in Nat /\ m < m + 1
  OBVIOUS
<1>3. QED
  BY <1>1, <1>2, FieldNotBefore

-----------------------------------------------------------------------------
(* The lines that say how the content is framed.                            *)

(* The line that frames the content is found where the header has it.       *)
LEMMA FramingFound ==
  ASSUME NEW s, Grammatical(s), NEW field,
         \/ s.frame = "length" /\ field = LengthField
         \/ s.frame = "chunks" /\ field = ChunkedField,
         NEW n \in 0 .. Len(Written(s))
  PROVE  FindAfter(Upto(Written(s), n), CRLF \o <<field>>) =
           IF Len(Start(s)) + 3 <= n THEN Len(Start(s)) + 3 ELSE NotFound
<1> DEFINE t == Written(s)
           a == Len(Start(s))
           b == Len(FramingLine(s))
           h == Len(Header(s))
           z == CRLF \o <<field>>
<1>1. field \in {LengthField, ChunkedField} /\ field \in Symbol
  BY NamedSymbols
<1>2. z \in Seq(Symbol) /\ Len(z) = 3 /\ z[1] = "\r" /\ z[2] = "\n" /\ z[3] = field
  BY <1>1, FieldIs
<1>3. b >= 3 /\ FramingLine(s)[1] = "\r" /\ FramingLine(s)[2] = "\n" /\ FramingLine(s)[3] = field
  <2>1. CASE s.frame = "length"
    <3>1. field = LengthField
      BY <2>1
    <3>2. FramingLine(s) = z \o s.size
      BY <2>1, <3>1, FramingSymbols
    <3>3. s.size \in Seq(Symbol) /\ Len(s.size) \in Nat
      BY ScriptSymbols
    <3> HIDE DEF z
    <3>4. z \in Seq(Symbol)
      BY <1>2
    <3>5. /\ Len(z \o s.size) = Len(z) + Len(s.size)
          /\ \A i \in 1 .. Len(z) : (z \o s.size)[i] = z[i]
      BY <3>3, <3>4, JoinIs
    <3>6. QED
      BY <1>2, <3>2, <3>3, <3>5
  <2>2. CASE s.frame = "chunks"
    <3>1. field = ChunkedField
      BY <2>2
    <3>2. FramingLine(s) = z
      BY <2>2, <3>1, FramingSymbols
    <3>3. QED
      BY <1>2, <3>2
  <2>3. QED
    BY <2>1, <2>2
<1> HIDE DEF z
<1>4. /\ t \in Seq(Symbol) /\ Len(t) = h + 4 + Len(Body(s))
      /\ \A i \in 1 .. h : t[i] = Header(s)[i]
  BY WrittenIs
<1>5. /\ h = a + b + Len(s.after)
      /\ \A i \in 1 .. a : Header(s)[i] = Start(s)[i]
      /\ \A i \in 1 .. b : Header(s)[a + i] = FramingLine(s)[i]
  BY HeaderIs
<1>6. a \in Nat /\ b \in Nat /\ Len(s.after) \in Nat /\ Len(Body(s)) \in Nat
  BY StartIs, FramingSymbols, ScriptSymbols, BodySymbols
<1>7. \A i \in 1 .. a : Start(s)[i] # field
  BY <1>1, StartLines DEF Without
<1> HIDE DEF t, a, b, h
<1>8. a + 3 <= h /\ a + 1 \in 1 .. h /\ a + 2 \in 1 .. h /\ a + 3 \in 1 .. h
              /\ h \in Nat /\ a <= h
  <2>1. h = a + b + Len(s.after) /\ b >= 3
    BY <1>3, <1>5
  <2> DEFINE c == Len(s.after)
  <2>2. a \in Nat /\ b \in Nat /\ c \in Nat /\ h = a + b + c
    BY <1>6, <2>1
  <2> HIDE DEF c
  <2>3. \A x, y, w \in Nat : y >= 3 => x + 3 <= x + y + w /\ x + y + w \in Nat
    OBVIOUS
  <2>6. a + 3 <= a + b + c /\ a + b + c \in Nat
    BY <2>1, <2>2, <2>3
  <2>4. h \in Nat /\ a + 3 <= h
    BY <2>2, <2>6
  <2>5. QED
    BY <2>2, <2>4
<1>9. t[a + 1] = "\r" /\ t[a + 2] = "\n" /\ t[a + 3] = field
  <2>1. 1 \in 1 .. b /\ 2 \in 1 .. b /\ 3 \in 1 .. b
    BY <1>3, <1>6
  <2>2. QED
    BY <1>3, <1>4, <1>5, <1>8, <2>1
<1>10. Holds(t, a, z)
  <2>1. \A i \in 1 .. 3 : i = 1 \/ i = 2 \/ i = 3
    OBVIOUS
  <2>2. \A i \in 1 .. 3 : t[a + i] = z[i]
    BY <1>2, <1>9, <2>1
  <2>3. a + 3 <= Len(t)
    <3> DEFINE c == Len(Body(s))
    <3>1. Len(t) = h + 4 + c /\ c \in Nat
      BY <1>4, <1>6
    <3> HIDE DEF c
    <3>2. QED
      BY <1>6, <1>8, <3>1
  <2>4. QED
    BY <1>2, <2>2, <2>3 DEF Holds
<1>11. ASSUME NEW m \in Nat, m < a PROVE ~Holds(t, m, z)
  <2>1. \A i \in 1 .. Len(t) : i <= a + 2 => t[i] # field
    <3>1. \A i \in 1 .. a : t[i] # field
      <4>1. \A i \in 1 .. a : i \in 1 .. h
        BY <1>6, <1>8
      <4>2. QED
        BY <1>4, <1>5, <1>7, <4>1
    <3>2. \A i \in 1 .. Len(t) : i <= a + 2 => i \in 1 .. a \/ i = a + 1 \/ i = a + 2
      BY <1>6
    <3>3. field \notin {"\r", "\n"}
      BY <1>1, DifferentSymbols
    <3>4. QED
      BY <1>9, <3>1, <3>2, <3>3
  <2>2. t \in Seq(Symbol)
    BY <1>4
  <2>3. QED
    BY <1>1, <1>6, <1>11, <2>1, <2>2, FieldNotBefore DEF z
<1>12. FindAfter(Upto(t, n), z) = IF a + Len(z) <= n THEN a + Len(z) ELSE NotFound
  <2>1. t \in Seq(Symbol) /\ z \in Seq(Symbol) /\ a \in Nat
    BY <1>2, <1>4, <1>6
  <2>2. n \in 0 .. Len(t)
    BY DEF t
  <2>3. QED
    BY <1>10, <1>11, <2>1, <2>2, FoundFirst
<1>13. QED
  BY <1>2, <1>12 DEF t, a, z

\* The header alone, as the receive loop reads it.
LEMMA HeaderText ==
  ASSUME NEW s, Grammatical(s)
  PROVE  LET u == Upto(Written(s), Len(Header(s)) + 4)
         IN /\ u \in Seq(Symbol) /\ Len(u) = Len(Header(s)) + 4
            /\ \A field \in {LengthField, ChunkedField} :
                 Without(Header(s), {field}) => FindAfter(u, CRLF \o <<field>>) = NotFound
<1> DEFINE t == Written(s)
           h == Len(Header(s))
           u == Upto(t, h + 4)
<1>1. /\ t \in Seq(Symbol) /\ Len(t) = h + 4 + Len(Body(s))
      /\ \A i \in 1 .. h : t[i] = Header(s)[i]
      /\ t[h + 1] = "\r" /\ t[h + 2] = "\n" /\ t[h + 3] = "\r" /\ t[h + 4] = "\n"
  BY WrittenIs
<1>2. h \in Nat /\ Len(Body(s)) \in Nat
  BY HeaderIs, BodySymbols
<1> HIDE DEF t, h
<1>3. h + 4 \in 0 .. Len(t) /\ t \in Seq(Symbol)
  BY <1>1, <1>2
<1>4. /\ u \in Seq(Symbol) /\ Len(u) = h + 4
      /\ \A i \in 1 .. h + 4 : u[i] = t[i]
  BY <1>3, UptoIs
<1> HIDE DEF u
<1>5. ASSUME NEW field \in {LengthField, ChunkedField}, Without(Header(s), {field})
      PROVE  FindAfter(u, CRLF \o <<field>>) = NotFound
  <2>1. \A i \in 1 .. h : Header(s)[i] # field
    BY <1>5 DEF Without, h
  <2>2. \A i \in 1 .. h + 4 : i \in 1 .. h \/ i = h + 1 \/ i = h + 2 \/ i = h + 3 \/ i = h + 4
    BY <1>2
  <2>3. field \notin {"\r", "\n"} /\ field \in Symbol
    BY DifferentSymbols, NamedSymbols
  <2>4. Without(u, {field})
    BY <1>1, <1>4, <2>1, <2>2, <2>3 DEF Without
  <2>5. CRLF \o <<field>> \in Seq(Symbol) /\ u \in Seq(Symbol)
    BY <1>4, <2>3, FieldIs
  <2>6. \A m \in Nat : ~Holds(u, m, CRLF \o <<field>>)
    BY <1>4, <2>4, FieldNowhere
  <2>7. QED
    BY <2>5, <2>6, NeedleNowhere
<1>6. QED
  BY <1>4, <1>5 DEF t, h, u

(* The content, with what it quotes at its end.                             *)
LEMMA PageIs ==
  ASSUME NEW s, Grammatical(s)
  PROVE  /\ Page(s) \in Seq(Symbol) /\ Len(Page(s)) = Len(s.body) + Len(Quotation(s))
         /\ \A i \in 1 .. Len(s.body) : Page(s)[i] = s.body[i]
         /\ \A i \in 1 .. Len(Quotation(s)) : Page(s)[Len(s.body) + i] = Quotation(s)[i]
  BY ScriptSymbols, QuotationSymbols, JoinIs DEF Page

\* A field that neither header nor content has is found nowhere.
LEMMA FieldMissing ==
  ASSUME NEW s, Grammatical(s), s.frame # "chunks", NEW field \in {LengthField, ChunkedField},
         Without(Header(s), {field}), Without(Page(s), {field}), NEW n \in 0 .. Len(Written(s))
  PROVE  FindAfter(Upto(Written(s), n), CRLF \o <<field>>) = NotFound
<1> DEFINE t == Written(s)
           h == Len(Header(s))
           p == Page(s)
<1>1. Body(s) = p
  BY DEF Body
<1>2. /\ t \in Seq(Symbol) /\ Len(t) = h + 4 + Len(p)
      /\ \A i \in 1 .. h : t[i] = Header(s)[i]
      /\ t[h + 1] = "\r" /\ t[h + 2] = "\n" /\ t[h + 3] = "\r" /\ t[h + 4] = "\n"
      /\ \A i \in 1 .. Len(p) : t[h + 4 + i] = p[i]
  BY <1>1, WrittenIs
<1>3. h \in Nat /\ Len(p) \in Nat
  BY HeaderIs, PageIs
<1>4. (\A i \in 1 .. h : Header(s)[i] # field) /\ (\A i \in 1 .. Len(p) : p[i] # field)
  BY DEF Without
<1> HIDE DEF t, h, p
<1>5. \A i \in 1 .. h + 4 + Len(p) :
        i \in 1 .. h \/ i = h + 1 \/ i = h + 2 \/ i = h + 3 \/ i = h + 4
        \/ (i - (h + 4) \in 1 .. Len(p) /\ i = h + 4 + (i - (h + 4)))
  BY <1>3
<1>6. field \notin {"\r", "\n"} /\ field \in Symbol
  BY DifferentSymbols, NamedSymbols
<1>7. Without(t, {field})
  <2>1. ASSUME NEW i \in 1 .. Len(t) PROVE t[i] # field
    <3>1. \/ i \in 1 .. h \/ i = h + 1 \/ i = h + 2 \/ i = h + 3 \/ i = h + 4
          \/ (i - (h + 4) \in 1 .. Len(p) /\ i = h + 4 + (i - (h + 4)))
      BY <1>2, <1>5
    <3>2. CASE i \in 1 .. h
      BY <1>2, <1>4, <3>2
    <3>3. CASE i = h + 1 \/ i = h + 2 \/ i = h + 3 \/ i = h + 4
      BY <1>2, <1>6, <3>3
    <3>4. CASE i - (h + 4) \in 1 .. Len(p) /\ i = h + 4 + (i - (h + 4))
      <4>1. t[h + 4 + (i - (h + 4))] = p[i - (h + 4)] /\ p[i - (h + 4)] # field
        BY <1>2, <1>4, <3>4
      <4>2. QED
        BY <3>4, <4>1
    <3>5. QED
      BY <3>1, <3>2, <3>3, <3>4
  <2>2. QED
    BY <2>1 DEF Without
<1>8. CRLF \o <<field>> \in Seq(Symbol) /\ t \in Seq(Symbol)
  BY <1>2, <1>6, FieldIs
<1>9. \A m \in Nat : ~Holds(t, m, CRLF \o <<field>>)
  BY <1>2, <1>7, FieldNowhere
<1>10. n \in 0 .. Len(t)
  BY DEF t
<1>11. QED
  BY <1>8, <1>9, <1>10, FoundInNone DEF t

-----------------------------------------------------------------------------
(* The numbers in the header.                                               *)

(* What does not begin with a digit, after spaces, is no number.            *)
LEMMA NoNumberIs ==
  ASSUME NEW text \in Seq(Symbol), NEW digits, NEW base, NEW k \in 0 .. Len(text),
         \A i \in 1 .. k : text[i] = Space,
         k < Len(text) => text[k + 1] \notin DOMAIN digits \cup {Space}
  PROVE  Scan(skipSpaceCharacters(text), digits, base) = NotFound
<1> DEFINE rest == From(text, k)
<1>1. Prefix(text, {Space}) = Upto(text, k)
  <2>1. k < Len(text) => text[k + 1] \notin {Space}
    OBVIOUS
  <2>2. \A i \in 1 .. k : text[i] \in {Space}
    OBVIOUS
  <2>3. QED
    BY <2>1, <2>2, RunIs
<1>2. Len(Upto(text, k)) = k
  BY UptoIs
<1>3. skipSpaceCharacters(text) = rest
  BY <1>1, <1>2 DEF skipSpaceCharacters
<1>4. /\ rest \in Seq(Symbol) /\ Len(rest) = Len(text) - k
      /\ \A i \in 1 .. Len(text) - k : rest[i] = text[k + i]
  BY FromIs
<1> HIDE DEF rest
<1>5. 0 < Len(rest) => rest[0 + 1] \notin DOMAIN digits
  <2>1. 0 < Len(rest) => 1 \in 1 .. Len(text) - k /\ k < Len(text)
    BY <1>4
  <2>2. QED
    BY <1>4, <2>1
<1>6. Prefix(rest, DOMAIN digits) = Upto(rest, 0)
  <2>1. 0 \in 0 .. Len(rest) /\ \A i \in 1 .. 0 : rest[i] \in DOMAIN digits
    BY <1>4
  <2>2. QED
    BY <1>4, <1>5, <2>1, RunIs
<1>7. Upto(rest, 0) = <<>>
  BY <1>4 DEF Upto
<1>8. QED
  BY <1>3, <1>6, <1>7 DEF Scan

\* No digit follows the line that frames the content, or the status code.
LEMMA NoDigitFollows ==
  ASSUME NEW s, Grammatical(s)
  PROVE  /\ Written(s)[Len(Start(s)) + Len(FramingLine(s)) + 1] \notin DOMAIN DecDigit
         /\ Written(s)[5] \notin DOMAIN DecDigit
<1> DEFINE t == Written(s)
           a == Len(Start(s))
           b == Len(FramingLine(s))
           c == Len(s.after)
           d == Len(s.before)
           h == Len(Header(s))
<1>1. /\ \A i \in 1 .. h : t[i] = Header(s)[i]
      /\ t[h + 1] = "\r"
  BY WrittenIs
<1>2. /\ h = a + b + c
      /\ \A i \in 1 .. a : Header(s)[i] = Start(s)[i]
      /\ \A i \in 1 .. b : Header(s)[a + i] = FramingLine(s)[i]
      /\ \A i \in 1 .. c : Header(s)[a + b + i] = s.after[i]
  BY HeaderIs
<1>3. a = 4 + d /\ \A i \in 1 .. d : Start(s)[4 + i] = s.before[i]
  BY StartIs
<1>4. a \in Nat /\ b \in Nat /\ c \in Nat /\ d \in Nat /\ h \in Nat
  BY StartIs, FramingSymbols, ScriptSymbols, HeaderIs
<1>5. /\ c > 0 => s.after[1] \notin DOMAIN DecDigit
      /\ d > 0 => s.before[1] \notin DOMAIN DecDigit
  <2>1. /\ s.after # <<>> => s.after[1] \notin DOMAIN DecDigit
        /\ s.before # <<>> => s.before[1] \notin DOMAIN DecDigit
    BY Zenon DEF Grammatical, OtherLines
  <2>2. (c > 0 => s.after # <<>>) /\ (d > 0 => s.before # <<>>)
    BY ScriptSymbols
  <2>3. QED
    BY <2>1, <2>2
<1>6. b > 0 => FramingLine(s)[1] = "\r"
  <2>1. s.frame \in {"length", "chunks", "close"}
    BY FramingSymbols
  <2>2. CASE s.frame = "length"
    <3> DEFINE z == CRLF \o <<LengthField>>
    <3>1. FramingLine(s) = z \o s.size
      BY <2>2, FramingSymbols
    <3>2. z \in Seq(Symbol) /\ s.size \in Seq(Symbol)
      BY NamedSymbols, FieldIs, ScriptSymbols
    <3>3. Len(z) = 3 /\ z[1] = "\r"
      BY NamedSymbols, FieldIs
    <3> HIDE DEF z
    <3>4. \A i \in 1 .. Len(z) : (z \o s.size)[i] = z[i]
      BY <3>2, JoinIs
    <3>5. QED
      BY <3>1, <3>3, <3>4
  <2>3. CASE s.frame = "chunks"
    <3>1. FramingLine(s) = CRLF \o <<ChunkedField>>
      BY <2>3, FramingSymbols
    <3>2. (CRLF \o <<ChunkedField>>)[1] = "\r"
      BY NamedSymbols, FieldIs
    <3>3. QED
      BY <3>1, <3>2
  <2>4. CASE s.frame = "close"
    <3>1. FramingLine(s) = <<>>
      BY <2>4, FramingSymbols
    <3>2. b = 0
      BY <3>1
    <3>3. QED
      BY <3>2
  <2>5. QED
    BY <2>1, <2>2, <2>3, <2>4
<1>7. "\r" \notin DOMAIN DecDigit
  BY DecDigitValues
<1> HIDE DEF t, a, b, c, d, h
<1>8. t[a + b + 1] \notin DOMAIN DecDigit
  <2>1. CASE c > 0
    <3>1. 1 \in 1 .. c /\ a + b + 1 \in 1 .. h
      BY <1>2, <1>4, <2>1
    <3>2. t[a + b + 1] = s.after[1]
      BY <1>1, <1>2, <3>1
    <3>3. QED
      BY <1>5, <2>1, <3>2
  <2>2. CASE c = 0
    <3>1. h = a + b
      BY <1>2, <1>4, <2>2
    <3>2. QED
      BY <1>1, <1>7, <3>1
  <2>3. QED
    BY <1>4, <2>1, <2>2
<1>9. t[5] \notin DOMAIN DecDigit
  <2>1. CASE d > 0
    <3>1. 1 \in 1 .. d /\ 4 + 1 \in 1 .. a /\ 4 + 1 \in 1 .. h /\ 4 + 1 = 5
      BY <1>2, <1>3, <1>4, <2>1
    <3>2. t[5] = s.before[1]
      BY <1>1, <1>2, <1>3, <3>1
    <3>3. QED
      BY <1>5, <2>1, <3>2
  <2>2. CASE d = 0 /\ b > 0
    <3>1. a = 4 /\ 1 \in 1 .. b /\ a + 1 \in 1 .. h /\ 4 + 1 = 5
      BY <1>2, <1>3, <1>4, <2>2
    <3>2. t[5] = FramingLine(s)[1]
      BY <1>1, <1>2, <3>1
    <3>3. QED
      BY <1>6, <1>7, <2>2, <3>2
  <2>3. CASE d = 0 /\ b = 0
    <3>1. a + b + 1 = 5
      BY <1>3, <2>3
    <3>2. QED
      BY <1>8, <3>1
  <2>4. QED
    BY <1>4, <2>1, <2>2, <2>3
<1>10. QED
  BY <1>8, <1>9 DEF t, a, b

\* The start of the response says where the status code is.
LEMMA VersionFound ==
  ASSUME NEW s, Grammatical(s), NEW n \in 0 .. Len(Written(s))
  PROVE  get_http_return_code(Upto(Written(s), n)) =
           IF 1 <= n THEN NumberAfter(Upto(Written(s), n), 1) ELSE NotFound
<1> DEFINE t == Written(s)
           u == Upto(t, n)
           o == IF 1 <= n THEN 1 ELSE NotFound
<1>1. t \in Seq(Symbol) /\ Len(t) \in Nat /\ Len(t) >= 4
  <2>1. t \in Seq(Symbol) /\ Len(t) = Len(Header(s)) + 4 + Len(Body(s))
    BY WrittenIs
  <2>2. Len(Header(s)) \in Nat /\ Len(Body(s)) \in Nat
    BY HeaderIs, BodySymbols
  <2> HIDE DEF t
  <2>3. QED
    BY <2>1, <2>2
<1>2. t[1] = s.version
  <2>1. Len(Start(s)) \in Nat /\ Len(Start(s)) >= 4 /\ Start(s)[1] = s.version
    <3>1. Len(Start(s)) = 4 + Len(s.before) /\ Len(s.before) \in Nat /\ Start(s)[1] = s.version
      BY StartIs, ScriptSymbols
    <3>2. QED
      BY <3>1
  <2>2. /\ Len(Header(s)) = Len(Start(s)) + Len(FramingLine(s)) + Len(s.after)
        /\ \A i \in 1 .. Len(Start(s)) : Header(s)[i] = Start(s)[i]
    BY HeaderIs
  <2>3. Len(FramingLine(s)) \in Nat /\ Len(s.after) \in Nat
    BY FramingSymbols, ScriptSymbols
  <2>4. 1 \in 1 .. Len(Start(s)) /\ 1 \in 1 .. Len(Header(s))
    <3> DEFINE a == Len(Start(s))
               b == Len(FramingLine(s))
               c == Len(s.after)
    <3>1. a \in Nat /\ a >= 4 /\ b \in Nat /\ c \in Nat /\ Len(Header(s)) = a + b + c
      BY <2>1, <2>2, <2>3
    <3> HIDE DEF a, b, c
    <3>2. a + b + c \in Nat /\ a + b + c >= 1
      BY <3>1
    <3>3. 1 \in 1 .. a /\ 1 \in 1 .. a + b + c
      BY <3>1, <3>2
    <3>4. QED
      BY <3>1, <3>3 DEF a
  <2>5. QED
    BY <2>1, <2>2, <2>4, WrittenIs
<1>3. s.version \in {Version10, Version11}
  BY Zenon DEF Grammatical
<1> HIDE DEF t
<1>4. ASSUME NEW v \in {Version10, Version11}, v = s.version
      PROVE  FindAfter(u, <<v>>) = o
  <2>1. <<v>> \in Seq(Symbol) /\ Len(<<v>>) = 1 /\ <<v>>[1] = v
    BY NamedSymbols
  <2>2. Holds(t, 0, <<v>>)
    BY <1>1, <1>2, <1>4, <2>1 DEF Holds
  <2>3. \A m \in Nat : m < 0 => ~Holds(t, m, <<v>>)
    OBVIOUS
  <2>4. n \in 0 .. Len(t) /\ 0 \in Nat
    BY DEF t
  <2>5. FindAfter(u, <<v>>) = IF 0 + Len(<<v>>) <= n THEN 0 + Len(<<v>>) ELSE NotFound
    BY <1>1, <2>1, <2>2, <2>3, <2>4, FoundFirst
  <2>6. QED
    BY <2>1, <2>5
<1>5. CASE s.version = Version11
  <2>1. FindAfter(u, <<Version11>>) = o
    BY <1>4, <1>5
  <2>2. CASE 1 <= n
    BY <2>1, <2>2 DEF get_http_return_code, NotFound, t
  <2>3. CASE ~(1 <= n)
    <3>1. FindAfter(u, <<Version10>>) \in {NotFound} \cup 1 .. 0
      <4>1. n = 0 /\ n \in 0 .. Len(t)
        BY <2>3 DEF t
      <4>2. u \in Seq(Symbol) /\ Len(u) = 0
        BY <1>1, <4>1, UptoIs
      <4>3. <<Version10>> \in Seq(Symbol) /\ Len(<<Version10>>) = 1
        BY NamedSymbols
      <4> HIDE DEF u
      <4>4. FindAfter(u, <<Version10>>) \in {NotFound} \cup Len(<<Version10>>) .. Len(u)
        BY <4>2, <4>3, FindInText
      <4>5. QED
        BY <4>2, <4>3, <4>4
    <3>2. FindAfter(u, <<Version10>>) = NotFound
      BY <3>1
    <3>3. QED
      BY <2>1, <2>3, <3>2 DEF get_http_return_code, NumberAfter, t
  <2>4. QED
    BY <2>2, <2>3
<1>6. CASE s.version = Version10
  <2>1. FindAfter(u, <<Version10>>) = o
    BY <1>4, <1>6
  <2>2. FindAfter(u, <<Version11>>) = NotFound
    <3>1. Without(Tail(t), {Version11})
      <4>1. Without(Tail(Response(s).text), {Version11})
        BY <1>6, Zenon DEF Grammatical
      <4>2. Response(s).text = t
        BY Zenon DEF Response, Written, t
      <4>3. QED
        BY <4>1, <4>2
    <3>2. \A i \in 1 .. Len(t) : t[i] # Version11
      <4>1. t[1] # Version11
        BY <1>2, <1>6, DifferentSymbols
      <4>2. Len(Tail(t)) = Len(t) - 1 /\ \A i \in 1 .. Len(t) - 1 : Tail(t)[i] = t[i + 1]
        BY <1>1
      <4>3. \A i \in 1 .. Len(t) - 1 : t[i + 1] # Version11
        BY <3>1, <4>2 DEF Without
      <4>4. \A i \in 1 .. Len(t) : i = 1 \/ (i - 1 \in 1 .. Len(t) - 1 /\ (i - 1) + 1 = i)
        BY <1>1
      <4>5. QED
        BY <4>1, <4>3, <4>4
    <3>3. <<Version11>> \in Seq(Symbol) /\ Len(<<Version11>>) = 1 /\ <<Version11>>[1] = Version11
      BY NamedSymbols
    <3>4. ASSUME NEW m \in Nat PROVE ~Holds(t, m, <<Version11>>)
      <4>1. Holds(t, m, <<Version11>>) => m + 1 <= Len(t) /\ t[m + 1] = Version11
        BY <3>3 DEF Holds
      <4>2. m + 1 <= Len(t) => m + 1 \in 1 .. Len(t)
        BY <1>1
      <4>3. QED
        BY <3>2, <4>1, <4>2
    <3>5. n \in 0 .. Len(t)
      BY DEF t
    <3>6. QED
      BY <1>1, <3>3, <3>4, <3>5, FoundInNone
  <2>3. CASE 1 <= n
    BY <2>1, <2>2, <2>3 DEF get_http_return_code, t
  <2>4. CASE ~(1 <= n)
    BY <2>1, <2>2, <2>4 DEF get_http_return_code, NumberAfter, t
  <2>5. QED
    BY <2>3, <2>4
<1>7. QED
  BY <1>3, <1>5, <1>6

(* The digits of the status code.                                           *)
LEMMA StatusIs ==
  ASSUME NEW s, Grammatical(s)
  PROVE  /\ \A i \in 1 .. 3 : Written(s)[1 + i] = s.status[i] /\ s.status[i] \in DOMAIN DecDigit
         /\ s.status \in Seq(Symbol) /\ Len(s.status) = 3
<1> DEFINE t == Written(s)
           a == Len(Start(s))
           b == Len(FramingLine(s))
           c == Len(s.after)
           d == Len(s.before)
           h == Len(Header(s))
<1>1. \A i \in 1 .. h : t[i] = Header(s)[i]
  BY WrittenIs
<1>2. h = a + b + c /\ \A i \in 1 .. a : Header(s)[i] = Start(s)[i]
  BY HeaderIs
<1>3. a = 4 + d /\ \A i \in 1 .. 3 : Start(s)[1 + i] = s.status[i]
  BY StartIs
<1>4. a \in Nat /\ b \in Nat /\ c \in Nat /\ d \in Nat /\ h \in Nat
  BY StartIs, FramingSymbols, ScriptSymbols, HeaderIs
<1>5. Len(s.status) = 3 /\ \A i \in 1 .. 3 : s.status[i] \in DOMAIN DecDigit
  BY Zenon DEF Grammatical
<1> HIDE DEF t, a, b, c, d, h
<1>6. \A i \in 1 .. 3 : 1 + i \in 1 .. a
  BY <1>3, <1>4
<1>7. \A i \in 1 .. a : i \in 1 .. h
  <2>1. \A x, y, z \in Nat : \A i \in 1 .. x : i \in 1 .. x + y + z
    OBVIOUS
  <2>2. QED
    BY <1>2, <1>4, <2>1
<1>8. \A i \in 1 .. 3 : t[1 + i] = s.status[i]
  BY <1>1, <1>2, <1>3, <1>6, <1>7
<1>9. QED
  BY <1>5, <1>8, ScriptSymbols DEF t

(* The status code is read from the start of the response, whatever else it  *)
(* says; cut short, it is below 100 (HttpClient.cpp:450-467).                *)
THEOREM CodeRead ==
  ASSUME NEW s, Grammatical(s), NEW n \in 0 .. Len(Written(s))
  PROVE  LET code == get_http_return_code(Upto(Written(s), n))
         IN /\ n <= 1 => code = NotFound
            /\ n \in 2 .. 3 => code \in 0 .. 99
            /\ n >= 4 => code = Value(s.status, DecDigit, 10)
<1> DEFINE t == Written(s)
           u == Upto(t, n)
           code == get_http_return_code(u)
           text == From(u, 1)
<1>1. t \in Seq(Symbol) /\ n \in 0 .. Len(t) /\ n \in Nat
  BY WrittenIs
<1>2. /\ \A i \in 1 .. 3 : t[1 + i] = s.status[i] /\ s.status[i] \in DOMAIN DecDigit
      /\ s.status \in Seq(Symbol) /\ Len(s.status) = 3
  BY StatusIs
<1>3. t[5] \notin DOMAIN DecDigit
  BY NoDigitFollows
<1>4. code = IF 1 <= n THEN NumberAfter(u, 1) ELSE NotFound
  BY VersionFound
<1> HIDE DEF t
<1>5. u \in Seq(Symbol) /\ Len(u) = n /\ \A i \in 1 .. n : u[i] = t[i]
  BY <1>1, UptoIs
<1> HIDE DEF u, code
<1>6. ASSUME 1 <= n
      PROVE  /\ text \in Seq(Symbol) /\ Len(text) = n - 1
             /\ \A i \in 1 .. n - 1 : text[i] = t[1 + i]
             /\ code = Scan(skipSpaceCharacters(text), DecDigit, 10)
  <2>1. u \in Seq(Symbol) /\ 1 \in 0 .. Len(u)
    BY <1>1, <1>5, <1>6
  <2>2. /\ text \in Seq(Symbol) /\ Len(text) = Len(u) - 1
        /\ \A i \in 1 .. Len(u) - 1 : text[i] = u[1 + i]
    BY <2>1, FromIs
  <2>3. \A i \in 1 .. n - 1 : 1 + i \in 1 .. n
    BY <1>1
  <2>4. code = Scan(skipSpaceCharacters(text), DecDigit, 10)
    BY <1>4, <1>6 DEF NumberAfter, NotFound
  <2> HIDE DEF text
  <2>5. QED
    BY <1>5, <2>2, <2>3, <2>4
<1> HIDE DEF text
<1>7. ASSUME n <= 1 PROVE code = NotFound
  <2>1. CASE n = 0
    BY <1>4, <2>1
  <2>2. CASE n = 1
    <3>1. text \in Seq(Symbol) /\ Len(text) = 0 /\ code = Scan(skipSpaceCharacters(text), DecDigit, 10)
      BY <1>6, <2>2
    <3>2. 0 \in 0 .. Len(text) /\ (\A i \in 1 .. 0 : text[i] = Space) /\ ~(0 < Len(text))
      BY <3>1
    <3>3. Scan(skipSpaceCharacters(text), DecDigit, 10) = NotFound
      BY <3>1, <3>2, NoNumberIs
    <3>4. QED
      BY <3>1, <3>3
  <2>3. QED
    BY <1>1, <1>7, <2>1, <2>2
<1>8. ASSUME NEW p \in 1 .. 3, p = n - 1 \/ (p = 3 /\ n >= 4)
      PROVE  code = Value(Upto(s.status, p), DecDigit, 10)
  <2> DEFINE number == Upto(s.status, p)
  <2>1. number \in Seq(Symbol) /\ Len(number) = p /\ \A i \in 1 .. p : number[i] = s.status[i]
    <3>1. s.status \in Seq(Symbol) /\ p \in 0 .. Len(s.status)
      BY <1>2
    <3>2. QED
      BY <3>1, UptoIs
  <2> HIDE DEF number
  <2>2. n - 1 >= p /\ 1 <= n
    BY <1>1, <1>8
  <2>3. /\ text \in Seq(Symbol) /\ Len(text) = n - 1
        /\ \A i \in 1 .. n - 1 : text[i] = t[1 + i]
        /\ code = Scan(skipSpaceCharacters(text), DecDigit, 10)
    BY <1>6, <2>2
  <2>4. \A i \in 1 .. p : i \in 1 .. 3 /\ i \in 1 .. n - 1
    BY <1>1, <2>2
  <2>5. Holds(text, 0, number)
    <3>1. ASSUME NEW i \in 1 .. p PROVE text[0 + i] = number[i]
      <4>1. i \in 1 .. 3 /\ i \in 1 .. n - 1 /\ 0 + i = i
        BY <2>4
      <4>2. text[i] = t[1 + i] /\ t[1 + i] = s.status[i] /\ number[i] = s.status[i]
        BY <1>2, <2>1, <2>3, <4>1
      <4>3. QED
        BY <4>1, <4>2
    <3>2. 0 + p <= Len(text)
      BY <2>2, <2>3
    <3>3. QED
      BY <2>1, <3>1, <3>2 DEF Holds
  <2>6. \A i \in 1 .. Len(number) : number[i] \in DOMAIN DecDigit
    BY <1>2, <2>1, <2>4
  <2>7. 0 + Len(number) < Len(text) => text[0 + Len(number) + 1] \notin DOMAIN DecDigit
    <3>1. CASE p = n - 1
      BY <2>1, <2>3, <3>1
    <3>2. CASE p = 3 /\ n >= 4
      <4>1. 0 + 3 < n - 1 => 0 + 3 + 1 \in 1 .. n - 1 /\ 1 + (0 + 3 + 1) = 5
        BY <1>1
      <4>2. 0 + 3 < n - 1 => text[0 + 3 + 1] = t[1 + (0 + 3 + 1)]
        BY <2>3, <4>1
      <4>3. 0 + 3 < n - 1 => text[0 + 3 + 1] \notin DOMAIN DecDigit
        BY <1>3, <4>1, <4>2
      <4>4. QED
        BY <2>1, <2>3, <3>2, <4>3
    <3>3. QED
      BY <1>8, <3>1, <3>2
  <2>8. Space \notin DOMAIN DecDigit /\ 0 \in Nat /\ \A i \in 1 .. 0 : text[i] = Space
    BY DecDigitValues
  <2>9. Len(number) > 0
    BY <2>1
  <2>10. Scan(skipSpaceCharacters(text), DecDigit, 10) = Value(number, DecDigit, 10)
    BY <2>1, <2>3, <2>5, <2>6, <2>7, <2>8, <2>9, NumberIs, SMTT(40)
  <2>11. QED
    BY <2>3, <2>10 DEF number
<1>9. ASSUME n \in 2 .. 3 PROVE code \in 0 .. 99
  <2> DEFINE p == n - 1
             number == Upto(s.status, p)
  <2>1. p \in 1 .. 3 /\ p \in 1 .. 2 /\ p \in 0 .. 3
    BY <1>9
  <2>2. code = Value(number, DecDigit, 10)
    BY <1>8, <2>1
  <2> HIDE DEF p
  <2>3. Len(number) = p /\ \A i \in 1 .. p : number[i] = s.status[i]
    BY <1>2, <2>1, UptoIs
  <2>4. \A i \in 1 .. p : DecDigit[number[i]] \in 0 .. 9
    <3>1. \A i \in 1 .. p : i \in 1 .. 3
      BY <2>1
    <3>2. QED
      BY <1>2, <2>3, <3>1, DecDigitValues
  <2> HIDE DEF number
  <2>5. Value(number, DecDigit, 10) \in 0 .. 99
    BY <2>1, <2>3, <2>4, ShortValue
  <2>6. QED
    BY <2>2, <2>5
<1>10. ASSUME n >= 4 PROVE code = Value(s.status, DecDigit, 10)
  <2>1. code = Value(Upto(s.status, 3), DecDigit, 10)
    BY <1>8, <1>10
  <2>2. Upto(s.status, 3) = s.status
    BY <1>2 DEF Upto
  <2>3. QED
    BY <2>1, <2>2
<1>11. QED
  BY <1>7, <1>9, <1>10 DEF code, u, t

(* The length read from a header that announces one is that of the content,  *)
(* although the content may look like a header line (HttpClient.cpp:476-490). *)
THEOREM LengthRead ==
  ASSUME NEW s, Grammatical(s), s.frame = "length",
         NEW n \in 0 .. Len(Written(s)), n >= Len(Header(s)) + 4
  PROVE  get_content_length(Upto(Written(s), n)) = Len(Page(s))
<1> DEFINE t == Written(s)
           a == Len(Start(s))
           b == Len(FramingLine(s))
           c == Len(s.after)
           h == Len(Header(s))
           d == Len(s.size)
           z == CRLF \o <<LengthField>>
           u == Upto(t, n)
           text == From(u, a + 3)
<1>1. t \in Seq(Symbol) /\ n \in 0 .. Len(t) /\ \A i \in 1 .. h : t[i] = Header(s)[i]
  BY WrittenIs
<1>2. h = a + b + c /\ \A i \in 1 .. b : Header(s)[a + i] = FramingLine(s)[i]
  BY HeaderIs
<1>3. a \in Nat /\ b \in Nat /\ c \in Nat /\ d \in Nat /\ n \in Nat
  BY StartIs, FramingSymbols, ScriptSymbols
<1>4. b = 3 + d /\ \A i \in 1 .. d : FramingLine(s)[3 + i] = s.size[i]
  <2>1. FramingLine(s) = z \o s.size
    BY FramingSymbols
  <2>2. z \in Seq(Symbol) /\ s.size \in Seq(Symbol)
    BY NamedSymbols, FieldIs, ScriptSymbols
  <2>3. Len(z) = 3
    BY NamedSymbols, FieldIs
  <2> HIDE DEF z
  <2>4. /\ Len(z \o s.size) = Len(z) + d
        /\ \A i \in 1 .. d : (z \o s.size)[Len(z) + i] = s.size[i]
    BY <2>2, JoinIs
  <2>5. QED
    BY <2>1, <2>3, <2>4
<1>5. t[a + b + 1] \notin DOMAIN DecDigit
  BY NoDigitFollows
<1>6. FindAfter(u, z) = IF a + 3 <= n THEN a + 3 ELSE NotFound
  BY FramingFound
<1>7. /\ Numeral(s.size, DecDigit, 10, Len(Page(s)))
      /\ s.size \in Seq(Symbol)
  BY LengthNumeral, ScriptSymbols
<1>8. n >= h + 4
  OBVIOUS
<1> HIDE DEF t, a, b, c, d, h, z
<1>9. a + 3 <= n /\ a + 3 + d <= n /\ a + 3 \in Nat /\ a + 3 + d <= h /\ h \in Nat /\ a + b = a + 3 + d
  <2>1. \A x, y, w, k \in Nat : k >= x + (3 + y) + w + 4 =>
          x + 3 <= k /\ x + 3 + y <= k /\ x + 3 + y <= x + (3 + y) + w /\ x + (3 + y) + w \in Nat /\ x + (3 + y) = x + 3 + y
    OBVIOUS
  <2>2. h = a + (3 + d) + c
    BY <1>2, <1>4
  <2>3. n >= a + (3 + d) + c + 4
    BY <1>8, <2>2
  <2>4. a + 3 <= n /\ a + 3 + d <= n /\ a + 3 + d <= a + (3 + d) + c /\ a + (3 + d) + c \in Nat /\ a + (3 + d) = a + 3 + d
    BY <1>3, <2>1, <2>3
  <2>5. QED
    BY <1>3, <1>4, <2>2, <2>4
<1>10. u \in Seq(Symbol) /\ Len(u) = n /\ \A i \in 1 .. n : u[i] = t[i]
  BY <1>1, UptoIs
<1> HIDE DEF u
<1>11. /\ text \in Seq(Symbol) /\ Len(text) = n - (a + 3)
       /\ \A i \in 1 .. n - (a + 3) : text[i] = t[a + 3 + i]
  <2>1. a + 3 \in 0 .. Len(u)
    BY <1>9, <1>10
  <2>2. /\ text \in Seq(Symbol) /\ Len(text) = Len(u) - (a + 3)
        /\ \A i \in 1 .. Len(u) - (a + 3) : text[i] = u[a + 3 + i]
    BY <1>10, <2>1, FromIs
  <2>3. \A i \in 1 .. n - (a + 3) : a + 3 + i \in 1 .. n
    BY <1>3
  <2> HIDE DEF text
  <2>4. QED
    BY <1>10, <2>2, <2>3
<1> HIDE DEF text
<1>12. Holds(text, 0, s.size)
  <2>1. \A i \in 1 .. d : i \in 1 .. n - (a + 3) /\ a + (3 + i) \in 1 .. h /\ a + (3 + i) = a + 3 + i /\ 3 + i \in 1 .. b
    <3>1. \A i \in 1 .. d : i \in 1 .. n - (a + 3) /\ a + (3 + i) = a + 3 + i /\ 3 + i \in 1 .. 3 + d
      BY <1>3, <1>9
    <3>2. \A i \in 1 .. d : a + (3 + i) \in 1 .. h
      BY <1>3, <1>9
    <3>3. QED
      BY <1>4, <3>1, <3>2
  <2>2. \A i \in 1 .. d : text[0 + i] = s.size[i]
    BY <1>1, <1>2, <1>4, <1>11, <2>1
  <2>3. 0 + d <= Len(text)
    BY <1>3, <1>9, <1>11
  <2>4. QED
    BY <2>2, <2>3 DEF Holds, d
<1>13. d < Len(text) => text[d + 1] \notin DOMAIN DecDigit
  <2>1. d < Len(text) => d + 1 \in 1 .. n - (a + 3)
    BY <1>3, <1>11
  <2>2. a + 3 + (d + 1) = a + b + 1
    BY <1>3, <1>9
  <2>3. QED
    BY <1>5, <1>11, <2>1, <2>2
<1>14. Scan(skipSpaceCharacters(text), DecDigit, 10) \in {Len(Page(s))}
  BY <1>7, <1>11, <1>12, <1>13, DecDigitValues, NumeralScanned DEF d
<1>15. get_content_length(u) = Scan(skipSpaceCharacters(text), DecDigit, 10)
  <2>1. FindAfter(u, z) = a + 3 /\ a + 3 # NotFound
    BY <1>3, <1>6, <1>9 DEF NotFound
  <2>2. QED
    BY <2>1 DEF get_content_length, NumberAfter, z, text
<1>16. QED
  BY <1>14, <1>15 DEF u, t

-----------------------------------------------------------------------------
(* Header lines that the content quotes.                                    *)

\* They are found once they have arrived, and no sooner.
LEMMA QuotedFound ==
  ASSUME NEW s, Grammatical(s), s.frame # "chunks", NEW field \in {LengthField, ChunkedField},
         Without(Header(s), {field}), Without(s.body, {field}),
         Len(Quotation(s)) >= 3,
         Quotation(s)[1] = "\r" /\ Quotation(s)[2] = "\n" /\ Quotation(s)[3] = field,
         NEW n \in 0 .. Len(Written(s))
  PROVE  LET k == Len(Header(s)) + 4 + Len(s.body)
         IN /\ FindAfter(Upto(Written(s), n), CRLF \o <<field>>) = IF k + 3 <= n THEN k + 3 ELSE NotFound
            /\ k \in Nat /\ k + Len(Quotation(s)) = Len(Written(s))
            /\ \A i \in 1 .. Len(Quotation(s)) : Written(s)[k + i] = Quotation(s)[i]
<1> DEFINE t == Written(s)
           h == Len(Header(s))
           p == Page(s)
           c == Len(s.body)
           q == Len(Quotation(s))
           k == h + 4 + c
           z == CRLF \o <<field>>
<1>1. Body(s) = p
  BY DEF Body
<1>2. /\ t \in Seq(Symbol) /\ Len(t) = h + 4 + Len(p)
      /\ \A i \in 1 .. h : t[i] = Header(s)[i]
      /\ t[h + 1] = "\r" /\ t[h + 2] = "\n" /\ t[h + 3] = "\r" /\ t[h + 4] = "\n"
      /\ \A i \in 1 .. Len(p) : t[h + 4 + i] = p[i]
  BY <1>1, WrittenIs
<1>3. /\ Len(p) = c + q
      /\ \A i \in 1 .. c : p[i] = s.body[i]
      /\ \A i \in 1 .. q : p[c + i] = Quotation(s)[i]
  BY PageIs
<1>4. h \in Nat /\ c \in Nat /\ q \in Nat
  BY HeaderIs, ScriptSymbols, QuotationSymbols
<1>5. (\A i \in 1 .. h : Header(s)[i] # field) /\ (\A i \in 1 .. c : s.body[i] # field)
  BY DEF Without
<1>6. field \notin {"\r", "\n"} /\ field \in Symbol
  BY DifferentSymbols, NamedSymbols
<1>7. z \in Seq(Symbol) /\ Len(z) = 3 /\ z[1] = "\r" /\ z[2] = "\n" /\ z[3] = field
  BY <1>6, FieldIs
<1>8. q >= 3 /\ Quotation(s)[1] = "\r" /\ Quotation(s)[2] = "\n" /\ Quotation(s)[3] = field
  OBVIOUS
<1> HIDE DEF t, h, p, c, q, z
<1>9. k \in Nat /\ k + q = Len(t) /\ k + 3 <= Len(t)
  BY <1>2, <1>3, <1>4, <1>8
<1>10. \A i \in 1 .. q : t[k + i] = Quotation(s)[i]
  <2>1. \A i \in 1 .. q : c + i \in 1 .. Len(p) /\ h + 4 + (c + i) = k + i
    BY <1>3, <1>4
  <2>2. ASSUME NEW i \in 1 .. q PROVE t[k + i] = Quotation(s)[i]
    <3>1. c + i \in 1 .. Len(p) /\ h + 4 + (c + i) = k + i
      BY <2>1
    <3>2. t[h + 4 + (c + i)] = p[c + i]
      BY <1>2, <3>1
    <3>3. p[c + i] = Quotation(s)[i]
      BY <1>3
    <3>4. QED
      BY <3>1, <3>2, <3>3
  <2>3. QED
    BY <2>2
<1>11. t[k + 1] = "\r" /\ t[k + 2] = "\n" /\ t[k + 3] = field
  <2>1. 1 \in 1 .. q /\ 2 \in 1 .. q /\ 3 \in 1 .. q
    BY <1>4, <1>8
  <2>2. QED
    BY <1>8, <1>10, <2>1
<1>12. \A i \in 1 .. Len(t) : i <= k + 2 => t[i] # field
  <2>1. \A i \in 1 .. c : t[h + 4 + i] = s.body[i]
    <3>1. \A i \in 1 .. c : i \in 1 .. Len(p)
      BY <1>3, <1>4
    <3>2. QED
      BY <1>2, <1>3, <3>1
  <2>2. \A i \in 1 .. k + 2 :
          i \in 1 .. h \/ i = h + 1 \/ i = h + 2 \/ i = h + 3 \/ i = h + 4
          \/ (i - (h + 4) \in 1 .. c /\ i = h + 4 + (i - (h + 4))) \/ i = k + 1 \/ i = k + 2
    BY <1>4
  <2> HIDE DEF k
  <2>3. ASSUME NEW i \in 1 .. k + 2 PROVE t[i] # field
    <3>1. CASE i \in 1 .. h
      BY <1>2, <1>5, <3>1
    <3>2. CASE i = h + 1 \/ i = h + 2 \/ i = h + 3 \/ i = h + 4
      BY <1>2, <1>6, <3>2
    <3>3. CASE i - (h + 4) \in 1 .. c /\ i = h + 4 + (i - (h + 4))
      <4> DEFINE j == i - (h + 4)
      <4>1. j \in 1 .. c /\ i = h + 4 + j
        BY <3>3
      <4> HIDE DEF j
      <4>2. QED
        BY <1>5, <2>1, <4>1
    <3>4. CASE i = k + 1 \/ i = k + 2
      BY <1>6, <1>11, <3>4
    <3>5. QED
      BY <2>2, <3>1, <3>2, <3>3, <3>4
  <2>4. \A i \in 1 .. Len(t) : i <= k + 2 => i \in 1 .. k + 2
    BY <1>9
  <2>5. QED
    BY <2>3, <2>4
<1> HIDE DEF k
<1>13. Holds(t, k, z)
  <2>1. \A i \in 1 .. 3 : i = 1 \/ i = 2 \/ i = 3
    OBVIOUS
  <2>2. \A i \in 1 .. 3 : t[k + i] = z[i]
    BY <1>7, <1>11, <2>1
  <2>3. QED
    BY <1>7, <1>9, <2>2 DEF Holds
<1>14. \A m \in Nat : m < k => ~Holds(t, m, z)
  <2>1. t \in Seq(Symbol) /\ k \in Nat
    BY <1>2, <1>9
  <2>2. QED
    BY <1>12, <2>1, FieldNotBefore DEF z
<1>15. FindAfter(Upto(t, n), z) = IF k + Len(z) <= n THEN k + Len(z) ELSE NotFound
  <2>1. t \in Seq(Symbol) /\ z \in Seq(Symbol) /\ k \in Nat /\ n \in 0 .. Len(t)
    BY <1>2, <1>7, <1>9 DEF t
  <2>2. QED
    BY <1>13, <1>14, <2>1, FoundFirst
<1>16. FindAfter(Upto(t, n), z) = IF k + 3 <= n THEN k + 3 ELSE NotFound
  BY <1>7, <1>15
<1>17. QED
  BY <1>9, <1>10, <1>16 DEF t, k, z, h, c, q

(* A quoted line of chunked encoding is the end of the text.                *)
LEMMA QuotedChunked ==
  ASSUME NEW s, Grammatical(s), s.quotes = "chunked", NEW n \in 0 .. Len(Written(s))
  PROVE  FindAfter(Upto(Written(s), n), CRLF \o <<ChunkedField>>) # NotFound <=> n = Len(Written(s))
<1>1. s.frame # "chunks" /\ Without(s.body, {ChunkedField})
  BY Zenon DEF Grammatical, Quotes
<1>2. Without(Header(s), {ChunkedField})
  BY <1>1, HeaderLines
<1>3. Quotation(s) = CRLF \o <<ChunkedField>>
  BY QuotationSymbols
<1>4. /\ Len(Quotation(s)) = 3
      /\ Quotation(s)[1] = "\r" /\ Quotation(s)[2] = "\n" /\ Quotation(s)[3] = ChunkedField
  <2>1. ChunkedField \in Symbol
    BY NamedSymbols
  <2>2. QED
    BY <1>3, <2>1, FieldIs
<1> DEFINE k == Len(Header(s)) + 4 + Len(s.body)
           N == Len(Written(s))
           f == FindAfter(Upto(Written(s), n), CRLF \o <<ChunkedField>>)
<1>5. f = (IF k + 3 <= n THEN k + 3 ELSE NotFound) /\ k \in Nat /\ k + Len(Quotation(s)) = N
  <2>1. Len(Quotation(s)) >= 3 /\ ChunkedField \in {LengthField, ChunkedField}
    BY <1>4
  <2>2. QED
    BY <1>1, <1>2, <1>4, <2>1, QuotedFound
<1>6. n \in 0 .. N
  OBVIOUS
<1> HIDE DEF k, N, f
<1>7. f # NotFound <=> n = N
  BY <1>4, <1>5, <1>6 DEF NotFound
<1>8. QED
  BY <1>7 DEF f, N

(* A numeral of one digit.                                                  *)
LEMMA OneDigit ==
  ASSUME NEW run, NEW digits, Len(run) = 1, digits[run[1]] \in Nat
  PROVE  Value(run, digits, 10) = digits[run[1]]
<1>0. Len(run) \in Nat
  OBVIOUS
<1>1. PICK v : /\ Value(run, digits, 10) = v[Len(run)]
               /\ \A i \in 0 .. Len(run) : v[i] = IF i = 0 THEN 0 ELSE 10 * v[i - 1] + digits[run[i]]
  BY <1>0, ValueCounts
<1>2. 0 \in 0 .. Len(run) /\ 1 \in 0 .. Len(run) /\ 1 - 1 = 0
  OBVIOUS
<1>3. v[0] = 0 /\ v[1] = 10 * v[0] + digits[run[1]]
  BY <1>1, <1>2
<1>4. QED
  BY <1>1, <1>3

(* The quoted length is 0.                                                  *)
LEMMA ZeroIs == Value(<<"0">>, DecDigit, 10) = 0
<1> DEFINE run == <<"0">>
<1>1. Len(run) = 1 /\ run[1] = "0"
  OBVIOUS
<1> HIDE DEF run
<1>2. DecDigit[run[1]] = 0
  BY <1>1, DigitSymbols
<1>3. DecDigit[run[1]] \in Nat
  BY <1>2
<1>4. Value(run, DecDigit, 10) = DecDigit[run[1]]
  BY <1>1, <1>3, OneDigit
<1>5. QED
  BY <1>2, <1>4 DEF run

(* It is found when the whole text has arrived.                             *)
LEMMA QuotedLength ==
  ASSUME NEW s, Grammatical(s), s.quotes = "length", NEW n \in 0 .. Len(Written(s))
  PROVE  get_content_length(Upto(Written(s), n)) = IF n = Len(Written(s)) THEN 0 ELSE NotFound
<1> DEFINE k == Len(Header(s)) + 4 + Len(s.body)
           t == Written(s)
           N == Len(t)
           u == Upto(t, n)
           q == Quotation(s)
           y == <<LengthField, Space, "0">>
           z == CRLF \o <<LengthField>>
           text == From(u, k + 3)
<1>1. s.frame = "close" /\ Without(s.body, {LengthField})
  BY Zenon DEF Grammatical, Quotes
<1>2. Without(Header(s), {LengthField})
  BY <1>1, HeaderLines
<1>3. /\ q \in Seq(Symbol) /\ Len(q) = 5 /\ q[1] = "\r" /\ q[2] = "\n" /\ q[3] = LengthField
      /\ q[4] = Space /\ q[5] = "0"
  <2>1. q = CRLF \o y
    BY QuotationSymbols
  <2>2. y \in Seq(Symbol) /\ Len(y) = 3 /\ y[1] = LengthField /\ y[2] = Space /\ y[3] = "0"
    BY NamedSymbols
  <2>3. CRLF \in Seq(Symbol) /\ Len(CRLF) = 2 /\ CRLF[1] = "\r" /\ CRLF[2] = "\n"
    BY LineEndIs
  <2> HIDE DEF y, q
  <2>4. /\ CRLF \o y \in Seq(Symbol) /\ Len(CRLF \o y) = Len(CRLF) + Len(y)
        /\ \A i \in 1 .. Len(CRLF) : (CRLF \o y)[i] = CRLF[i]
        /\ \A i \in 1 .. Len(y) : (CRLF \o y)[Len(CRLF) + i] = y[i]
    <3>1. y \in Seq(Symbol) /\ CRLF \in Seq(Symbol)
      BY <2>2, <2>3
    <3>2. QED
      BY <3>1, JoinIs
  <2> DEFINE w == CRLF \o y
  <2> HIDE DEF w
  <2>5. /\ w[1] = "\r" /\ w[2] = "\n" /\ Len(w) = 5
    BY <2>2, <2>3, <2>4 DEF w
  <2>6. w[2 + 1] = LengthField /\ w[2 + 2] = Space /\ w[2 + 3] = "0"
    BY <2>2, <2>3, <2>4 DEF w
  <2>7. QED
    BY <2>1, <2>4, <2>5, <2>6, SMTT(30) DEF w
<1> HIDE DEF q
<1>4. /\ FindAfter(u, z) = IF k + 3 <= n THEN k + 3 ELSE NotFound
      /\ k \in Nat /\ k + Len(q) = N
      /\ \A i \in 1 .. Len(q) : t[k + i] = q[i]
  <2>1. Len(q) >= 3 /\ LengthField \in {LengthField, ChunkedField} /\ s.frame # "chunks"
    BY <1>1, <1>3
  <2>2. QED
    BY <1>1, <1>2, <1>3, <2>1, QuotedFound DEF q
<1>5. t \in Seq(Symbol) /\ n \in 0 .. N /\ n \in Nat
  BY WrittenIs
<1>6. t[k + 4] = Space /\ t[k + 5] = "0"
  <2>1. 4 \in 1 .. Len(q) /\ 5 \in 1 .. Len(q)
    BY <1>3
  <2> HIDE DEF k, t
  <2>2. QED
    BY <1>3, <1>4, <2>1
<1> HIDE DEF k, t, z
<1>7. k + 5 = N
  BY <1>3, <1>4
<1>8. u \in Seq(Symbol) /\ Len(u) = n /\ \A i \in 1 .. n : u[i] = t[i]
  BY <1>5, UptoIs
<1> HIDE DEF u, N
<1>9. CASE n < k + 3
  <2>1. FindAfter(u, z) = NotFound
    BY <1>4, <1>5, <1>9
  <2>2. n # N
    BY <1>4, <1>7, <1>9
  <2>3. QED
    BY <2>1, <2>2 DEF get_content_length, NumberAfter, z, u, t, N
<1>10. CASE n >= k + 3
  <2>1. FindAfter(u, z) = k + 3 /\ k + 3 # NotFound
    BY <1>4, <1>5, <1>10 DEF NotFound
  <2>2. get_content_length(u) = Scan(skipSpaceCharacters(text), DecDigit, 10)
    BY <2>1 DEF get_content_length, NumberAfter, z
  <2>3. /\ text \in Seq(Symbol) /\ Len(text) = n - (k + 3)
        /\ \A i \in 1 .. n - (k + 3) : text[i] = t[k + 3 + i]
    <3>1. k + 3 \in 0 .. Len(u)
      BY <1>4, <1>5, <1>8, <1>10
    <3>2. /\ text \in Seq(Symbol) /\ Len(text) = Len(u) - (k + 3)
          /\ \A i \in 1 .. Len(u) - (k + 3) : text[i] = u[k + 3 + i]
      BY <1>8, <3>1, FromIs
    <3>3. \A i \in 1 .. n - (k + 3) : k + 3 + i \in 1 .. n
      BY <1>4, <1>5
    <3> HIDE DEF text
    <3>4. QED
      BY <1>8, <3>2, <3>3
  <2> HIDE DEF text
  <2>4. n = k + 3 \/ n = k + 4 \/ n = k + 5
    BY <1>4, <1>5, <1>7, <1>10
  <2>5. CASE n = k + 5
    <3>1. Len(text) = 2 /\ text[1] = Space /\ text[2] = "0"
      <4>1. n - (k + 3) = 2 /\ 1 \in 1 .. 2 /\ 2 \in 1 .. 2 /\ k + 3 + 1 = k + 4 /\ k + 3 + 2 = k + 5
        BY <1>4, <2>5
      <4>2. QED
        BY <1>6, <2>3, <4>1
    <3> DEFINE number == <<"0">>
    <3>2. number \in Seq(Symbol) /\ Len(number) = 1 /\ number[1] = "0"
      BY NamedSymbols
    <3> HIDE DEF number
    <3>3. Holds(text, 1, number)
      BY <3>1, <3>2 DEF Holds
    <3>4. /\ Len(number) > 0 /\ 1 \in Nat /\ Space \notin DOMAIN DecDigit
          /\ \A i \in 1 .. 1 : text[i] = Space
          /\ \A i \in 1 .. Len(number) : number[i] \in DOMAIN DecDigit
      BY <3>1, <3>2, DigitSymbols, DecDigitValues
    <3>8. 1 + Len(number) < Len(text) => text[1 + Len(number) + 1] \notin DOMAIN DecDigit
      BY <3>1, <3>2
    <3>9. text \in Seq(Symbol) /\ number \in Seq(Symbol)
      BY <2>3, <3>2
    <3>5. Scan(skipSpaceCharacters(text), DecDigit, 10) = Value(number, DecDigit, 10)
      BY <3>3, <3>4, <3>8, <3>9, NumberIs
    <3>6. n = N
      BY <1>7, <2>5
    <3>7. QED
      BY <2>2, <3>5, <3>6, ZeroIs DEF number, u, t, N
  <2>6. CASE n # k + 5
    <3>1. /\ Len(text) \in 0 .. Len(text) /\ ~(Len(text) < Len(text))
          /\ \A i \in 1 .. Len(text) : text[i] = Space
      <4>1. \A i \in 1 .. Len(text) : i = 1 /\ k + 3 + 1 = k + 4
        BY <1>4, <2>3, <2>4, <2>6
      <4>2. Len(text) \in Nat
        BY <2>3
      <4>3. \A i \in 1 .. Len(text) : text[i] = Space
        BY <1>6, <2>3, <4>1
      <4>4. QED
        BY <4>2, <4>3
    <3>2. Scan(skipSpaceCharacters(text), DecDigit, 10) = NotFound
      BY <2>3, <3>1, NoNumberIs
    <3>3. n # N
      BY <1>7, <2>6
    <3>4. QED
      BY <2>2, <3>2, <3>3 DEF u, t, N
  <2>7. QED
    BY <2>5, <2>6
<1>11. QED
  BY <1>4, <1>5, <1>9, <1>10

-----------------------------------------------------------------------------
(* The chunks of a response.                                                *)

\* Where chunk i begins, after the ones before it.
ChunkStart(s, i) == Len(FlattenSeq(SubSeq(ChunkTexts(s), 1, i - 1)))

(* The chunks follow each other.                                            *)
LEMMA ChunkStarts ==
  ASSUME NEW s, Grammatical(s)
  PROVE  LET c == Len(s.chunks)
         IN /\ c \in Nat
            /\ ChunkStart(s, 1) = 0
            /\ \A i \in 1 .. c + 1 : ChunkStart(s, i) \in Nat
            /\ \A i \in 1 .. c :
                 /\ ChunkStart(s, i + 1) = ChunkStart(s, i) + Len(ChunkTexts(s)[i])
                 /\ ChunkStart(s, i) < ChunkStart(s, i + 1)
                 /\ Holds(FlattenSeq(ChunkTexts(s)), ChunkStart(s, i), ChunkTexts(s)[i])
            /\ ChunkStart(s, c + 1) = Len(FlattenSeq(ChunkTexts(s)))
<1> DEFINE q == ChunkTexts(s)
           c == Len(s.chunks)
<1>1. q \in Seq(Seq(Symbol)) /\ Len(q) = c /\ c \in Nat
  BY ChunkTextsAre, ChunkSymbols
<1>2. \A i \in 1 .. c : Len(q[i]) \in Nat /\ Len(q[i]) > 0
  <2>1. ASSUME NEW i \in 1 .. c PROVE Len(q[i]) \in Nat /\ Len(q[i]) > 0
    <3> DEFINE x == s.chunks[i].size
               y == s.chunks[i].data
    <3>1. q[i] = ChunkText(x, y)
      BY ChunkTextsAre
    <3>2. x \in Seq(Symbol) /\ y \in Seq(Symbol)
      BY ChunkSymbols
    <3> HIDE DEF x, y, q
    <3>3. Len(ChunkText(x, y)) = Len(x) + Len(y) + 4
      BY <3>2, ChunkTextIs
    <3>4. Len(x) \in Nat /\ Len(y) \in Nat
      BY <3>2
    <3>5. QED
      BY <3>1, <3>3, <3>4
  <2>2. QED
    BY <2>1
<1> HIDE DEF q, c
<1>3. \A i \in 1 .. c : ChunkStart(s, i + 1) = Len(FlattenSeq(SubSeq(q, 1, i)))
  <2>1. \A i \in 1 .. c : (i + 1) - 1 = i
    OBVIOUS
  <2>2. QED
    BY <2>1 DEF ChunkStart, q
<1>4. \A i \in 1 .. c :
        /\ ChunkStart(s, i + 1) = ChunkStart(s, i) + Len(q[i])
        /\ Holds(FlattenSeq(q), ChunkStart(s, i), q[i])
  <2>1. ASSUME NEW i \in 1 .. c
        PROVE  /\ Len(FlattenSeq(SubSeq(q, 1, i))) = Len(FlattenSeq(SubSeq(q, 1, i - 1))) + Len(q[i])
               /\ Holds(FlattenSeq(q), Len(FlattenSeq(SubSeq(q, 1, i - 1))), q[i])
    <3>1. i \in 1 .. Len(q) /\ q \in Seq(Seq(Symbol))
      BY <1>1
    <3>2. QED
      BY <3>1, PiecePlaces
  <2>2. \A i \in 1 .. c : ChunkStart(s, i) = Len(FlattenSeq(SubSeq(q, 1, i - 1)))
    BY DEF ChunkStart, q
  <2>3. QED
    BY <1>3, <2>1, <2>2
<1>5. \A i \in 1 .. c + 1 : ChunkStart(s, i) \in Nat
  <2>1. ASSUME NEW i \in 1 .. c + 1 PROVE ChunkStart(s, i) \in Nat
    <3>1. SubSeq(q, 1, i - 1) \in Seq(Seq(Symbol))
      <4>1. i - 1 \in 0 .. Len(q)
        BY <1>1
      <4>2. 1 \in Nat /\ 1 >= 1
        OBVIOUS
      <4> DEFINE A == Seq(Symbol)
      <4>3. q \in Seq(A)
        BY <1>1
      <4> HIDE DEF A
      <4>4. SubSeq(q, 1, i - 1) \in Seq(A)
        BY <4>1, <4>2, <4>3, PartIs
      <4>5. QED
        BY <4>4 DEF A
    <3>2. FlattenSeq(SubSeq(q, 1, i - 1)) \in Seq(Symbol)
      BY <3>1, FlattenType
    <3> DEFINE w == FlattenSeq(SubSeq(q, 1, i - 1))
    <3>3. ChunkStart(s, i) = Len(w)
      BY DEF ChunkStart, q
    <3> HIDE DEF w
    <3>4. QED
      BY <3>2, <3>3 DEF w
  <2>2. QED
    BY <2>1
<1>6. ChunkStart(s, 1) = 0
  <2>1. SubSeq(q, 1, 1 - 1) = <<>>
    BY <1>1
  <2>2. FlattenSeq(SubSeq(q, 1, 1 - 1)) = <<>>
    BY <2>1, FlattenNothing
  <2>3. QED
    BY <2>2 DEF ChunkStart, q
<1>7. ChunkStart(s, c + 1) = Len(FlattenSeq(q))
  <2>1. (c + 1) - 1 = Len(q) /\ SubSeq(q, 1, Len(q)) = q
    BY <1>1
  <2>2. QED
    BY <2>1 DEF ChunkStart, q
<1>8. \A i \in 1 .. c : ChunkStart(s, i) < ChunkStart(s, i + 1)
  <2>1. \A i \in 1 .. c : i \in 1 .. c + 1
    BY <1>1
  <2>2. QED
    BY <1>2, <1>4, <1>5, <2>1
<1>9. QED
  BY <1>1, <1>4, <1>5, <1>6, <1>7, <1>8 DEF q, c

\* The body of a response in chunks: the chunks, the line of the last one,
\* and what follows it.
LEMMA ChunkedBodyIs ==
  ASSUME NEW s, Grammatical(s), s.frame = "chunks"
  PROVE  LET c == Len(s.chunks)
         IN /\ Body(s) \in Seq(Symbol)
            /\ \A i \in 1 .. c : Holds(Body(s), ChunkStart(s, i), ChunkTexts(s)[i])
            /\ Holds(Body(s), ChunkStart(s, c + 1), s.size \o CRLF)
            /\ ChunkEnds(s)[c + 1] = ChunkStart(s, c + 1) + Len(s.size) + 2
            /\ \A i \in 1 .. c : ChunkEnds(s)[i] = ChunkStart(s, i + 1)
<1> DEFINE f == FlattenSeq(ChunkTexts(s))
           c == Len(s.chunks)
           k == Len(s.size)
           u == f \o s.size
           v == u \o CRLF
           w == v \o s.body
           l == s.size \o CRLF
<1>1. c \in Nat /\ k \in Nat /\ s.size \in Seq(Symbol) /\ s.body \in Seq(Symbol)
  BY ChunkSymbols, ScriptSymbols
<1>2. f \in Seq(Symbol)
  BY ChunkTextsAre, FlattenType
<1>3. /\ \A i \in 1 .. c : Holds(f, ChunkStart(s, i), ChunkTexts(s)[i]) /\ ChunkStart(s, i) \in Nat
      /\ ChunkStart(s, c + 1) = Len(f)
  <2>1. \A i \in 1 .. c : i \in 1 .. c + 1
    BY <1>1
  <2>2. QED
    BY <2>1, ChunkStarts
<1>4. \A i \in 1 .. c : ChunkTexts(s)[i] \in Seq(Symbol)
  <2> DEFINE q == ChunkTexts(s)
             A == Seq(Symbol)
  <2>1. q \in Seq(A) /\ Len(q) = c
    BY ChunkTextsAre
  <2> HIDE DEF q, A
  <2>2. \A i \in 1 .. c : q[i] \in A
    BY <2>1, ItsSymbols
  <2>3. QED
    BY <2>2 DEF q, A
<1>5. w = Body(s)
  BY DEF Body
<1>6. CRLF \in Seq(Symbol)
  BY LineEndIs
<1> HIDE DEF f
<1>7. /\ u \in Seq(Symbol) /\ Len(u) = Len(f) + k
      /\ \A i \in 1 .. Len(f) : u[i] = f[i]
      /\ \A i \in 1 .. k : u[Len(f) + i] = s.size[i]
  BY <1>1, <1>2, JoinIs
<1> HIDE DEF u
<1>8. /\ v \in Seq(Symbol) /\ Len(v) = Len(u) + 2
      /\ \A i \in 1 .. Len(u) : v[i] = u[i]
      /\ v[Len(u) + 1] = "\r" /\ v[Len(u) + 2] = "\n"
  <2>1. u \in Seq(Symbol)
    BY <1>7
  <2>2. QED
    BY <2>1, LineIs
<1>9. /\ l \in Seq(Symbol) /\ Len(l) = k + 2
      /\ \A i \in 1 .. k : l[i] = s.size[i]
      /\ l[k + 1] = "\r" /\ l[k + 2] = "\n"
  BY <1>1, LineIs
<1>10. ASSUME NEW i \in 1 .. c PROVE Holds(w, ChunkStart(s, i), ChunkTexts(s)[i])
  <2> DEFINE e == ChunkStart(s, i)
             x == ChunkTexts(s)[i]
  <2>1. e \in Nat /\ x \in Seq(Symbol) /\ Holds(f, e, x)
    BY <1>3, <1>4
  <2> HIDE DEF e, x
  <2>2. Holds(u, e, x)
    BY <1>1, <1>2, <2>1, HeldBefore DEF u
  <2>3. u \in Seq(Symbol) /\ v \in Seq(Symbol)
    BY <1>7, <1>8
  <2>4. Holds(v, e, x)
    BY <1>6, <2>1, <2>2, <2>3, HeldBefore
  <2> HIDE DEF v
  <2>5. Holds(w, e, x)
    BY <1>1, <2>1, <2>3, <2>4, HeldBefore
  <2>6. QED
    BY <2>5 DEF e, x
<1> HIDE DEF v, l, k, c
<1>11. Holds(v, Len(f), l)
  <2>1. Len(f) \in Nat /\ Len(u) \in Nat
    BY <1>2, <1>7
  <2>2. Len(f) + (k + 2) = Len(v)
    BY <1>1, <1>7, <1>8, <2>1
  <2>3. ASSUME NEW i \in 1 .. k + 2 PROVE v[Len(f) + i] = l[i]
    <3>1. CASE i \in 1 .. k
      <4>1. Len(f) + i \in 1 .. Len(u)
        BY <1>1, <1>7, <2>1, <3>1
      <4>2. QED
        BY <1>7, <1>8, <1>9, <3>1, <4>1
    <3>2. CASE i = k + 1
      <4>1. Len(f) + i = Len(u) + 1
        BY <1>1, <1>7, <2>1, <3>2
      <4>2. QED
        BY <1>8, <1>9, <3>2, <4>1
    <3>3. CASE i = k + 2
      <4>1. Len(f) + i = Len(u) + 2
        BY <1>1, <1>7, <2>1, <3>3
      <4>2. QED
        BY <1>8, <1>9, <3>3, <4>1
    <3>4. QED
      BY <1>1, <3>1, <3>2, <3>3
  <2>4. Len(f) + Len(l) <= Len(v)
    BY <1>1, <1>9, <2>1, <2>2
  <2>5. QED
    BY <1>9, <2>3, <2>4 DEF Holds
<1>12. Holds(w, Len(f), l)
  <2>1. Len(f) \in Nat /\ v \in Seq(Symbol) /\ l \in Seq(Symbol)
    BY <1>2, <1>8, <1>9
  <2>2. QED
    BY <1>1, <1>11, <2>1, HeldBefore
<1>13. /\ ChunkEnds(s)[c + 1] = Len(f) + k + 2
       /\ \A i \in 1 .. c : ChunkEnds(s)[i] = ChunkStart(s, i + 1)
  <2>1. c + 1 \in 1 .. c + 1 /\ ~(c + 1 <= c) /\ \A i \in 1 .. c : i \in 1 .. c + 1 /\ i <= c /\ (i + 1) - 1 = i
    BY <1>1
  <2>2. ChunkEnds(s)[c + 1] = Len(f) + k + 2
    BY <2>1 DEF ChunkEnds, c, f, k
  <2>3. \A i \in 1 .. c : ChunkEnds(s)[i] = Len(FlattenSeq(SubSeq(ChunkTexts(s), 1, i)))
    BY <2>1 DEF ChunkEnds, c
  <2>4. \A i \in 1 .. c : ChunkStart(s, i + 1) = Len(FlattenSeq(SubSeq(ChunkTexts(s), 1, i)))
    BY <2>1 DEF ChunkStart
  <2>5. QED
    BY <2>2, <2>3, <2>4
<1>14. w \in Seq(Symbol)
  BY <1>5, BodySymbols
<1>15. QED
  BY <1>3, <1>5, <1>10, <1>12, <1>13, <1>14 DEF c, k, l

\* The data of the chunks.
Datas(s) == [i \in 1 .. Len(s.chunks) |-> s.chunks[i].data]

\* What is read where a chunk begins: the chunk, or that it is cut short.
LEMMA ChunkRead ==
  ASSUME NEW s, Grammatical(s), s.frame = "chunks", NEW b \in 0 .. Len(Body(s)),
         NEW i \in 1 .. Len(s.chunks), ChunkStart(s, i) <= b
  PROVE  LET text == From(Upto(Body(s), b), ChunkStart(s, i))
         IN /\ ChunkStart(s, i + 1) <= b =>
                 /\ get_next_chunk_offset(text) = ChunkStart(s, i + 1) - ChunkStart(s, i)
                 /\ ChunkData(text) = s.chunks[i].data
            /\ ChunkStart(s, i + 1) > b => get_next_chunk_offset(text) = NotFound
<1> DEFINE w == Body(s)
           u == Upto(w, b)
           e == ChunkStart(s, i)
           e2 == ChunkStart(s, i + 1)
           text == From(u, e)
           x == s.chunks[i].size
           y == s.chunks[i].data
           t == ChunkText(x, y)
<1>1. w \in Seq(Symbol) /\ b \in 0 .. Len(w) /\ b \in Nat
  BY BodySymbols
<1>2. /\ e \in Nat /\ e2 = e + Len(ChunkTexts(s)[i]) /\ ChunkTexts(s)[i] = t
      /\ Holds(w, e, ChunkTexts(s)[i])
  <2>1. Len(s.chunks) \in Nat
    BY ChunkSymbols
  <2>2. i \in 1 .. Len(s.chunks) + 1
    BY <2>1
  <2>3. e \in Nat /\ e2 = e + Len(ChunkTexts(s)[i])
    BY <2>2, ChunkStarts
  <2>4. ChunkTexts(s)[i] = t
    BY ChunkTextsAre
  <2>5. Holds(w, e, ChunkTexts(s)[i])
    BY ChunkedBodyIs
  <2>6. QED
    BY <2>3, <2>4, <2>5
<1>3. x \in Seq(Symbol) /\ y \in Seq(Symbol)
  BY ChunkSymbols
<1>4. y # <<>> /\ Numeral(x, HexDigit, 16, Len(y))
  BY Zenon DEF Grammatical, FramedBySize
<1> HIDE DEF x, y
<1>5. t \in Seq(Symbol) /\ Len(t) \in Nat
  BY <1>3, ChunkTextIs
<1>6. e <= b /\ e2 = e + Len(t) /\ Holds(w, e, t)
  BY <1>2
<1> HIDE DEF w, e, e2, t
<1>7. u \in Seq(Symbol) /\ Len(u) = b /\ \A j \in 1 .. b : u[j] = w[j]
  BY <1>1, UptoIs
<1> HIDE DEF u
<1>8. /\ text \in Seq(Symbol) /\ Len(text) = b - e
      /\ \A j \in 1 .. b - e : text[j] = w[e + j]
  <2>1. e \in 0 .. Len(u) /\ e \in Nat
    BY <1>1, <1>2, <1>6, <1>7
  <2>2. /\ text \in Seq(Symbol) /\ Len(text) = Len(u) - e
        /\ \A j \in 1 .. Len(u) - e : text[j] = u[e + j]
    BY <1>7, <2>1, FromIs
  <2>3. \A j \in 1 .. b - e : e + j \in 1 .. b
    BY <1>1, <2>1
  <2> HIDE DEF text
  <2>4. QED
    BY <1>7, <2>2, <2>3
<1> HIDE DEF text
<1>9. \A j \in 1 .. Len(t) : w[e + j] = t[j]
  BY <1>6 DEF Holds
<1>10. ASSUME e2 <= b
       PROVE  get_next_chunk_offset(text) = e2 - e /\ ChunkData(text) = y
  <2>1. Len(t) <= b - e
    BY <1>1, <1>2, <1>5, <1>6, <1>10
  <2>2. \A j \in 1 .. Len(t) : text[0 + j] = t[j]
    <3>1. \A j \in 1 .. Len(t) : j \in 1 .. b - e /\ 0 + j = j
      BY <1>1, <1>2, <1>5, <2>1
    <3>2. QED
      BY <1>8, <1>9, <3>1
  <2>3. Holds(text, 0, t)
    <3>1. 0 + Len(t) <= Len(text)
      BY <1>5, <1>8, <2>1
    <3>2. QED
      BY <2>2, <3>1 DEF Holds
  <2>4. get_next_chunk_offset(text) = Len(t) /\ ChunkData(text) = y
    BY <1>3, <1>4, <1>8, <2>3, ChunkIs DEF t
  <2>5. e2 - e = Len(t)
    BY <1>2, <1>5, <1>6
  <2>6. QED
    BY <2>4, <2>5
<1>11. ASSUME e2 > b PROVE get_next_chunk_offset(text) = NotFound
  <2>1. Len(text) < Len(t)
    BY <1>1, <1>2, <1>5, <1>6, <1>8, <1>11
  <2>2. \A j \in 1 .. Len(text) : text[j] = t[j]
    <3>1. \A j \in 1 .. Len(text) : j \in 1 .. b - e /\ j \in 1 .. Len(t)
      BY <1>1, <1>2, <1>5, <1>8, <2>1
    <3>2. QED
      BY <1>8, <1>9, <3>1
  <2>3. text \in Seq(Symbol)
    BY <1>8
  <2>4. QED
    BY <1>3, <1>4, <2>1, <2>2, <2>3, ChunkCut DEF t
<1>12. QED
  BY <1>10, <1>11 DEF u, w, e, e2, text, y

\* What is read where the last chunk begins.
LEMMA LastChunkRead ==
  ASSUME NEW s, Grammatical(s), s.frame = "chunks", NEW b \in 0 .. Len(Body(s)),
         ChunkStart(s, Len(s.chunks) + 1) <= b
  PROVE  LET text == From(Upto(Body(s), b), ChunkStart(s, Len(s.chunks) + 1))
             end == ChunkEnds(s)[Len(s.chunks) + 1]
         IN /\ end <= b => get_next_chunk_offset(text) = 0
            /\ end > b => get_next_chunk_offset(text) = NotFound
<1> DEFINE w == Body(s)
           u == Upto(w, b)
           e == ChunkStart(s, Len(s.chunks) + 1)
           end == ChunkEnds(s)[Len(s.chunks) + 1]
           text == From(u, e)
           x == s.size
           k == Len(x)
           t == x \o CRLF
<1>1. w \in Seq(Symbol) /\ b \in 0 .. Len(w) /\ b \in Nat
  BY BodySymbols
<1>2. e \in Nat /\ Holds(w, e, t) /\ end = e + k + 2
  <2>1. Len(s.chunks) \in Nat
    BY ChunkSymbols
  <2>2. Len(s.chunks) + 1 \in 1 .. Len(s.chunks) + 1
    BY <2>1
  <2>3. e \in Nat
    BY <2>2, ChunkStarts
  <2>4. QED
    BY <2>3, ChunkedBodyIs
<1>3. x \in Seq(Symbol) /\ k \in Nat
  BY ScriptSymbols
<1>4. Numeral(x, HexDigit, 16, 0)
  BY Zenon DEF Grammatical, FramedBySize
<1> HIDE DEF x
<1>5. t \in Seq(Symbol) /\ Len(t) = k + 2 /\ \A i \in 1 .. k : t[i] = x[i]
  BY <1>3, LineIs
<1>6. e <= b
  OBVIOUS
<1> HIDE DEF w, e, end, t, k
<1>7. u \in Seq(Symbol) /\ Len(u) = b /\ \A j \in 1 .. b : u[j] = w[j]
  BY <1>1, UptoIs
<1> HIDE DEF u
<1>8. /\ text \in Seq(Symbol) /\ Len(text) = b - e
      /\ \A j \in 1 .. b - e : text[j] = w[e + j]
  <2>1. e \in 0 .. Len(u) /\ e \in Nat
    BY <1>1, <1>2, <1>6, <1>7
  <2>2. /\ text \in Seq(Symbol) /\ Len(text) = Len(u) - e
        /\ \A j \in 1 .. Len(u) - e : text[j] = u[e + j]
    BY <1>7, <2>1, FromIs
  <2>3. \A j \in 1 .. b - e : e + j \in 1 .. b
    BY <1>1, <2>1
  <2> HIDE DEF text
  <2>4. QED
    BY <1>7, <2>2, <2>3
<1> HIDE DEF text
<1>9. \A j \in 1 .. k + 2 : w[e + j] = t[j]
  BY <1>2, <1>5 DEF Holds
<1>10. ASSUME end <= b PROVE get_next_chunk_offset(text) = 0
  <2>1. k + 2 <= b - e
    BY <1>1, <1>2, <1>3, <1>10
  <2>2. \A j \in 1 .. k + 2 : text[0 + j] = t[j]
    <3>1. \A j \in 1 .. k + 2 : j \in 1 .. b - e /\ 0 + j = j
      BY <1>1, <1>2, <1>3, <2>1
    <3>2. QED
      BY <1>8, <1>9, <3>1
  <2>3. Holds(text, 0, t)
    <3>1. 0 + Len(t) <= Len(text)
      BY <1>3, <1>5, <1>8, <2>1
    <3>2. QED
      BY <1>5, <2>2, <3>1 DEF Holds
  <2>4. text \in Seq(Symbol)
    BY <1>8
  <2>5. QED
    BY <1>3, <1>4, <2>3, <2>4, LastChunkIs DEF t
<1>11. ASSUME end > b PROVE get_next_chunk_offset(text) = NotFound
  <2>1. Len(text) < k + 2
    BY <1>1, <1>2, <1>3, <1>8, <1>11
  <2>2. \A j \in 1 .. Len(text) : j <= k => text[j] = x[j]
    <3>1. \A j \in 1 .. Len(text) : j \in 1 .. b - e /\ j \in 1 .. k + 2 /\ (j <= k => j \in 1 .. k)
      BY <1>1, <1>2, <1>3, <1>8, <2>1
    <3>2. QED
      BY <1>5, <1>8, <1>9, <3>1
  <2>3. text \in Seq(Symbol)
    BY <1>8
  <2>4. QED
    BY <1>3, <1>4, <2>1, <2>2, <2>3, ChunkLineMissing DEF k
<1>12. QED
  BY <1>10, <1>11 DEF u, w, e, end, text

(* The walk from chunk to chunk hands out the data of those that have arrived *)
(* as a whole, and finds the last one once it has arrived, although the data *)
(* may look like a chunk (HttpClient.cpp:330-340, 400-416, 530-589).         *)
THEOREM ChunksOfBody ==
  ASSUME NEW s, Grammatical(s), s.frame = "chunks", NEW b \in 0 .. Len(Body(s)),
         NEW m \in 0 .. Len(s.chunks),
         \A i \in 1 .. Len(s.chunks) : ChunkEnds(s)[i] <= b <=> i <= m
  PROVE  Chunks(Upto(Body(s), b)) =
           [last |-> ChunkEnds(s)[Len(s.chunks) + 1] <= b, data |-> FlattenSeq(SubSeq(Datas(s), 1, m))]
<1> DEFINE c == Len(s.chunks)
           u == Upto(Body(s), b)
           d == SubSeq(Datas(s), 1, m)
           e == [i \in 1 .. m + 1 |-> ChunkStart(s, i)]
           end == ChunkEnds(s)[c + 1]
           stop == get_next_chunk_offset(From(u, ChunkStart(s, m + 1)))
<1>1. c \in Nat /\ m \in 0 .. c /\ b \in Nat /\ b \in 0 .. Len(Body(s)) /\ m \in Nat
  BY ChunkSymbols, BodySymbols
<1>2. u \in Seq(Symbol) /\ Len(u) = b
  BY <1>1, BodySymbols, UptoIs
<1>3. /\ ChunkStart(s, 1) = 0
      /\ \A i \in 1 .. c + 1 : ChunkStart(s, i) \in Nat
      /\ \A i \in 1 .. c : ChunkStart(s, i) < ChunkStart(s, i + 1)
  BY ChunkStarts
<1>4. /\ \A i \in 1 .. c : ChunkEnds(s)[i] = ChunkStart(s, i + 1)
      /\ end = ChunkStart(s, c + 1) + Len(s.size) + 2
  BY ChunkedBodyIs
<1>5. \A i \in 1 .. c : ChunkStart(s, i + 1) <= b <=> i <= m
  BY <1>4
<1>6. \A i \in 1 .. m + 1 : ChunkStart(s, i) \in Nat /\ ChunkStart(s, i) <= b
  <2>1. ASSUME NEW i \in 1 .. m + 1 PROVE ChunkStart(s, i) \in Nat /\ ChunkStart(s, i) <= b
    <3>1. i \in 1 .. c + 1
      BY <1>1
    <3>2. CASE i = 1
      BY <1>1, <1>3, <3>1, <3>2
    <3>3. CASE i # 1
      <4> DEFINE j == i - 1
      <4>1. j \in 1 .. c /\ j <= m /\ i = j + 1
        BY <1>1, <3>3
      <4> HIDE DEF j
      <4>2. QED
        BY <1>3, <1>5, <3>1, <4>1
    <3>4. QED
      BY <3>2, <3>3
  <2>2. QED
    BY <2>1
<1>7. \A i \in 1 .. m : i \in 1 .. c /\ i \in 1 .. m + 1 /\ i + 1 \in 1 .. m + 1 /\ i <= m
  BY <1>1
<1>8. \A i \in 1 .. c : s.chunks[i].data \in Seq(Symbol)
  BY ChunkSymbols
<1>9. d \in Seq(Seq(Symbol)) /\ Len(d) = m /\ \A i \in 1 .. m : d[i] = s.chunks[i].data
  <2> DEFINE A == Seq(Symbol)
             g == Datas(s)
  <2>1. DOMAIN g = 1 .. c /\ \A i \in 1 .. c : g[i] = s.chunks[i].data
    BY DEF Datas
  <2>2. g = [i \in 1 .. c |-> g[i]]
    BY DEF Datas
  <2> HIDE DEF g, c
  <2>3. \A i \in 1 .. c : g[i] \in A
    BY <1>8, <2>1
  <2> HIDE DEF A
  <2>4. g \in Seq(A) /\ Len(g) = c
    BY <1>1, <2>1, <2>2, <2>3
  <2>5. /\ SubSeq(g, 1, m) \in Seq(A)
        /\ Len(SubSeq(g, 1, m)) = IF 1 <= m THEN m - 1 + 1 ELSE 0
        /\ \A i \in 1 .. Len(SubSeq(g, 1, m)) : SubSeq(g, 1, m)[i] = g[1 + i - 1]
    <3>1. m \in 0 .. Len(g) /\ 1 \in Nat /\ 1 >= 1
      BY <1>1, <2>4
    <3>2. QED
      BY <2>4, <3>1, PartIs
  <2>6. Len(SubSeq(g, 1, m)) = m
    BY <1>1, <2>5
  <2>7. \A i \in 1 .. m : 1 + i - 1 = i
    BY <1>1
  <2>8. \A i \in 1 .. m : SubSeq(g, 1, m)[i] = s.chunks[i].data
    BY <1>7, <2>1, <2>5, <2>6, <2>7
  <2>9. QED
    BY <2>5, <2>6, <2>8 DEF g, A
<1>10. \A i \in 1 .. m : /\ get_next_chunk_offset(From(u, ChunkStart(s, i))) = ChunkStart(s, i + 1) - ChunkStart(s, i)
                         /\ ChunkData(From(u, ChunkStart(s, i))) = s.chunks[i].data
  <2>1. ASSUME NEW i \in 1 .. m
        PROVE  /\ get_next_chunk_offset(From(u, ChunkStart(s, i))) = ChunkStart(s, i + 1) - ChunkStart(s, i)
               /\ ChunkData(From(u, ChunkStart(s, i))) = s.chunks[i].data
    <3>1. i \in 1 .. Len(s.chunks) /\ ChunkStart(s, i) <= b /\ ChunkStart(s, i + 1) <= b
      BY <1>5, <1>6, <1>7
    <3>2. QED
      BY <1>1, <3>1, ChunkRead
  <2>2. QED
    BY <2>1
<1>11. stop = IF end <= b THEN 0 ELSE NotFound
  <2>1. CASE m = c
    <3>1. ChunkStart(s, c + 1) <= b
      BY <1>1, <1>6, <2>1
    <3>2. /\ end <= b => stop = 0
          /\ end > b => stop = NotFound
      BY <1>1, <2>1, <3>1, LastChunkRead
    <3>3. end \in Nat
      <4>1. c + 1 \in 1 .. c + 1 /\ Len(s.size) \in Nat
        BY <1>1, ScriptSymbols
      <4>2. ChunkStart(s, c + 1) \in Nat
        BY <1>3, <4>1
      <4>3. QED
        BY <1>4, <4>1, <4>2
    <3> HIDE DEF end, stop
    <3>4. QED
      BY <1>1, <3>2, <3>3
  <2>2. CASE m < c
    <3>1. m + 1 \in 1 .. c /\ m + 1 \in 1 .. m + 1 /\ (m + 1) + 1 \in 1 .. c + 1 /\ ~(m + 1 <= m)
      BY <1>1, <2>2
    <3>2. ChunkStart(s, m + 1) <= b /\ ~(ChunkStart(s, (m + 1) + 1) <= b) /\ ChunkStart(s, (m + 1) + 1) \in Nat
      BY <1>3, <1>5, <1>6, <3>1
    <3>3. ChunkStart(s, (m + 1) + 1) > b
      BY <1>1, <3>2
    <3>4. stop = NotFound
      BY <1>1, <3>1, <3>2, <3>3, ChunkRead
    <3>5. ~(end <= b)
      <4>1. c \in 1 .. c /\ ~(c <= m) /\ c + 1 \in 1 .. c + 1 /\ Len(s.size) \in Nat
        BY <1>1, <2>2, ScriptSymbols
      <4>2. ~(ChunkStart(s, c + 1) <= b) /\ ChunkStart(s, c + 1) \in Nat
        BY <1>3, <1>5, <4>1
      <4> HIDE DEF c
      <4>3. QED
        BY <1>1, <1>4, <4>1, <4>2
    <3>6. QED
      BY <3>4, <3>5
  <2>3. QED
    BY <1>1, <2>1, <2>2
<1>12. /\ e[1] = 0
       /\ \A i \in 1 .. m + 1 : e[i] = ChunkStart(s, i)
  <2>1. 1 \in 1 .. m + 1
    BY <1>1
  <2>2. QED
    BY <1>3, <2>1
<1>13. m + 1 \in 1 .. m + 1
  BY <1>1
<1> HIDE DEF c, u, d, e, end
<1>14. \A i \in 1 .. m + 1 : e[i] \in 0 .. b
  BY <1>1, <1>6, <1>12
<1>15. \A i \in 1 .. m :
         /\ get_next_chunk_offset(From(u, e[i])) = e[i + 1] - e[i]
         /\ ChunkData(From(u, e[i])) = d[i]
         /\ e[i] < e[i + 1]
  BY <1>3, <1>7, <1>9, <1>10, <1>12
<1>16. get_next_chunk_offset(From(u, e[m + 1])) = stop
  BY <1>12, <1>13
<1> HIDE DEF stop
<1>17. Chunks(u) = [last |-> get_next_chunk_offset(From(u, e[Len(d) + 1])) = 0, data |-> FlattenSeq(d)]
  <2>1. \A i \in 1 .. Len(d) + 1 : e[i] \in 0 .. Len(u)
    BY <1>2, <1>9, <1>14
  <2>2. \A i \in 1 .. Len(d) :
         /\ get_next_chunk_offset(From(u, e[i])) = e[i + 1] - e[i]
         /\ ChunkData(From(u, e[i])) = d[i]
         /\ e[i] < e[i + 1]
    BY <1>9, <1>15
  <2>3. get_next_chunk_offset(From(u, e[Len(d) + 1])) \in {0, NotFound}
    BY <1>9, <1>11, <1>16
  <2>4. u \in Seq(Symbol) /\ d \in Seq(Seq(Symbol)) /\ e[1] = 0
    BY <1>2, <1>9, <1>12
  <2>5. QED
    BY <2>1, <2>2, <2>3, <2>4, ChunksRead
<1>18. get_next_chunk_offset(From(u, e[Len(d) + 1])) = 0 <=> end <= b
  BY <1>9, <1>11, <1>16 DEF NotFound
<1>19. QED
  BY <1>17, <1>18 DEF u, d, end, c
-----------------------------------------------------------------------------
(* What has been received, behind the header.                              *)

(* The header is that of the whole text, the rest a part of the body.       *)
LEMMA ReceivedParts ==
  ASSUME NEW s, Grammatical(s), NEW n \in 0 .. Len(Written(s)), n >= Len(Header(s)) + 4
  PROVE  LET t == Upto(Written(s), n)
             head == Len(Header(s)) + 4
         IN /\ t \in Seq(Symbol) /\ Len(t) = n /\ head \in 4 .. n
            /\ n - head \in 0 .. Len(Body(s)) /\ Len(Written(s)) = head + Len(Body(s))
            /\ From(t, head) = Upto(Body(s), n - head)
            /\ Upto(t, head) = Upto(Written(s), head)
<1> DEFINE w == Written(s)
           b == Body(s)
           h == Len(Header(s))
           t == Upto(w, n)
<1>1. /\ w \in Seq(Symbol) /\ Len(w) = h + 4 + Len(b)
      /\ \A i \in 1 .. Len(b) : w[h + 4 + i] = b[i]
  BY WrittenIs
<1>2. b \in Seq(Symbol) /\ h \in Nat
  BY BodySymbols, HeaderIs
<1>3. Len(b) \in Nat /\ Len(w) \in Nat /\ n \in 0 .. Len(w) /\ n >= h + 4
  BY <1>1, <1>2
<1>4. t \in Seq(Symbol) /\ Len(t) = n /\ \A i \in 1 .. n : t[i] = w[i]
  <2> HIDE DEF w
  <2>1. QED
    BY <1>1, <1>3, UptoIs
<1> HIDE DEF w, b, h, t
<1>5. h + 4 \in 4 .. n /\ h + 4 \in 0 .. Len(t) /\ n - (h + 4) \in 0 .. Len(b) /\ h + 4 \in 0 .. Len(w)
  BY <1>1, <1>2, <1>3, <1>4
<1>6. From(t, h + 4) = Upto(b, n - (h + 4))
  <2> DEFINE x == From(t, h + 4)
             y == Upto(b, n - (h + 4))
  <2>1. x \in Seq(Symbol) /\ Len(x) = n - (h + 4) /\ \A i \in 1 .. n - (h + 4) : x[i] = t[h + 4 + i]
    BY <1>4, <1>5, FromIs
  <2>2. y \in Seq(Symbol) /\ Len(y) = n - (h + 4) /\ \A i \in 1 .. n - (h + 4) : y[i] = b[i]
    BY <1>2, <1>5, UptoIs
  <2> HIDE DEF x, y
  <2>3. ASSUME NEW i \in 1 .. Len(x) PROVE x[i] = y[i]
    <3>1. i \in 1 .. n - (h + 4) /\ i \in 1 .. Len(b) /\ h + 4 + i \in 1 .. n
      BY <1>1, <1>2, <1>3, <1>5, <2>1
    <3>2. x[i] = t[h + 4 + i] /\ y[i] = b[i]
      BY <2>1, <2>2, <3>1
    <3>3. t[h + 4 + i] = w[h + 4 + i] /\ w[h + 4 + i] = b[i]
      BY <1>1, <1>4, <3>1
    <3>4. QED
      BY <3>2, <3>3
  <2>4. x = y
    BY <2>1, <2>2, <2>3, EqualTexts
  <2>5. QED
    BY <2>4 DEF x, y
<1>7. Upto(t, h + 4) = Upto(w, h + 4)
  <2> DEFINE x == Upto(t, h + 4)
             y == Upto(w, h + 4)
  <2>1. x \in Seq(Symbol) /\ Len(x) = h + 4 /\ \A i \in 1 .. h + 4 : x[i] = t[i]
    BY <1>4, <1>5, UptoIs
  <2>2. y \in Seq(Symbol) /\ Len(y) = h + 4 /\ \A i \in 1 .. h + 4 : y[i] = w[i]
    BY <1>1, <1>5, UptoIs
  <2> HIDE DEF x, y
  <2>3. ASSUME NEW i \in 1 .. Len(x) PROVE x[i] = y[i]
    <3>1. i \in 1 .. h + 4 /\ i \in 1 .. n
      BY <1>2, <1>5, <2>1
    <3>2. QED
      BY <1>4, <2>1, <2>2, <3>1
  <2>4. x = y
    BY <2>1, <2>2, <2>3, EqualTexts
  <2>5. QED
    BY <2>4 DEF x, y
<1>8. QED
  BY <1>1, <1>4, <1>5, <1>6, <1>7 DEF w, b, h, t

(* A content that quotes a line of chunked encoding is not taken for chunks. *)
LEMMA PageIsNoChunk ==
  ASSUME NEW s, Grammatical(s), s.quotes = "chunked"
  PROVE  Chunks(Page(s)) = [last |-> FALSE, data |-> <<>>]
<1> DEFINE p == Page(s)
<1>1. p \in Seq(Symbol) /\ Len(p) = Len(s.body) + Len(Quotation(s)) /\ s.body \in Seq(Symbol)
  BY PageIs, ScriptSymbols
<1>2. Quotation(s) = CRLF \o <<ChunkedField>>
  BY QuotationSymbols
<1>3. Len(Quotation(s)) = 3
  BY <1>2, FieldIs, NamedSymbols
<1>4. p[1] \notin DOMAIN HexDigit \cup {Space}
  BY DEF Grammatical, Quotes
<1> HIDE DEF p
<1>5. 0 \in 0 .. Len(p)
  BY <1>1
<1>6. Scan(skipSpaceCharacters(p), HexDigit, 16) = NotFound
  <2>1. \A i \in 1 .. 0 : p[i] = Space
    OBVIOUS
  <2>2. 0 < Len(p) => p[0 + 1] \notin DOMAIN HexDigit \cup {Space}
    BY <1>4
  <2>3. QED
    BY <1>1, <1>5, <2>1, <2>2, NoNumberIs
<1>7. get_next_chunk_offset(p) = NotFound
  BY <1>6 DEF get_next_chunk_offset, get_chunk_length
<1>8. From(p, 0) = p
  <2>1. Len(From(p, 0)) = Len(p) /\ From(p, 0) \in Seq(Symbol) /\ \A i \in 1 .. Len(p) : From(p, 0)[i] = p[i]
    <3>1. From(p, 0) \in Seq(Symbol) /\ Len(From(p, 0)) = Len(p) - 0
          /\ \A i \in 1 .. Len(p) - 0 : From(p, 0)[i] = p[0 + i]
      BY <1>1, <1>5, FromIs
    <3>2. Len(p) - 0 = Len(p) /\ \A i \in 1 .. Len(p) : 0 + i = i
      BY <1>1
    <3>3. QED
      BY <3>1, <3>2
  <2>2. QED
    BY <1>1, <2>1, EqualTexts
<1>9. PICK v : Chunks(p) = v[0] /\ \A at \in 0 .. Len(p) : v[at] = WalkStep(v, p, at)
  BY <1>1, ChunksWalk
<1>10. v[0] = WalkStep(v, p, 0)
  BY <1>5, <1>9
<1>11. WalkStep(v, p, 0) = [last |-> FALSE, data |-> <<>>]
  <2>1. get_next_chunk_offset(From(p, 0)) = NotFound
    BY <1>7, <1>8
  <2>2. WalkStep(v, p, 0) = [last |-> NotFound = 0, data |-> <<>>]
    BY <2>1 DEF WalkStep
  <2>3. (NotFound = 0) = FALSE
    BY DEF NotFound
  <2>4. QED
    BY <2>2, <2>3
<1>12. QED
  BY <1>9, <1>10, <1>11 DEF p

(* A content of pieces of one symbol each.                                  *)
LEMMA PageParts ==
  ASSUME NEW s, Grammatical(s), NEW k \in 0 .. Len(Page(s))
  PROVE  FlattenSeq(SubSeq([i \in 1 .. Len(Page(s)) |-> <<Page(s)[i]>>], 1, k)) = Upto(Page(s), k)
<1> DEFINE p == Page(s)
           u == Upto(p, k)
           q == [i \in 1 .. Len(p) |-> <<p[i]>>]
           y == [i \in 1 .. Len(u) |-> <<u[i]>>]
<1>1. p \in Seq(Symbol) /\ Len(p) \in Nat
  BY PageIs
<1>2. k \in 0 .. Len(p)
  OBVIOUS
<1> HIDE DEF p
<1>3. u \in Seq(Symbol) /\ Len(u) = k /\ \A i \in 1 .. k : u[i] = p[i]
  BY <1>1, <1>2, UptoIs
<1> HIDE DEF u
<1>4. FlattenSeq(y) = u
  BY <1>3, FlattenSymbols
<1>5. q \in Seq(Seq(Symbol)) /\ Len(q) = Len(p)
  <2>1. \A i \in 1 .. Len(p) : <<p[i]>> \in Seq(Symbol)
    BY <1>1
  <2>2. QED
    BY <1>1, <2>1
<1>6. y \in Seq(Seq(Symbol)) /\ Len(y) = k
  <2>1. \A i \in 1 .. Len(u) : <<u[i]>> \in Seq(Symbol)
    BY <1>3
  <2>2. QED
    BY <1>3, <2>1
<1>7. SubSeq(q, 1, k) = y
  <2>1. \A i \in 1 .. Len(p) : q[i] = <<p[i]>>
    OBVIOUS
  <2>2. \A i \in 1 .. Len(u) : y[i] = <<u[i]>>
    OBVIOUS
  <2> HIDE DEF q, y
  <2> DEFINE x == SubSeq(q, 1, k)
  <2>3. k \in 0 .. Len(q)
    BY <1>2, <1>5
  <2>4. x \in Seq(Seq(Symbol)) /\ Len(x) = k /\ \A i \in 1 .. k : x[i] = q[i]
    <3>1. Upto(q, k) \in Seq(Seq(Symbol)) /\ Len(Upto(q, k)) = k /\ \A i \in 1 .. k : Upto(q, k)[i] = q[i]
      BY <1>5, <2>3, UptoIs
    <3>2. QED
      BY <3>1 DEF Upto
  <2> HIDE DEF x
  <2>5. ASSUME NEW i \in 1 .. Len(x) PROVE x[i] = y[i]
    <3>1. i \in 1 .. k /\ i \in 1 .. Len(p) /\ i \in 1 .. Len(u)
      BY <1>1, <1>2, <1>3, <2>4
    <3>2. QED
      BY <1>3, <2>1, <2>2, <2>4, <3>1
  <2>6. x = y
    BY <1>6, <2>4, <2>5, EqualTexts
  <2>7. QED
    BY <2>6 DEF x
<1>8. QED
  BY <1>4, <1>7 DEF p, u, q

-----------------------------------------------------------------------------
(* What the positions of a response say, next to what is read.             *)

(* The fields of a response, one by one.                                    *)
LEMMA ResponseIs ==
  ASSUME NEW s
  PROVE  LET r == Response(s)
         IN /\ r.code = Value(s.status, DecDigit, 10) /\ r.codeAt = 1 /\ r.codeEnd = 4
            /\ (r.chunked <=> s.frame = "chunks") /\ r.chunkedEnd = Len(Start(s)) + 3
            /\ r.clen = (IF s.frame = "length" THEN Len(Page(s)) ELSE -1)
            /\ r.head = Len(Header(s)) + 4 /\ r.total = Len(Header(s)) + 4 + Len(Body(s))
            /\ r.quotes = s.quotes /\ r.text = Written(s)
            /\ s.frame = "chunks" => r.chunkEnds = ChunkEnds(s) /\ r.parts = Datas(s)
            /\ s.frame # "chunks" => r.parts = [i \in 1 .. Len(Page(s)) |-> <<Page(s)[i]>>]
<1>1. /\ Response(s).code = Value(s.status, DecDigit, 10)
      /\ Response(s).codeAt = 1 /\ Response(s).codeEnd = 4
  BY DEF Response
<1>2. /\ Response(s).chunked <=> s.frame = "chunks"
      /\ Response(s).chunkedEnd = Len(Start(s)) + 3
  BY DEF Response
<1>3. Response(s).clen = IF s.frame = "length" THEN Len(Page(s)) ELSE -1
  BY DEF Response, NoLength
<1>4. /\ Response(s).head = Len(Header(s)) + 4
      /\ Response(s).total = Len(Header(s)) + 4 + Len(Body(s))
  BY DEF Response
<1>5. Response(s).quotes = s.quotes /\ Response(s).text = Written(s)
  BY DEF Response, Written
<1>6. s.frame = "chunks" => Response(s).chunkEnds = ChunkEnds(s) /\ Response(s).parts = Datas(s)
  BY DEF Response, Datas
<1>7. s.frame # "chunks" => Response(s).parts = [i \in 1 .. Len(Page(s)) |-> <<Page(s)[i]>>]
  BY DEF Response
<1>8. QED
  BY <1>1, <1>2, <1>3, <1>4, <1>5, <1>6, <1>7

(* The line that frames the content is in the header.                       *)
LEMMA FramingInHeader ==
  ASSUME NEW s, Grammatical(s)
  PROVE  Len(Start(s)) \in Nat /\ Len(Start(s)) + 3 <= Len(Header(s)) + 4
<1>1. /\ Len(Start(s)) \in Nat
      /\ Len(Header(s)) = Len(Start(s)) + Len(FramingLine(s)) + Len(s.after)
  <2>1. Start(s) \in Seq(Symbol)
    BY StartIs
  <2>2. Len(Header(s)) = Len(Start(s)) + Len(FramingLine(s)) + Len(s.after)
    BY HeaderIs
  <2>3. QED
    BY <2>1, <2>2
<1>2. Len(FramingLine(s)) \in Nat /\ Len(s.after) \in Nat
  BY FramingSymbols, ScriptSymbols
<1>3. \A x, y, z \in Nat : x + 3 <= x + y + z + 4
  OBVIOUS
<1>4. Len(Start(s)) + 3 <= Len(Start(s)) + Len(FramingLine(s)) + Len(s.after) + 4
  BY <1>1, <1>2, <1>3, Zenon
<1>5. QED
  BY <1>1, <1>4, Zenon

(* The receive loop reads the header alone, and finds how the content is    *)
(* framed, and nothing else.                                               *)
LEMMA HeaderRead ==
  ASSUME NEW s, Grammatical(s)
  PROVE  LET u == Upto(Written(s), Len(Header(s)) + 4)
         IN /\ get_http_return_code(u) = Value(s.status, DecDigit, 10)
            /\ get_content_length(u) = IF s.frame = "length" THEN Len(Page(s)) ELSE NotFound
            /\ is_chunked_encoding(u) <=> s.frame = "chunks"
<1> DEFINE w == Written(s)
           h == Len(Header(s)) + 4
           u == Upto(w, h)
<1>1. h \in 0 .. Len(w) /\ h >= 4
  <2>1. Len(w) = Len(Header(s)) + 4 + Len(Body(s)) /\ Len(Header(s)) \in Nat
    BY WrittenIs, HeaderIs
  <2>2. Len(Body(s)) \in Nat
    BY BodySymbols
  <2> HIDE DEF w
  <2>3. QED
    BY <2>1, <2>2
<1>2. s.frame \in {"length", "chunks", "close"}
  BY FramingSymbols
<1>3. /\ Lines(Header(s))
      /\ s.frame # "chunks" => Without(Header(s), {ChunkedField})
      /\ s.frame # "length" => Without(Header(s), {LengthField})
  BY HeaderLines
<1>4. \A field \in {LengthField, ChunkedField} :
        Without(Header(s), {field}) => FindAfter(u, CRLF \o <<field>>) = NotFound
  BY HeaderText
<1>5. get_http_return_code(u) = Value(s.status, DecDigit, 10)
  BY <1>1, CodeRead
<1>6. s.frame = "length" => get_content_length(u) = Len(Page(s))
  BY <1>1, LengthRead
<1>7. s.frame # "length" => get_content_length(u) = NotFound
  <2>1. s.frame # "length" => FindAfter(u, CRLF \o <<LengthField>>) = NotFound
    BY <1>3, <1>4
  <2> HIDE DEF u
  <2>2. QED
    BY <2>1 DEF get_content_length, NumberAfter
<1>8. s.frame = "chunks" => is_chunked_encoding(u)
  <2>1. ASSUME s.frame = "chunks" PROVE is_chunked_encoding(u)
    <3>1. FindAfter(u, CRLF \o <<ChunkedField>>) =
            IF Len(Start(s)) + 3 <= h THEN Len(Start(s)) + 3 ELSE NotFound
      BY <1>1, <2>1, FramingFound
    <3>2. Len(Start(s)) \in Nat /\ Len(Start(s)) + 3 <= h
      BY FramingInHeader
    <3>5. FindAfter(u, CRLF \o <<ChunkedField>>) # NotFound
      <4> HIDE DEF u, h
      <4>1. QED
        BY <3>1, <3>2 DEF NotFound
    <3>6. QED
      BY <3>5 DEF is_chunked_encoding
  <2>2. QED
    BY <2>1
<1>9. s.frame # "chunks" => ~is_chunked_encoding(u)
  BY <1>3, <1>4 DEF is_chunked_encoding
<1> HIDE DEF u
<1>10. QED
  BY <1>5, <1>6, <1>7, <1>8, <1>9 DEF u, w, h

(* The ends of the chunks come one after the other.                         *)
LEMMA EndsInOrder ==
  ASSUME NEW s, Grammatical(s), s.frame = "chunks",
         NEW i \in 1 .. Len(s.chunks), NEW j \in 1 .. Len(s.chunks), i <= j
  PROVE  ChunkEnds(s)[i] <= ChunkEnds(s)[j] /\ ChunkEnds(s)[i] \in Nat
<1> DEFINE c == Len(s.chunks)
           e == [k \in 1 .. c |-> ChunkStart(s, k + 1)]
           S == {k \in 1 .. c : i <= k => e[i] <= e[k]}
<1>1. /\ c \in Nat
      /\ \A k \in 1 .. c + 1 : ChunkStart(s, k) \in Nat
      /\ \A k \in 1 .. c : ChunkStart(s, k) < ChunkStart(s, k + 1)
  BY ChunkStarts
<1>2. \A k \in 1 .. c : ChunkEnds(s)[k] = ChunkStart(s, k + 1)
  BY ChunkedBodyIs
<1>3. i \in 1 .. c /\ j \in 1 .. c
  OBVIOUS
<1> HIDE DEF c
<1>4. \A k \in 1 .. c : e[k] \in Nat /\ e[k] = ChunkEnds(s)[k]
  BY <1>1, <1>2
<1>5. \A k \in 1 .. c - 1 : e[k] < e[k + 1]
  <2>1. ASSUME NEW k \in 1 .. c - 1 PROVE e[k] < e[k + 1]
    <3>1. k \in 1 .. c /\ k + 1 \in 1 .. c /\ (k + 1) + 1 \in 1 .. c + 1
      BY <1>1
    <3>2. ChunkStart(s, k + 1) < ChunkStart(s, (k + 1) + 1)
      BY <1>1, <3>1
    <3>3. e[k] = ChunkStart(s, k + 1) /\ e[k + 1] = ChunkStart(s, (k + 1) + 1)
      BY <3>1
    <3>4. QED
      BY <3>2, <3>3
  <2>2. QED
    BY <2>1
<1> HIDE DEF e
<1>6. c >= 1 => 1 \in S
  BY <1>1, <1>3, <1>4
<1>7. \A k \in 1 .. c - 1 : k \in S => k + 1 \in S
  <2>1. ASSUME NEW k \in 1 .. c - 1, k \in S PROVE k + 1 \in S
    <3>1. k \in 1 .. c /\ k + 1 \in 1 .. c
      BY <1>1
    <3>2. e[k] < e[k + 1] /\ e[k] \in Nat /\ e[k + 1] \in Nat /\ e[i] \in Nat
      BY <1>3, <1>4, <1>5, <3>1
    <3>3. i <= k \/ i > k
      BY <1>3
    <3>4. i <= k => e[i] <= e[k + 1]
      BY <2>1, <3>2
    <3>5. i > k /\ i <= k + 1 => i = k + 1
      BY <1>3
    <3>6. i <= k + 1 => e[i] <= e[k + 1]
      BY <3>2, <3>3, <3>4, <3>5
    <3>7. QED
      BY <3>1, <3>6
  <2>2. QED
    BY <2>1
<1>8. \A k \in 1 .. c : k \in S
  <2> HIDE DEF S
  <2>1. QED
    BY <1>1, <1>6, <1>7, AllPositions
<1>9. QED
  BY <1>3, <1>4, <1>8

(* The chunks that have arrived, as the positions count them, are those that *)
(* the walk passes.                                                        *)
LEMMA ChunksAgree ==
  ASSUME NEW s, Grammatical(s), s.frame = "chunks",
         NEW n \in 0 .. Len(Written(s)), n >= Len(Header(s)) + 4
  PROVE  LET m == ChunksSeen(Response(s), n)
         IN /\ m \in 0 .. Len(s.chunks)
            /\ Chunks(From(Upto(Written(s), n), Len(Header(s)) + 4)) =
                 [last |-> LastChunkSeen(Response(s), n), data |-> FlattenSeq(SubSeq(Datas(s), 1, m))]
<1> DEFINE r == Response(s)
           c == Len(s.chunks)
           h == Len(Header(s)) + 4
           b == n - h
           e == ChunkEnds(s)
           S == {i \in 0 .. c : i = 0 \/ e[i] <= b}
           m == Max(S)
<1>1. r.head = h /\ r.chunkEnds = e /\ r.chunked
  BY ResponseIs
<1>2. b \in 0 .. Len(Body(s)) /\ From(Upto(Written(s), n), h) = Upto(Body(s), b)
  BY ReceivedParts
<1>3. c \in Nat /\ h \in Nat /\ n \in Nat
  BY ChunkSymbols, HeaderIs
<1>4. \A i \in 1 .. c : \A j \in 1 .. c : i <= j => e[i] <= e[j] /\ e[i] \in Nat
  BY EndsInOrder
<1>5. Len(e) = c + 1 /\ e[c + 1] \in Nat
  <2>1. e = [i \in 1 .. c + 1 |-> e[i]]
    BY DEF ChunkEnds
  <2>2. e[c + 1] = ChunkStart(s, c + 1) + Len(s.size) + 2
    BY ChunkedBodyIs
  <2>3. ChunkStart(s, c + 1) \in Nat
    <3>1. /\ c \in Nat
          /\ \A k \in 1 .. c + 1 : ChunkStart(s, k) \in Nat
      BY ChunkStarts
    <3> HIDE DEF c
    <3>2. c + 1 \in 1 .. c + 1
      BY <3>1
    <3>3. QED
      BY <3>1, <3>2
  <2>4. Len(s.size) \in Nat
    BY ScriptSymbols
  <2> HIDE DEF e, c
  <2>5. Len(e) = c + 1
    <3>1. DOMAIN e = 1 .. c + 1
      BY <2>1
    <3>2. Len([i \in 1 .. c + 1 |-> e[i]]) = c + 1
      BY <1>3
    <3>3. QED
      BY <2>1, <3>2
  <2>6. QED
    BY <2>2, <2>3, <2>4, <2>5
<1> HIDE DEF c, e, h
<1>6. m \in S /\ \A i \in S : i <= m
  <2>1. S \in SUBSET (0 .. c) /\ 0 \in S
    BY <1>3
  <2> HIDE DEF S
  <2>2. S # {}
    BY <2>1
  <2>3. QED
    BY <1>3, <2>1, <2>2, GreatestIs
<1>7. m \in 0 .. c
  BY <1>6
<1> HIDE DEF m
<1>8. ASSUME NEW i \in 1 .. c PROVE e[i] <= b <=> i <= m
  <2>1. ASSUME e[i] <= b PROVE i <= m
    <3>1. i \in S
      BY <1>3, <2>1
    <3>2. QED
      BY <1>6, <3>1
  <2>2. ASSUME i <= m PROVE e[i] <= b
    <3>1. m \in 1 .. c
      BY <1>3, <1>7, <2>2
    <3>2. e[m] <= b
      BY <1>6, <3>1
    <3>3. e[i] <= e[m] /\ e[i] \in Nat /\ e[m] \in Nat
      BY <1>4, <2>2, <3>1
    <3>4. b \in Int
      BY <1>3
    <3> HIDE DEF b
    <3>5. QED
      BY <3>2, <3>3, <3>4
  <2>3. QED
    BY <2>1, <2>2
<1>9. Chunks(Upto(Body(s), b)) = [last |-> e[c + 1] <= b, data |-> FlattenSeq(SubSeq(Datas(s), 1, m))]
  <2>1. \A i \in 1 .. Len(s.chunks) : ChunkEnds(s)[i] <= b <=> i <= m
    BY <1>8 DEF c, e
  <2>2. m \in 0 .. Len(s.chunks)
    BY <1>7 DEF c
  <2> HIDE DEF b
  <2>3. QED
    BY <1>2, <2>1, <2>2, ChunksOfBody DEF c, e
<1>10. LastChunkSeen(r, n) <=> e[c + 1] <= b
  <2>1. LastChunkSeen(r, n) <=> h + e[c + 1] <= n
    BY <1>1, <1>5 DEF LastChunkSeen
  <2>2. QED
    BY <1>3, <1>5, <2>1
<1>11. LastChunkSeen(r, n) = (e[c + 1] <= b)
  BY <1>10 DEF LastChunkSeen
<1>12. ChunksSeen(r, n) = m
  <2>1. ChunksSeen(r, n) = Cardinality({i \in 1 .. c : h + e[i] <= n})
    <3>1. Len(r.chunkEnds) - 1 = c
      BY <1>1, <1>3, <1>5
    <3> HIDE DEF r
    <3>2. QED
      BY <1>1, <3>1 DEF ChunksSeen
  <2>2. ASSUME NEW i \in 1 .. c PROVE h + e[i] <= n <=> i <= m
    <3>1. e[i] \in Nat
      BY <1>3, <1>4
    <3>2. h + e[i] <= n <=> e[i] <= b
      BY <1>3, <3>1
    <3>3. QED
      BY <1>8, <3>2
  <2>3. {i \in 1 .. c : h + e[i] <= n} = 1 .. m
    <3>1. \A i : i \in 1 .. m <=> i \in 1 .. c /\ i <= m
      BY <1>3, <1>7
    <3>2. QED
      BY <2>2, <3>1
  <2>4. Cardinality(1 .. m) = m
    <3>1. Cardinality(1 .. m) = IF 1 > m THEN 0 ELSE m - 1 + 1
      BY <1>7, FS_Interval
    <3>2. QED
      BY <1>3, <1>7, <3>1
  <2>5. QED
    BY <2>1, <2>3, <2>4
<1>13. QED
  <2> HIDE DEF b
  <2>1. QED
    BY <1>2, <1>7, <1>9, <1>11, <1>12 DEF c, h, r
-----------------------------------------------------------------------------
(* The readers of the whole text answer as the positions say.               *)

(* The receive loop ends where the positions say that the response ends.    *)
LEMMA CompleteAgrees ==
  ASSUME NEW s, Grammatical(s), NEW n \in 0 .. Len(Written(s))
  PROVE  IsComplete(Upto(Written(s), n)) <=> TransferComplete(Response(s), n)
<1> DEFINE r == Response(s)
           h == Len(Header(s)) + 4
           t == Upto(Written(s), n)
           u == Upto(Written(s), h)
<1>1. r.head = h /\ h \in Nat /\ n \in Nat
  <2>1. Len(Written(s)) \in Nat
    BY WrittenIs
  <2>2. r.head = h
    BY ResponseIs
  <2>3. Len(Header(s)) \in Nat
    BY HeaderIs
  <2>4. n \in Nat
    BY <2>1
  <2> HIDE DEF r
  <2>5. h \in Nat
    BY <2>3
  <2>6. QED
    BY <2>2, <2>4, <2>5
<1>2. get_content_offset(t) = IF h <= n THEN h ELSE NotFound
  BY HeaderEnd
<1>3. CASE n < h
  <2>1. ~IsComplete(t)
    <3>1. get_content_offset(t) = NotFound
      BY <1>1, <1>2, <1>3
    <3> HIDE DEF t
    <3>2. QED
      BY <3>1 DEF IsComplete
  <2>2. ~TransferComplete(r, n)
    <3> HIDE DEF r, h
    <3>1. QED
      BY <1>1, <1>3 DEF TransferComplete, HeaderComplete
  <2>3. QED
    BY <2>1, <2>2
<1>4. CASE n >= h
  <2>1. t \in Seq(Symbol) /\ Len(t) = n /\ Upto(t, h) = u
    BY <1>4, ReceivedParts
  <2>2. get_content_offset(t) = h
    BY <1>1, <1>2, <1>4
  <2>3. /\ get_http_return_code(u) = r.code
        /\ get_content_length(u) = r.clen
        /\ is_chunked_encoding(u) <=> r.chunked
    BY HeaderRead, ResponseIs DEF NotFound
  <2>4. Chunks(From(t, h)).last = LastChunkSeen(r, n) \/ ~r.chunked
    <3>1. CASE s.frame = "chunks"
      <4>1. Chunks(From(t, h)) = [last |-> LastChunkSeen(r, n),
                                  data |-> FlattenSeq(SubSeq(Datas(s), 1, ChunksSeen(r, n)))]
        BY <1>4, <3>1, ChunksAgree
      <4> HIDE DEF t, h, r
      <4>2. QED
        BY <4>1
    <3>2. CASE s.frame # "chunks"
      BY <3>2, ResponseIs
    <3>3. QED
      BY <3>1, <3>2
  <2> HIDE DEF t, h, r, u
  <2>5. IsComplete(t) <=> \/ ~r.chunked /\ r.clen = NotFound /\ r.code = 204
                          \/ r.clen # NotFound /\ n >= h + r.clen
                          \/ r.chunked /\ Chunks(From(t, h)).last
    <3>1. h # NotFound
      BY <1>1 DEF NotFound
    <3>2. QED
      BY <2>1, <2>2, <2>3, <3>1 DEF IsComplete
  <2>6. TransferComplete(r, n) <=> \/ ~r.chunked /\ r.clen = NotFound /\ r.code = 204
                                   \/ r.clen # NotFound /\ n >= h + r.clen
                                   \/ r.chunked /\ LastChunkSeen(r, n)
    <3>1. LastChunkSeen(r, n) => r.chunked
      BY DEF LastChunkSeen
    <3>2. HeaderComplete(r, n)
      BY <1>1, <1>4 DEF HeaderComplete
    <3>3. QED
      BY <1>1, <3>1, <3>2
         DEF TransferComplete, EmptyByCode, CompleteByLength, NoLength, NotFound
  <2>7. QED
    BY <2>4, <2>5, <2>6 DEF r, t
<1>5. QED
  BY <1>1, <1>3, <1>4

(* Code is what is read where the positions say expected.                   *)
SameCode(code, expected) ==
  IF expected = CutShort THEN code \in 0 .. CutShort ELSE code = expected

(* The status code, also one that is cut short.                             *)
LEMMA CodeAgrees ==
  ASSUME NEW s, Grammatical(s), NEW n \in 0 .. Len(Written(s))
  PROVE  LET code == get_http_return_code(Upto(Written(s), n))
             seen == CodeSeen(Response(s), n)
         IN /\ code \in Nat \cup {NotFound} /\ SameCode(code, seen)
            /\ seen = Failure <=> code = NotFound
            /\ n >= 4 => code # NotFound
<1> DEFINE r == Response(s)
           code == get_http_return_code(Upto(Written(s), n))
           value == Value(s.status, DecDigit, 10)
           Good == /\ code \in Nat \cup {NotFound} /\ SameCode(code, CodeSeen(r, n))
                   /\ CodeSeen(r, n) = Failure <=> code = NotFound
                   /\ n >= 4 => code # NotFound
<1>1. r.code = value /\ r.codeAt = 1 /\ r.codeEnd = 4
  BY ResponseIs
<1>2. /\ n <= 1 => code = NotFound
      /\ n \in 2 .. 3 => code \in 0 .. 99
      /\ n >= 4 => code = value
  BY CodeRead
<1>3. value \in Nat
  <2>1. Len(s.status) = 3 /\ \A i \in 1 .. 3 : s.status[i] \in DOMAIN DecDigit
    BY StatusIs
  <2>2. \A i \in 1 .. Len(s.status) : DecDigit[s.status[i]] \in Nat
    BY <2>1, DecDigitValues
  <2>3. Len(s.status) \in Nat /\ 10 \in Nat
    BY <2>1
  <2>4. QED
    BY <2>2, <2>3, ValueIsNat, Zenon
<1>4. n \in Nat
  <2>1. Len(Written(s)) \in Nat
    BY WrittenIs
  <2>2. QED
    BY <2>1
<1> HIDE DEF r, code, value
<1>5. ASSUME n <= 1 PROVE Good
  BY <1>1, <1>2, <1>4, <1>5 DEF CodeSeen, SameCode, CutShort, Failure, NotFound
<1>6. ASSUME n \in 2 .. 3 PROVE Good
  <2>1. n > 1 /\ ~(n >= 4) /\ code \in 0 .. 99
    BY <1>2, <1>4, <1>6
  <2>2. CodeSeen(r, n) = 99
    BY <1>1, <2>1 DEF CodeSeen, CutShort
  <2>3. code \in Nat /\ code # -1
    BY <2>1
  <2>4. SameCode(code, CodeSeen(r, n))
    BY <2>1, <2>2 DEF SameCode, CutShort
  <2>5. QED
    BY <2>1, <2>2, <2>3, <2>4 DEF Failure, NotFound
<1>7. ASSUME n >= 4 PROVE Good
  BY <1>1, <1>2, <1>3, <1>4, <1>7 DEF CodeSeen, SameCode, CutShort, Failure, NotFound
<1>8. n <= 1 \/ n \in 2 .. 3 \/ n >= 4
  BY <1>4
<1>9. Good
  <2> HIDE DEF Good
  <2>1. QED
    BY <1>5, <1>6, <1>7, <1>8
<1>10. QED
  BY <1>9 DEF r, code
(* What a content quotes is no other field.                                 *)
LEMMA QuotedOnly ==
  ASSUME NEW s, Grammatical(s), NEW field \in {LengthField, ChunkedField},
         s.quotes = "length" => field = ChunkedField,
         s.quotes = "chunked" => field = LengthField
  PROVE  Without(Quotation(s), {field})
<1>1. s.quotes \in {"nothing", "length", "chunked"}
  BY QuotationSymbols
<1>2. LengthField # ChunkedField /\ field \notin {Space, "\r", "\n", "0"}
  BY DifferentSymbols, Zenon
<1>3. ASSUME NEW q, q \in Seq(Symbol), \A i \in 1 .. Len(q) : q[i] # field
      PROVE  Without(q, {field})
  BY <1>3 DEF Without
<1>4. CASE s.quotes = "nothing"
  <2>1. Quotation(s) = <<>>
    BY <1>4, QuotationSymbols
  <2>2. QED
    BY <2>1 DEF Without
<1>5. CASE s.quotes = "chunked"
  <2> DEFINE q == CRLF \o <<ChunkedField>>
  <2>1. Quotation(s) = q /\ field # ChunkedField
    BY <1>2, <1>5, QuotationSymbols
  <2>2. q \in Seq(Symbol) /\ Len(q) = 3 /\ q[1] = "\r" /\ q[2] = "\n" /\ q[3] = ChunkedField
    BY FieldIs, NamedSymbols
  <2> HIDE DEF q
  <2>3. q[1] # field /\ q[2] # field /\ q[3] # field
    BY <1>2, <2>1, <2>2, Zenon
  <2>4. \A i \in 1 .. 3 : i = 1 \/ i = 2 \/ i = 3
    OBVIOUS
  <2>5. \A i \in 1 .. Len(q) : q[i] # field
    BY <2>2, <2>3, <2>4
  <2>6. QED
    BY <1>3, <2>1, <2>2, <2>5
<1>6. CASE s.quotes = "length"
  <2> DEFINE x == <<LengthField, Space, "0">>
             q == CRLF \o x
  <2>1. Quotation(s) = q /\ field # LengthField
    BY <1>2, <1>6, QuotationSymbols
  <2>2. x \in Seq(Symbol) /\ Len(x) = 3 /\ x[1] = LengthField /\ x[2] = Space /\ x[3] = "0"
    BY NamedSymbols
  <2>3. CRLF \in Seq(Symbol) /\ Len(CRLF) = 2 /\ CRLF[1] = "\r" /\ CRLF[2] = "\n"
    BY LineEndIs
  <2> HIDE DEF x
  <2>4. x[1] # field /\ x[2] # field /\ x[3] # field /\ CRLF[1] # field /\ CRLF[2] # field
    BY <1>2, <2>1, <2>2, <2>3, Zenon
  <2>5. \A i \in 1 .. 3 : i = 1 \/ i = 2 \/ i = 3
    OBVIOUS
  <2>6. \A i \in 1 .. 2 : i = 1 \/ i = 2
    OBVIOUS
  <2>7. Without(x, {field})
    BY <2>2, <2>4, <2>5 DEF Without
  <2>8. Without(CRLF, {field})
    BY <2>3, <2>4, <2>6 DEF Without
  <2>9. Without(q, {field})
    BY <2>2, <2>3, <2>7, <2>8, WithoutJoin
  <2>10. QED
    BY <2>1, <2>9
<1>7. QED
  BY <1>1, <1>4, <1>5, <1>6

(* A field that neither frames the content nor is quoted is not found.      *)
LEMMA NotInPage ==
  ASSUME NEW s, Grammatical(s), s.frame # "chunks", NEW field \in {LengthField, ChunkedField},
         s.quotes = "length" => field = ChunkedField,
         s.quotes = "chunked" => field = LengthField,
         field = LengthField => s.frame = "close",
         NEW n \in 0 .. Len(Written(s))
  PROVE  FindAfter(Upto(Written(s), n), CRLF \o <<field>>) = NotFound
<1>1. Without(Quotation(s), {field})
  BY QuotedOnly
<1>2. Without(s.body, {field})
  BY DEF Grammatical, Quotes
<1>3. s.body \in Seq(Symbol) /\ Quotation(s) \in Seq(Symbol)
  BY ScriptSymbols, QuotationSymbols
<1>4. Without(Page(s), {field})
  BY <1>1, <1>2, <1>3, WithoutJoin DEF Page
<1>5. Without(Header(s), {field})
  <2>1. s.frame # "length" \/ field = ChunkedField
    <3>1. field = LengthField => s.frame # "length"
      OBVIOUS
    <3>2. QED
      BY <3>1, Zenon
  <2>2. /\ s.frame # "chunks" => Without(Header(s), {ChunkedField})
        /\ s.frame # "length" => Without(Header(s), {LengthField})
    BY HeaderLines
  <2>3. QED
    BY <2>1, <2>2, Zenon
<1>6. QED
  BY <1>4, <1>5, FieldMissing

(* Chunked encoding is found once the line that says so has arrived.        *)
LEMMA ChunkedAgrees ==
  ASSUME NEW s, Grammatical(s), NEW n \in 0 .. Len(Written(s))
  PROVE  /\ is_chunked_encoding(Upto(Written(s), n)) <=> ChunkedIn(Response(s), n)
         /\ s.frame = "chunks" /\ n >= Len(Header(s)) + 4 => ChunkedIn(Response(s), n)
<1> DEFINE r == Response(s)
           t == Upto(Written(s), n)
           k == Len(Start(s)) + 3
<1>1. /\ r.chunked <=> s.frame = "chunks"
      /\ r.chunkedEnd = k
      /\ r.quotes = s.quotes
  BY ResponseIs
<1>2. r.total = Len(Written(s))
  <2>1. r.total = Len(Header(s)) + 4 + Len(Body(s))
    BY ResponseIs
  <2>2. Len(Written(s)) = Len(Header(s)) + 4 + Len(Body(s))
    BY WrittenIs
  <2>3. QED
    BY <2>1, <2>2
<1>3. k \in Nat /\ k <= Len(Header(s)) + 4
  <2>1. Len(Start(s)) \in Nat
    BY FramingInHeader
  <2>2. Len(Start(s)) + 3 <= Len(Header(s)) + 4
    BY FramingInHeader
  <2>3. QED
    BY <2>1, <2>2
<1>4. n \in Nat /\ Len(Header(s)) \in Nat
  <2>1. Len(Written(s)) \in Nat
    BY WrittenIs
  <2>2. Len(Header(s)) \in Nat
    BY HeaderIs
  <2>3. QED
    BY <2>1, <2>2
<1>5. s.quotes = "chunked" => s.frame # "chunks"
  BY DEF Grammatical, Quotes
<1>6. CASE s.frame = "chunks"
  <2>1. FindAfter(t, CRLF \o <<ChunkedField>>) = IF k <= n THEN k ELSE NotFound
    BY <1>6, FramingFound
  <2> HIDE DEF r, t, k
  <2>2. is_chunked_encoding(t) <=> k <= n
    BY <1>3, <2>1 DEF is_chunked_encoding, NotFound
  <2>3. ChunkedIn(r, n) <=> k <= n
    BY <1>1, <1>3, <1>4, <1>5, <1>6 DEF ChunkedIn
  <2>4. n >= Len(Header(s)) + 4 => k <= n
    BY <1>3, <1>4
  <2>5. QED
    BY <2>2, <2>3, <2>4 DEF r, t
<1>7. CASE s.frame # "chunks" /\ s.quotes = "chunked"
  <2>1. is_chunked_encoding(t) <=> n = Len(Written(s))
    BY <1>7, QuotedChunked DEF is_chunked_encoding
  <2> HIDE DEF r, t, k
  <2>2. ChunkedIn(r, n) <=> n = Len(Written(s))
    BY <1>1, <1>2, <1>7 DEF ChunkedIn
  <2>3. QED
    BY <1>7, <2>1, <2>2 DEF r, t
<1>8. CASE s.frame # "chunks" /\ s.quotes # "chunked"
  <2>1. FindAfter(t, CRLF \o <<ChunkedField>>) = NotFound
    <3>1. ChunkedField \in {LengthField, ChunkedField} /\ ChunkedField # LengthField
      BY DifferentSymbols, Zenon
    <3>2. QED
      BY <1>8, <3>1, NotInPage
  <2>2. ~is_chunked_encoding(t)
    BY <2>1 DEF is_chunked_encoding
  <2> HIDE DEF r, t, k
  <2>3. ~ChunkedIn(r, n)
    BY <1>1, <1>8 DEF ChunkedIn
  <2>4. QED
    BY <1>8, <2>2, <2>3 DEF r, t
<1>9. QED
  BY <1>6, <1>7, <1>8

(* A length is found in the header, or quoted at the end of the content.    *)
LEMMA LengthAgrees ==
  ASSUME NEW s, Grammatical(s), s.frame # "chunks",
         NEW n \in 0 .. Len(Written(s)), n >= Len(Header(s)) + 4
  PROVE  get_content_length(Upto(Written(s), n)) = LengthIn(Response(s), n)
<1> DEFINE r == Response(s)
           t == Upto(Written(s), n)
<1>1. /\ r.clen = IF s.frame = "length" THEN Len(Page(s)) ELSE -1
      /\ r.quotes = s.quotes
  BY ResponseIs
<1>2. r.total = Len(Written(s))
  <2>1. r.total = Len(Header(s)) + 4 + Len(Body(s))
    BY ResponseIs
  <2>2. Len(Written(s)) = Len(Header(s)) + 4 + Len(Body(s))
    BY WrittenIs
  <2>3. QED
    BY <2>1, <2>2
<1>3. s.frame \in {"length", "close"} /\ (s.quotes = "length" => s.frame = "close")
  BY FramingSymbols DEF Grammatical, Quotes
<1>4. CASE s.frame = "length"
  <2>1. get_content_length(t) = Len(Page(s))
    BY <1>4, LengthRead
  <2>2. LengthIn(r, n) = Len(Page(s))
    BY <1>1, <1>3, <1>4 DEF LengthIn
  <2>3. QED
    BY <2>1, <2>2
<1>5. CASE s.quotes = "length"
  <2>1. get_content_length(t) = IF n = Len(Written(s)) THEN 0 ELSE NotFound
    BY <1>5, QuotedLength
  <2>2. LengthIn(r, n) = IF n = Len(Written(s)) THEN 0 ELSE NotFound
    <3> HIDE DEF r
    <3>1. QED
      BY <1>1, <1>2, <1>3, <1>5 DEF LengthIn, NoLength, NotFound
  <2>3. QED
    BY <2>1, <2>2
<1>6. CASE s.frame = "close" /\ s.quotes # "length"
  <2>1. FindAfter(t, CRLF \o <<LengthField>>) = NotFound
    BY <1>6, NotInPage, Zenon
  <2>2. get_content_length(t) = NotFound
    <3> HIDE DEF t
    <3>1. QED
      BY <2>1 DEF get_content_length, NumberAfter
  <2>3. LengthIn(r, n) = NotFound
    <3> HIDE DEF r
    <3>1. QED
      BY <1>1, <1>6 DEF LengthIn, NoLength, NotFound
  <2>4. QED
    BY <2>2, <2>3
<1>7. QED
  BY <1>3, <1>4, <1>5, <1>6
\* What the positions say is handed out.
Handed(s, content) ==
  IF content = None THEN Untouched ELSE FlattenSeq(SubSeq(Response(s).parts, 1, content))

Agrees(parsed, expected, s) ==
  SameCode(parsed.code, expected.code) /\ parsed.content = Handed(s, expected.content)

(* The parts, in chunks or symbol by symbol.                                *)
LEMMA HandedIs ==
  ASSUME NEW s, Grammatical(s), NEW k \in Nat
  PROVE  /\ Handed(s, None) = Untouched
         /\ s.frame = "chunks" => Handed(s, k) = FlattenSeq(SubSeq(Datas(s), 1, k))
         /\ s.frame # "chunks" /\ k <= Len(Page(s)) => Handed(s, k) = Upto(Page(s), k)
<1>1. k # None
  BY DEF None
<1>2. s.frame = "chunks" => Response(s).parts = Datas(s)
  BY ResponseIs
<1>3. s.frame # "chunks" => Response(s).parts = [i \in 1 .. Len(Page(s)) |-> <<Page(s)[i]>>]
  BY ResponseIs
<1>4. k <= Len(Page(s)) =>
        FlattenSeq(SubSeq([i \in 1 .. Len(Page(s)) |-> <<Page(s)[i]>>], 1, k)) = Upto(Page(s), k)
  <2>1. Len(Page(s)) \in Nat
    <3>1. Page(s) \in Seq(Symbol)
      BY PageIs
    <3>2. QED
      BY <3>1
  <2>2. k <= Len(Page(s)) => k \in 0 .. Len(Page(s))
    BY <2>1
  <2>3. QED
    BY <2>2, PageParts
<1>5. QED
  BY <1>1, <1>2, <1>3, <1>4 DEF Handed

(* What is read of a response whose content is framed by chunked encoding,  *)
(* or quotes it.                                                           *)
LEMMA ChunkedParseAgrees ==
  ASSUME NEW s, Grammatical(s), NEW n \in 0 .. Len(Written(s)), n >= Len(Header(s)) + 4,
         ChunkedIn(Response(s), n), NEW code, SameCode(code, CodeSeen(Response(s), n))
  PROVE  Agrees(AllChunks(code, Chunks(From(Upto(Written(s), n), Len(Header(s)) + 4))),
                ParseChunked(Response(s), n), s)
<1> DEFINE r == Response(s)
           h == Len(Header(s)) + 4
           walk == Chunks(From(Upto(Written(s), n), h))
           seen == CodeSeen(r, n)
<1>1. /\ r.chunked <=> s.frame = "chunks"
      /\ r.quotes = s.quotes /\ r.head = h
      /\ r.total = h + Len(Body(s))
  BY ResponseIs
<1>2. HeaderComplete(r, n)
  <2> HIDE DEF r, h
  <2>1. QED
    BY <1>1 DEF HeaderComplete, h
<1>3. ParseChunked(r, n) = [code |-> IF LastChunkSeen(r, n) THEN seen ELSE -1,
                            content |-> IF r.chunked THEN ChunksSeen(r, n) ELSE 0]
  <2> HIDE DEF r
  <2>1. QED
    BY <1>2 DEF ParseChunked, Failure
<1>4. AllChunks(code, walk) = [code |-> IF walk.last THEN code ELSE -1, content |-> walk.data]
  BY DEF AllChunks
<1>5. SameCode(-1, -1)
  BY DEF SameCode, CutShort
<1>6. SameCode(code, seen)
  OBVIOUS
<1>7. CASE s.frame = "chunks"
  <2>1. /\ ChunksSeen(r, n) \in 0 .. Len(s.chunks)
        /\ walk = [last |-> LastChunkSeen(r, n), data |-> FlattenSeq(SubSeq(Datas(s), 1, ChunksSeen(r, n)))]
    BY <1>7, ChunksAgree
  <2>2. ChunksSeen(r, n) \in Nat
    <3>1. Len(s.chunks) \in Nat
      BY ChunkSymbols
    <3> HIDE DEF r
    <3>2. QED
      BY <2>1, <3>1
  <2>3. Handed(s, ChunksSeen(r, n)) = FlattenSeq(SubSeq(Datas(s), 1, ChunksSeen(r, n)))
    BY <1>7, <2>2, HandedIs
  <2> HIDE DEF walk, r, seen
  <2>4. walk.last = LastChunkSeen(r, n) /\ walk.data = Handed(s, ChunksSeen(r, n))
    BY <2>1, <2>3
  <2>5. Agrees(AllChunks(code, walk), ParseChunked(r, n), s)
    BY <1>1, <1>3, <1>4, <1>5, <1>6, <1>7, <2>4 DEF Agrees
  <2>6. QED
    BY <2>5 DEF walk, r, h
<1>8. CASE s.frame # "chunks"
  <2>1. s.quotes = "chunked" /\ n = h + Len(Body(s))
    <3>1. ChunkedIn(r, n)
      OBVIOUS
    <3> HIDE DEF r, h
    <3>2. QED
      BY <1>1, <1>8, <3>1 DEF ChunkedIn
  <2>2. Body(s) = Page(s)
    BY <1>8 DEF Body
  <2>3. walk = Chunks(Page(s))
    <3>1. From(Upto(Written(s), n), h) = Upto(Body(s), n - h) /\ n - h \in 0 .. Len(Body(s))
      BY ReceivedParts
    <3>2. n - h = Len(Body(s))
      <4>1. Len(Body(s)) \in Nat /\ Len(Header(s)) \in Nat
        BY BodySymbols, HeaderIs
      <4>2. QED
        BY <2>1, <4>1
    <3>3. Upto(Body(s), Len(Body(s))) = Body(s)
      <4>1. Body(s) \in Seq(Symbol)
        BY BodySymbols
      <4>2. QED
        BY <4>1 DEF Upto
    <3>4. QED
      BY <2>2, <3>1, <3>2, <3>3
  <2>4. walk.last = FALSE /\ walk.data = <<>>
    <3>1. Chunks(Page(s)) = [last |-> FALSE, data |-> <<>>]
      BY <2>1, PageIsNoChunk
    <3> HIDE DEF walk
    <3>2. QED
      BY <2>3, <3>1
  <2>5. Handed(s, 0) = <<>>
    <3>1. Page(s) \in Seq(Symbol)
      BY PageIs
    <3>2. 0 <= Len(Page(s)) /\ 0 \in Nat
      BY <3>1
    <3>3. Handed(s, 0) = Upto(Page(s), 0)
      BY <1>8, <3>2, HandedIs
    <3>4. Upto(Page(s), 0) = <<>>
      BY <3>1 DEF Upto
    <3>5. QED
      BY <3>3, <3>4
  <2> HIDE DEF walk, r, seen
  <2>6. ~LastChunkSeen(r, n)
    BY <1>1, <1>8 DEF LastChunkSeen
  <2>7. ParseChunked(r, n) = [code |-> -1, content |-> 0]
    BY <1>1, <1>3, <1>8, <2>6
  <2>8. AllChunks(code, walk) = [code |-> -1, content |-> <<>>]
    BY <1>4, <2>4
  <2>9. Agrees(AllChunks(code, walk), ParseChunked(r, n), s)
    BY <1>5, <2>5, <2>7, <2>8 DEF Agrees
  <2>10. QED
    BY <2>9 DEF walk, r, h
<1>9. QED
  BY <1>7, <1>8

(* What is read of a content without chunked encoding.                      *)
LEMMA PlainParseAgrees ==
  ASSUME NEW s, Grammatical(s), NEW n \in 0 .. Len(Written(s)), n >= Len(Header(s)) + 4,
         ~ChunkedIn(Response(s), n), NEW code, SameCode(code, CodeSeen(Response(s), n))
  PROVE  LET t == Upto(Written(s), n)
             length == get_content_length(t)
             content == From(t, Len(Header(s)) + 4)
         IN Agrees(IF length = NotFound THEN [code |-> code, content |-> Untouched]
                   ELSE [code |-> IF Len(content) = length THEN code ELSE -1, content |-> content],
                   ParsePlain(Response(s), n), s)
<1> DEFINE r == Response(s)
           h == Len(Header(s)) + 4
           t == Upto(Written(s), n)
           content == From(t, h)
           length == LengthIn(r, n)
           seen == CodeSeen(r, n)
           p == Page(s)
<1>1. s.frame # "chunks"
  BY ChunkedAgrees
<1>2. get_content_length(t) = length
  BY <1>1, LengthAgrees
<1>3. r.head = h
  BY ResponseIs
<1>4. Body(s) = p /\ p \in Seq(Symbol)
  BY <1>1, PageIs DEF Body
<1>5. content = Upto(p, n - h) /\ n - h \in 0 .. Len(p)
  BY <1>4, ReceivedParts
<1>6. Len(content) = n - h
  <2> HIDE DEF content, h, p
  <2>1. QED
    BY <1>4, <1>5, UptoIs
<1>7. Handed(s, n - h) = content /\ n - h \in Nat
  <2>1. n - h \in Nat /\ n - h <= Len(p)
    <3>1. Len(p) \in Nat
      BY <1>4
    <3> HIDE DEF h, p
    <3>2. QED
      BY <1>5, <3>1
  <2> HIDE DEF h
  <2>2. Handed(s, n - h) = Upto(p, n - h)
    BY <1>1, <2>1, HandedIs
  <2>3. QED
    BY <1>5, <2>1, <2>2
<1>8. Handed(s, None) = Untouched
  BY HandedIs
<1>9. HeaderComplete(r, n)
  <2> HIDE DEF r, h
  <2>1. QED
    BY <1>3 DEF HeaderComplete, h
<1>10. SameCode(code, seen) /\ SameCode(-1, -1)
  BY DEF SameCode, CutShort
<1> HIDE DEF r, h, t, content, length, seen, p
<1>11. ParsePlain(r, n) =
         IF length = -1 THEN [code |-> seen, content |-> None]
         ELSE [code |-> IF n - h = length THEN seen ELSE -1, content |-> n - h]
  BY <1>3, <1>9 DEF ParsePlain, NoLength, Failure, length, seen
<1>12. CASE length = -1
  <2>1. Agrees([code |-> code, content |-> Untouched], ParsePlain(r, n), s)
    BY <1>8, <1>10, <1>11, <1>12 DEF Agrees
  <2>2. QED
    BY <1>2, <1>12, <2>1 DEF r, h, t, NotFound
<1>13. CASE length # -1
  <2>1. Agrees([code |-> IF Len(content) = length THEN code ELSE -1, content |-> content],
               ParsePlain(r, n), s)
    BY <1>6, <1>7, <1>10, <1>11, <1>13 DEF Agrees
  <2>2. QED
    BY <1>2, <1>13, <2>1 DEF r, h, t, content, NotFound
<1>14. QED
  BY <1>12, <1>13
(* The parser answers as the positions say, after any number of symbols.    *)
LEMMA ParseAgrees ==
  ASSUME NEW s, Grammatical(s), NEW n \in 0 .. Len(Written(s))
  PROVE  Agrees(ParseText(Upto(Written(s), n)), Parse(Response(s), n), s)
<1> DEFINE r == Response(s)
           h == Len(Header(s)) + 4
           t == Upto(Written(s), n)
           code == get_http_return_code(t)
           seen == CodeSeen(r, n)
           parsed == ParseText(t)
           expected == Parse(r, n)
           nothing == [code |-> -1, content |-> Untouched]
<1>1. /\ code \in Nat \cup {NotFound} /\ SameCode(code, seen)
      /\ seen = Failure <=> code = NotFound
  BY CodeAgrees
<1>2. is_chunked_encoding(t) <=> ChunkedIn(r, n)
  BY ChunkedAgrees
<1>3. get_content_offset(t) = IF h <= n THEN h ELSE NotFound
  BY HeaderEnd
<1>4. h \in Nat /\ n \in Nat /\ h # NotFound
  <2>1. Len(Written(s)) \in Nat /\ Len(Header(s)) \in Nat
    BY WrittenIs, HeaderIs
  <2>2. h \in Nat /\ n \in Nat
    BY <2>1
  <2> HIDE DEF h
  <2>3. QED
    BY <2>2 DEF NotFound
<1>5. HeaderComplete(r, n) <=> h <= n
  <2>1. r.head = h
    BY ResponseIs
  <2> HIDE DEF r, h
  <2>2. QED
    BY <1>4, <2>1 DEF HeaderComplete
<1>6. Handed(s, None) = Untouched
  BY HandedIs
<1>7. NoResult = [code |-> -1, content |-> None] /\ SameCode(-1, -1)
  BY DEF NoResult, Failure, SameCode, CutShort
<1>8. Agrees(nothing, NoResult, s)
  BY <1>6, <1>7 DEF Agrees
<1> HIDE DEF nothing
<1>9. CASE code = NotFound
  <2>1. parsed = nothing
    <3> HIDE DEF t
    <3>1. QED
      BY <1>9 DEF ParseText, nothing
  <2>2. expected = NoResult
    <3> HIDE DEF r
    <3>1. QED
      BY <1>1, <1>9 DEF Parse
  <2>3. QED
    BY <1>8, <2>1, <2>2
<1>10. CASE code # NotFound /\ ChunkedIn(r, n)
  <2>1. expected = ParseChunked(r, n)
    <3> HIDE DEF r
    <3>1. QED
      BY <1>1, <1>10 DEF Parse
  <2>2. CASE h <= n
    <3> DEFINE walk == Chunks(From(t, h))
    <3>1. parsed = AllChunks(code, walk)
      <4>1. get_content_offset(t) = h
        BY <1>3, <2>2
      <4> HIDE DEF t, h
      <4>2. QED
        BY <1>2, <1>4, <1>10, <4>1 DEF ParseText
    <3>2. n >= Len(Header(s)) + 4
      BY <1>4, <2>2
    <3>3. Agrees(AllChunks(code, walk), ParseChunked(r, n), s)
      BY <1>1, <1>10, <3>2, ChunkedParseAgrees
    <3>4. QED
      BY <2>1, <3>1, <3>3
  <2>3. CASE ~(h <= n)
    <3>1. get_content_offset(t) = NotFound
      BY <1>3, <2>3
    <3>2. parsed = nothing
      <4> HIDE DEF t, h
      <4>1. QED
        BY <1>2, <1>10, <3>1 DEF ParseText, nothing
    <3>3. ParseChunked(r, n) = NoResult
      <4> HIDE DEF r, h
      <4>1. QED
        BY <1>5, <2>3 DEF ParseChunked
    <3>4. QED
      BY <1>8, <2>1, <3>2, <3>3
  <2>4. QED
    BY <2>2, <2>3
<1>11. CASE code # NotFound /\ ~ChunkedIn(r, n)
  <2>1. expected = ParsePlain(r, n)
    <3> HIDE DEF r
    <3>1. QED
      BY <1>1, <1>11 DEF Parse
  <2> DEFINE length == get_content_length(t)
  <2>2. CASE h <= n
    <3> DEFINE content == From(t, h)
    <3>1. parsed = IF length = NotFound THEN [code |-> code, content |-> Untouched]
                   ELSE [code |-> IF Len(content) = length THEN code ELSE -1, content |-> content]
      <4>1. get_content_offset(t) = h
        BY <1>3, <2>2
      <4> HIDE DEF t, h
      <4>2. QED
        BY <1>2, <1>4, <1>11, <4>1 DEF ParseText
    <3>2. n >= Len(Header(s)) + 4
      BY <1>4, <2>2
    <3>3. Agrees(IF length = NotFound THEN [code |-> code, content |-> Untouched]
                 ELSE [code |-> IF Len(content) = length THEN code ELSE -1, content |-> content],
                 ParsePlain(r, n), s)
      BY <1>1, <1>11, <3>2, PlainParseAgrees
    <3>4. QED
      BY <2>1, <3>1, <3>3
  <2>3. CASE ~(h <= n)
    <3>1. get_content_offset(t) = NotFound
      BY <1>3, <2>3
    <3>2. parsed = [code |-> code, content |-> Untouched]
      <4> HIDE DEF t, h
      <4>1. QED
        BY <1>2, <1>11, <3>1 DEF ParseText
    <3>3. ParsePlain(r, n) = [code |-> seen, content |-> None]
      <4> HIDE DEF r, h
      <4>1. QED
        BY <1>5, <2>3 DEF ParsePlain
    <3>4. Agrees([code |-> code, content |-> Untouched], [code |-> seen, content |-> None], s)
      <4> HIDE DEF code, seen
      <4>1. QED
        BY <1>1, <1>6 DEF Agrees
    <3>5. QED
      BY <2>1, <3>2, <3>3, <3>4
  <2>4. QED
    BY <2>2, <2>3
<1>12. QED
  BY <1>9, <1>10, <1>11

-----------------------------------------------------------------------------
USE ResponseAssumption, BufferAssumption DEF WellFormed, NoLength, Failure, None

(* The inductive invariant.                                                *)
IInv ==
  /\ TypeOK
  /\ BufferBound
  /\ SocketClosed
  /\ NoTruncatedSuccess

-----------------------------------------------------------------------------
(* Facts about the parser.                                                 *)

(* The walk over the chunks counts the data chunks it passes.               *)
LEMMA ChunksSeenType ==
  ASSUME NEW r \in Responses, NEW n \in Nat
  PROVE  ChunksSeen(r, n) \in Nat
<1>1. IsFiniteSet(1 .. Len(r.chunkEnds) - 1)
  BY FS_Interval
<1>2. IsFiniteSet({i \in 1 .. Len(r.chunkEnds) - 1 : r.head + r.chunkEnds[i] <= n})
  BY <1>1, FS_Subset
<1>3. QED
  BY <1>2, FS_CardinalityType DEF ChunksSeen

(* A walk that reaches the last chunk has passed all the others.            *)
LEMMA WholeWalk ==
  ASSUME NEW r \in Responses, NEW n \in Nat, LastChunkSeen(r, n)
  PROVE  ChunksSeen(r, n) = Len(r.chunkEnds) - 1
<1> DEFINE last == Len(r.chunkEnds)
<1>1. last \in Nat \ {0} /\ r.head \in Nat
  BY DEF LastChunkSeen
<1>2. \A i \in 1 .. last : r.chunkEnds[i] \in Nat /\ r.chunkEnds[i] <= r.chunkEnds[last]
  BY DEF LastChunkSeen
<1>3. r.head + r.chunkEnds[last] <= n
  BY DEF LastChunkSeen
<1>4. \A i \in 1 .. last - 1 : r.head + r.chunkEnds[i] <= n
  <2> HIDE DEF last
  <2>1. ASSUME NEW i \in 1 .. last - 1
        PROVE  r.head + r.chunkEnds[i] <= n
    <3>1. i \in 1 .. last /\ last \in 1 .. last
      BY <1>1
    <3>2. r.chunkEnds[i] \in Nat /\ r.chunkEnds[last] \in Nat /\ r.chunkEnds[i] <= r.chunkEnds[last]
      BY <1>2, <3>1
    <3>3. \A x, y, z, t \in Nat : y <= z /\ x + z <= t => x + y <= t
      OBVIOUS
    <3>4. QED
      BY <1>1, <1>3, <3>2, <3>3, Zenon
  <2>2. QED
    BY <2>1
<1>5. {i \in 1 .. last - 1 : r.head + r.chunkEnds[i] <= n} = 1 .. last - 1
  BY <1>4
<1>6. Cardinality(1 .. last - 1) = last - 1
  <2> HIDE DEF last
  <2>1. last - 1 \in Int
    BY <1>1
  <2>2. Cardinality(1 .. last - 1) = IF 1 > last - 1 THEN 0 ELSE last - 1 - 1 + 1
    BY <2>1, FS_Interval
  <2>3. QED
    BY <1>1, <2>2
<1>7. QED
  BY <1>5, <1>6 DEF ChunksSeen

(* A result is a code and a content.                                        *)
LEMMA ParseType ==
  ASSUME NEW r \in Responses, NEW n \in Nat
  PROVE  Parse(r, n).code \in Int /\ Parse(r, n).content \in Int
<1>1. CodeSeen(r, n) \in Int
  BY DEF CodeSeen, CutShort
<1>2. ParseChunked(r, n).code \in Int /\ ParseChunked(r, n).content \in Int
  BY <1>1, ChunksSeenType DEF ParseChunked, NoResult
<1>3. ParsePlain(r, n).code \in Int /\ ParsePlain(r, n).content \in Int
  BY <1>1 DEF ParsePlain
<1>4. QED
  BY <1>2, <1>3 DEF Parse, NoResult

(* The parser does not take a part of a response for the whole.             *)
LEMMA ParseHonest ==
  ASSUME NEW r \in Responses, NEW n \in Nat,
         Parse(r, n).code # Failure, Parse(r, n).content # None
  PROVE  Parse(r, n).code = r.code /\ Parse(r, n).content = Payload(r)
<1>1. HeaderComplete(r, n)
  BY DEF Parse, ParseChunked, ParsePlain, NoResult
<1>2. CodeSeen(r, n) = r.code
  BY <1>1 DEF HeaderComplete, CodeSeen
<1>3. CASE ChunkedIn(r, n)
  <2>1. Parse(r, n) = ParseChunked(r, n)
    BY <1>3, <1>2 DEF Parse
  <2>2. LastChunkSeen(r, n)
    BY <1>1, <2>1 DEF ParseChunked
  <2>3. r.chunked
    BY <2>2 DEF LastChunkSeen
  <2>4. QED
    BY <1>1, <1>2, <2>1, <2>2, <2>3, WholeWalk DEF ParseChunked, Payload
<1>4. CASE ~ChunkedIn(r, n)
  <2>1. Parse(r, n) = ParsePlain(r, n)
    BY <1>4, <1>2 DEF Parse
  <2>2. ~r.chunked
    BY <1>1, <1>4 DEF ChunkedIn, HeaderComplete
  <2>3. n - r.head = LengthIn(r, n)
    BY <1>1, <2>1 DEF ParsePlain
  <2>4. r.clen # NoLength
    BY <1>1, <2>3 DEF LengthIn, HeaderComplete
  <2>5. QED
    BY <1>1, <1>2, <2>1, <2>2, <2>3, <2>4 DEF ParsePlain, LengthIn, Payload
<1>5. QED
  BY <1>3, <1>4

-----------------------------------------------------------------------------
(* Facts about the steps.                                                  *)

(* The buffer never shrinks.                                                *)
LEMMA ResizedType ==
  ASSUME TypeOK, NEW b \in Resized \cup {recv_buffer_size}
  PROVE  b \in Nat /\ b >= recv_buffer_size
  BY DEF TypeOK, Resized

(* A result is honest if it is a failure, or what the parser made of some   *)
(* part of the response.                                                   *)
Honest(res, r) ==
  res.code # Failure /\ res.content # None =>
    res.code = r.code /\ res.content = Payload(r)

LEMMA HonestResults ==
  ASSUME NEW r \in Responses, NEW n \in Nat
  PROVE  /\ Honest(NoResult, r)
         /\ Honest(Parse(r, n), r)
         /\ NoResult.code \in Int /\ NoResult.content \in Int
         /\ Parse(r, n).code \in Int /\ Parse(r, n).content \in Int
<1>1. Honest(NoResult, r) /\ NoResult.code \in Int /\ NoResult.content \in Int
  BY DEF Honest, NoResult
<1>2. Honest(Parse(r, n), r)
  BY ParseHonest DEF Honest
<1>3. QED
  BY <1>1, <1>2, ParseType

(* What the end of the receive loop does, whatever ended it.                *)
LEMMA EndReceiveKeeps ==
  ASSUME IInv, EndReceive, recv_buffer_size' \in Resized \cup {recv_buffer_size}
  PROVE  IInv'
<1>1. response \in Responses /\ nbytes_total \in Nat
  BY DEF IInv, TypeOK
<1>2. UNCHANGED <<serverVars, nbytes_total>> /\ phase' = "done" /\ socket' = "closed"
  BY DEF EndReceive, ParseAndClose, GiveUp
<1>3. result' = NoResult \/ result' = Parse(response, nbytes_total)
  BY DEF EndReceive, ParseAndClose, GiveUp
<1>4. Honest(result', response) /\ result'.code \in Int /\ result'.content \in Int
  BY <1>1, <1>3, HonestResults
<1>5. recv_buffer_size' \in Nat /\ recv_buffer_size' >= recv_buffer_size
  BY ResizedType DEF IInv
<1>6. TypeOK'
  BY <1>2, <1>4, <1>5 DEF IInv, TypeOK, serverVars
<1>7. BufferBound'
  BY <1>1, <1>2, <1>5 DEF IInv, TypeOK, BufferBound
<1>8. SocketClosed'
  BY <1>2 DEF SocketClosed
<1>9. NoTruncatedSuccess'
  BY <1>2, <1>4 DEF NoTruncatedSuccess, Honest, serverVars
<1>10. QED
  BY <1>6, <1>7, <1>8, <1>9 DEF IInv

(* What the receipt of a piece does.                                        *)
LEMMA ReceivePieceKeeps ==
  ASSUME IInv, NEW k \in 1 .. response.total, ReceivePiece(k)
  PROVE  IInv'
<1> DEFINE n == nbytes_total + k
<1>1. response \in Responses /\ nbytes_total \in Nat /\ sent \in Nat /\ k \in Nat
  BY DEF IInv, TypeOK
<1>2. recv_buffer_size' \in Nat /\ recv_buffer_size' >= recv_buffer_size
  BY ResizedType DEF IInv, ReceivePiece
<1>3. /\ nbytes_total' = n
      /\ n \in 0 .. sent
      /\ UNCHANGED serverVars
  BY <1>1 DEF ReceivePiece
<1>4. BufferBound'
  <2>1. k <= recv_buffer_size' - nbytes_total - 1
    BY DEF ReceivePiece, Room
  <2>2. n < recv_buffer_size'
    BY <1>1, <1>2, <2>1
  <2>3. QED
    BY <1>3, <2>2 DEF BufferBound
<1>5. CASE TransferComplete(response, n)
  <2>1. phase' = "done" /\ socket' = "closed" /\ result' = Parse(response, n)
    BY <1>3, <1>5 DEF ReceivePiece, ParseAndClose
  <2>2. Honest(result', response) /\ result'.code \in Int /\ result'.content \in Int
    BY <1>1, <2>1, HonestResults
  <2>3. TypeOK'
    BY <1>2, <1>3, <2>1, <2>2 DEF IInv, TypeOK, serverVars
  <2>4. SocketClosed' /\ NoTruncatedSuccess'
    BY <1>3, <2>1, <2>2 DEF SocketClosed, NoTruncatedSuccess, Honest, serverVars
  <2>5. QED
    BY <1>4, <2>3, <2>4 DEF IInv
<1>6. CASE ~TransferComplete(response, n)
  <2>1. phase = "receiving" /\ UNCHANGED <<phase, socket, result>>
    BY <1>3, <1>6 DEF ReceivePiece
  <2>2. TypeOK'
    BY <1>2, <1>3, <2>1 DEF IInv, TypeOK, serverVars
  <2>3. SocketClosed' /\ NoTruncatedSuccess'
    BY <2>1 DEF IInv, SocketClosed, NoTruncatedSuccess
  <2>4. QED
    BY <1>4, <2>2, <2>3 DEF IInv
<1>7. QED
  BY <1>5, <1>6

-----------------------------------------------------------------------------
(* The inductive invariant holds in every reachable state of the client.    *)
THEOREM Invariance == Spec => []IInv
<1>1. Init => IInv
  BY DEF Init, IInv, TypeOK, BufferBound, SocketClosed, NoTruncatedSuccess, NoResult
<1>2. IInv /\ [Next]_vars => IInv'
  <2>1. SUFFICES ASSUME IInv, [Next]_vars PROVE IInv'
    OBVIOUS
  <2> USE <2>1 DEF IInv, TypeOK, BufferBound, SocketClosed, NoTruncatedSuccess
  <2>2. CASE RejectRequest
    BY <2>2 DEF RejectRequest, NoResult, serverVars
  <2>3. CASE OpenSocket
    BY <2>3 DEF OpenSocket, StartOffset
  <2>4. CASE Connected \/ SendRequest
    BY <2>4 DEF Connected, SendRequest, serverVars
  <2>5. CASE ConnectFails \/ SendFails
    BY <2>5 DEF ConnectFails, SendFails, NoResult, serverVars
  <2>6. CASE \E k \in 1 .. response.total : ReceivePiece(k)
    BY <2>6, ReceivePieceKeeps
  <2>7. CASE ReceiveNothing
    BY <2>7, ResizedType DEF ReceiveNothing, serverVars
  <2>8. CASE PollHup \/ RecvFails \/ PollError \/ PollTimeout \/ PollFailure
    <3>1. EndReceive /\ recv_buffer_size' \in Resized \cup {recv_buffer_size}
      BY <2>8 DEF PollHup, RecvFails, PollError, PollTimeout, PollFailure
    <3>2. QED
      BY <3>1, EndReceiveKeeps
  <2>9. CASE \E k \in 1 .. response.total : ServerSends(k)
    BY <2>9 DEF ServerSends
  <2>10. CASE \E how \in {"fin", "reset"} : ServerCloses(how)
    BY <2>10 DEF ServerCloses
  <2>11. CASE UNCHANGED vars
    BY <2>11 DEF vars
  <2>12. QED
    BY <2>2, <2>3, <2>4, <2>5, <2>6, <2>7, <2>8, <2>9, <2>10, <2>11
       DEF Next, Request, Send, Iteration, PollReturns, Server
<1>3. QED
  BY <1>1, <1>2, PTL DEF Spec

(* The client's state is well-typed; it never counts more bytes than were   *)
(* sent to it.                                                             *)
THEOREM HttpTypeCorrect == Spec => []TypeOK
<1>1. IInv => TypeOK
  BY DEF IInv
<1>2. QED
  BY <1>1, Invariance, PTL

(* The final 0 that is written after the received bytes lies within the     *)
(* buffer, also when realloc fails.                                        *)
THEOREM BufferIsBounded == Spec => []BufferBound
<1>1. IInv => BufferBound
  BY DEF IInv
<1>2. QED
  BY <1>1, Invariance, PTL

(* Every way out of a request closes its socket.                            *)
THEOREM SocketIsClosed == Spec => []SocketClosed
<1>1. IInv => SocketClosed
  BY DEF IInv
<1>2. QED
  BY <1>1, Invariance, PTL

(* No response that was cut off is handed out as a whole one.               *)
THEOREM SuccessIsWhole == Spec => []NoTruncatedSuccess
<1>1. IInv => NoTruncatedSuccess
  BY DEF IInv
<1>2. QED
  BY <1>1, Invariance, PTL

-----------------------------------------------------------------------------
(* When a transfer ends. This needs an invariant of its own: a transfer     *)
(* begins with nothing received, and goes on only while the end of the      *)
(* content is missing.                                                     *)
Fresh == phase \in {"connecting", "sending"} => nbytes_total = 0

Ends == Fresh /\ EndsWhenComplete /\ CompleteIsReported

LEMMA PayloadEndType ==
  ASSUME NEW r \in Responses, Framed(r)
  PROVE  PayloadEnd(r) \in Nat /\ PayloadEnd(r) >= r.head /\ r.head > 0
<1>1. CASE r.chunked
  <2>1. r.chunkEnds[Len(r.chunkEnds)] \in Nat
    BY <1>1
  <2>2. QED
    BY <1>1, <2>1 DEF PayloadEnd
<1>2. CASE ~r.chunked
  <2>1. r.clen \in Nat
    BY <1>2 DEF Framed
  <2>2. QED
    BY <1>2, <2>1 DEF PayloadEnd
<1>3. QED
  BY <1>1, <1>2

(* The receive loop does not miss the end of the content ...                *)
LEMMA CompleteIsSeen ==
  ASSUME NEW r \in Responses, NEW n \in Nat, Framed(r), n >= PayloadEnd(r)
  PROVE  TransferComplete(r, n)
<1>1. PayloadEnd(r) \in Nat /\ PayloadEnd(r) >= r.head /\ r.head \in Nat
  BY PayloadEndType
<1>2. HeaderComplete(r, n)
  BY <1>1 DEF HeaderComplete
<1>3. CASE r.chunked
  BY <1>2, <1>3 DEF TransferComplete, LastChunkSeen, PayloadEnd
<1>4. CASE ~r.chunked
  BY <1>2, <1>4 DEF TransferComplete, CompleteByLength, PayloadEnd, Framed
<1>5. QED
  BY <1>3, <1>4

(* ... and the parser finds it in the same place.                           *)
LEMMA CompleteIsParsed ==
  ASSUME NEW r \in Responses, NEW n \in Nat, Framed(r), r.quotes = "nothing",
         n >= PayloadEnd(r), n <= r.total
  PROVE  Parse(r, n) = [code |-> r.code, content |-> Payload(r)]
<1>1. PayloadEnd(r) \in Nat /\ PayloadEnd(r) >= r.head /\ r.head \in Nat
  BY PayloadEndType
<1>2. HeaderComplete(r, n)
  BY <1>1 DEF HeaderComplete
<1>3. CodeSeen(r, n) = r.code /\ r.code # Failure
  BY <1>1 DEF CodeSeen
<1>4. CASE r.chunked
  <2>1. LastChunkSeen(r, n)
    BY <1>4 DEF LastChunkSeen, PayloadEnd
  <2>2. ChunksSeen(r, n) = Len(r.chunkEnds) - 1
    BY <2>1, WholeWalk
  <2>3. ChunkedIn(r, n)
    BY <1>1, <1>4 DEF ChunkedIn
  <2>4. QED
    BY <1>2, <1>3, <1>4, <2>1, <2>2, <2>3 DEF Parse, ParseChunked, Payload
<1>5. CASE ~r.chunked
  <2>1. ~ChunkedIn(r, n) /\ LengthIn(r, n) = r.clen /\ r.clen \in Nat
    BY <1>5 DEF ChunkedIn, LengthIn, Framed
  <2>2. r.total <= r.head + r.clen
    BY <1>5, <2>1, EndAssumption
  <2>3. n - r.head = r.clen
    BY <1>1, <1>5, <2>1, <2>2 DEF PayloadEnd
  <2>4. QED
    BY <1>2, <1>3, <1>5, <2>1, <2>3 DEF Parse, ParsePlain, Payload
<1>6. QED
  BY <1>4, <1>5

(* A request that has received nothing has not received the content.        *)
LEMMA NothingIsIncomplete ==
  ASSUME NEW r \in Responses, Framed(r)
  PROVE  ~(0 >= PayloadEnd(r))
  BY PayloadEndType

LEMMA EndsInductive ==
  ASSUME IInv, Ends, [Next]_vars
  PROVE  Ends'
<1>1. response \in Responses /\ nbytes_total \in Nat /\ sent \in Nat /\ sent <= response.total
  BY DEF IInv, TypeOK
<1>2. ASSUME phase' \in {"connecting", "sending", "done"}, nbytes_total' = 0, response' \in Responses
      PROVE  Ends'
  BY <1>2, NothingIsIncomplete DEF Ends, Fresh, EndsWhenComplete, CompleteIsReported
<1>3. CASE RejectRequest
  BY <1>1, <1>2, <1>3 DEF RejectRequest, serverVars
<1>4. CASE OpenSocket
  BY <1>2, <1>4 DEF OpenSocket, StartOffset
<1>5. CASE SendRequest
  <2>1. phase' = "receiving" /\ nbytes_total' = 0 /\ response' = response
    BY <1>5 DEF SendRequest, Ends, Fresh, serverVars
  <2>2. Framed(response) => 0 < PayloadEnd(response)
    BY <1>1, PayloadEndType
  <2>3. QED
    BY <2>1, <2>2 DEF Ends, Fresh, EndsWhenComplete, CompleteIsReported
<1>6. CASE Connected \/ ConnectFails \/ SendFails
  BY <1>1, <1>2, <1>6 DEF Connected, ConnectFails, SendFails, Ends, Fresh, serverVars
<1>7. ASSUME NEW k \in 1 .. response.total, ReceivePiece(k)
      PROVE  Ends'
  <2> DEFINE n == nbytes_total + k
  <2>1. /\ nbytes_total' = n /\ n \in Nat /\ n <= response.total
        /\ response' = response /\ phase = "receiving"
    BY <1>1, <1>7 DEF ReceivePiece, serverVars
  <2>2. /\ IF TransferComplete(response, n)
             THEN phase' = "done" /\ result' = Parse(response, n)
             ELSE phase' = "receiving"
    BY <1>7, <2>1 DEF ReceivePiece, ParseAndClose
  <2> HIDE DEF n
  <2>3. CASE TransferComplete(response, n)
    <3>1. phase' = "done" /\ result' = Parse(response, n)
      BY <2>2, <2>3
    <3>2. Framed(response) /\ response.quotes = "nothing" /\ n >= PayloadEnd(response) =>
            result' = [code |-> response.code, content |-> Payload(response)]
      BY <1>1, <2>1, <3>1, CompleteIsParsed
    <3>3. QED
      BY <2>1, <3>1, <3>2 DEF Ends, Fresh, EndsWhenComplete, CompleteIsReported
  <2>4. CASE ~TransferComplete(response, n)
    <3>1. phase' = "receiving"
      BY <2>2, <2>4
    <3>2. Framed(response) => n < PayloadEnd(response)
      BY <1>1, <2>1, <2>4, CompleteIsSeen, PayloadEndType
    <3>3. QED
      BY <2>1, <3>1, <3>2 DEF Ends, Fresh, EndsWhenComplete, CompleteIsReported
  <2>5. QED
    BY <2>3, <2>4
<1>8. CASE PollHup \/ RecvFails \/ PollError \/ PollTimeout \/ PollFailure
  <2>1. phase = "receiving" /\ EndReceive
    BY <1>8 DEF PollHup, RecvFails, PollError, PollTimeout, PollFailure
  <2>2. phase' = "done" /\ UNCHANGED <<response, nbytes_total>>
    BY <2>1 DEF EndReceive, ParseAndClose, GiveUp, serverVars
  <2>3. Framed(response) => ~(nbytes_total >= PayloadEnd(response))
    BY <1>1, <2>1, PayloadEndType DEF Ends, EndsWhenComplete
  <2>4. QED
    BY <2>2, <2>3 DEF Ends, Fresh, EndsWhenComplete, CompleteIsReported
<1>9. CASE ReceiveNothing \/ Server \/ UNCHANGED vars
  <2>1. UNCHANGED <<phase, response, nbytes_total, result>>
    BY <1>9 DEF ReceiveNothing, Server, ServerSends, ServerCloses, vars, serverVars
  <2>2. QED
    BY <2>1 DEF Ends, Fresh, EndsWhenComplete, CompleteIsReported
<1>10. QED
  BY <1>3, <1>4, <1>5, <1>6, <1>7, <1>8, <1>9 DEF Next, Request, Send, Iteration, PollReturns

LEMMA EndsInvariance == Spec => []Ends
<1>1. Init => Ends
  BY DEF Init, Ends, Fresh, EndsWhenComplete, CompleteIsReported
<1>2. IInv /\ Ends /\ [Next]_vars => Ends'
  BY EndsInductive
<1>3. QED
  BY <1>1, <1>2, Invariance, PTL DEF Spec

(* A complete response is handed out at once; the client never waits for    *)
(* more of it (HttpClient.cpp:323-343).                                     *)
THEOREM CompleteEnds == Spec => []EndsWhenComplete
<1>1. Ends => EndsWhenComplete
  BY DEF Ends
<1>2. QED
  BY <1>1, EndsInvariance, PTL

(* A response that arrived as a whole is handed out as a whole, however it  *)
(* was cut into pieces, if its content quotes no header line                *)
(* (HttpClient.cpp:323-343, 390-438).                                       *)
THEOREM CompleteReported == Spec => []CompleteIsReported
<1>1. Ends => CompleteIsReported
  BY DEF Ends
<1>2. QED
  BY <1>1, EndsInvariance, PTL

-----------------------------------------------------------------------------
(* The texts of the responses. For every response that the grammar allows,  *)
(* and wherever it is cut, the readers of the text answer as the positions  *)
(* say that the transfer goes by.                                          *)

(* A reachable response is one that was written from a script.              *)
LEMMA ScriptOf ==
  ASSUME TypeOK
  PROVE  LET s == response.script
         IN /\ Grammatical(s) /\ response = Response(s)
            /\ nbytes_total \in 0 .. Len(Written(s))
            /\ Received = Upto(Written(s), nbytes_total)
<1> DEFINE s == response.script
<1>1. Grammatical(s) /\ response = Response(s)
  BY WrittenAssumption DEF TypeOK
<1>2. Response(s).total = Len(Header(s)) + 4 + Len(Body(s)) /\ Response(s).text = Written(s)
  BY ResponseIs
<1>3. Len(Written(s)) = Len(Header(s)) + 4 + Len(Body(s)) /\ Written(s) \in Seq(Symbol)
  BY <1>1, WrittenIs
<1>4. nbytes_total \in 0 .. sent /\ sent \in 0 .. response.total
  BY DEF TypeOK
<1> HIDE DEF s
<1>5. response.total = Len(Written(s)) /\ response.text = Written(s)
  BY <1>1, <1>2, <1>3
<1>6. nbytes_total \in 0 .. Len(Written(s))
  BY <1>3, <1>4, <1>5
<1>7. Received = Upto(Written(s), nbytes_total)
  BY <1>5 DEF Received, Upto
<1>8. QED
  BY <1>1, <1>6, <1>7 DEF s

(* A content that is handed out is counted in symbols or chunks.            *)
LEMMA ContentCount ==
  ASSUME NEW r \in Responses, NEW n \in Nat
  PROVE  Parse(r, n).content \in Nat \cup {None}
<1>1. ParseChunked(r, n).content \in Nat \cup {None}
  BY ChunksSeenType DEF ParseChunked, NoResult
<1>2. ParsePlain(r, n).content \in Nat \cup {None}
  BY DEF ParsePlain, HeaderComplete
<1>3. QED
  BY <1>1, <1>2 DEF Parse, NoResult

(* The whole content of a response has as many parts as are counted.        *)
LEMMA WholeContent ==
  ASSUME NEW s, Grammatical(s), Payload(Response(s)) \in Nat
  PROVE  SubSeq(Response(s).parts, 1, Payload(Response(s))) = Response(s).parts
<1> DEFINE r == Response(s)
<1>1. /\ r.chunked <=> s.frame = "chunks"
      /\ r.clen = IF s.frame = "length" THEN Len(Page(s)) ELSE -1
      /\ s.frame = "chunks" => r.chunkEnds = ChunkEnds(s) /\ r.parts = Datas(s)
      /\ s.frame # "chunks" => r.parts = [i \in 1 .. Len(Page(s)) |-> <<Page(s)[i]>>]
  BY ResponseIs
<1>2. CASE s.frame = "chunks"
  <2>1. Len(s.chunks) \in Nat /\ \A i \in 1 .. Len(s.chunks) : s.chunks[i].data \in Seq(Symbol)
    BY ChunkSymbols
  <2>2. Datas(s) \in Seq(Seq(Symbol)) /\ Len(Datas(s)) = Len(s.chunks)
    BY <2>1 DEF Datas
  <2>3. Len(ChunkEnds(s)) = Len(s.chunks) + 1
    BY <2>1 DEF ChunkEnds
  <2> HIDE DEF r
  <2>4. Payload(r) = Len(s.chunks)
    BY <1>1, <1>2, <2>1, <2>3 DEF Payload
  <2>5. SubSeq(Datas(s), 1, Len(Datas(s))) = Datas(s)
    BY <2>2
  <2>6. QED
    BY <1>1, <1>2, <2>2, <2>4, <2>5 DEF r
<1>3. CASE s.frame # "chunks"
  <2> DEFINE parts == [i \in 1 .. Len(Page(s)) |-> <<Page(s)[i]>>]
  <2>1. Page(s) \in Seq(Symbol)
    BY PageIs
  <2>2. parts \in Seq(Seq(Symbol)) /\ Len(parts) = Len(Page(s))
    <3>1. \A i \in 1 .. Len(Page(s)) : <<Page(s)[i]>> \in Seq(Symbol)
      BY <2>1
    <3>2. QED
      BY <2>1, <3>1
  <2>3. r.parts = parts
    BY <1>1, <1>3
  <2>4. Payload(r) \in Nat
    OBVIOUS
  <2> HIDE DEF r, parts
  <2>5. Payload(r) = Len(parts)
    BY <1>1, <1>3, <2>2, <2>4 DEF Payload
  <2>6. SubSeq(parts, 1, Len(parts)) = parts
    BY <2>2
  <2>7. QED
    BY <2>3, <2>5, <2>6 DEF r
<1>4. QED
  BY <1>2, <1>3

(* Nothing but the types of the state is needed.                            *)
LEMMA TypedTextAgrees ==
  ASSUME TypeOK
  PROVE  TextAgrees
<1> DEFINE s == response.script
           parsed == ParseText(Received)
           expected == Parse(response, nbytes_total)
<1>1. /\ Grammatical(s) /\ response = Response(s)
      /\ nbytes_total \in 0 .. Len(Written(s))
      /\ Received = Upto(Written(s), nbytes_total)
  BY ScriptOf
<1> HIDE DEF s
<1>2. IsComplete(Received) <=> TransferComplete(response, nbytes_total)
  BY <1>1, CompleteAgrees
<1>3. Agrees(parsed, expected, s)
  BY <1>1, ParseAgrees
<1>4. \A content : Content(content) = Handed(s, content)
  BY <1>1 DEF Content, Handed
<1> HIDE DEF parsed, expected
<1>5. /\ IF expected.code = CutShort THEN parsed.code \in 0 .. CutShort
                                     ELSE parsed.code = expected.code
      /\ parsed.content = Content(expected.content)
  BY <1>3, <1>4 DEF Agrees, SameCode
<1>6. QED
  BY <1>2, <1>5 DEF TextAgrees, parsed, expected

(* A success is whole (ParseHonest), and the parts make up the content.     *)
LEMMA TypedContentIsOriginal ==
  ASSUME TypeOK
  PROVE  ContentIsOriginal
<1> DEFINE s == response.script
           parsed == ParseText(Received)
           expected == Parse(response, nbytes_total)
<1>1. /\ Grammatical(s) /\ response = Response(s)
      /\ nbytes_total \in 0 .. Len(Written(s))
      /\ Received = Upto(Written(s), nbytes_total)
  BY ScriptOf
<1>2. response \in Responses /\ nbytes_total \in Nat
  BY DEF TypeOK
<1> HIDE DEF s
<1>3. Agrees(parsed, expected, s)
  BY <1>1, ParseAgrees
<1>4. expected.content \in Nat \cup {None}
  BY <1>2, ContentCount
<1>5. expected.code # Failure /\ expected.content # None => expected.content = Payload(response)
  BY <1>2, ParseHonest
<1> HIDE DEF parsed, expected
<1>6. ASSUME parsed.code # Failure, parsed.content # Untouched
      PROVE  parsed.content = FlattenSeq(response.parts)
  <2>1. expected.code # Failure
    BY <1>3, <1>6 DEF Agrees, SameCode, CutShort
  <2>2. expected.content # None
    BY <1>3, <1>6 DEF Agrees, Handed
  <2>3. Payload(response) \in Nat /\ expected.content = Payload(response)
    BY <1>4, <1>5, <2>1, <2>2
  <2>4. SubSeq(Response(s).parts, 1, Payload(Response(s))) = Response(s).parts
    BY <1>1, <2>3, WholeContent
  <2>5. parsed.content = FlattenSeq(SubSeq(Response(s).parts, 1, expected.content))
    BY <1>3, <2>2 DEF Agrees, Handed
  <2>6. QED
    BY <1>1, <2>3, <2>4, <2>5
<1>7. QED
  BY <1>6 DEF ContentIsOriginal, parsed

(* The positions the transfer goes by are those at which the scanners of     *)
(* HttpClient.cpp find them in the text, for every response of the grammar   *)
(* and after any number of symbols (HttpClient.cpp:307-343, 374-441).        *)
THEOREM TextAgreesAlways == Spec => []TextAgrees
<1>1. TypeOK => TextAgrees
  BY TypedTextAgrees
<1>2. QED
  BY <1>1, HttpTypeCorrect, PTL

(* What a request that succeeds hands out is, symbol by symbol, what the     *)
(* server put into the response (HttpClient.cpp:400-416, 530-589).           *)
THEOREM ContentIsKept == Spec => []ContentIsOriginal
<1>1. TypeOK => ContentIsOriginal
  BY TypedContentIsOriginal
<1>2. QED
  BY <1>1, HttpTypeCorrect, PTL
=============================================================================
