------------------------------ MODULE HttpText ------------------------------
(***************************************************************************)
(* The functions of src/src/HttpClient.cpp that read the text of a         *)
(* response. A text is a sequence of symbols: a digit, a space, CR, LF, the *)
(* name of a header field or a piece of content. What the code cannot tell *)
(* apart is one symbol, so "HTTP/1.1 " is; a size_t -1 is NotFound, and a   *)
(* null pointer of skipSpaceCharacters is the empty text.                   *)
(***************************************************************************)
EXTENDS Integers, Sequences, SequencesExt

NotFound == -1
Untouched == <<"untouched">>     \* a content string that is not assigned to

Space == " "
CRLF == <<"\r", "\n">>
Version10 == "HTTP/1.0 "
Version11 == "HTTP/1.1 "
LengthField == "Content-Length:"
ChunkedField == "Transfer-Encoding: chunked"

DecDigit == [d \in {"0", "1", "2", "3", "4", "5", "6", "7", "8", "9"} |->
               CHOOSE n \in 0 .. 9 : <<"0", "1", "2", "3", "4", "5", "6", "7", "8", "9">>[n + 1] = d]
HexDigit == [d \in DOMAIN DecDigit \cup {"a", "b", "c", "d", "e", "f", "A", "B", "C", "D", "E", "F"} |->
               IF d \in DOMAIN DecDigit THEN DecDigit[d]
               ELSE CHOOSE n \in 10 .. 15 : \/ <<"a", "b", "c", "d", "e", "f">>[n - 9] = d
                                           \/ <<"A", "B", "C", "D", "E", "F">>[n - 9] = d]

-----------------------------------------------------------------------------
(* The scanners.                                                           *)

Upto(text, n) == SubSeq(text, 1, n)
From(text, n) == SubSeq(text, n + 1, Len(text))

\* The offset after the first occurrence of needle. (The mutant takes the
\* last one.)
FindLastAfter(text, needle) ==
  LET ends == {i \in Len(needle) .. Len(text) :
                 SubSeq(text, i - Len(needle) + 1, i) = needle}
  IN IF ends = {} THEN NotFound ELSE Max(ends)

FindAfter(text, needle) ==
  LET ends == {i \in Len(needle) .. Len(text) :
                 SubSeq(text, i - Len(needle) + 1, i) = needle}
  IN IF ends = {} THEN NotFound ELSE Min(ends)

\* The longest prefix of symbols of a set.
Prefix(text, symbols) ==
  LET stops == {i \in 1 .. Len(text) : text[i] \notin symbols}
  IN IF stops = {} THEN text ELSE Upto(text, Min(stops) - 1)

skipSpaceCharacters(text) == From(text, Len(Prefix(text, {Space})))

\* scanUint and scanHex. No digits are no number.
Value(run, digits, base) ==
  LET value[i \in 0 .. Len(run)] ==
        IF i = 0 THEN 0 ELSE base * value[i - 1] + digits[run[i]]
  IN value[Len(run)]

Scan(text, digits, base) ==
  LET run == Prefix(text, DOMAIN digits)
  IN IF run = <<>> THEN NotFound ELSE Value(run, digits, base)

\* What is to be scanned as n: its digits, after any spaces.
Numeral(text, digits, base, n) ==
  \E k \in 0 .. Len(text) - 1 :
    /\ \A i \in 1 .. k : text[i] = Space
    /\ \A i \in k + 1 .. Len(text) : text[i] \in DOMAIN digits
    /\ n = Value(From(text, k), digits, base)

NumberAfter(text, n) ==
  IF n = NotFound THEN NotFound ELSE Scan(skipSpaceCharacters(From(text, n)), DecDigit, 10)

get_http_return_code(text) ==
  LET newer == FindAfter(text, <<Version11>>)
  IN NumberAfter(text, IF newer # NotFound THEN newer ELSE FindAfter(text, <<Version10>>))

get_content_length(text) == NumberAfter(text, FindAfter(text, CRLF \o <<LengthField>>))
get_content_offset(text) == FindAfter(text, CRLF \o CRLF)
is_chunked_encoding(text) == FindAfter(text, CRLF \o <<ChunkedField>>) # NotFound

-----------------------------------------------------------------------------
(* Chunks: the text begins with a chunk.                                   *)

get_chunk_offset(text) == FindAfter(text, CRLF)

get_chunk_length(text) ==
  IF get_chunk_offset(text) = NotFound THEN NotFound
  ELSE Scan(skipSpaceCharacters(text), HexDigit, 16)

get_next_chunk_offset(text) ==
  LET length == get_chunk_length(text)
      end == get_chunk_offset(text) + length
  IN IF length \in {0, NotFound} THEN length
     ELSE IF end + 2 > Len(text) \/ SubSeq(text, end + 1, end + 2) # CRLF THEN NotFound
     ELSE end + 2

ChunkData(text) ==
  SubSeq(text, get_chunk_offset(text) + 1, get_chunk_offset(text) + get_chunk_length(text))

\* The walk from chunk to chunk that the receive loop and the parser do: the
\* data of the complete chunks, and whether the last chunk was found.
Chunks(text) ==
  LET walk[at \in 0 .. Len(text)] ==
        LET chunk == From(text, at)
            next == get_next_chunk_offset(chunk)
        IN IF next \in {0, NotFound} THEN [last |-> next = 0, data |-> <<>>]
           ELSE LET rest == walk[at + next]
                IN [last |-> rest.last, data |-> ChunkData(chunk) \o rest.data]
  IN walk[0]

-----------------------------------------------------------------------------
(* The two readers of the whole text.                                      *)

\* The test of recv_http_response that the response is complete.
IsComplete(text) ==
  LET offset == get_content_offset(text)
      header == Upto(text, offset)
      length == get_content_length(header)
      chunked == is_chunked_encoding(header)
  IN /\ offset # NotFound
     /\ \/ ~chunked /\ length = NotFound /\ get_http_return_code(header) = 204
        \/ length # NotFound /\ Len(text) >= offset + length
        \/ chunked /\ Chunks(From(text, offset)).last

\* parse_http_response: with chunks, the last one must have been found. (The
\* mutant does not ask for it.)
AnyChunks(code, chunks) == [code |-> code, content |-> chunks.data]
AllChunks(code, chunks) ==
  [code |-> IF chunks.last THEN code ELSE -1, content |-> chunks.data]

ParseText(text) ==
  LET code == get_http_return_code(text)
      offset == get_content_offset(text)
      length == get_content_length(text)
      chunks == Chunks(From(text, offset))
      content == From(text, offset)
  IN IF code = NotFound THEN [code |-> -1, content |-> Untouched]
     ELSE IF is_chunked_encoding(text)
       THEN IF offset = NotFound THEN [code |-> -1, content |-> Untouched]
            ELSE AllChunks(code, chunks)
     ELSE IF length = NotFound \/ offset = NotFound
       THEN [code |-> code, content |-> Untouched]
     ELSE [code |-> IF Len(content) = length THEN code ELSE -1, content |-> content]

-----------------------------------------------------------------------------
(* base64_encode, from bytes to the indices of b64_data. Pad is "=".       *)

Pad == 64

\* One round of the loop, with the length of the input that is left. (The
\* mutant forgets to stop at the last byte but one.)
QuadUnpadded(a, b, c, left) ==
  <<a \div 4, (16 * a + b \div 16) % 64,
    IF left > 1 THEN (4 * b + c \div 64) % 64 ELSE Pad, c % 64>>

Quad(a, b, c, left) ==
  <<a \div 4,
    (16 * a + (IF left > 1 THEN b \div 16 ELSE 0)) % 64,
    IF left > 1 THEN (4 * b + (IF left > 2 THEN c \div 64 ELSE 0)) % 64 ELSE Pad,
    IF left > 2 THEN c % 64 ELSE Pad>>

\* After the last byte comes the final 0 of the string.
base64_encode(bytes) ==
  LET byte(i) == IF i <= Len(bytes) THEN bytes[i] ELSE 0
      rounds == [k \in 1 .. (Len(bytes) + 2) \div 3 |->
                   Quad(byte(3 * k - 2), byte(3 * k - 1), byte(3 * k), Len(bytes) - 3 * (k - 1))]
  IN FlattenSeq(rounds)

\* What sendHttpRequest sends as "Authorization: Basic"; 58 is ":".
Authorization(user, password) ==
  IF user = <<>> /\ password = <<>> THEN <<>>
  ELSE base64_encode(user \o <<58>> \o password)

-----------------------------------------------------------------------------
(* RFC 4648: base64 keeps the bits in their order, six to a character, fills *)
(* the last character with zeros and the last four characters with "=".     *)

Powers == <<1, 2, 4, 8, 16, 32, 64, 128>>

\* Bit i, from the left, of a sequence of numbers of some bits each.
Bit(numbers, width, i) ==
  (numbers[(i \div width) + 1] \div Powers[width - (i % width)]) % 2

IsBase64(encoded, bytes) ==
  LET bits == 8 * Len(bytes)
      used == (bits + 5) \div 6
  IN /\ Len(encoded) = 4 * ((Len(bytes) + 2) \div 3)
     /\ \A i \in 1 .. Len(encoded) : (encoded[i] = Pad) <=> (i > used)
     /\ \A i \in 0 .. (6 * used - 1) :
          Bit(encoded, 6, i) = IF i < bits THEN Bit(bytes, 8, i) ELSE 0
=============================================================================
