---------------------------- MODULE HttpResponses ----------------------------
(***************************************************************************)
(* The responses of HttpTransfer, written out as texts. A script says what *)
(* a server writes: the lines of the header, how the content is framed,    *)
(* the content or its chunks. The positions that HttpTransfer goes by come *)
(* from how the text is put together, never from reading it, so that the   *)
(* scanners of HttpText can be compared with them.                         *)
(***************************************************************************)
EXTENDS HttpTransfer, HttpText

\* The fields of a script: version and status, the other lines before and
\* after the one that frames the content; frame, "length", "chunks" or
\* "close"; size, the number in the framing line or that of the last chunk;
\* chunks, with their sizes and data; body, the content up to a header line
\* that it quotes, or what follows the last chunk; and what line it quotes.
FramingLine(s) ==
  CASE s.frame = "length" -> CRLF \o <<LengthField>> \o s.size
    [] s.frame = "chunks" -> CRLF \o <<ChunkedField>>
    [] s.frame = "close"  -> <<>>

Quotation(s) ==
  CASE s.quotes = "nothing" -> <<>>
    [] s.quotes = "length"  -> CRLF \o <<LengthField, Space, "0">>
    [] s.quotes = "chunked" -> CRLF \o <<ChunkedField>>

Start(s) == <<s.version>> \o s.status \o s.before
Header(s) == Start(s) \o FramingLine(s) \o s.after
ChunkTexts(s) ==
  [i \in 1 .. Len(s.chunks) |-> s.chunks[i].size \o CRLF \o s.chunks[i].data \o CRLF]
Page(s) == s.body \o Quotation(s)
Body(s) == IF s.frame = "chunks" THEN FlattenSeq(ChunkTexts(s)) \o s.size \o CRLF \o s.body
                                 ELSE Page(s)

\* The ends of the chunks; the last one has no data.
ChunkEnds(s) ==
  [i \in 1 .. Len(s.chunks) + 1 |->
     IF i <= Len(s.chunks) THEN Len(FlattenSeq(SubSeq(ChunkTexts(s), 1, i)))
     ELSE Len(FlattenSeq(ChunkTexts(s))) + Len(s.size) + 2]

Response(s) ==
  [code |-> Value(s.status, DecDigit, 10), codeAt |-> 1, codeEnd |-> 4,
   chunked |-> s.frame = "chunks", chunkedEnd |-> Len(Start(s)) + 3,
   clen |-> IF s.frame = "length" THEN Len(Page(s)) ELSE NoLength,
   head |-> Len(Header(s)) + 4,
   total |-> Len(Header(s)) + 4 + Len(Body(s)),
   chunkEnds |-> IF s.frame = "chunks" THEN ChunkEnds(s) ELSE <<>>,
   quotes |-> s.quotes, script |-> s,
   text |-> Header(s) \o CRLF \o CRLF \o Body(s),
   parts |-> IF s.frame = "chunks" THEN [i \in 1 .. Len(s.chunks) |-> s.chunks[i].data]
                                   ELSE [i \in 1 .. Len(Page(s)) |-> <<Page(s)[i]>>]]

-----------------------------------------------------------------------------
(* What a script may say (RFC 7230).                                       *)

Without(text, symbols) == \A i \in 1 .. Len(text) : text[i] \notin symbols

\* Header lines, none of them empty, that do not frame the content.
OtherLines(text) ==
  /\ Without(text, {LengthField, ChunkedField})
  /\ \A i \in 1 .. Len(text) : text[i] = "\n" => i < Len(text) /\ text[i + 1] # "\r"
  /\ text # <<>> => text[1] \notin DOMAIN DecDigit

FramedBySize(s) ==
  /\ s.frame = "length" => Numeral(s.size, DecDigit, 10, Len(Page(s)))
  /\ s.frame = "chunks" =>
       /\ Numeral(s.size, HexDigit, 16, 0)
       /\ \A i \in 1 .. Len(s.chunks) :
            /\ s.chunks[i].data # <<>>
            /\ Numeral(s.chunks[i].size, HexDigit, 16, Len(s.chunks[i].data))

\* A content may quote a line as its last one. (One that quotes chunked
\* encoding does not begin like a chunk.)
Quotes(s) ==
  /\ s.frame # "chunks" => Without(s.body, {ChunkedField})
  /\ s.frame = "close" => Without(s.body, {LengthField})
  /\ s.quotes = "length" => s.frame = "close"
  /\ s.quotes = "chunked" => /\ s.frame # "chunks"
                             /\ Page(s)[1] \notin DOMAIN HexDigit \cup {Space}

Grammatical(s) ==
  /\ s.version \in {Version10, Version11}
  /\ s.version = Version10 => Without(Tail(Response(s).text), {Version11})
  /\ {s.status, s.before, s.after, s.size, s.body} \subseteq Seq(STRING)
  /\ s.chunks \in Seq([size : Seq(STRING), data : Seq(STRING)])
  /\ Len(s.status) = 3 /\ \A i \in 1 .. 3 : s.status[i] \in DOMAIN DecDigit
  /\ OtherLines(s.before) /\ OtherLines(s.after)
  /\ s.frame \in {"length", "chunks", "close"}
  /\ s.quotes \in {"nothing", "length", "chunked"}
  /\ FramedBySize(s)
  /\ Quotes(s)

ASSUME WrittenAssumption ==
  \A r \in Responses : Grammatical(r.script) /\ r = Response(r.script)

-----------------------------------------------------------------------------
Received == SubSeq(response.text, 1, nbytes_total)
Content(n) == IF n = None THEN Untouched ELSE FlattenSeq(SubSeq(response.parts, 1, n))

(* The positions HttpTransfer goes by are those at which the scanners of      *)
(* HttpClient.cpp find them, after any number of symbols: the receive loop    *)
(* (307-343) ends and the parser (374-441) answers as the positions say, also *)
(* for a content that looks like a chunk line or a header line.               *)
TextAgrees ==
  LET parsed == ParseText(Received)
      expected == Parse(response, nbytes_total)
  IN /\ IsComplete(Received) <=> TransferComplete(response, nbytes_total)
     /\ IF expected.code = CutShort THEN parsed.code \in 0 .. CutShort
                                    ELSE parsed.code = expected.code
     /\ parsed.content = Content(expected.content)

(* What a request that succeeds hands to its caller is, symbol by symbol,     *)
(* what the server put into the response, however the chunks were cut         *)
(* (HttpClient.cpp:400-416, 530-589).                                         *)
ContentIsOriginal ==
  LET parsed == ParseText(Received)
  IN phase = "done" /\ parsed.code # Failure /\ parsed.content # Untouched =>
       parsed.content = FlattenSeq(response.parts)
=============================================================================
