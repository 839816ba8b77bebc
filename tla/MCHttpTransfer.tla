---------------------------- MODULE MCHttpTransfer ----------------------------
(* Scripts whose contents look like what surrounds them: an empty line, a last *)
(* chunk, a header line.                                                      *)
EXTENDS HttpResponses

Script(status, frame, size, body) ==
  [version |-> Version11, status |-> status, before |-> <<>>, after |-> <<>>, frame |-> frame,
   size |-> size, chunks |-> <<>>, body |-> body, quotes |-> "nothing"]

OK == <<"2", "0", "0">>
WithLength(digits, body) == Script(OK, "length", <<Space>> \o digits, body)
UntilClose(body) == Script(OK, "close", <<>>, body)
NoContent == Script(<<"2", "0", "4">>, "close", <<>>, <<>>)
ChunkedInto(chunks) == [Script(OK, "chunks", <<"0">>, CRLF) EXCEPT !.chunks = chunks]
Chunk(size, data) == [size |-> size, data |-> data]

MCScripts ==
  {WithLength(<<"0">>, <<>>), WithLength(<<"0", "3">>, <<"x", "\r", "\n">>), NoContent,
   UntilClose(<<"x", "\r", "\n", "\r", "\n">>),
   ChunkedInto(<<Chunk(<<"2">>, CRLF), Chunk(<<"0", "3">>, <<"0", "\r", "\n">>)>>),
   ChunkedInto(<<Chunk(<<Space, "B">>, [i \in 1 .. 11 |-> "x"])>>),
   [WithLength(<<"3">>, <<>>) EXCEPT !.quotes = "chunked"],
   [UntilClose(<<>>) EXCEPT !.version = Version10, !.before = <<Space, "OK">>, !.quotes = "length"]}

MCResponses == {Response(s) : s \in MCScripts}
=============================================================================
