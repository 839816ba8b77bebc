----------------------------- MODULE MCStartup -----------------------------
(* The three devices of main.cpp, two of them with a pre-registered address,  *)
(* and two short responses, one of which ends with the connection.            *)
EXTENDS Startup

Empty == [code |-> 204, codeAt |-> 1, codeEnd |-> 2, chunkedEnd |-> 0, head |-> 3,
          total |-> 3, clen |-> -1, chunked |-> FALSE, chunkEnds |-> <<>>,
          quotes |-> "nothing"]

MCResponses == {Empty, [Empty EXCEPT !.code = 200, !.total = 4]}
=============================================================================
