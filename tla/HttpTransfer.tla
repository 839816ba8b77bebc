---------------------------- MODULE HttpTransfer ----------------------------
(***************************************************************************)
(* One HttpClient of src/src/HttpClient.cpp that makes requests, one after *)
(* the other: it connects, sends the request, receives the response piece  *)
(* by piece into a growing buffer, decides after every piece whether the   *)
(* response is complete, and parses what it has received.                  *)
(*                                                                         *)
(* A response is a stream of bytes, of which only the positions matter: of *)
(* the digits of the status code, of the header line that announces        *)
(* chunked encoding, of the end of the header and of the ends of the       *)
(* chunks. The server sends it in pieces of any size, may stop at any      *)
(* point, close the connection in order or reset it.                       *)
(***************************************************************************)
EXTENDS Integers, Sequences, FiniteSets

CONSTANTS
  Responses,       \* the responses a server may send, see ResponseAssumption
  InitialBuffer,   \* recv_buffer_size after the constructor (4096)
  Reserve,         \* free space asked for before each recv (1024)
  ReallocMayFail,  \* may realloc return NULL?
  FinReports       \* what poll may report once the peer has closed:
                   \* "pollin" (linux), "pollhup" (windows)

NoLength == -1     \* (size_t)-1 of get_content_length
Failure  == -1     \* the return value of a failed request
None     == -2     \* no content was handed out

\* The fields of a response: code, with its digits after position codeAt up
\* to codeEnd; the end of a "Transfer-Encoding: chunked" line (if chunked);
\* the end of the header; the content length; the ends of the chunks,
\* counted from the end of the header, with the "0" line as the last; the
\* number of bytes in all; and what header lines the body quotes.
WellFormed(r) ==
  /\ r.code \in Nat /\ r.codeAt \in Nat /\ r.codeEnd \in Nat
  /\ r.chunkedEnd \in Nat /\ r.head \in Nat /\ r.total \in Nat
  /\ r.clen \in Nat \cup {NoLength}
  /\ r.chunked \in BOOLEAN
  /\ r.chunkEnds \in Seq(Nat)
  /\ r.quotes \in {"nothing", "length", "chunked"}
  /\ r.codeAt < r.codeEnd /\ r.codeEnd < r.head /\ r.head <= r.total
  /\ r.chunked => r.chunkedEnd > r.codeEnd /\ r.chunkedEnd < r.head
  /\ r.chunked => /\ Len(r.chunkEnds) > 0
                 /\ \A i \in 1 .. Len(r.chunkEnds) :
                      r.chunkEnds[i] <= r.chunkEnds[Len(r.chunkEnds)]
  /\ r.quotes # "nothing" => r.total > r.head

ASSUME ResponseAssumption == \A r \in Responses : WellFormed(r)
\* The server sends nothing after its content: it gets one request only.
ASSUME EndAssumption ==
  \A r \in Responses : ~r.chunked /\ r.clen # NoLength => r.total <= r.head + r.clen
ASSUME BufferAssumption ==
  /\ InitialBuffer \in Nat \ {0}
  /\ Reserve \in Nat \ {0}
  /\ ReallocMayFail \in BOOLEAN
ASSUME PlatformAssumption == FinReports \subseteq {"pollin", "pollhup"} /\ FinReports # {}

VARIABLES
  phase,             \* "idle", "connecting", "sending", "receiving" or "done"
  socket,            \* "none", "open" or "closed"
  recv_buffer_size,
  response,          \* the response that this request gets
  sent,              \* bytes of it that reached the socket
  peer,              \* "open", "fin" or "reset"
  nbytes_total,      \* bytes received into the buffer
  result             \* return value and content handed to the caller

vars == <<phase, socket, recv_buffer_size, response, sent, peer,
          nbytes_total, result>>
serverVars == <<response, sent, peer>>

NoResult == [code |-> Failure, content |-> None]

-----------------------------------------------------------------------------
(* What the first n bytes of response r say.                               *)

HeaderComplete(r, n) == n >= r.head

\* get_http_return_code: the digits seen so far, taken for a number; a code
\* cut short is a number below 100.
CutShort == 99
CodeSeen(r, n) ==
  IF n >= r.codeEnd THEN r.code ELSE IF n > r.codeAt THEN CutShort ELSE Failure

\* get_content_length and is_chunked_encoding search the buffer they are
\* given: the header during the transfer, all that was received afterwards.
LengthIn(r, n) ==
  IF r.clen = NoLength /\ r.quotes = "length" /\ n = r.total THEN 0 ELSE r.clen
ChunkedIn(r, n) ==
  \/ r.chunked /\ n >= r.chunkedEnd
  \/ r.quotes = "chunked" /\ n = r.total

\* The walk over the chunks by get_next_chunk_offset: how many complete data
\* chunks it passes, and whether it reaches the last chunk.
ChunksSeen(r, n) == Cardinality({i \in 1 .. Len(r.chunkEnds) - 1 : r.head + r.chunkEnds[i] <= n})
LastChunkSeen(r, n) == r.chunked /\ r.head + r.chunkEnds[Len(r.chunkEnds)] <= n

\* The test of recv_http_response that the response is complete. (The mutant
\* of the first is off by one.)
CompleteByMore(r, n) == r.clen # NoLength /\ n > r.head + r.clen
CompleteByLength(r, n) == r.clen # NoLength /\ n >= r.head + r.clen
EmptyByCode(r) == ~r.chunked /\ r.clen = NoLength /\ r.code = 204

TransferComplete(r, n) ==
  /\ HeaderComplete(r, n)
  /\ EmptyByCode(r) \/ CompleteByLength(r, n) \/ LastChunkSeen(r, n)

\* parse_http_response (The mutants do not compare the received content
\* with the announced one, or compare it with the whole response.)
ParseChunked(r, n) ==
  IF ~HeaderComplete(r, n) THEN NoResult
  ELSE [code    |-> IF LastChunkSeen(r, n) THEN CodeSeen(r, n) ELSE Failure,
        content |-> IF r.chunked THEN ChunksSeen(r, n) ELSE 0]

ParseUnchecked(r, n) ==
  IF LengthIn(r, n) = NoLength \/ ~HeaderComplete(r, n)
    THEN [code |-> CodeSeen(r, n), content |-> None]
    ELSE [code |-> CodeSeen(r, n), content |-> n - r.head]

ParseFromStart(r, n) ==
  IF LengthIn(r, n) = NoLength \/ ~HeaderComplete(r, n)
    THEN [code |-> CodeSeen(r, n), content |-> None]
    ELSE [code    |-> IF n = LengthIn(r, n) THEN CodeSeen(r, n) ELSE Failure,
          content |-> n - r.head]

ParsePlain(r, n) ==
  IF LengthIn(r, n) = NoLength \/ ~HeaderComplete(r, n)
    THEN [code |-> CodeSeen(r, n), content |-> None]
    ELSE [code    |-> IF n - r.head = LengthIn(r, n) THEN CodeSeen(r, n) ELSE Failure,
          content |-> n - r.head]

Parse(r, n) ==
  IF CodeSeen(r, n) = Failure THEN NoResult
  ELSE IF ChunkedIn(r, n) THEN ParseChunked(r, n) ELSE ParsePlain(r, n)

-----------------------------------------------------------------------------
Init ==
  /\ phase = "idle"
  /\ socket = "none"
  /\ recv_buffer_size = InitialBuffer
  /\ response \in Responses
  /\ sent = 0
  /\ peer = "open"
  /\ nbytes_total = 0
  /\ result = NoResult

\* sendHttpRequest up to connect_to_server: the url cannot be used, or no
\* socket is to be had.
RejectRequest ==
  /\ phase \in {"idle", "done"}
  /\ phase' = "done"
  /\ socket' = "none"
  /\ result' = NoResult
  /\ nbytes_total' = 0
  /\ UNCHANGED <<recv_buffer_size, serverVars>>

\* recv_http_response starts to fill the buffer from its beginning. (The
\* mutant goes on where the last response ended.)
LastOffset == nbytes_total
StartOffset == 0

\* connect_to_server: the socket tries the addresses of the host ...
OpenSocket ==
  /\ phase \in {"idle", "done"}
  /\ phase' = "connecting"
  /\ socket' = "open"
  /\ response' \in Responses
  /\ sent' = 0
  /\ peer' = "open"
  /\ nbytes_total' = StartOffset
  /\ UNCHANGED <<recv_buffer_size, result>>

\* ... of which one answers ...
Connected ==
  /\ phase = "connecting"
  /\ phase' = "sending"
  /\ UNCHANGED <<socket, recv_buffer_size, serverVars, nbytes_total, result>>

\* ... or none.
ConnectFails ==
  /\ phase = "connecting"
  /\ phase' = "done"
  /\ socket' = "closed"
  /\ result' = NoResult
  /\ UNCHANGED <<recv_buffer_size, serverVars, nbytes_total>>

\* The request is sent in one piece, or send takes less than all of it.
SendRequest ==
  /\ phase = "sending"
  /\ phase' = "receiving"
  /\ UNCHANGED <<socket, recv_buffer_size, serverVars, nbytes_total, result>>

SendFails ==
  /\ phase = "sending"
  /\ phase' = "done"
  /\ socket' = "closed"
  /\ result' = NoResult
  /\ UNCHANGED <<recv_buffer_size, serverVars, nbytes_total>>

-----------------------------------------------------------------------------
(* recv_http_response: one action per outcome of an iteration of the loop.  *)

\* The first n bytes are parsed, and the socket is closed.
ParseAndClose(n) ==
  /\ phase' = "done"
  /\ socket' = "closed"
  /\ result' = Parse(response, n)

\* Nothing was received, and there is nothing to parse. (The mutant forgets
\* the socket.)
GiveUpOpen ==
  /\ phase' = "done"
  /\ result' = NoResult
  /\ UNCHANGED socket

GiveUp ==
  /\ phase' = "done"
  /\ socket' = "closed"
  /\ result' = NoResult

\* The receive loop ends before the response is complete.
EndReceive ==
  /\ IF nbytes_total > 0 THEN ParseAndClose(nbytes_total) ELSE GiveUp
  /\ UNCHANGED <<serverVars, nbytes_total>>

\* "ensure receive buffer size", which realloc may refuse.
Needed == recv_buffer_size - nbytes_total - 1 < Reserve
Resized == IF Needed
             THEN {2 * recv_buffer_size}
                    \cup (IF ReallocMayFail THEN {recv_buffer_size} ELSE {})
             ELSE {recv_buffer_size}

\* Room for a piece in a buffer of size b: one byte is kept for the final 0.
\* (The mutant does not keep it.)
WholeRoom(b) == b - nbytes_total
Room(b) == b - nbytes_total - 1

Readable == sent > nbytes_total

ReceivePiece(k) ==
  /\ phase = "receiving"
  /\ Readable
  /\ nbytes_total + k <= sent
  /\ recv_buffer_size' \in Resized
  /\ k <= Room(recv_buffer_size')
  /\ nbytes_total' = nbytes_total + k
  /\ IF TransferComplete(response, nbytes_total')
       THEN ParseAndClose(nbytes_total')
       ELSE UNCHANGED <<phase, socket, result>>
  /\ UNCHANGED serverVars

\* recv returns 0, for want of room or because the peer has closed: the
\* iteration ends as it began.
ReceiveNothing ==
  /\ phase = "receiving"
  /\ recv_buffer_size' \in Resized
  /\ \/ Readable /\ Room(recv_buffer_size') = 0
     \/ ~Readable /\ peer = "fin" /\ "pollin" \in FinReports
  /\ UNCHANGED <<phase, socket, serverVars, nbytes_total, result>>

\* POLLHUP without POLLIN, "a perfectly valid way to determine a transfer".
PollHup ==
  /\ phase = "receiving"
  /\ ~Readable
  /\ peer = "fin"
  /\ "pollhup" \in FinReports
  /\ EndReceive
  /\ UNCHANGED recv_buffer_size

\* A reset, which may take what was not yet read with it: recv fails, ...
RecvFails ==
  /\ phase = "receiving"
  /\ peer = "reset"
  /\ EndReceive
  /\ recv_buffer_size' \in Resized

\* ... or poll reports POLLERR or POLLHUP and no input.
PollError ==
  /\ phase = "receiving"
  /\ peer = "reset"
  /\ EndReceive
  /\ UNCHANGED recv_buffer_size

\* Nothing came for 5 seconds. (The mutant waits on for the first byte.)
SilentAfterData == ~Readable /\ peer = "open" /\ nbytes_total > 0
Silent == ~Readable /\ peer = "open"

PollTimeout ==
  /\ phase = "receiving"
  /\ Silent
  /\ EndReceive
  /\ UNCHANGED recv_buffer_size

\* poll itself fails, interrupted by a signal for example.
PollFailure ==
  /\ phase = "receiving"
  /\ EndReceive
  /\ UNCHANGED recv_buffer_size

-----------------------------------------------------------------------------
(* The server.                                                             *)

ServerSends(k) ==
  /\ phase = "receiving"
  /\ peer = "open"
  /\ sent + k <= response.total
  /\ sent' = sent + k
  /\ UNCHANGED <<phase, socket, recv_buffer_size, response, peer,
                 nbytes_total, result>>

ServerCloses(how) ==
  /\ phase = "receiving"
  /\ peer = "open"
  /\ peer' = how
  /\ UNCHANGED <<phase, socket, recv_buffer_size, response, sent,
                 nbytes_total, result>>

-----------------------------------------------------------------------------
Send == Connected \/ ConnectFails \/ SendRequest \/ SendFails

Request == RejectRequest \/ OpenSocket \/ Send

PollReturns ==
  \/ \E k \in 1 .. response.total : ReceivePiece(k)
  \/ ReceiveNothing \/ PollHup \/ RecvFails \/ PollError \/ PollTimeout

Iteration == PollReturns \/ PollFailure

Server ==
  \/ \E k \in 1 .. response.total : ServerSends(k)
  \/ \E how \in {"fin", "reset"} : ServerCloses(how)

Next == Request \/ Iteration \/ Server

Spec == Init /\ [][Next]_vars

\* The client is never stopped within a request; the server owes nothing.
\* No fairness for PollFailure: a signal may always fail to arrive.
FairSpec ==
  /\ Spec
  /\ WF_vars(Send)
  /\ WF_vars(PollReturns)

-----------------------------------------------------------------------------
(* Properties.                                                             *)

TypeOK ==
  /\ phase \in {"idle", "connecting", "sending", "receiving", "done"}
  /\ socket \in {"none", "open", "closed"}
  /\ recv_buffer_size \in Nat
  /\ response \in Responses
  /\ sent \in 0 .. response.total
  /\ peer \in {"open", "fin", "reset"}
  /\ nbytes_total \in 0 .. sent
  /\ result.code \in Int
  /\ result.content \in Int

(* The byte after the received ones, which recv_http_response sets to 0     *)
(* after every piece (HttpClient.cpp:305), lies within the buffer, also     *)
(* when realloc fails.                                                     *)
BufferBound == nbytes_total < recv_buffer_size

(* A socket is open exactly while a request is under way: every way out of  *)
(* connect_to_server and communicate_with_server closes it                  *)
(* (HttpClient.cpp:214, 232, 242, 245).                                     *)
SocketClosed == socket = "open" <=> phase \in {"connecting", "sending", "receiving"}

Framed(r) == r.chunked \/ r.clen # NoLength
Payload(r) == IF r.chunked THEN Len(r.chunkEnds) - 1 ELSE r.clen
PayloadEnd(r) == IF r.chunked THEN r.head + r.chunkEnds[Len(r.chunkEnds)]
                              ELSE r.head + r.clen

(* A transfer that was cut off - by a timeout, a close, a reset - is never  *)
(* taken for a whole one: if a request returns the server's code together   *)
(* with content, it is all of the content (HttpClient.cpp:374-441).         *)
NoTruncatedSuccess ==
  phase = "done" /\ result.code # Failure /\ result.content # None =>
    /\ result.code = response.code
    /\ result.content = Payload(response)

(* A response that arrived as a whole is handed out as a whole, however it  *)
(* was cut into pieces, unless its content quotes a header line that frames *)
(* a response: the receive loop and the parser agree on where it ends        *)
(* (HttpClient.cpp:323-343, 390-438).                                       *)
CompleteIsReported ==
  phase = "done" /\ Framed(response) /\ response.quotes = "nothing"
    /\ nbytes_total >= PayloadEnd(response) =>
    result = [code |-> response.code, content |-> Payload(response)]

(* A complete response is handed out at once: the client never sits on one  *)
(* until the 5 seconds of the poll timeout are over (HttpClient.cpp:323-343). *)
EndsWhenComplete ==
  phase = "receiving" /\ Framed(response) => nbytes_total < PayloadEnd(response)

(* A request that was sent ends, whatever the server does.                  *)
TransferEnds == phase = "receiving" ~> phase = "done"

=============================================================================
