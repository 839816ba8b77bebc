# A verification project for sma-emeter-and-inverter-to-influxdb

The program reads the measurements of SMA emeters and inverters from the local
network and writes them to InfluxDB.  It is one process with one thread: all
that happens, happens in the main loop or in a handler that the packet
dispatcher calls from within it.  What makes it hard to test is outside:
replies that are lost, late, duplicated or out of order, devices that fall
asleep and forget their session, an http server that stops in the middle of a
response.

The speedwire protocol, the discovery of devices, the averaging of values and
the calculation of derived values are in `libspeedwire`, a submodule whose
sources are not part of this repository.  What the modules say about it is
taken from how the code here uses it, and is marked as external in
`PROJECT.json`.

Contents: [inventory](#inventory), [modules](#modules), [runs](#runs),
[findings](#findings), [proofs](#proofs), [limits](#what-is-not-shown),
[plan](#plan).

## Inventory

| Component | Source | State | Operations | Modelled |
|---|---|---|---|---|
| Inverter polling loop | `main.cpp` 208-335 | `night_mode`, `inverter_query`, `start_time`, the interval, `needs_login` and the token repository | a pass: log in if needed, send a round of queries if one is due, dispatch for a while, derive values if all is settled | `InverterPolling` |
| Inverter packet receiver | `PacketReceiver.cpp` 81-183 | the tokens, the data map, `needs_login` (all shared with the loop) | `receive`: find the token, handle an error or take the data, remove the token | `InverterPolling` |
| Http client | `HttpClient.cpp` | the receive buffer and its size, a socket per request | `sendHttpGetRequest`, `sendHttpPutRequest`, `sendHttpPostRequest`; connect, send, receive, parse | `HttpTransfer`, `HttpText` (partly) |
| Url | `Url.cpp` | the members of a `Url` | two constructors, `parseUrl`, `percentEncode` | `Url` |
| Emeter packet receiver | `PacketReceiver.cpp` 18-65 | none | `receive`: hands each obis element to the filter, then signals their end | `InfluxProducer` |
| InfluxDB producer | `InfluxDBProducer.cpp` | three cached conversions of time, the point under construction, a batch | `produce`, `flush` | `InfluxProducer` |
| Tag definitions | `TagDefinitions.cpp`, `main.cpp` 62-67 | the tag map | `readFromFile`, merging into the global maps | `TagDefinitions` |
| Startup and discovery | `main.cpp` 74-111 | the list of devices | two searches with wakeup requests between them | `Startup` |
| Processing chain | `main.cpp` 113-206 | the maps and consumers, built once | none after startup | its keys, as a constant |
| Log listener | `main.cpp` 36-47 | none | prints | no |

**How they interact.**  The loop logs in (`SpeedwireAuthentication`), sends
queries (`SpeedwireCommand::sendQueryRequest`, which adds a token per query)
and calls `SpeedwireReceiveDispatcher::dispatch`, which calls the two packet
receivers for what arrives until its timeout.  The inverter receiver and the
loop share the token repository, the flag `needs_login` and the data map.  The
receivers feed the averager, the averager the calculator, the calculator the
producer.  The http client is used at startup to wake sleeping devices, and
uses `Url::parseUrl`.

**What is hard, and what makes each part correct.**

* *Polling loop and receiver.*  A reply belongs to a round only by its packet
  id.  A round must not take data that an earlier round asked for; values must
  not be derived over open queries; a device that never answers must not stop
  the queries; a device that lost its session must be logged in again; the
  tokens of a login must not be mistaken for those of a round.
* *Http client.*  A response arrives in pieces cut anywhere.  The loop must
  stop as soon as the response is complete and not before, the parser must
  agree with the loop on where it ends, what was cut off must not be returned
  as a success, the buffer must bound what is received even if it could not be
  enlarged, every way out must close the socket, and every transfer must end.
* *Url.*  Each component is searched from where the previous one ended.  What
  is parsed must be what was written, and what was escaped must not be escaped
  again.
* *Producer.*  A point must carry the time and the tags of its own measurement,
  whatever other devices reported in between, and the values of one emeter packet
  must carry the same time, although they are converted one by one.
* *Tag definitions.*  The map must hold what the list says, the last entry of each
  tag, whatever else is in the file; each tag must get into the right one of the
  two global maps; reading a number must fill its field, and nothing else.
* *Startup.*  The main loop never searches for devices, so that a sleeping device
  must be woken before it; and no device may keep the program from getting there.

All hazards, with their lines and the properties that watch them, are listed
under `hazards` in `PROJECT.json`.

## Modules

| Module | What it is |
|---|---|
| `QueryRounds` | abstract specification: what the polling loop promises |
| `InverterPolling` | the polling loop and the inverter receiver; instantiates `QueryRounds` |
| `InverterPollingProofs` | theorems about it |
| `MCInverterPolling`, `MCNightMode` | its small instances; a history variable for the night mode |
| `HttpTransfer` | the http client |
| `HttpTransferProofs` | theorems about it |
| `HttpText` | its scanners, parser and base64 encoder, as functions on texts |
| `HttpResponses` | the responses a server may write, as texts and as positions, and what should become of them |
| `HttpTextProofs` | theorems about the base64 encoder, lemmas about the scanners and the walk over the chunks |
| `MCHttpTransfer` | the small instance of the client: eight responses |
| `Url` | parsing and encoding of urls, and which urls the parser takes apart |
| `Credentials` | the credentials of a url on their way into a request; joins `Url` and `HttpText` |
| `UrlProofs` | theorems about both |
| `MCUrl` | the urls that are tried |
| `InfluxProducer` | the producer, driven by the emeter receiver and by inverters |
| `InfluxProducerProofs` | theorems about it |
| `MCInfluxProducer` | its small instance |
| `Startup` | the two searches and the wakeup; composes with `HttpTransfer` |
| `StartupProofs` | theorems about it |
| `MCStartup` | its small instance |
| `TagDefinitions` | the reader of the tag list, and what a list says |
| `TagDefinitionsProofs` | theorems about it |
| `MCTagDefinitions` | the lists that are tried, and what their lines are meant to say |
| `TextLemmas` | lemmas about parts of texts and joined pieces, for the proofs about texts |

### InverterPolling

`pc` says where the loop is.  The actions follow the body of `while (true)`:

| Action | Code |
|---|---|
| `BeginPass`, `BeginLogin` | head of the pass: choose the interval, reset `night_mode`, log off and on if `needs_login` (`main.cpp` 216-229) |
| `EndLoginDispatch` | the dispatch for the replies to the login ends, `start_time` is set back (230) |
| `StartRound`, `SkipRound` | is a round due? clear the tokens, send all queries (233-308) |
| `EndDispatch` | the dispatch of the pass ends (310) |
| `Aggregate`, `SkipAggregate` | derive values and decide on the night mode, or not (313-334) |
| `DropReply`, `ReceiveError`, `ReceiveData` | `InverterPacketReceiver::receive` (`PacketReceiver.cpp` 81-183), enabled only while the loop dispatches |
| `Tick`, `LoseSession` | time passes during dispatch; a device drops its session |

A token is a record of device, command and packet id.  A reply carries the
same three, a fragment counter (0 is the last fragment) and a body: data with
or without dc power, the error 0x0017 ("refused"), another error, or a packet
that does not fit its token ("garbled").  `data_map` keeps, for each key of
`inverter_map`, which device and which round the newest reading is from.
Replies are put into `net` when the query is sent and are never taken out:
each may be delivered late, again, before earlier ones, or never.

Assumptions on what is outside `src/`:

* Packet ids are drawn once per round and wrap around after `PidRounds`
  rounds; by then no reply to the first of them is still under way.  (Every packet
  has an id of its own; that of a round stands for those of its packets.)
* The authenticator may or may not register tokens for its logins;
  `LoginTokens` chooses, and both are explored.
* `elapsed` changes only during dispatch, where the loop spends its time.  A
  stall of several intervals is several ticks within one dispatch.
* A query that could not be sent leaves no token (answer "unsent").

Derived values and what consumers do with data are left out; only the decision
to derive is modelled.

### QueryRounds

What the loop promises with the packets, errors, tokens, timers and logins left
out.  `pending` are the queries of the round that are not settled, `readings` the
entries of the data map, `waiting` says that values are still to be derived, and
`listening` that packets are taken.

* `Begin`: a round starts, giving up what was left of the last one, and the loop
  listens; `Listen`: it listens without one, or stops.  There is therefore at most
  one round each time that it listens, and a query is open from its beginning only.
* `Partly`, `Settle`: data of an open query, and only of one, become readings of
  the round, in its own entries only; with `Settle` the query is closed and cannot
  bring anything more, or be settled again, in this round.
* `Derive`: values are derived with nothing pending, not while listening.

The instance maps `pending` to the tokens without those of logins, `readings` to
the data map, `waiting` to `inverter_query`, and `listening` to `Dispatching`.
In the run this excludes, for one, that a first fragment which its last one has
overtaken is taken after all.  Where two inverters share an entry, which only the
theorem covers, it says too that a second copy of the reply of the one does not
undo what the other has written since.

### HttpTransfer

A response is a record of positions: of the digits of the status code, of the
line that announces chunked encoding, of the end of the header, of the end of
each chunk, of the end of it all.  What the scanners of `HttpClient.cpp` find
in the first `n` bytes follows from these positions (`CodeSeen`, `LengthIn`,
`ChunkedIn`, `ChunksSeen`, `LastChunkSeen`); the text itself is abstracted.
`TransferComplete` is the test at the end of each receive step and `Parse` is
`parse_http_response`.  There is one action per outcome of an iteration of
`recv_http_response`: `ReceivePiece` (with the growth of the buffer, the
receive, the final 0 and the test), `ReceiveNothing`, `PollHup`, `RecvFails`,
`PollError`, `PollTimeout`, `PollFailure`.  Each way out has its own
`close_socket`, as in the code: `ConnectFails` (214), `SendFails` (232),
`ParseAndClose` (242) and `GiveUp` (245).  `ServerSends` and
`ServerCloses` are the environment.  `FinReports` is what `poll` may say of a
connection that the server closed in order: POLLIN on linux, POLLHUP on
windows.

### Url

A url is a sequence of symbols; a run of unreserved characters that is never
looked into is one symbol, and so is a number, with its sign.  As `sscanf` does
with `%d`, `PortFrom` skips blanks after the ":", and whatever follows the number
is left alone.  The operators give the offsets that `parseUrl`
keeps in `offs`; `Parsed` is the whole function: its return value, and the
parameters, also those already filled when it fails.  `percentEncode` takes each character alone:
the digits that the loop of the code skips after an escape would be copied
anyway and cannot begin another one.  The state machine is a sequence of calls
on one url: `ConstructFromParts`, `ParseUrl`, `ConstructFromUrl`; what the first
of them writes may be the input of the others.

What a url should be is stated apart from the parser: `FollowsGrammar` is what
RFC 3986 says of the parts, `IsServed` names those of the grammar's urls that the
parser can take apart, and `Octets` is what a component stands for, escaped or
not.  `Credentials` gives each character its byte and says that what
`sendHttpRequest` sends is the base64 of the user, ":" and the password.

### HttpText

The functions of `HttpClient.cpp` under their own names, on texts: sequences of
symbols, of which a digit, a space, CR and LF are each one, and so is the name of
a header field.  `find` gives the offset after the needle, `Scan` is `scanUint`
and `scanHex`, `Chunks` the walk from chunk to chunk that the receive loop and
the parser both do, `IsComplete` the test of the receive loop and `ParseText`
the parser.  `IsBase64` says what base64 is without a loop: the bits of the input
in their order, six to a character.  A number is as large as its digits make it;
that a `size_t` has 64 bits is left out, since no content is that long.

### HttpResponses

A script says what a server writes: version and status, the lines of the header,
how the content is framed (by its length, in chunks, or by the end of the
connection), and the content, which may look like a header line, an empty line or
a chunk, and may quote a header line as its last one.  `Grammatical` says what a
script may be; `Response` puts it together as a text and, from the way that is
done, as the positions that `HttpTransfer` goes by.  `TextAgrees` says that the
scanners, reading the text, lead to the same decisions after every piece, which
is what makes the positions a faithful abstraction.  `ContentIsOriginal` compares
what is handed out with what was put in.

### InfluxProducer

`Produce` is the whole of `InfluxDBProducer::produce`: the tags, the time, the
write, the new point.  A time stamp is a pair of the measurement time and the
time of the system clock at which it was converted, since the conversion depends on
both; that is also what a cache entry is made of.  `BeginPacket`, `Consume`,
`EndOfObisData` and `EndPacket` are `EmeterPacketReceiver::receive`; `Consume`
may leave out the producer, as the filter and the averager between them do, and
`Derive` produces the values that are derived at the end of a packet, for the
meter and for the house.  `Measure` is a value of an inverter, which may have no
measurement time.  The clock may tick anywhere.  `written` is what was written
for the current packet or value.

### Startup

`Search` and `SearchAgain` are the two calls of `discoverDevices`, `BeginRequest`
constructs an http client for a device of which only the address is known, and
from there to `EndRequest` the steps are those of an instance of `HttpTransfer`
(`NoSocket`, `Connect`, `SendOrFail`, `Receive`, `Interrupt`, `Respond`).  Devices fall asleep
and wake up at any time; a connection wakes those that are `Wakeable`, whether it
succeeds or not; a device that is awake and `Reliable` answers each search.

### TagDefinitions

`ReadLine` is one round of the `while` loop, with `fgets`, the cut at a comment or
the end of the line, the split and the two calls of `sscanf`; `Close` ends the
file and decides, as `main.cpp` 64 does, whether the maps are filled.  A record is
four fields that follow each other in memory.  `LongWords` says how many 4 byte
words `%lu` stores: two where a long has 64 bits, in which case what follows the
field is overwritten.

A word is a run of characters between two separators, blanks included, and
`ValueOf` says of which words `%lu` makes a number: `sscanf` skips blanks, takes a
sign and stops after the digits, so that " 7", "+30" and "8x" are such words.  The
lists that are tried contain these three.

What a list says is stated without `fgets`, `find` and `sscanf`: `Lines` are the
spans between two line ends, `Layouts` the ways of seeing in a line an id, "=", a
name, "\\", a register, "\\" and a description, and `Current` the tags of the
lines that no later line with the same id replaces.

## Runs

| Run | States | What it shows |
|---|---|---|
| `polling_safety` | 741 000 | type correctness, `TokensCurrent`, `LoginTokensShortLived`, `SettledWhenQuiet`, `NoStaleReading`, `DerivedFromAnswers`, and `RoundsSpec`: the loop implements `QueryRounds` |
| `polling_recovery` | 37 600 | `RoundsKeepComing`, `SessionRecovers` |
| `polling_prompt` | 20 400 | `EveryRoundDerived` |
| `http_safety` | 208 000 | `BufferBound`, `SocketClosed`, `NoTruncatedSuccess`, `CompleteIsReported`, `EndsWhenComplete`, `TextAgrees`, `ContentIsOriginal` |
| `startup` | 29 400 | `LoopIsEntered`, `WokenIsFound` |
| `url_parse` | 24 600 | `RecoversParts`, `EncodedOnce`, `CredentialsArrive` |
| `producer` | 588 000 | `StampIsOwn`, `OneStampPerPacket`, `PointIsOwn`, and cache coherence as part of the type invariant |
| `tags` | 10 400 | `ReadBack`, `EachTagOnce` |
| `polling_dark`, `night_mode`, `http_eof`, `tags_long` | | violated: see [findings](#findings) |

**Bounds.**  The polling runs have a pv inverter with a two-fragment reply
and a battery inverter with a one-fragment reply, so that two devices, an
overtaken fragment and a half-answered round occur.  An interval of one tick
and a bound of three ticks let a stall of more than one interval happen.  Two
packet ids are enough to tell the current round from an earlier one, which is
all that the code does with them.  The data of both inverters
are kept in the data map, a query may also fail to be sent, and the errors are those
of a device without a session, which the receiver treats like any other except that
the loop may log in again.  `polling_recovery` has one device with one
command of each kind, masked and not, since the two are handled alike except
for the login.  The http runs have a buffer of 8 symbols that doubles and
responses of up to 33, so that the buffer grows up to three times and
a cut may fall within the code, the header, a chunk line or a chunk; there are
responses with no content, with an announced length of 0 and of 3, in one chunk of
a hex length and in two chunks, and some that end when the connection does.  Their
contents look like what surrounds them: an empty line, a last chunk, a header
line.  Requests follow each other without bound on the same client, so that the
buffer of one is that of the next.  `startup` has the three devices of `main.cpp`,
two with a known address, one of them reliable, and two responses of up to 4
symbols, since the rest of the client is in `http_safety`.  `producer` has a device of
each kind and two meters, which share a cache, two values per packet, two
measurement times and a clock of three; a conversion that is used too long or made
too often shows with two of each.  `tags` has every list of up to three of eleven
lines: with and without comment, CR and end, the same tag twice, and each way in
which a line fails to be an entry; three lines are a tag, its second entry and
something else in any order.  In `url_parse` one component at a time runs through all strings of up
to three symbols of an alphabet that has each class of characters; three is the
length of an escape.  Urls without a path, and with all components short, are
added.

**Fairness.**  `LoopFairness` is weak fairness of the loop, which is a
`while (true)` in which nothing blocks for longer than the poll timeout, and
strong fairness of `Tick`: time passes while the loop waits, although a burst
of packets may postpone it.  `RecoveryFairness` adds that a device is not
unreachable for ever: now and then a login gets through, an unmasked query is
refused and the refusal is delivered; without it no program could recover.
`DeliveryFairness` is that of a network that delivers last fragments and
errors.  The http client assumes only that its own steps are taken and that
`poll` returns; nothing is assumed of the server, and none of `PollFailure`.
The startup is the same single thread: its steps, the client's and the return of
`connect` and `poll`, which have timeouts, are fair, and the devices owe nothing.
`startup` is checked on linux, where a closed connection is reported as POLLIN, and
with a `realloc` that may fail.  `LoopIsEntered` therefore names the two states in
which a wakeup request never returns (`Stuck`: the server has closed the connection
in order and all was read, or there is no room left in the buffer; `recv` returns 0
for ever in both), and says that nothing else keeps the program from its main loop:
a server that stalls, resets or refuses, and a device that sleeps, do not.

**Properties that are shown to bite.**  Each property of a passing run has a
mutant in `PROJECT.json`: one definition is replaced by what a plausible slip in
the code would have made of it (the tokens not cleared, a login that does not
set the clock back, a comparison that is off by one, a socket left open, an
escape that is looked for beyond the end), and the run then finds the property
violated.  The mutated definitions stand next to the ones they replace and are
called so in their comments.

## Findings

Places where the code does not do what its comments say; each is shown by a
run that violates the property.

* `polling_dark`: an error reply takes the token of its query and brings no data
  (`PacketReceiver.cpp` 149), and the night mode is decided on the newest reading
  of whatever round (`main.cpp` 320-323).  The run shows a round answered with no dc
  power, a next one answered with an error, and night mode entered again on the
  reading of the first; the comments speak of waiting for "all data" and of the dc
  power (313, 320).  A last fragment that overtakes the one with the dc power takes
  the token too (178-180): with fragments instead of errors (`Carries <- MCCarries`,
  `Answers = {"zero"}`) the same property is violated in that way.
* `night_mode`: the night interval lasts for one pass.  `night_mode` is reset at
  the head of each pass and set only in a pass that derives values, so the next
  pass is back at 30 seconds (`main.cpp` 216-220, 320-330).
* `http_eof`: on linux, a server that closes the connection in order before the
  response is complete leaves the client in a loop for ever: `poll` reports
  POLLIN, `recv` returns 0, and 0 is not handled (`HttpClient.cpp` 299).  Within a
  wakeup request this keeps the program from its main loop; `LoopIsEntered` excepts
  this case by name.
* `tags_long`: `sscanf` with `%lu` stores 8 bytes where `long` has 64 bits, but the
  fields have 4 (`TagDefinitions.cpp` 60, 63).  The second call overwrites a part
  of `tagname`, which was assigned before it, so that the record is stored with
  a string whose pointer is broken.

Noted while modelling, without a run of their own (see `hazards`): the parser of
the http client searches the content too for header lines, so that a page that
quotes `Transfer-Encoding: chunked` is returned as a failure (`HttpClient.cpp`
384; `TextAgrees` includes such pages); the constructor of `Url` from a string
stores the user as the host, the password as the user and the host as the
password (`Url.cpp` 65; the program does not use it); a url
without a path whose query has a "/" or a "@" is taken apart wrongly, as is a
"?" in the fragment of a url without a query; the fragment is sent to the server
without its "#"; a character above 0x7f is encoded with eight digits; the credentials of a url are
sent as they stand in it, with their escapes (`HttpClient.cpp` 172); the names of
header fields are compared with their case; a value without a measurement time is
stored under the time at which the previous value was written.

## Proofs

Checked by TLAPS for every value of the constants that meets the named
assumptions of the modules (`TimeAssumption`: the bound on the time is longer
than both intervals; `PidAssumption`: at least two packet ids;
`ResponseAssumption`: the positions of a response are in order; `EndAssumption`:
the server sends nothing after its content; `ClientAssumption`: the startup's
client is one of those; `FilesAssumption`: a tag list is any sequence of symbols;
`NumeralAssumption`: the symbols that separate the items of a line are not
numerals; `NumbersAssumption`: nor are blanks and what separates the parts of a url,
and the default ports are; `ByteAssumption`: a character has one byte, and that of ":"
is 58; `WrittenAssumption`: a response is one that a server writes from a script).  `Url` assumes of its inputs only that their parts are texts and that the
protocol is http or https (`PartsAssumption`): for another one, `Url(parts)`
leaves the port uninitialized.

*`InverterPollingProofs`.*  The inductive invariant is

    IInv == TypeOK /\ TokensCurrent /\ LoginTokensShortLived /\ SettledWhenQuiet

None of the last three is inductive alone: that no query is open when the loop
goes quiet needs that a login leaves only login tokens, and that these are gone
when the size of the repository is tested (`LoginTokensShortLived`), which needs
that a round begins in the very pass of the login and replaces all tokens.
`TokensShrink`, `LoginAdds` and `RoundReplaces` say what each kind of step does
to the tokens.  From `IInv`:

* `TypeCorrect`, `TokensAreCurrent`, `LoginTokensDie`, `QuietIsSettled`: its
  parts;
* `ReadingsAreCurrent`: only `ReceiveData` writes the data map
  (`OnlyDataWrites`), it does so for a token of the repository, and that token
  is current;
* `ValuesFromAnswers`: rests on a second inductive invariant, `WaitsOrAccounted`:
  while the loop waits, each query of the round has a token or is accounted for,
  which means answered up to its last fragment, refused, or never sent.  It is preserved because a
  token goes away only with an error, with the last fragment, whose values are then in the
  data map, or with the next round; a reading of the round is never replaced by
  an older one since `IInv` makes every token current.  When values are derived,
  no token is left, so that every query is accounted for;
* `RoundsImplemented`: initial states map to initial states, and each step to
  `Begin`, `Listen`, `Partly`, `Settle`, `Derive` or a stutter (`LoopRefines`,
  `ReplyRefines`).  The removal of a token settles one query because two tokens with
  the same query would both be current; the data of a reply are those of its query
  because its fragment is one of those that the query has (`FragmentsKnown`, the one
  fact about what is on its way that is needed besides `IInv`).

*`HttpTransferProofs`.*  The inductive invariant is

    IInv == TypeOK /\ BufferBound /\ SocketClosed /\ NoTruncatedSuccess

with the lemma `ParseHonest`: what the parser returns as a success with
content is the server's code and all of the content, for any prefix of any
response.  For a chunked response it rests on `WholeWalk`: a walk that reaches
the last chunk has passed all others.  `BufferIsBounded` holds although
`realloc` may fail, because the room for a piece is computed from the size that
the buffer really has.

A second invariant, `Ends`, holds from the first: a transfer begins with nothing
received, goes on only while the end of the content is missing
(`CompleteIsSeen`: the loop does not miss it), and when it does not, the parser
agrees (`CompleteIsParsed`).  From it follow `CompleteEnds` and
`CompleteReported`.

`TextAgreesAlways` is about the text.  It needs no invariant but the types, since
it holds of any part of any response that the grammar of `HttpResponses` allows:

* where things are: `WrittenIs`, `HeaderIs`, `StartIs`, `PageIs` and
  `ChunkedBodyIs` say where the parts of a response lie in its text, and
  `FoundFirst` that a part which lies nowhere before is found as soon as it has
  arrived;
* `HeaderEnd`: no line of the header is empty (`HeaderLines`), so that the first
  empty line is its end, although the content may have others;
* `CodeRead`, `LengthRead`, `QuotedLength`: the numbers, with spaces before them
  and up to the first symbol that is no digit (`NoDigitFollows`);
* `ChunksOfBody`: the walk passes the chunks that have arrived and no others
  (`ChunkRead`, `LastChunkRead`), although their data may look like a chunk;
  `ChunksAgree` says that these are as many as the positions count;
* `CompleteAgrees` and `ParseAgrees` put these together for the receive loop, which
  looks at the header alone, and for the parser, which looks at all it has.

`ContentIsKept` follows with `ParseHonest`: what is returned as a success is all
of the content, and its parts make up what the server wrote (`WholeContent`).

*`StartupProofs`.*  The inductive invariant is

    IInv == OneRequest /\ Progress

besides the type invariant, which is inductive with the facts about the client's
state that it contains (`StartupTypeCorrect`).
`OneRequest` relates the client to the startup: its socket is open exactly while a
request is under way, and only for a target.  `Progress` follows the devices that
are promised to be found (required, known by address, woken by a connection,
reliable): during the wakeup each one is found, awake, without a socket, or still
to be woken; after it, none is still to be woken.  The steps of the client within
a request are all the same to it (`ClientStep`).  `WokenAreFound`
follows, for every set of devices and every server.  `RequestsAreTransfers` is the
composition itself: whatever the startup does, its client goes through steps of
`HttpTransfer`, or is a new one, so that the theorems about the client hold of each
wakeup request.

*`InfluxProducerProofs`.*  The inductive invariant is

    IInv == TypeOK /\ PointIsNew /\ StampIsOwn /\ PointIsOwn /\ PacketStamps

`PointIsNew`: the point that waits for the next value has no tags and no
measurement time.  `PacketStamps` is what makes `OneStampPerPacket` inductive: all
values written for a packet have its time, and those that went through the cache
of the emeter have the stamp that the cache still holds, so that the next one
gets the same.  `ProduceKeeps` says what one call of `produce` does, whoever makes
it; `PacketProduce` lifts it to a packet in progress.  The theorems
(`ProducerTypeCorrect`, `StampsAreOwn`, `PacketHasOneStamp`, `PointsAreOwn`) hold
for any set of devices, values and measurement times, and any bound of the clock.

*`TextLemmas`.*  What the proofs about texts share.  The provers have no induction
over data, but they have sets of numbers with a least element: `AllPositions` says
that a set with the first position, and with each position the next one, has
all of them.  From it follow the facts about `FlattenSeq`, whose definition in
the community modules is a recursive function: where each piece is in the whole
(`Flattened`), that it is the first piece and the rest (`FlattenFirst`), and when
two sequences of pieces make the same whole (`Regrouped`).

*`TagDefinitionsProofs`.*  The inductive invariant is

    IInv == Position /\ ReadBack /\ Registered

`Position`: between two calls of `fgets` the file is at the beginning of a line or
at its end, which needs that no line is longer than the buffer (`FitsBuffer`; the
code would take the rest of it for a line).  `ReadBack` is then kept by a line
because what the code reads from it is the one layout the line has, if any
(`ItemsAre`, `LayoutIs`, `OneLayout`, `TagIsRead`), and because the tags that
are current after the line are those from before it that it does not replace, and
its own (`CurrentSteps`).  `Registered` says what each of the two merges has added.
`MapIsTheList` and `TagsRegisteredOnce` hold for tag lists of any length.

*`UrlProofs`.*  The state machine is simple (its invariant says that the text is
one that was written, and that the url is what the calls make of it); the work is
in the functions.  `EncodedIs` gives each character of a component its offset
in the encoded one; from it follow `EncodedClean` (nothing that would end the
component remains, and each "%" begins an escape), `EncodingIsIdempotent` and
`SameOctets` (an escape is one octet with two empty pieces after it, so that
`Regrouped` applies).  For the parser, `WrittenIs` says where each part lies in
the string, `ServedIsShaped` which delimiters are absent before each offset,
and `ParsedIs` goes through the searches of `parseUrl` one after the other with
these (`SeparatorFound`, `HostIsFound`, `PathIsFound`, `QueryIsFound`).
`EncodedIsServed` is needed for urls that `Url(parts)` has written: encoding takes
no url out of those that are served, and the second encoding changes nothing.
`PartsRecovered` and `ComponentsEncodedOnce` follow for components of any length.

*`HttpTextProofs`.*  `EncodesBase64`: the rounds of the encoder are pieces of four
characters (`FlattenFours`), bit i of the text is bit i % 24 of one round
(`WhereBitIs`), and the bits of a round are those of its three bytes
(`QuadBits`), of which those beyond the end are 0 (`ByteAtIs`).  `CredentialsSent`
(in `UrlProofs`) applies it to the credentials of any url string, for which it
needs only that the parser returns texts (`CredentialIs`, `EncodedIsText`), also
for characters that are not in ascii.

Of the scanners it says what they return where: `NeedleAt` and `NeedleNowhere` for
`find`, `NumeralScanned` for the two that read numbers, `ChunkIs`, `ChunkCut` and
`LastChunkIs` for a chunk that has arrived, one that is cut short, and the last.
`Value` and `Chunks` are recursive functions over positions; that these exist
follows by `AllPositions` (`ValueCounts`, `WalkExists`), with which `ChunksRead`
says what a walk over given chunks returns.

**Only model-checked.**  Liveness (`RoundsKeepComing`, `SessionRecovers`,
`EveryRoundDerived`, `LoopIsEntered`) is out of the prover's reach.  All invariants
of the runs, and the refinement of `QueryRounds`, are proved.

## What is not shown

* Timing in milliseconds, the text of packets and responses, the values
  themselves.
* `malloc` failing in the constructor of the http client, and the list of
  addresses that `connect_to_server` walks: of these, entries are leaked, but
  nothing else depends on them.
* The batches of the database client, and `flush`, which passes the call on: they are
  the library's.
* The configuration of the processing chain and the log listener: they keep no
  state of their own.
* Lines of the tag list that are longer than the line buffer of 1024 bytes.
* That derived values are right: their calculation is in `libspeedwire`.
* Which of two devices of one class wins an entry of the data map.

## Plan

All components with state of their own are modelled, and every safety property
that the runs check is proved.  What would be added next:

1. Contents that follow a header line they quote, or quote several; the grammar of
   `HttpResponses` has one, at the end of the content.
2. The list of addresses of `connect_to_server`, if the client is ever used in the
   main loop, where its leaks would add up.
