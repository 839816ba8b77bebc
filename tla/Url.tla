-------------------------------- MODULE Url --------------------------------
(***************************************************************************)
(* The urls of src/src/Url.cpp: parseUrl, percentEncode and the two        *)
(* constructors.  A url is a sequence of symbols: a delimiter of a url, a  *)
(* hexadecimal digit, "%", a blank, the character "high" with the top bit  *)
(* set (0xC3, say), or a word, which stands for a run of unreserved        *)
(* characters.  A number is a word of its own, which begins with its first *)
(* digit or its sign and ends with its last digit.                         *)
(*                                                                         *)
(* parts is what the writer of the url has in mind, text the url string he *)
(* makes of it; url holds what the code makes of that: the out parameters  *)
(* of parseUrl, or the members of a Url.                                   *)
(***************************************************************************)
EXTENDS Naturals, SequencesExt

CONSTANTS
  Parts,    \* the parts of the urls that are written
  Numbers   \* the words that are numbers

\* Url(parts) leaves the port of any other protocol uninitialized.
ASSUME PartsAssumption ==
  Parts \subseteq [protocol : {<<"http">>, <<"https">>}, port : STRING,
                   user : Seq(STRING), password : Seq(STRING), host : Seq(STRING),
                   path : Seq(STRING), query : Seq(STRING), fragment : Seq(STRING)]
ASSUME NumbersAssumption ==
  {"80", "443"} \subseteq Numbers /\ Numbers \cap {"", " ", ":", "/", "?", "#", "@"} = {}

VARIABLES parts, text, url, call

vars == <<parts, text, url, call>>

-----------------------------------------------------------------------------
(* percentEncode                                                           *)

\* What "%02X" prints for the characters that are encoded.  char is signed:
\* one with the top bit set is extended to an int and printed with 8 digits.
Codes ==
  [c \in {" ", "%", "/", "?", "#", "@", "high"} |->
     CASE c = " " -> <<"2", "0">>
       [] c = "%" -> <<"2", "5">>
       [] c = "/" -> <<"2", "F">>
       [] c = "?" -> <<"3", "F">>
       [] c = "#" -> <<"2", "3">>
       [] c = "@" -> <<"4", "0">>
       [] c = "high" -> <<"F", "F", "F", "F", "F", "F", "C", "3">>]

HexDigits == {"0", "2", "3", "4", "5", "C", "F"}

\* The characters that a component does not copy.  All others are unreserved
\* or sub-delims or ":", and are copied in each of them.
Reserved(id) == CASE id = "/" -> DOMAIN Codes \ {"@", "/"}
                  [] id \in {"?", "#"} -> DOMAIN Codes \ {"@", "/", "?"}
                  [] id = "@" -> DOMAIN Codes

\* A bug for the runs: the room for the two digits is not looked at.
EscapeUnbounded(s, i) == s[i] = "%" /\ i < Len(s) /\ s[i + 1] \in HexDigits

EscapeAt(s, i) == /\ s[i] = "%"
                  /\ i + 2 <= Len(s)
                  /\ s[i + 1] \in HexDigits
                  /\ s[i + 2] \in HexDigits

\* The loop skips the digits of an escape; they would be copied anyway, and
\* none of them begins another one, so that each character can be taken alone.
percentEncode(s, id) ==
  FlattenSeq([i \in 1 .. Len(s) |->
    IF \/ i = 1 /\ s[i] = id
       \/ s[i] \notin Reserved(id)
       \/ EscapeAt(s, i)
    THEN <<s[i]>>
    ELSE <<"%">> \o Codes[s[i]]])

-----------------------------------------------------------------------------
(* parseUrl.  The operators give the offsets where a component begins, and *)
(* the one after its last character.                                       *)

\* std::string::find_first_of; 0 is npos.
FindFirstOf(s, chars, from) ==
  SelectInSubSeq(s, from, Len(s), LAMBDA c : c \in chars)

\* The same where npos means that the component goes to the end.
EndAt(s, chars, from) ==
  LET i == FindFirstOf(s, chars, from) IN IF i = 0 THEN Len(s) + 1 ELSE i

Separator(s) ==
  LET at == {i \in 1 .. Len(s) - 2 : SubSeq(s, i, i + 2) = <<":", "/", "/">>}
  IN  IF at = {} THEN 0 ELSE CHOOSE i \in at : \A j \in at : i <= j

\* Where the credentials or the host begin.
AfterSeparator(s) == IF Separator(s) = 0 THEN 1 ELSE Separator(s) + 3

HasCredential(s, from) ==
  LET i == FindFirstOf(s, {"@", "/"}, from) IN i # 0 /\ s[i] = "@"

Credential(s, from) == IF HasCredential(s, from)
                       THEN SubSeq(s, from, EndAt(s, {"@"}, from) - 1)
                       ELSE <<>>

UserOf(credential) == SubSeq(credential, 1, EndAt(credential, {":"}, 1) - 1)

PasswordOf(credential) ==
  SubSeq(credential, EndAt(credential, {":"}, 1) + 1, Len(credential))

HostFrom(s, from) ==
  IF HasCredential(s, from) THEN EndAt(s, {"@"}, from) + 1 ELSE from

HostEnd(s, from) == EndAt(s, {":", "/"}, from)

\* A host that neither ":" nor "/" follows must be the end of the url.
HostFound(s, from) == \/ FindFirstOf(s, {":", "/"}, from) # 0
                      \/ FindFirstOf(s, {"?", "#"}, from) = 0

HasPort(s, end) == end <= Len(s) /\ s[end] = ":"

\* sscanf "%d" skips the blanks after the ":" and reads a number, whatever
\* follows it.
PortFrom(s, end) == SelectInSubSeq(s, end + 1, Len(s), LAMBDA c : c # " ")
PortFound(s, end) == PortFrom(s, end) # 0 /\ s[PortFrom(s, end)] \in Numbers

DefaultPort(protocol) == CASE protocol = <<"http">> -> "80"
                           [] protocol = <<"https">> -> "443"
                           [] OTHER -> "0"

PathFrom(s, from) == FindFirstOf(s, {"/"}, from)

\* A bug for the runs: a fragment right after the path is taken for a path.
PathToQuery(s, from) == IF PathFrom(s, from) = 0 THEN from
                        ELSE EndAt(s, {"?"}, PathFrom(s, from))

\* Where the search for the next component begins: after the path, if any.
PathEnd(s, from) == IF PathFrom(s, from) = 0 THEN from
                    ELSE EndAt(s, {"?", "#"}, PathFrom(s, from))

QueryFrom(s, from) == FindFirstOf(s, {"?"}, from)

QueryEnd(s, from) == IF QueryFrom(s, from) = 0 THEN from
                     ELSE EndAt(s, {"#"}, QueryFrom(s, from) + 1)

Fragment(s, from) == SubSeq(s, EndAt(s, {"#"}, from) + 1, Len(s))

\* A component from one offset to the next; none if it was not found.
Component(s, from, end) == IF from = 0 THEN <<>> ELSE SubSeq(s, from, end - 1)

Nothing == [protocol |-> <<>>, user |-> <<>>, password |-> <<>>, host |-> <<>>,
            port |-> "0", path |-> <<>>, query |-> <<>>, fragment |-> <<>>]

\* The return value and the parameters, which are filled from left to right
\* until one is not found; only if all are found are they encoded.
Parsed(s) ==
  LET offs      == AfterSeparator(s)
      cred      == Credential(s, offs)
      hostFrom  == HostFrom(s, offs)
      hostEnd   == HostEnd(s, hostFrom)
      pathFrom  == IF HasPort(s, hostEnd) THEN hostEnd + 1 ELSE hostEnd
      pathEnd   == PathEnd(s, pathFrom)
      queryEnd  == QueryEnd(s, pathEnd)
      protocol  == SubSeq(s, 1, Separator(s) - 1)
      host      == SubSeq(s, hostFrom, hostEnd - 1)
      authority == [Nothing EXCEPT !.protocol = protocol,
                                   !.port     = DefaultPort(protocol),
                                   !.user     = UserOf(cred),
                                   !.password = PasswordOf(cred)]
  IN  IF Separator(s) = 0 \/ ~HostFound(s, hostFrom)
      THEN [ok |-> FALSE, url |-> authority]
      ELSE IF HasPort(s, hostEnd) /\ ~PortFound(s, hostEnd)
      THEN [ok |-> FALSE, url |-> [authority EXCEPT !.host = host]]
      ELSE [ok |-> TRUE, url |->
             [protocol |-> protocol,
              user     |-> percentEncode(UserOf(cred), "@"),
              password |-> percentEncode(PasswordOf(cred), "@"),
              host     |-> host,
              port     |-> IF HasPort(s, hostEnd) THEN s[PortFrom(s, hostEnd)]
                                                  ELSE DefaultPort(protocol),
              path     |-> percentEncode(Component(s, PathFrom(s, pathFrom), pathEnd), "/"),
              query    |-> percentEncode(Component(s, QueryFrom(s, pathEnd), queryEnd), "?"),
              fragment |-> percentEncode(Fragment(s, queryEnd), "#")]]

-----------------------------------------------------------------------------
(* Urls                                                                    *)

\* The url string for some parts, with the port that is given, if any.
Written(p, port) ==
  p.protocol \o <<":", "/", "/">>
    \o (IF p.user = <<>> /\ p.password = <<>> THEN <<>>
        ELSE p.user \o <<":">> \o p.password \o <<"@">>)
    \o p.host
    \o (IF port = "" THEN <<>> ELSE <<":", port>>)
    \o p.path \o p.query \o p.fragment

\* The members of Url(protocol, user, password, host, path, query, fragment).
Encoded(p) ==
  [p EXCEPT !.port     = DefaultPort(p.protocol),
            !.path     = percentEncode(p.path, "/"),
            !.query    = percentEncode(p.query, "?"),
            !.fragment = percentEncode(p.fragment, "#")]

Init == /\ parts \in Parts
        /\ text = Written(parts, parts.port)
        /\ url = Nothing
        /\ call = "none"

\* Url(parts) has no parameter for a port and writes the one of the protocol.
ConstructFromParts ==
  /\ call = "none"
  /\ parts.port = ""
  /\ url' = Encoded(parts)
  /\ text' = Written(url', url'.port)
  /\ call' = "Url(parts)"
  /\ UNCHANGED parts

ParseUrl ==
  /\ call \in {"none", "Url(parts)"}
  /\ LET p == Parsed(text)
     IN  /\ url' = p.url
         /\ call' = IF p.ok THEN "parseUrl" ELSE "parseUrl fails"
  /\ UNCHANGED <<parts, text>>

\* Url(url) calls parseUrl(url, protocol, host, user, password, ...), whose
\* parameters are (url, protocol, user, password, host, ...).
ConstructFromUrl ==
  /\ call \in {"none", "Url(parts)"}
  /\ LET p == Parsed(text).url
     IN  url' = [p EXCEPT !.host     = p.user,
                          !.user     = p.password,
                          !.password = p.host]
  /\ call' = "Url(url)"
  /\ UNCHANGED <<parts, text>>

Next == ConstructFromParts \/ ParseUrl \/ ConstructFromUrl

Spec == Init /\ [][Next]_vars

-----------------------------------------------------------------------------
(* Properties.                                                             *)

Has(s, chars) == \E i \in 1 .. Len(s) : s[i] \in chars

\* A fragment without the "#" that Url(parts) keeps and parseUrl drops.
Bare(f) == IF f # <<>> /\ f[1] = "#" THEN Tail(f) ELSE f

\* RFC 3986: what each of the parts begins with, and does not contain.
FollowsGrammar(p) ==
  /\ ~Has(p.user, {":", "/", "@"}) /\ ~Has(p.password, {"/", "@"})
  /\ ~Has(p.host, {":", "/", "?", "#", "@"})
  /\ p.port \in Numbers \cup {""}
  /\ p.path # <<>> => p.path[1] = "/" /\ ~Has(p.path, {"?", "#"})
  /\ p.query # <<>> => p.query[1] = "?" /\ ~Has(p.query, {"#"})
  /\ p.fragment # <<>> => p.fragment[1] = "#" /\ ~Has(Bare(p.fragment), {"#"})

\* The urls that the parser takes apart as they were put together: without a
\* path neither a query nor a fragment is found unless the port is given, and
\* a "/" or "@" in one of them is taken for that of the path or of the
\* credentials; and a fragment is searched for a query if there is none.
IsServed(p) ==
  /\ FollowsGrammar(p)
  /\ \/ p.path # <<>>
     \/ p.query = <<>> /\ p.fragment = <<>>
     \/ p.port # "" /\ ~Has(p.query, {"/", "@"}) /\ ~Has(p.fragment, {"/", "@"})
  /\ p.query # <<>> \/ ~Has(p.fragment, {"?"})

IsAscii(p) == ~Has(p.path, {"high"}) /\ ~Has(p.query, {"high"}) /\ ~Has(p.fragment, {"high"})
              /\ ~Has(p.user, {"high"}) /\ ~Has(p.password, {"high"})

(* A url that the parser can take apart gives back the parts it was written *)
(* from, encoded, with the port of the protocol where none was given, and   *)
(* the fragment without its "#".  This goes for a url written by hand and   *)
(* for one that Url(parts) has written, whose components are encoded twice  *)
(* (parseUrl and percentEncode, src/src/Url.cpp:197-389).                   *)
RecoversParts ==
  call = "parseUrl" /\ IsServed(parts) /\ IsAscii(parts) =>
    url = [parts EXCEPT
             !.port     = IF parts.port = "" THEN DefaultPort(parts.protocol)
                                             ELSE parts.port,
             !.path     = percentEncode(parts.path, "/"),
             !.query    = percentEncode(parts.query, "?"),
             !.fragment = percentEncode(Bare(parts.fragment), "#"),
             !.user     = percentEncode(parts.user, "@"),
             !.password = percentEncode(parts.password, "@")]

\* RFC 3986: pct-encoded = "%" HEXDIG HEXDIG
BeginsEscape(s, i) ==
  s[i] = "%" /\ \A k \in {1, 2} : i + k <= Len(s) /\ s[i + k] \in HexDigits

InEscape(s, i) == \E k \in {1, 2} : k < i /\ BeginsEscape(s, i - k)

\* The octets that a component stands for: those of its escapes, and of all
\* other characters.
Octets(s) ==
  FlattenSeq([i \in 1 .. Len(s) |->
    IF InEscape(s, i) THEN <<>>
    ELSE IF BeginsEscape(s, i) THEN <<<<s[i + 1], s[i + 2]>>>>
    ELSE <<IF s[i] \in DOMAIN Codes THEN Codes[s[i]] ELSE <<s[i]>>>>])

\* No character of an encoded component ends it or the request line that it
\* is sent in, and each "%" begins an escape.
IsClean(s, unsafe) ==
  \A i \in 1 .. Len(s) : s[i] \notin unsafe /\ (s[i] = "%" => BeginsEscape(s, i))

(* Of a component of ascii characters, encoding leaves nothing that would   *)
(* end it early, and it stands for the same octets as before, whether or    *)
(* not parts of it were escaped already (percentEncode,                     *)
(* src/src/Url.cpp:319-389).                                                *)
EncodedOnce ==
  call \in {"parseUrl", "Url(parts)"} /\ IsServed(parts) /\ IsAscii(parts) =>
    /\ IsClean(url.path, {" ", "?", "#"}) /\ Octets(url.path) = Octets(parts.path)
    /\ IsClean(url.query, {" ", "#"}) /\ Octets(url.query) = Octets(parts.query)
    /\ IsClean(Bare(url.fragment), {" ", "#"})
    /\ Octets(Bare(url.fragment)) = Octets(Bare(parts.fragment))
    /\ call = "parseUrl" =>
         /\ IsClean(url.user, {" ", "/", "@", "?"}) /\ Octets(url.user) = Octets(parts.user)
         /\ IsClean(url.password, {" ", "/", "@", "?"})
         /\ Octets(url.password) = Octets(parts.password)

=============================================================================
