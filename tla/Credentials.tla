---------------------------- MODULE Credentials ----------------------------
(***************************************************************************)
(* The credentials of a url on their way to the server: parseUrl takes them *)
(* out of the url, and sendHttpRequest sends them in base64                 *)
(* (src/src/HttpClient.cpp:138-173, 597-621).                              *)
(***************************************************************************)
EXTENDS Url, HttpText

CONSTANT Byte   \* [characters -> their bytes]

ASSUME ByteAssumption ==
  /\ \A c \in DOMAIN Byte : Byte[c] \in 0 .. 255
  /\ ":" \in DOMAIN Byte /\ Byte[":"] = 58

\* Any other symbol is a word, which is taken for one character, "w".
Bytes(s) == [i \in 1 .. Len(s) |-> IF s[i] \in DOMAIN Byte THEN Byte[s[i]] ELSE 119]

(* The credentials of a url arrive at the server as they stand in the parsed *)
(* url, whatever their length (sendHttpRequest and base64_encode,           *)
(* src/src/HttpClient.cpp:170-173, 597-621).                                *)
CredentialsArrive ==
  call = "parseUrl" /\ (url.user # <<>> \/ url.password # <<>>) =>
    IsBase64(Authorization(Bytes(url.user), Bytes(url.password)),
             Bytes(url.user \o <<":">> \o url.password))
=============================================================================
