------------------------------- MODULE MCUrl -------------------------------
(***************************************************************************)
(* Urls whose path, query, fragment or credentials take any three symbols  *)
(* of an alphabet, one of the components at a time, and what the parser    *)
(* should make of them.                                                    *)
(***************************************************************************)
EXTENDS Credentials

CONSTANT MaxLength   \* of the component that varies

Alphabet == {"w", "2", "%", " ", "/", "?", "@", ":"}

Strings(chars, length) == UNION {[1 .. n -> chars] : n \in 0 .. length}

\* No component, or one that begins with c.
After(c, strings) == {<<>>} \cup {<<c>> \o s : s \in strings}

Plain == [protocol |-> <<"http">>, user |-> <<>>, password |-> <<>>,
          host |-> <<"host">>, port |-> "", path |-> <<"/", "w">>,
          query |-> <<>>, fragment |-> <<>>]

Paths     == After("/", Strings(Alphabet \ {"?"}, MaxLength))
Queries   == After("?", Strings(Alphabet, MaxLength))
Fragments == After("#", Strings(Alphabet, MaxLength))
Secrets   == Strings(Alphabet \ {"/", "@"}, MaxLength)

MCParts ==
       {[Plain EXCEPT !.path = p, !.port = n, !.query = q] :
          p \in Paths, n \in {"", "8080"}, q \in {<<>>, <<"?", "w">>}}
  \cup {[Plain EXCEPT !.query = q, !.fragment = f] :
          q \in Queries, f \in {<<>>, <<"#", "w">>}}
  \cup {[Plain EXCEPT !.query = q, !.fragment = f] :
          q \in {<<>>, <<"?", "w">>}, f \in Fragments}
  \cup {[Plain EXCEPT !.protocol = <<"https">>, !.user = <<"w">>, !.password = s] :
          s \in Secrets}
       \* each of the components without a path, or not in ascii
  \cup {[Plain EXCEPT !.path = p, !.port = n, !.query = q, !.fragment = f] :
          p \in {<<>>, <<"/", "high">>}, n \in {"", "8080"},
          q \in After("?", Strings(Alphabet, 1)),
          f \in After("#", Strings(Alphabet, 1))}

\* ISO 8859-1.
MCByte == " " :> 32 @@ "%" :> 37 @@ ":" :> 58 @@ "0" :> 48 @@ "2" :> 50 @@ "3" :> 51
            @@ "4" :> 52 @@ "5" :> 53 @@ "C" :> 67 @@ "F" :> 70 @@ "high" :> 195

=============================================================================
