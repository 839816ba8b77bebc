-------------------------- MODULE MCTagDefinitions --------------------------
(* Tag lists of up to three lines, each line with the entry it stands for, if *)
(* any.                                                                       *)
EXTENDS TagDefinitions

CONSTANT MaxLines

Numerals == "0" :> 0 @@ "7" :> 7 @@ " 7" :> 7 @@ "8" :> 8 @@ "8x" :> 8
              @@ "30" :> 30 @@ "+30" :> 30

NoEntry == [TagRecord EXCEPT !.tagname = <<"no entry">>]
Entry(id, name, register, description) ==
  [enum_id |-> Numerals[id], register_id |-> Numerals[register],
   tagname |-> name, description |-> description]

Body(id, name, register, description) ==
  <<id, "=">> \o name \o <<"\\", register, "\\">> \o description

\* An entry, with what follows it on its line.
Good(id, name, register, description, end) ==
  [text |-> Body(id, name, register, description) \o end,
   entry |-> Entry(id, name, register, description)]
Bad(text) == [text |-> text \o <<"\n">>, entry |-> NoEntry]

MCLines ==
  {Good("7", <<"a">>, "0", <<"x">>, <<"\n">>),
   Good(" 7", <<"b">>, "+30", <<"=">>, <<"\r", "\n">>),
   Good("8x", <<"a", "=">>, "30", <<>>, <<"#", "\\", "\n">>),
   Bad(<<>>), Bad(<<"\r">>), Bad(<<"#">> \o Body("8", <<"a">>, "0", <<"x">>)),
   Bad(<<"x", "=", "a", "\\", "0", "\\", "x">>), Bad(<<"8", "=", "a", "\\", "x", "\\", "x">>),
   Bad(<<"8", "\\", "0", "\\", "x">>), Bad(<<"8", "=", "a", "\\", "0">>),
   Bad(<<"8", "=", "a", "\\", "0", "\\", "x", "\\">>)}

\* The last line of a file may lack its end.
Text(lines) ==
  LET sum[n \in 0 .. Len(lines)] == IF n = 0 THEN <<>> ELSE sum[n - 1] \o lines[n].text
  IN sum[Len(lines)]

MCFiles ==
  LET lists == UNION {[1 .. n -> MCLines] : n \in 0 .. MaxLines}
  IN   {[text |-> Text(l)] : l \in lists}
  \cup {[text |-> Front(Text(l))] : l \in {k \in lists : Len(k) = 1}}

-----------------------------------------------------------------------------
(* The layout that TagDefinitions goes by says of each line what is meant by  *)
(* it.                                                                        *)
ASSUME LinesAreAsMeant ==
  \A l \in MCLines :
    IF l.entry = NoEntry THEN ~IsTag(l.text)
                         ELSE IsTag(l.text) /\ TagAt(l.text) = l.entry
=============================================================================
