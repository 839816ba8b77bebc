------------------------ MODULE TagDefinitionsProofs ------------------------
(***************************************************************************)
(* Proofs about TagDefinitions, for every set of files and every text in    *)
(* them, every size of the line buffer and every width of a long.           *)
(***************************************************************************)
EXTENDS TagDefinitions, TextLemmas

USE FilesAssumption, LongAssumption, BufferAssumption

\* What a text is made of, that of no file too.
Symbols == STRING \cup {"no file"}

\* How the maps come from the tags that were read.
Tags == {tagmap[id] : id \in DOMAIN tagmap}

StatusOf(tags) ==
  {[enum_id |-> t.enum_id, tagname |-> t.tagname, description |-> t.description] :
     t \in {u \in tags : u.register_id = 0}}

DataOf(tags) ==
  {[register_id |-> t.register_id, tagname |-> t.tagname] :
     t \in {u \in tags : u.register_id # 0}}

\* Where a line of the text begins, or the text ends.
AtLine == \/ offset = 0
          \/ offset = Len(inp.text)
          \/ inp.text[offset] = "\n"

(* The reader is at the beginning of a line as long as lines fit into its   *)
(* buffer, what it read is in the map, and the global maps follow.          *)
Position ==
  /\ inp \in Files \cup {NoFile}
  /\ stage \in {"open", "read", "status", "data", "done"}
  /\ offset \in 0 .. Len(inp.text)
  /\ stage = "open" \/ inp = NoFile => offset = 0
  /\ stage \in {"status", "data", "done"} /\ inp # NoFile => offset = Len(inp.text)
  /\ stage = "read" => inp # NoFile
  /\ FitsBuffer(inp.text) => AtLine

Registered ==
  /\ status_map = IF stage \in {"data", "done"} THEN StatusOf(Tags) ELSE {}
  /\ data_map = IF stage = "done" THEN DataOf(Tags) ELSE {}

IInv == Position /\ ReadBack /\ Registered

-----------------------------------------------------------------------------
(* The first of some symbols, and the parts that it cuts a text into.       *)
LEMMA FirstIs ==
  ASSUME NEW s \in Seq(Symbols), NEW symbols
  PROVE  LET f == FirstOf(s, symbols)
         IN /\ f \in 0 .. Len(s)
            /\ f = 0 <=> \A i \in 1 .. Len(s) : s[i] \notin symbols
            /\ f # 0 => s[f] \in symbols /\ \A i \in 1 .. f - 1 : s[i] \notin symbols
<1> DEFINE P == Places(s, symbols)
<1>1. P \in SUBSET Nat /\ \A i : i \in P <=> i \in 1 .. Len(s) /\ s[i] \in symbols
  BY DEF Places
<1>2. CASE P = {}
  BY <1>1, <1>2 DEF FirstOf
<1>3. CASE P # {}
  <2>1. Min(P) \in P /\ \A i \in P : Min(P) <= i
    BY <1>1, <1>3, LeastIs
  <2>2. FirstOf(s, symbols) = Min(P)
    BY <1>3 DEF FirstOf
  <2>3. QED
    BY <1>1, <2>1, <2>2
<1>4. QED
  BY <1>2, <1>3

LEMMA LeastOfTwo ==
  ASSUME NEW a \in Nat, NEW b \in Nat
  PROVE  Min({a, b}) = IF a <= b THEN a ELSE b
<1>1. Min({a, b}) \in {a, b} /\ \A y \in {a, b} : Min({a, b}) <= y
  BY LeastIs
<1>2. QED
  BY <1>1

LEMMA FromIs ==
  ASSUME NEW s \in Seq(Symbols), NEW n \in 0 .. Len(s)
  PROVE  /\ From(s, n) \in Seq(Symbols)
         /\ Len(From(s, n)) = Len(s) - n
         /\ \A i \in 1 .. Len(s) - n : From(s, n)[i] = s[n + i]
<1>1. /\ From(s, n) \in Seq(Symbols)
      /\ Len(From(s, n)) = IF n + 1 <= Len(s) THEN Len(s) - (n + 1) + 1 ELSE 0
      /\ \A i \in 1 .. Len(From(s, n)) : From(s, n)[i] = s[n + 1 + i - 1]
  BY PartIs DEF From
<1>2. QED
  BY <1>1

\* A line of the reader is some of what is left, and not nothing.
LEMMA LineAdvances ==
  ASSUME NEW s \in Seq(Symbols), NEW n \in 0 .. Len(s), n < Len(s)
  PROVE  LET line == Line(From(s, n))
         IN line \in Seq(Symbols) /\ Len(line) \in 1 .. Len(s) - n
<1> DEFINE u == From(s, n)
           end == FirstOf(u, {"\n"})
           length == IF end = 0 THEN Len(u) ELSE end
<1>1. u \in Seq(Symbols) /\ Len(u) = Len(s) - n
  BY FromIs
<1>2. end \in 0 .. Len(u)
  BY <1>1, FirstIs
<1>3. length \in 1 .. Len(s) - n /\ BufferSize - 1 \in Nat \ {0}
  BY <1>1, <1>2
<1> DEFINE room == Min({length, BufferSize - 1})
<1>4. room \in 1 .. Len(s) - n
  <2> HIDE DEF length
  <2>1. Min({length, BufferSize - 1}) = IF length <= BufferSize - 1 THEN length ELSE BufferSize - 1
    BY <1>3, LeastOfTwo
  <2>2. QED
    BY <1>3, <2>1
<1>5. Line(u) = SubSeq(u, 1, room)
  BY DEF Line, Upto
<1> HIDE DEF u, room
<1>6. Line(u) \in Seq(Symbols) /\ Len(Line(u)) = room
  BY <1>1, <1>4, <1>5, PartIs
<1>7. QED
  BY <1>4, <1>6 DEF u

\* Where the text has a line that fits the buffer, it is that line.
LEMMA LineIsSpan ==
  ASSUME NEW s \in Seq(Symbols), FitsBuffer(s), NEW n \in 0 .. Len(s), n < Len(s),
         n = 0 \/ s[n] = "\n"
  PROVE  LET j == n + Len(Line(From(s, n)))
         IN <<n, j>> \in Lines(s) /\ Line(From(s, n)) = TextOf(s, <<n, j>>)
<1> DEFINE u == From(s, n)
           end == FirstOf(u, {"\n"})
           length == IF end = 0 THEN Len(u) ELSE end
           j == n + length
<1>1. u \in Seq(Symbols) /\ Len(u) = Len(s) - n /\ \A i \in 1 .. Len(s) - n : u[i] = s[n + i]
  BY FromIs
<1> HIDE DEF u
<1>2. /\ end \in 0 .. Len(u)
      /\ end = 0 <=> \A i \in 1 .. Len(u) : u[i] # "\n"
      /\ end # 0 => u[end] = "\n" /\ \A i \in 1 .. end - 1 : u[i] # "\n"
  BY <1>1, FirstIs
<1> HIDE DEF end
<1>3. /\ length \in 1 .. Len(s) - n
      /\ \A i \in 1 .. length - 1 : u[i] # "\n"
      /\ length = Len(u) \/ u[length] = "\n"
  <2>1. CASE end = 0
    BY <1>1, <1>2, <2>1
  <2>2. CASE end # 0
    BY <1>1, <1>2, <2>2
  <2>3. QED
    BY <2>1, <2>2
<1> HIDE DEF length
<1>4. \A i \in n + 1 .. j - 1 : s[i] # "\n"
  <2> SUFFICES ASSUME NEW i \in n + 1 .. j - 1 PROVE s[i] # "\n"
    OBVIOUS
  <2>1. i - n \in 1 .. length - 1 /\ u[i - n] = s[n + (i - n)]
    BY <1>1, <1>3
  <2>2. QED
    BY <1>3, <2>1
<1>5. j \in n + 1 .. Len(s) /\ (j = Len(s) \/ s[j] = "\n")
  BY <1>1, <1>3
<1>6. <<n, j>> \in Lines(s)
  <2> HIDE DEF j
  <2>1. <<n, j>> \in (0 .. Len(s)) \X (0 .. Len(s)) /\ n < j
    BY <1>5
  <2>2. QED
    BY <1>4, <1>5, <2>1 DEF Lines
<1>7. length < BufferSize
  BY <1>3, <1>6 DEF FitsBuffer
<1>8. Min({length, BufferSize - 1}) = length
  BY <1>3, <1>7, LeastOfTwo
<1>9. Line(u) = SubSeq(u, 1, length)
  BY <1>8 DEF Line, Upto, length, end
<1>10. Len(Line(u)) = length
  BY <1>1, <1>3, <1>9, PartIs
<1>11. SubSeq(u, 1, length) = SubSeq(s, n + 1, j)
  <2>1. SubSeq(SubSeq(s, n + 1, Len(s)), 1, length) = SubSeq(s, n + 1 + 1 - 1, n + 1 + length - 1)
    BY <1>3, PartOfPart
  <2>2. QED
    BY <1>3, <2>1 DEF u, From
<1>12. QED
  BY <1>6, <1>9, <1>10, <1>11 DEF u, TextOf

-----------------------------------------------------------------------------
(* What is stripped of a line, and the items of what is left.               *)
LEMMA StrippedIs ==
  ASSUME NEW u \in Seq(Symbols)
  PROVE  /\ Stripped(u) \in Seq(Symbols)
         /\ Len(Stripped(u)) \in 0 .. Len(u)
         /\ Stripped(u) = SubSeq(u, 1, Len(Stripped(u)))
         /\ \A i \in 1 .. Len(Stripped(u)) : Stripped(u)[i] = u[i] /\ u[i] \notin Removed
         /\ Len(Stripped(u)) = Len(u) \/ u[Len(Stripped(u)) + 1] \in Removed
<1> DEFINE f == FirstOf(u, Removed)
           e == IF f = 0 THEN Len(u) ELSE f - 1
<1>1. /\ f \in 0 .. Len(u)
      /\ f = 0 <=> \A i \in 1 .. Len(u) : u[i] \notin Removed
      /\ f # 0 => u[f] \in Removed /\ \A i \in 1 .. f - 1 : u[i] \notin Removed
  BY FirstIs
<1>2. Stripped(u) = SubSeq(u, 1, e)
  <2>1. u = SubSeq(u, 1, Len(u))
    BY PartIs, EqualTexts
  <2>2. QED
    BY <2>1, Zenon DEF Stripped, Upto
<1> HIDE DEF f
<1>3. /\ e \in 0 .. Len(u)
      /\ \A i \in 1 .. e : u[i] \notin Removed
      /\ e = Len(u) \/ u[e + 1] \in Removed
  BY <1>1
<1> HIDE DEF e
<1>4. /\ Stripped(u) \in Seq(Symbols) /\ Len(Stripped(u)) = e
      /\ \A i \in 1 .. e : Stripped(u)[i] = u[i]
  BY <1>2, <1>3, PartIs
<1>5. QED
  BY <1>2, <1>3, <1>4

\* An entry as it is in the line: the places of its "=" and of its two "\\".
EntryAt(u, sp, a, b, e) ==
  /\ e = Len(Stripped(u))
  /\ sp \in 1 .. e /\ a \in sp + 1 .. e /\ b \in a + 1 .. e
  /\ u[sp] = "=" /\ \A i \in 1 .. sp - 1 : u[i] # "="
  /\ \A i \in sp + 1 .. e : u[i] = "\\" <=> i \in {a, b}

LEMMA ThreeItems ==
  ASSUME NEW u \in Seq(Symbols)
  PROVE  HasThreeItems(Stripped(u)) <=> \E sp, a, b, e \in Nat : EntryAt(u, sp, a, b, e)
<1> DEFINE v == Stripped(u)
           e == Len(v)
           sp == SplitAt(v)
           desc == From(v, sp)
           P == Places(desc, {"\\"})
<1>1. /\ v \in Seq(Symbols) /\ e \in 0 .. Len(u)
      /\ \A i \in 1 .. e : v[i] = u[i]
  BY StrippedIs
<1> HIDE DEF v
<1>2. /\ sp \in 0 .. e
      /\ sp = 0 <=> \A i \in 1 .. e : v[i] # "="
      /\ sp # 0 => v[sp] = "=" /\ \A i \in 1 .. sp - 1 : v[i] # "="
  BY <1>1, FirstIs DEF SplitAt
<1> HIDE DEF sp
<1>3. /\ desc \in Seq(Symbols) /\ Len(desc) = e - sp
      /\ \A i \in 1 .. e - sp : desc[i] = v[sp + i]
  BY <1>1, <1>2, FromIs
<1> HIDE DEF desc, e
<1>4. P \in SUBSET (1 .. e - sp) /\ \A i \in 1 .. e - sp : i \in P <=> v[sp + i] = "\\"
  BY <1>3 DEF Places
<1> HIDE DEF P
<1>5. HasThreeItems(v) <=> sp # 0 /\ \E a, b \in P : a < b /\ P = {a, b}
  <2>1. e - sp \in Nat
    BY <1>1, <1>2
  <2>2. Cardinality(P) = 2 <=> \E a, b \in P : a < b /\ P = {a, b}
    BY <1>4, <2>1, TwoPositions
  <2>3. QED
    BY <2>2 DEF HasThreeItems, P, desc, sp
<1>6. ASSUME sp # 0, NEW a \in P, NEW b \in P, a < b, P = {a, b}
      PROVE  EntryAt(u, sp, sp + a, sp + b, e)
  <2>1. a \in 1 .. e - sp /\ b \in 1 .. e - sp
    BY <1>4
  <2>2. \A i \in sp + 1 .. e : u[i] = "\\" <=> i \in {sp + a, sp + b}
    <3> SUFFICES ASSUME NEW i \in sp + 1 .. e PROVE u[i] = "\\" <=> i \in {sp + a, sp + b}
      OBVIOUS
    <3>1. i - sp \in 1 .. e - sp /\ sp + (i - sp) = i /\ u[i] = v[i]
      BY <1>1, <1>2
    <3>2. u[i] = "\\" <=> i - sp \in {a, b}
      BY <1>4, <1>6, <3>1
    <3>3. QED
      BY <1>2, <2>1, <3>2
  <2>3. u[sp] = "=" /\ \A i \in 1 .. sp - 1 : u[i] # "="
    BY <1>1, <1>2, <1>6
  <2>4. QED
    BY <1>1, <1>2, <1>6, <2>1, <2>2, <2>3 DEF EntryAt, e, v
<1>7. ASSUME NEW k \in Nat, NEW a \in Nat, NEW b \in Nat, NEW n \in Nat, EntryAt(u, k, a, b, n)
      PROVE  sp # 0 /\ \E x, y \in P : x < y /\ P = {x, y}
  <2>1. /\ n = e /\ k \in 1 .. e /\ a \in k + 1 .. e /\ b \in a + 1 .. e
        /\ u[k] = "=" /\ \A i \in 1 .. k - 1 : u[i] # "="
        /\ \A i \in k + 1 .. e : u[i] = "\\" <=> i \in {a, b}
    BY <1>7 DEF EntryAt, e, v
  <2>2. sp = k
    BY <1>1, <1>2, <2>1
  <2>3. a - sp \in P /\ b - sp \in P
    BY <1>1, <1>4, <2>1, <2>2
  <2>4. \A i \in P : i \in {a - sp, b - sp}
    <3> SUFFICES ASSUME NEW i \in P PROVE i \in {a - sp, b - sp}
      OBVIOUS
    <3>1. i \in 1 .. e - sp /\ v[sp + i] = "\\"
      BY <1>4
    <3>2. sp + i \in k + 1 .. e /\ u[sp + i] = "\\"
      BY <1>1, <1>2, <2>2, <3>1
    <3>3. sp + i \in {a, b}
      BY <2>1, <3>2
    <3>4. QED
      BY <1>2, <2>1, <3>1, <3>3
  <2>5. P = {a - sp, b - sp} /\ a - sp < b - sp /\ sp # 0
    BY <2>1, <2>2, <2>3, <2>4
  <2>6. QED
    BY <2>3, <2>5
<1>8. e \in Nat /\ sp \in Nat /\ \A a \in P : sp + a \in Nat
  BY <1>1, <1>2, <1>4
<1>9. HasThreeItems(v) => \E k, a, b, n \in Nat : EntryAt(u, k, a, b, n)
  BY <1>5, <1>6, <1>8
<1>10. QED
  BY <1>5, <1>7, <1>9 DEF v

\* The items of the line, as parts of it.
LEMMA ItemsAre ==
  ASSUME NEW u \in Seq(Symbols), NEW sp \in Nat, NEW a \in Nat, NEW b \in Nat, NEW e \in Nat,
         EntryAt(u, sp, a, b, e)
  PROVE  Items(Stripped(u)) = [tag_id      |-> SubSeq(u, 1, sp - 1),
                               tagname     |-> SubSeq(u, sp + 1, a - 1),
                               register    |-> SubSeq(u, a + 1, b - 1),
                               description |-> SubSeq(u, b + 1, e)]
<1> DEFINE v == Stripped(u)
           desc == From(v, sp)
           P == Places(desc, {"\\"})
<1>1. /\ e \in 0 .. Len(u) /\ sp \in 1 .. e /\ a \in sp + 1 .. e /\ b \in a + 1 .. e
      /\ u[sp] = "=" /\ \A i \in 1 .. sp - 1 : u[i] # "="
      /\ \A i \in sp + 1 .. e : u[i] = "\\" <=> i \in {a, b}
      /\ v = SubSeq(u, 1, e) /\ v \in Seq(Symbols) /\ Len(v) = e
      /\ \A i \in 1 .. e : v[i] = u[i]
  BY StrippedIs DEF EntryAt
<1> HIDE DEF v
<1>2. SplitAt(v) = sp
  <2>1. v \in Seq(Symbols)
    BY <1>1
  <2>2. /\ SplitAt(v) \in 0 .. Len(v)
        /\ SplitAt(v) = 0 <=> \A i \in 1 .. Len(v) : v[i] # "="
        /\ SplitAt(v) # 0 => v[SplitAt(v)] = "=" /\ \A i \in 1 .. SplitAt(v) - 1 : v[i] # "="
    BY <2>1, FirstIs DEF SplitAt
  <2>3. QED
    BY <1>1, <2>2
<1>3. /\ desc \in Seq(Symbols) /\ Len(desc) = e - sp
      /\ \A i \in 1 .. e - sp : desc[i] = v[sp + i]
  <2>1. v \in Seq(Symbols) /\ sp \in 0 .. Len(v)
    BY <1>1
  <2>2. /\ desc \in Seq(Symbols) /\ Len(desc) = Len(v) - sp
        /\ \A i \in 1 .. Len(v) - sp : desc[i] = v[sp + i]
    BY <2>1, FromIs
  <2>3. QED
    BY <1>1, <2>2
<1>4. desc = SubSeq(u, sp + 1, e)
  <2>1. SubSeq(SubSeq(u, 1, e), sp + 1, e) = SubSeq(u, 1 + (sp + 1) - 1, 1 + e - 1)
    BY <1>1, PartOfPart
  <2>2. QED
    BY <1>1, <2>1 DEF From
<1> HIDE DEF desc
<1>5. P = {a - sp, b - sp} /\ P \in SUBSET (0 .. e - sp)
  <2>1. \A i \in 1 .. e - sp : i \in P <=> u[sp + i] = "\\"
    BY <1>1, <1>3 DEF Places
  <2>2. P \in SUBSET (1 .. e - sp)
    BY <1>3 DEF Places
  <2>3. a - sp \in P /\ b - sp \in P
    BY <1>1, <2>1
  <2>4. ASSUME NEW i \in P PROVE i \in {a - sp, b - sp}
    <3>1. i \in 1 .. e - sp /\ u[sp + i] = "\\" /\ sp + i \in sp + 1 .. e
      BY <1>1, <2>1, <2>2
    <3>2. QED
      BY <1>1, <3>1
  <2>5. QED
    BY <1>1, <2>2, <2>3, <2>4
<1> HIDE DEF P
<1>6. Min(P) = a - sp /\ Max(P) = b - sp
  <2>1. e - sp \in Nat /\ P # {} /\ P \in SUBSET Nat
    BY <1>1, <1>5
  <2>2. Min(P) \in P /\ \A y \in P : Min(P) <= y
    BY <2>1, LeastIs
  <2>3. Max(P) \in P /\ \A y \in P : y <= Max(P)
    BY <1>5, <2>1, GreatestIs
  <2>4. QED
    BY <1>1, <1>5, <2>2, <2>3
<1>7. SubSeq(v, 1, sp - 1) = SubSeq(u, 1, sp - 1)
  <2>1. SubSeq(SubSeq(u, 1, e), 1, sp - 1) = SubSeq(u, 1 + 1 - 1, 1 + (sp - 1) - 1)
    BY <1>1, PartOfPart
  <2>2. QED
    BY <1>1, <2>1
<1>8. SubSeq(desc, 1, (a - sp) - 1) = SubSeq(u, sp + 1, a - 1)
  <2>1. SubSeq(SubSeq(u, sp + 1, e), 1, a - sp - 1) = SubSeq(u, sp + 1 + 1 - 1, sp + 1 + (a - sp - 1) - 1)
    BY <1>1, PartOfPart
  <2>2. QED
    BY <1>1, <1>4, <2>1
<1>9. SubSeq(desc, (a - sp) + 1, (b - sp) - 1) = SubSeq(u, a + 1, b - 1)
  <2>1. SubSeq(SubSeq(u, sp + 1, e), a - sp + 1, b - sp - 1)
          = SubSeq(u, sp + 1 + (a - sp + 1) - 1, sp + 1 + (b - sp - 1) - 1)
    BY <1>1, PartOfPart
  <2>2. QED
    BY <1>1, <1>4, <2>1
<1>10. SubSeq(desc, (b - sp) + 1, Len(desc)) = SubSeq(u, b + 1, e)
  <2>1. SubSeq(SubSeq(u, sp + 1, e), b - sp + 1, e - sp)
          = SubSeq(u, sp + 1 + (b - sp + 1) - 1, sp + 1 + (e - sp) - 1)
    BY <1>1, PartOfPart
  <2>2. QED
    BY <1>1, <1>3, <1>4, <2>1
<1>11. Items(v) = [tag_id |-> SubSeq(v, 1, sp - 1), tagname |-> SubSeq(desc, 1, (a - sp) - 1),
                   register |-> SubSeq(desc, (a - sp) + 1, (b - sp) - 1),
                   description |-> SubSeq(desc, (b - sp) + 1, Len(desc))]
  BY <1>2, <1>6 DEF Items, Upto, From, P, desc
<1>12. QED
  BY <1>7, <1>8, <1>9, <1>10, <1>11 DEF v

-----------------------------------------------------------------------------
(* The layout of a line that is an entry.                                   *)
LEMMA LayoutIs ==
  ASSUME NEW u \in Seq(Symbols), NEW sp \in Nat, NEW a \in Nat, NEW b \in Nat, NEW e \in Nat
  PROVE  [split |-> sp, first |-> a, second |-> b, end |-> e] \in Layouts(u)
           <=> /\ EntryAt(u, sp, a, b, e)
               /\ u[1] \in DOMAIN ValueOf /\ u[a + 1] \in DOMAIN ValueOf
<1> DEFINE v == Stripped(u)
           n == Len(v)
           p == [split |-> sp, first |-> a, second |-> b, end |-> e]
<1>1. /\ n \in 0 .. Len(u)
      /\ \A i \in 1 .. n : u[i] \notin Removed
      /\ n = Len(u) \/ u[n + 1] \in Removed
  BY StrippedIs
<1>2. ASSUME EntryAt(u, sp, a, b, e), u[1] \in DOMAIN ValueOf, u[a + 1] \in DOMAIN ValueOf
      PROVE  p \in Layouts(u)
  <2>1. /\ e = n /\ sp \in 1 .. e /\ a \in sp + 1 .. e /\ b \in a + 1 .. e
        /\ u[sp] = "=" /\ \A i \in 1 .. sp - 1 : u[i] # "="
        /\ \A i \in sp + 1 .. e : u[i] = "\\" <=> i \in {a, b}
    BY <1>2 DEF EntryAt
  <2>2. u[a] = "\\" /\ u[b] = "\\"
    BY <2>1
  <2>3. sp \in Places(u, {"="}) /\ a \in Places(u, {"\\"}) /\ b \in Places(u, {"\\"})
    BY <1>1, <2>1, <2>2 DEF Places
  <2>4. e \in 0 .. Len(u) /\ \A i \in 1 .. e : u[i] \notin {"#", "\r", "\n"}
    BY <1>1, <2>1 DEF Removed
  <2>5. e = Len(u) \/ u[e + 1] \in {"#", "\r", "\n"}
    BY <1>1, <2>1 DEF Removed
  <2>6. /\ p \in [split : Places(u, {"="}), first : Places(u, {"\\"}),
                  second : Places(u, {"\\"}), end : 0 .. Len(u)]
        /\ p.split = sp /\ p.first = a /\ p.second = b /\ p.end = e
    BY <2>3, <2>4
  <2>7. /\ sp < a /\ a < b /\ b <= e
        /\ \A i \in sp + 1 .. e : u[i] = "\\" => i \in {a, b}
    BY <2>1
  <2> HIDE DEF p
  <2>8. QED
    BY <1>2, <2>1, <2>4, <2>5, <2>6, <2>7, Zenon DEF Layouts
<1>3. ASSUME p \in Layouts(u)
      PROVE  EntryAt(u, sp, a, b, e) /\ u[1] \in DOMAIN ValueOf /\ u[a + 1] \in DOMAIN ValueOf
  <2>1. /\ sp \in Places(u, {"="}) /\ a \in Places(u, {"\\"}) /\ b \in Places(u, {"\\"})
        /\ e \in 0 .. Len(u)
        /\ \A i \in 1 .. e : u[i] \notin {"#", "\r", "\n"}
        /\ e = Len(u) \/ u[e + 1] \in {"#", "\r", "\n"}
        /\ sp < a /\ a < b /\ b <= e
        /\ \A i \in 1 .. sp - 1 : u[i] # "="
        /\ \A i \in sp + 1 .. e : u[i] = "\\" => i \in {a, b}
        /\ u[1] \in DOMAIN ValueOf /\ u[a + 1] \in DOMAIN ValueOf
    BY <1>3 DEF Layouts
  <2>2. /\ sp \in 1 .. e /\ a \in sp + 1 .. e /\ b \in a + 1 .. e
        /\ u[sp] = "=" /\ u[a] = "\\" /\ u[b] = "\\"
    BY <2>1 DEF Places
  <2>3. e = n
    <3> HIDE DEF n
    <3>1. ~(e < n)
      BY <1>1, <2>1 DEF Removed
    <3>2. ~(n < e)
      BY <1>1, <2>1 DEF Removed
    <3>3. QED
      BY <1>1, <2>1, <3>1, <3>2
  <2>4. EntryAt(u, sp, a, b, e)
    BY <2>1, <2>2, <2>3 DEF EntryAt
  <2>5. QED
    BY <2>1, <2>4
<1>4. QED
  BY <1>2, <1>3

LEMMA OneLayout ==
  ASSUME NEW u \in Seq(Symbols), NEW p \in Layouts(u), NEW q \in Layouts(u)
  PROVE  p = q
<1>1. ASSUME NEW r \in Layouts(u)
      PROVE  /\ r = [split |-> r.split, first |-> r.first, second |-> r.second, end |-> r.end]
             /\ r.split \in Nat /\ r.first \in Nat /\ r.second \in Nat /\ r.end \in Nat
             /\ EntryAt(u, r.split, r.first, r.second, r.end)
  <2> DEFINE Positions == [split : Places(u, {"="}), first : Places(u, {"\\"}),
                           second : Places(u, {"\\"}), end : 0 .. Len(u)]
  <2>1. r \in Positions
    BY Zenon DEF Layouts
  <2>2. /\ r = [split |-> r.split, first |-> r.first, second |-> r.second, end |-> r.end]
        /\ r.split \in Nat /\ r.first \in Nat /\ r.second \in Nat /\ r.end \in Nat
    BY <2>1 DEF Places
  <2>3. \A k, a, b, e \in Nat :
          [split |-> k, first |-> a, second |-> b, end |-> e] \in Layouts(u)
            => EntryAt(u, k, a, b, e)
    BY LayoutIs
  <2>4. [split |-> r.split, first |-> r.first, second |-> r.second, end |-> r.end] \in Layouts(u)
    BY <2>2
  <2>5. EntryAt(u, r.split, r.first, r.second, r.end)
    BY <2>2, <2>3, <2>4
  <2>6. QED
    BY <2>2, <2>5
<1>2. ASSUME NEW k \in Nat, NEW a \in Nat, NEW b \in Nat, NEW e \in Nat, EntryAt(u, k, a, b, e),
             NEW l \in Nat, NEW c \in Nat, NEW d \in Nat, NEW f \in Nat, EntryAt(u, l, c, d, f)
      PROVE  k = l /\ a = c /\ b = d /\ e = f
  <2>1. /\ e = f /\ k \in 1 .. e /\ a \in k + 1 .. e /\ b \in a + 1 .. e
        /\ u[k] = "=" /\ \A i \in 1 .. k - 1 : u[i] # "="
        /\ \A i \in k + 1 .. e : u[i] = "\\" <=> i \in {a, b}
    BY <1>2 DEF EntryAt
  <2>2. /\ l \in 1 .. e /\ c \in l + 1 .. e /\ d \in c + 1 .. e
        /\ u[l] = "=" /\ \A i \in 1 .. l - 1 : u[i] # "="
        /\ \A i \in l + 1 .. e : u[i] = "\\" <=> i \in {c, d}
    BY <1>2, <2>1 DEF EntryAt
  <2>3. k = l
    BY <2>1, <2>2
  <2>4. c \in {a, b} /\ d \in {a, b}
    BY <2>1, <2>2, <2>3
  <2>5. QED
    BY <2>1, <2>2, <2>3, <2>4
<1>3. p.split = q.split /\ p.first = q.first /\ p.second = q.second /\ p.end = q.end
  <2> DEFINE k == p.split  a == p.first  b == p.second  e == p.end
             l == q.split  c == q.first  d == q.second  f == q.end
  <2>1. k \in Nat /\ a \in Nat /\ b \in Nat /\ e \in Nat /\ EntryAt(u, k, a, b, e)
    BY <1>1
  <2>2. l \in Nat /\ c \in Nat /\ d \in Nat /\ f \in Nat /\ EntryAt(u, l, c, d, f)
    BY <1>1
  <2> HIDE DEF k, a, b, e, l, c, d, f
  <2>3. k = l /\ a = c /\ b = d /\ e = f
    BY <1>2, <2>1, <2>2
  <2>4. QED
    BY <2>3 DEF k, a, b, e, l, c, d, f
<1>4. QED
  BY <1>1, <1>3

\* A part of a line is a number if its first symbol is a numeral: a "=" and
\* a "\\", which end the parts, are none.
LEMMA NumberIs ==
  ASSUME NEW u \in Seq(Symbols), NEW m \in Nat, m >= 1, NEW n \in m .. Len(u),
         u[n] \notin DOMAIN ValueOf
  PROVE  /\ IsNumber(SubSeq(u, m, n - 1)) <=> u[m] \in DOMAIN ValueOf
         /\ u[m] \in DOMAIN ValueOf => SubSeq(u, m, n - 1)[1] = u[m]
<1> DEFINE w == SubSeq(u, m, n - 1)
<1>1. /\ w \in Seq(Symbols) /\ Len(w) = IF m <= n - 1 THEN n - m ELSE 0
      /\ \A i \in 1 .. Len(w) : w[i] = u[m + i - 1]
  <2>1. n - 1 \in 0 .. Len(u)
    OBVIOUS
  <2>2. /\ w \in Seq(Symbols)
        /\ Len(w) = IF m <= n - 1 THEN n - 1 - m + 1 ELSE 0
        /\ \A i \in 1 .. Len(w) : w[i] = u[m + i - 1]
    BY <2>1, PartIs
  <2>3. QED
    BY <2>2
<1> HIDE DEF w
<1>2. CASE m = n
  <2>1. w = <<>>
    BY <1>1, <1>2
  <2>2. QED
    BY <1>2, <2>1 DEF IsNumber, w
<1>3. CASE m < n
  <2>1. w # <<>> /\ w[1] = u[m]
    BY <1>1, <1>3
  <2>2. QED
    BY <2>1 DEF IsNumber, w
<1>4. QED
  BY <1>2, <1>3

\* The line is taken for an entry as its layout says, and its record is that tag.
LEMMA TagIsRead ==
  ASSUME NEW u \in Seq(Symbols)
  PROVE  /\ IsEntry(Stripped(u)) <=> IsTag(u)
         /\ IsTag(u) => RecordOf(Stripped(u)) = Held(TagAt(u))
<1> DEFINE v == Stripped(u)
           Numbers(a) == u[1] \in DOMAIN ValueOf /\ u[a + 1] \in DOMAIN ValueOf
<1>1. ASSUME NEW sp \in Nat, NEW a \in Nat, NEW b \in Nat, NEW e \in Nat, EntryAt(u, sp, a, b, e)
      PROVE  /\ IsNumber(Items(v).tag_id) /\ IsNumber(Items(v).register) <=> Numbers(a)
             /\ Numbers(a) => RecordOf(v) = Held([enum_id     |-> ValueOf[u[1]],
                                                  register_id |-> ValueOf[u[a + 1]],
                                                  tagname     |-> SubSeq(u, sp + 1, a - 1),
                                                  description |-> SubSeq(u, b + 1, e)])
  <2>1. /\ e \in 0 .. Len(u) /\ sp \in 1 .. e /\ a \in sp + 1 .. e /\ b \in a + 1 .. e
        /\ u[sp] = "=" /\ u[b] = "\\"
    BY <1>1, StrippedIs DEF EntryAt
  <2>2. u[sp] \notin DOMAIN ValueOf /\ u[b] \notin DOMAIN ValueOf
    BY <2>1, NumeralAssumption
  <2> DEFINE tag_id == SubSeq(u, 1, sp - 1)
             register == SubSeq(u, a + 1, b - 1)
             tagname == SubSeq(u, sp + 1, a - 1)
             description == SubSeq(u, b + 1, e)
  <2>3. /\ IsNumber(tag_id) <=> u[1] \in DOMAIN ValueOf
        /\ u[1] \in DOMAIN ValueOf => tag_id[1] = u[1]
    <3>1. sp \in 1 .. Len(u)
      BY <2>1
    <3>2. QED
      BY <2>2, <3>1, NumberIs
  <2>4. /\ IsNumber(register) <=> u[a + 1] \in DOMAIN ValueOf
        /\ u[a + 1] \in DOMAIN ValueOf => register[1] = u[a + 1]
    <3>1. a + 1 \in Nat /\ a + 1 >= 1 /\ b \in a + 1 .. Len(u)
      BY <2>1
    <3>2. QED
      BY <2>2, <3>1, NumberIs
  <2>5. Items(v) = [tag_id |-> tag_id, tagname |-> tagname, register |-> register,
                    description |-> description]
    BY <1>1, ItemsAre
  <2> HIDE DEF tag_id, register, tagname, description, v
  <2>6. IsNumber(Items(v).tag_id) /\ IsNumber(Items(v).register) <=> Numbers(a)
    BY <2>3, <2>4, <2>5
  <2>7. ASSUME Numbers(a)
        PROVE  RecordOf(v) = Held([enum_id |-> ValueOf[u[1]], register_id |-> ValueOf[u[a + 1]],
                                   tagname |-> tagname, description |-> description])
    <3> DEFINE id == ValueOf[u[1]]
               reg == ValueOf[u[a + 1]]
               record == [ScanEnumId(TagRecord, tag_id) EXCEPT
                            !.tagname = tagname, !.description = description]
    <3>1. IsNumber(tag_id) /\ tag_id[1] = u[1] /\ IsNumber(register) /\ register[1] = u[a + 1]
      BY <2>3, <2>4, <2>7
    <3>2. RecordOf(v) = ScanRegisterId(record, register)
      BY <2>5 DEF RecordOf
    <3>3. record = [enum_id |-> id, register_id |-> 0, tagname |-> tagname,
                    description |-> description]
      <4>1. ScanEnumId(TagRecord, tag_id)
              = [enum_id |-> id, register_id |-> 0, tagname |-> <<>>, description |-> <<>>]
        BY <3>1 DEF ScanEnumId, TagRecord
      <4> DEFINE scanned == [enum_id |-> id, register_id |-> 0, tagname |-> <<>>, description |-> <<>>]
      <4>2. record = [scanned EXCEPT !.tagname = tagname, !.description = description]
        BY <4>1, Zenon
      <4> HIDE DEF record, id
      <4>3. QED
        BY <4>2
    <3> HIDE DEF record, id, reg
    <3>4. ScanRegisterId(record, register)
            = [enum_id |-> id, register_id |-> reg, description |-> description,
               tagname |-> IF LongWords = 2 THEN Dangling ELSE tagname]
      BY <3>1, <3>3 DEF ScanRegisterId, reg
    <3>5. QED
      BY <3>2, <3>4 DEF Held, id, reg
  <2>8. QED
    BY <2>6, <2>7 DEF v, tagname, description
<1>2. ASSUME IsEntry(v) PROVE IsTag(u)
  <2>1. PICK sp, a, b, e \in Nat : EntryAt(u, sp, a, b, e)
    BY <1>2, ThreeItems DEF IsEntry
  <2>2. Numbers(a)
    BY <1>1, <1>2, <2>1 DEF IsEntry
  <2>3. [split |-> sp, first |-> a, second |-> b, end |-> e] \in Layouts(u)
    BY <2>1, <2>2, LayoutIs
  <2>4. QED
    BY <2>3 DEF IsTag
<1>3. ASSUME IsTag(u) PROVE IsEntry(v) /\ RecordOf(v) = Held(TagAt(u))
  <2> DEFINE p == CHOOSE q \in Layouts(u) : TRUE
             sp == p.split  a == p.first  b == p.second  e == p.end
  <2>1. p \in Layouts(u)
    BY <1>3 DEF IsTag
  <2>2. p \in [split : Places(u, {"="}), first : Places(u, {"\\"}),
               second : Places(u, {"\\"}), end : 0 .. Len(u)]
    BY <2>1, Zenon DEF Layouts
  <2> HIDE DEF p
  <2>3. /\ p = [split |-> sp, first |-> a, second |-> b, end |-> e]
        /\ sp \in Nat /\ a \in Nat /\ b \in Nat /\ e \in Nat
    BY <2>2 DEF Places
  <2> HIDE DEF sp, a, b, e
  <2>4. EntryAt(u, sp, a, b, e) /\ Numbers(a)
    BY <2>1, <2>3, LayoutIs
  <2>5. TagAt(u) = [enum_id     |-> ValueOf[u[1]],
                    register_id |-> ValueOf[u[a + 1]],
                    tagname     |-> SubSeq(u, sp + 1, a - 1),
                    description |-> SubSeq(u, b + 1, e)]
    BY DEF TagAt, p, sp, a, b, e
  <2>6. HasThreeItems(v)
    BY <2>3, <2>4, ThreeItems
  <2>7. IsNumber(Items(v).tag_id) /\ IsNumber(Items(v).register) /\ RecordOf(v) = Held(TagAt(u))
    <3> HIDE DEF Numbers, v
    <3>1. IsNumber(Items(v).tag_id) /\ IsNumber(Items(v).register)
      BY <1>1, <2>3, <2>4
    <3>2. RecordOf(v) = Held([enum_id     |-> ValueOf[u[1]],
                              register_id |-> ValueOf[u[a + 1]],
                              tagname     |-> SubSeq(u, sp + 1, a - 1),
                              description |-> SubSeq(u, b + 1, e)])
      BY <1>1, <2>3, <2>4
    <3>3. QED
      BY <2>5, <3>1, <3>2
  <2>8. QED
    BY <2>6, <2>7 DEF IsEntry
<1>4. QED
  BY <1>2, <1>3

-----------------------------------------------------------------------------
(* The lines up to a position, and the tags on them.                        *)
LEMMA NextLine ==
  ASSUME NEW s \in Seq(Symbols), NEW n \in Nat, NEW j \in Nat, <<n, j>> \in Lines(s),
         NEW m \in Lines(s), m[2] <= j
  PROVE  m[2] <= n \/ m = <<n, j>>
<1> DEFINE b == m[1]
           e == m[2]
<1>1. /\ m = <<b, e>> /\ b \in 0 .. Len(s) /\ e \in 0 .. Len(s) /\ b < e
      /\ b = 0 \/ s[b] = "\n"
      /\ e = Len(s) \/ s[e] = "\n"
      /\ \A i \in b + 1 .. e - 1 : s[i] # "\n"
  BY DEF Lines
<1>2. /\ n \in 0 .. Len(s) /\ j \in 0 .. Len(s) /\ n < j
      /\ n = 0 \/ s[n] = "\n"
      /\ \A i \in n + 1 .. j - 1 : s[i] # "\n"
  BY DEF Lines
<1>3. e <= j
  OBVIOUS
<1> HIDE DEF b, e
<1>4. ASSUME n < e PROVE b = n /\ e = j
  <2>1. e = j
    BY <1>1, <1>2, <1>3, <1>4
  <2>2. ~(n < b)
    BY <1>1, <1>2, <2>1
  <2>3. ~(b < n)
    BY <1>1, <1>2, <2>1
  <2>4. QED
    BY <1>1, <1>2, <2>1, <2>2, <2>3
<1>5. e <= n \/ (b = n /\ e = j)
  BY <1>1, <1>2, <1>4
<1>6. QED
  BY <1>1, <1>5 DEF e

LEMMA TagLinesGrow ==
  ASSUME NEW s \in Seq(Symbols), NEW n \in Nat, NEW j \in Nat, <<n, j>> \in Lines(s)
  PROVE  /\ TagLines(s, j) = TagLines(s, n) \cup {l \in {<<n, j>>} : IsTag(TextOf(s, l))}
         /\ \A l \in TagLines(s, n) : l[2] \in Nat /\ l[2] <= n
         /\ n < j
<1>1. n < j /\ \A l \in Lines(s) : l[2] \in Nat
  BY DEF Lines
<1>2. \A m \in Lines(s) : m[2] <= j <=> m[2] <= n \/ m = <<n, j>>
  BY <1>1, NextLine
<1>3. QED
  BY <1>1, <1>2 DEF TagLines

LEMMA NothingRead ==
  ASSUME NEW s \in Seq(Symbols)
  PROVE  Current(s, 0) = {}
<1>1. \A l \in Lines(s) : ~(l[2] <= 0)
  BY DEF Lines
<1>2. QED
  BY <1>1 DEF Current, LastLines, TagLines

\* A line without a tag changes nothing, a tag takes the place of that with its id.
LEMMA CurrentSteps ==
  ASSUME NEW s \in Seq(Symbols), NEW n \in Nat, NEW j \in Nat, <<n, j>> \in Lines(s)
  PROVE  LET u == TextOf(s, <<n, j>>)
         IN Current(s, j) =
              IF IsTag(u)
              THEN {t \in Current(s, n) : t.enum_id # Held(TagAt(u)).enum_id} \cup {Held(TagAt(u))}
              ELSE Current(s, n)
<1> DEFINE l == <<n, j>>
           u == TextOf(s, l)
<1>1. /\ TagLines(s, j) = TagLines(s, n) \cup {k \in {l} : IsTag(TextOf(s, k))}
      /\ \A k \in TagLines(s, n) : k[2] \in Nat /\ k[2] <= n
      /\ n < j
  BY TagLinesGrow
<1>2. l[2] = j
  OBVIOUS
<1> HIDE DEF l
<1>3. \A k : Held(TagAt(TextOf(s, k))).enum_id = IdOn(s, k)
  BY LongAssumption DEF Held, TagAt, IdOn
<1>4. CASE ~IsTag(u)
  <2>1. TagLines(s, j) = TagLines(s, n)
    BY <1>1, <1>4
  <2>2. QED
    BY <1>4, <2>1 DEF Current, LastLines, l
<1>5. CASE IsTag(u)
  <2>1. TagLines(s, j) = TagLines(s, n) \cup {l}
    BY <1>1, <1>5
  <2>2. LastLines(s, j) = {k \in LastLines(s, n) : IdOn(s, k) # IdOn(s, l)} \cup {l}
    <3>1. \A k \in TagLines(s, n) : l[2] > k[2] /\ ~(k[2] > l[2])
      BY <1>1, <1>2
    <3>2. ~(l[2] > l[2])
      BY <1>2
    <3>3. QED
      BY <2>1, <3>1, <3>2 DEF LastLines
  <2>3. Current(s, j) = {Held(TagAt(TextOf(s, k))) :
                           k \in {m \in LastLines(s, n) : IdOn(s, m) # IdOn(s, l)}}
                        \cup {Held(TagAt(u))}
    BY <2>2 DEF Current
  <2>4. {Held(TagAt(TextOf(s, k))) : k \in {m \in LastLines(s, n) : IdOn(s, m) # IdOn(s, l)}}
          = {t \in Current(s, n) : t.enum_id # Held(TagAt(u)).enum_id}
    BY <1>3 DEF Current
  <2>5. QED
    BY <1>5, <2>3, <2>4 DEF l
<1>6. QED
  BY <1>4, <1>5

-----------------------------------------------------------------------------
(* The steps.                                                               *)
LEMMA TextIs ==
  ASSUME inp \in Files \cup {NoFile}
  PROVE  inp.text \in Seq(Symbols)
<1>1. CASE inp = NoFile
  <2>1. "no file" \in Symbols
    BY DEF Symbols
  <2>2. <<"no file">> \in Seq(Symbols)
    BY <2>1, OneSymbol, Zenon
  <2>3. QED
    BY <1>1, <2>2 DEF NoFile
<1>2. CASE inp \in Files
  <2>1. inp.text \in Seq(STRING)
    BY <1>2
  <2>2. STRING \subseteq Symbols
    BY DEF Symbols
  <2>3. QED
    BY <2>1, <2>2, MoreSymbols, Zenon
<1>3. QED
  BY <1>1, <1>2

LEMMA InitInv == Init => IInv
<1> SUFFICES ASSUME Init PROVE IInv
  OBVIOUS
<1>1. inp.text \in Seq(Symbols)
  BY TextIs DEF Init
<1>2. Position
  BY <1>1 DEF Init, Position, AtLine
<1>3. Tags = {} /\ DOMAIN tagmap = {}
  BY DEF Init, Tags
<1>4. ReadBack
  BY <1>1, <1>3, NothingRead DEF Init, ReadBack, Tags
<1>5. Registered
  BY DEF Init, Registered
<1>6. QED
  BY <1>2, <1>4, <1>5 DEF IInv

\* The map after another entry: that of its id is replaced.
LEMMA AddIs ==
  ASSUME NEW map, NEW record, \A id \in DOMAIN map : map[id].enum_id = id
  PROVE  LET m == Add(map, record)
         IN /\ {m[id] : id \in DOMAIN m}
                 = {t \in {map[id] : id \in DOMAIN map} : t.enum_id # record.enum_id}
                   \cup {record}
            /\ \A id \in DOMAIN m : m[id].enum_id = id
  BY DEF Add

LEMMA ReadLineInv == IInv /\ ReadLine => IInv'
<1> SUFFICES ASSUME IInv, ReadLine PROVE IInv'
  OBVIOUS
<1> DEFINE s == inp.text
           read == Line(From(s, offset))
           line == Stripped(read)
           j == offset + Len(read)
<1>1. /\ stage = "read" /\ offset < Len(s) /\ offset' = j
      /\ tagmap' = IF IsEntry(line) THEN Add(tagmap, RecordOf(line)) ELSE tagmap
      /\ UNCHANGED <<stage, inp, status_map, data_map>>
  BY DEF ReadLine
<1>2. s \in Seq(Symbols) /\ offset \in 0 .. Len(s)
  BY TextIs DEF IInv, Position
<1>3. read \in Seq(Symbols) /\ Len(read) \in 1 .. Len(s) - offset
  BY <1>1, <1>2, LineAdvances
<1>4. j \in 1 .. Len(s)
  BY <1>2, <1>3
<1>5. ASSUME FitsBuffer(s)
      PROVE  <<offset, j>> \in Lines(s) /\ read = TextOf(s, <<offset, j>>)
  <2>1. offset = 0 \/ s[offset] = "\n"
    BY <1>1, <1>5 DEF IInv, Position, AtLine
  <2>2. QED
    BY <1>1, <1>2, <1>5, <2>1, LineIsSpan
<1> HIDE DEF read, line, j
<1>6. Position'
  <2>1. FitsBuffer(s) => j = Len(s) \/ s[j] = "\n"
    <3>1. \A l \in Lines(s) : l[2] = Len(s) \/ s[l[2]] = "\n"
      BY DEF Lines
    <3>2. QED
      BY <1>5, <3>1
  <2>2. AtLine' <=> j = 0 \/ j = Len(s) \/ s[j] = "\n"
    BY <1>1 DEF AtLine
  <2>3. QED
    BY <1>1, <1>4, <2>1, <2>2 DEF IInv, Position
<1>7. ReadBack'
  <2> SUFFICES ASSUME FitsBuffer(s)
               PROVE  /\ Tags' = Current(s, j)
                      /\ (\A id \in DOMAIN tagmap : tagmap[id].enum_id = id)'
    BY <1>1 DEF ReadBack, Tags
  <2>1. Tags = Current(s, offset) /\ \A id \in DOMAIN tagmap : tagmap[id].enum_id = id
    BY DEF IInv, ReadBack, Tags
  <2>2. /\ IsEntry(line) <=> IsTag(read)
        /\ IsTag(read) => RecordOf(line) = Held(TagAt(read))
    BY <1>3, TagIsRead DEF line
  <2>3. Current(s, j) =
          IF IsTag(read)
          THEN {t \in Current(s, offset) : t.enum_id # Held(TagAt(read)).enum_id}
               \cup {Held(TagAt(read))}
          ELSE Current(s, offset)
    <3>1. <<offset, j>> \in Lines(s) /\ read = TextOf(s, <<offset, j>>)
      BY <1>5
    <3>2. offset \in Nat /\ j \in Nat
      BY <1>2, <1>4
    <3> HIDE DEF s
    <3>3. QED
      BY <1>2, <3>1, <3>2, CurrentSteps
  <2>4. CASE IsTag(read)
    <3>1. tagmap' = Add(tagmap, RecordOf(line))
      BY <1>1, <2>2, <2>4
    <3>2. /\ Tags' = {t \in Tags : t.enum_id # RecordOf(line).enum_id} \cup {RecordOf(line)}
          /\ \A id \in DOMAIN tagmap' : tagmap'[id].enum_id = id
      BY <2>1, <3>1, AddIs DEF Tags
    <3>3. QED
      BY <2>1, <2>2, <2>3, <2>4, <3>2
  <2>5. CASE ~IsTag(read)
    BY <1>1, <2>1, <2>2, <2>3, <2>5 DEF Tags
  <2>6. QED
    BY <2>4, <2>5
<1>8. Registered'
  BY <1>1 DEF IInv, Registered
<1>9. QED
  BY <1>6, <1>7, <1>8 DEF IInv

LEMMA StepInv == IInv /\ [Next]_vars => IInv'
<1> SUFFICES ASSUME IInv, [Next]_vars PROVE IInv'
  OBVIOUS
<1> USE DEF IInv
<1>1. CASE Open
  <2>1. /\ stage = "open" /\ stage' = IF inp = NoFile THEN "done" ELSE "read"
        /\ UNCHANGED <<inp, offset, tagmap, status_map, data_map>>
        /\ offset = 0
    BY <1>1 DEF Open, Position
  <2>2. Position'
    BY <2>1 DEF Position, AtLine
  <2>3. ReadBack'
    BY <2>1 DEF ReadBack
  <2>4. inp = NoFile => Tags = {}
    <3> SUFFICES ASSUME inp = NoFile PROVE Tags = {}
      OBVIOUS
    <3>1. inp.text \in Seq(Symbols) /\ Len(inp.text) = 1
      BY TextIs DEF NoFile
    <3>2. Current(inp.text, 0) = {}
      BY <3>1, NothingRead
    <3>3. FitsBuffer(inp.text)
      BY <3>1 DEF FitsBuffer, Lines
    <3>4. QED
      BY <2>1, <3>2, <3>3 DEF ReadBack, Tags
  <2>5. Registered'
    BY <2>1, <2>4 DEF Registered, StatusOf, DataOf, Tags
  <2>6. QED
    BY <2>2, <2>3, <2>5
<1>2. CASE ReadLine
  BY <1>2, ReadLineInv
<1>3. CASE Close
  <2>1. /\ stage = "read" /\ offset = Len(inp.text) /\ stage' \in {"status", "done"}
        /\ stage' = "done" => tagmap = <<>>
        /\ UNCHANGED <<inp, offset, tagmap, status_map, data_map>>
    BY <1>3 DEF Close
  <2>2. Position'
    BY <2>1 DEF Position, AtLine
  <2>3. ReadBack'
    BY <2>1 DEF ReadBack
  <2>4. stage' = "done" => Tags = {}
    BY <2>1 DEF Tags
  <2>5. Registered'
    BY <2>1, <2>4 DEF Registered, StatusOf, DataOf, Tags
  <2>6. QED
    BY <2>2, <2>3, <2>5
<1>4. CASE insertIntoGlobalSpeedwireStatusMap
  <2>1. /\ stage = "status" /\ stage' = "data"
        /\ UNCHANGED <<inp, offset, tagmap, data_map>>
        /\ status_map' = status_map \cup StatusOf(Tags)
    BY <1>4 DEF insertIntoGlobalSpeedwireStatusMap, StatusOf, Tags, IsStatus
  <2>2. Position'
    BY <2>1 DEF Position, AtLine
  <2>3. ReadBack'
    BY <2>1 DEF ReadBack
  <2>4. Registered'
    BY <2>1 DEF Registered, Tags
  <2>5. QED
    BY <2>2, <2>3, <2>4
<1>5. CASE insertIntoGlobalSpeedwireDataMap
  <2>1. /\ stage = "data" /\ stage' = "done"
        /\ UNCHANGED <<inp, offset, tagmap, status_map>>
        /\ data_map' = data_map \cup DataOf(Tags)
    BY <1>5 DEF insertIntoGlobalSpeedwireDataMap, DataOf, Tags
  <2>2. Position'
    BY <2>1 DEF Position, AtLine
  <2>3. ReadBack'
    BY <2>1 DEF ReadBack
  <2>4. Registered'
    BY <2>1 DEF Registered, Tags
  <2>5. QED
    BY <2>2, <2>3, <2>4
<1>6. CASE UNCHANGED vars
  BY <1>6 DEF vars, Position, AtLine, ReadBack, Registered, Tags
<1>7. QED
  BY <1>1, <1>2, <1>3, <1>4, <1>5, <1>6 DEF Next

\* A file that is not there has no tags.
LEMMA NoTags ==
  ASSUME inp = NoFile
  PROVE  Current(inp.text, Len(inp.text)) = {}
<1> DEFINE s == inp.text
<1>1. s \in Seq(Symbols) /\ Len(s) = 1
  BY TextIs DEF NoFile
<1>2. ASSUME NEW u \in Seq(Symbols), IsTag(u) PROVE Len(u) > 2
  <2>1. PICK p \in Layouts(u) : TRUE
    BY <1>2 DEF IsTag
  <2>2. p \in [split : Places(u, {"="}), first : Places(u, {"\\"}),
               second : Places(u, {"\\"}), end : 0 .. Len(u)]
    BY Zenon DEF Layouts
  <2>3. /\ p.split \in 1 .. Len(u) /\ p.first \in 1 .. Len(u) /\ p.second \in 1 .. Len(u)
        /\ p.split < p.first /\ p.first < p.second
    BY <2>2 DEF Layouts, Places
  <2>4. QED
    BY <2>3
<1> HIDE DEF s
<1>3. ASSUME NEW l \in Lines(s) PROVE TextOf(s, l) \in Seq(Symbols) /\ Len(TextOf(s, l)) <= 1
  <2> DEFINE m == l[1] + 1
             n == l[2]
  <2>1. m \in Nat /\ m >= 1 /\ n \in 0 .. Len(s) /\ n <= 1
    BY <1>1 DEF Lines
  <2>2. TextOf(s, l) = SubSeq(s, m, n)
    BY DEF TextOf
  <2> HIDE DEF m, n
  <2>3. SubSeq(s, m, n) \in Seq(Symbols) /\ Len(SubSeq(s, m, n)) = IF m <= n THEN n - m + 1 ELSE 0
    BY <1>1, <2>1, PartIs
  <2>4. QED
    BY <2>1, <2>2, <2>3
<1>4. TagLines(s, Len(s)) = {}
  <2>1. \A l \in Lines(s) : ~IsTag(TextOf(s, l))
    BY <1>2, <1>3
  <2>2. QED
    BY <2>1 DEF TagLines
<1>5. QED
  BY <1>4 DEF Current, LastLines, s

-----------------------------------------------------------------------------
(* Line by line, the map holds the tags of the list, each id with its last   *)
(* one (ReadBack, TagDefinitions.cpp:24-68).                                 *)
THEOREM MapIsTheList == Spec => []ReadBack
<1>1. IInv => ReadBack
  BY DEF IInv
<1>2. QED
  BY InitInv, StepInv, <1>1, PTL DEF Spec

(* In the end each tag of the list is known to exactly one of the global     *)
(* maps (EachTagOnce, TagDefinitions.cpp:77-100).                            *)
THEOREM TagsRegisteredOnce == Spec => []EachTagOnce
<1>1. IInv => EachTagOnce
  <2> SUFFICES ASSUME IInv, stage = "done", FitsBuffer(inp.text)
               PROVE  /\ status_map = StatusOf(Current(inp.text, Len(inp.text)))
                      /\ data_map = DataOf(Current(inp.text, Len(inp.text)))
    BY DEF EachTagOnce, StatusOf, DataOf
  <2>1. status_map = StatusOf(Tags) /\ data_map = DataOf(Tags)
    BY DEF IInv, Registered
  <2>2. Tags = Current(inp.text, offset)
    BY DEF IInv, ReadBack, Tags
  <2>3. CASE inp # NoFile
    BY <2>1, <2>2, <2>3 DEF IInv, Position
  <2>4. CASE inp = NoFile
    <3>1. offset = 0 /\ Current(inp.text, Len(inp.text)) = {}
      BY <2>4, NoTags DEF IInv, Position
    <3>2. inp.text \in Seq(Symbols)
      BY TextIs DEF IInv, Position
    <3>3. QED
      BY <2>1, <2>2, <3>1, <3>2, NothingRead
  <2>5. QED
    BY <2>3, <2>4
<1>2. QED
  BY InitInv, StepInv, <1>1, PTL DEF Spec

=============================================================================
