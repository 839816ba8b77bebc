------------------------- MODULE InverterPollingProofs -------------------------
(***************************************************************************)
(* Proofs about InverterPolling, for every set of devices, every plan of   *)
(* queries and every length of the intervals.                              *)
(***************************************************************************)
EXTENDS InverterPolling, TLAPS

USE PlanAssumption, LoginAssumption, TimeAssumption, PidAssumption

(* The inductive invariant: each part needs the others, since a token is    *)
(* known to be of the current round only because the login tokens, whose    *)
(* ids run ahead, are known to be gone by the time of a round.              *)
IInv ==
  /\ TypeOK
  /\ TokensCurrent
  /\ LoginTokensShortLived
  /\ SettledWhenQuiet

-----------------------------------------------------------------------------
(* Facts about the helpers.                                                *)

(* The id of the next round is a packet id.                                 *)
LEMMA NextIdType == ASSUME TypeOK PROVE NextId \in Ids
  BY DEF TypeOK, Ids, NextId

(* The id of the next round differs from that of the current one.           *)
LEMMA NextIdFresh == ASSUME TypeOK PROVE NextId # round
  BY DEF TypeOK, Ids, NextId

(* The packets that answer a query are well-formed.                         *)
LEMMA RepliesType ==
  ASSUME TypeOK, NEW q \in Queries, NEW a \in AllAnswers
  PROVE  Replies(q, NextId, a) \subseteq Packets
<1>1. q[1] \in Devices /\ q[2] \in Commands
  BY DEF Queries
<1>2. NextId \in Ids
  BY NextIdType
<1>3. ASSUME NEW f \in FragmentsSent(q[2], a)
      PROVE  f \in Nat /\ a \in Bodies
  <2>1. a # "unsent"
    BY DEF FragmentsSent
  <2>2. a \in Bodies
    BY <2>1 DEF AllAnswers, AnswerKinds, Bodies
  <2>3. f \in Nat
    BY <1>1, CarriesAssumption DEF FragmentsSent
  <2>4. QED
    BY <2>2, <2>3
<1>4. QED
  BY <1>1, <1>2, <1>3 DEF Replies, Packets

(* The tokens of a new round are well-formed, are of the new round, and     *)
(* belong to planned queries.                                               *)
LEMMA RoundTokensType ==
  ASSUME TypeOK, NEW answer, NEW t \in RoundTokens(answer)
  PROVE  /\ t \in Tokens
         /\ t.id = NextId
         /\ t.cmd \in Commands
         /\ t.cmd \in Plan[t.dev]
<1>1. PICK q \in Queries : t = TokenOf(q, NextId)
  BY DEF RoundTokens, Sent
<1>2. q[1] \in Devices /\ q[2] \in Commands /\ q[2] \in Plan[q[1]]
  BY DEF Queries
<1>3. QED
  BY <1>1, <1>2, NextIdType DEF TokenOf, Tokens

(* What a reply that answers a token does to the tokens: at most that token *)
(* goes.                                                                   *)
LEMMA AnsweredTokens ==
  ASSUME TypeOK, NEW p \in net, ReceiveError(p) \/ ReceiveData(p)
  PROVE  /\ TokenFor(p) \in tokens
         /\ tokens' = tokens \/ tokens' = tokens \ {TokenFor(p)}
  BY DEF ReceiveError, ReceiveData, Answered, IsKnown, AfterError

(* Type correctness is inductive.                                           *)
LEMMA TypeOKInductive ==
  ASSUME TypeOK, [Next]_vars
  PROVE  TypeOK'
<1> USE DEF TypeOK
<1>1. CASE BeginPass
  BY <1>1 DEF BeginPass, PassHead
<1>2. CASE LoginStep
  <2>1. PICK in \in SUBSET Accepts, heard \in SUBSET Devices : BeginLogin(in, heard)
    BY <1>2 DEF LoginStep
  <2>2. \A d \in Devices : TokenOf(<<d, Login>>, NextId) \in Tokens
    BY NextIdType DEF TokenOf, Tokens
  <2>3. \A d \in Devices : LoginReply(d, d \in in) \in Packets
    BY NextIdType DEF LoginReply, Packets, Bodies
  <2>4. tokens' \subseteq tokens \cup {TokenOf(<<d, Login>>, NextId) : d \in Devices}
    BY <2>1 DEF BeginLogin
  <2>5. net' \subseteq net \cup {LoginReply(d, d \in in) : d \in heard}
    <3>1. CASE LoginTokens
      BY <2>1, <3>1 DEF BeginLogin
    <3>2. CASE ~LoginTokens
      BY <2>1, <3>2 DEF BeginLogin
    <3>3. QED
      BY <3>1, <3>2
  <2>6. session' \in [Devices -> BOOLEAN]
    BY <2>1 DEF BeginLogin
  <2>7. tokens' \subseteq Tokens
    <3>1. tokens \subseteq Tokens
      OBVIOUS
    <3>2. \A t \in {TokenOf(<<d, Login>>, NextId) : d \in Devices} : t \in Tokens
      BY <2>2
    <3>3. QED
      BY <2>4, <3>1, <3>2
  <2>8. net' \subseteq Packets
    <3>1. \A d \in heard : LoginReply(d, d \in in) \in Packets
      BY <2>1, <2>3
    <3>2. \A r \in {LoginReply(d, d \in in) : d \in heard} : r \in Packets
      BY <3>1
    <3>3. net \subseteq Packets
      OBVIOUS
    <3>4. QED
      BY <2>5, <3>2, <3>3
  <2>9. QED
    BY <2>1, <2>6, <2>7, <2>8 DEF BeginLogin, PassHead
<1>3. CASE EndLoginDispatch
  BY <1>3 DEF EndLoginDispatch, LoginElapsed
<1>4. CASE RoundStep
  <2>1. PICK answer \in [Queries -> AllAnswers] : StartRound(answer)
    BY <1>4 DEF RoundStep
  <2>2. tokens' \subseteq Tokens
    BY <2>1, RoundTokensType DEF StartRound
  <2>3. net' \subseteq Packets
    BY <2>1, RepliesType DEF StartRound
  <2>4. elapsed' \in 0 .. MaxElapsed
    BY <2>1 DEF StartRound, RoundIsDue
  <2>5. inverter_query' \in BOOLEAN
    BY <2>1 DEF StartRound
  <2>6. round' \in Ids
    BY <2>1, NextIdType DEF StartRound
  <2>7. QED
    BY <2>1, <2>2, <2>3, <2>4, <2>5, <2>6 DEF StartRound
<1>5. CASE SkipRound
  BY <1>5 DEF SkipRound, loopVars
<1>6. CASE EndDispatch
  BY <1>6 DEF EndDispatch, loopVars
<1>7. CASE Aggregate
  <2>1. night_mode' \in BOOLEAN
    BY <1>7 DEF Aggregate
  <2>2. QED
    BY <1>7, <2>1 DEF Aggregate
<1>8. CASE SkipAggregate
  BY <1>8 DEF SkipAggregate, loopVars
<1>9. ASSUME NEW p \in net, Receive(p)
      PROVE  TypeOK'
  <2>1. CASE DropReply(p)
    BY <2>1 DEF DropReply, vars
  <2>2. CASE ReceiveError(p)
    <3>1. needs_login' \in BOOLEAN
      BY <2>2 DEF ReceiveError
    <3>2. QED
      BY <2>2, <3>1 DEF ReceiveError, AfterError, loopVars
  <2>3. CASE ReceiveData(p)
    <3>1. p.dev \in Devices /\ p.id \in Ids
      BY DEF Packets
    <3>2. [dev |-> p.dev, id |-> p.id, zero |-> p.body = "zero"] \in Readings
      BY <3>1 DEF Readings
    <3>3. data_map' \in [Keys -> Readings]
      BY <2>3, <3>2 DEF ReceiveData
    <3>4. tokens' \subseteq Tokens
      BY <2>3 DEF ReceiveData
    <3>5. QED
      BY <2>3, <3>3, <3>4 DEF ReceiveData, loopVars
  <2>4. QED
    BY <1>9, <2>1, <2>2, <2>3 DEF Receive
<1>10. CASE Tick
  BY <1>10 DEF Tick
<1>11. ASSUME NEW d \in Volatile, LoseSession(d)
       PROVE  TypeOK'
  BY <1>11 DEF LoseSession, loopVars
<1>12. CASE UNCHANGED vars
  BY <1>12 DEF vars
<1>13. QED
  BY <1>1, <1>2, <1>3, <1>4, <1>5, <1>6, <1>7, <1>8, <1>9, <1>10, <1>11, <1>12
     DEF Next, MainLoop

(* Apart from a login and the start of a round, no step adds a token or     *)
(* changes the round.                                                      *)
LEMMA TokensShrink ==
  ASSUME [Next]_vars, ~LoginStep, ~RoundStep
  PROVE  tokens' \subseteq tokens /\ round' = round
<1>1. ASSUME NEW p \in net, Receive(p)
      PROVE  tokens' \subseteq tokens /\ round' = round
  BY <1>1 DEF Receive, DropReply, ReceiveError, ReceiveData, AfterError, vars
<1>2. QED
  BY <1>1 DEF Next, MainLoop, BeginPass, EndLoginDispatch, SkipRound,
              EndDispatch, Aggregate, SkipAggregate, Tick, LoseSession, vars

(* A login adds login tokens only.                                          *)
LEMMA LoginAdds ==
  ASSUME LoginStep, NEW t \in tokens'
  PROVE  (t \in tokens \/ t.cmd = Login) /\ round' = round
<1>1. PICK in \in SUBSET Accepts, heard \in SUBSET Devices : BeginLogin(in, heard)
  BY DEF LoginStep
<1>2. CASE t \in tokens
  BY <1>1, <1>2 DEF BeginLogin
<1>3. CASE t \notin tokens
  <2>1. PICK d \in Devices : t = TokenOf(<<d, Login>>, NextId)
    BY <1>1, <1>3 DEF BeginLogin
  <2>2. QED
    BY <1>1, <2>1 DEF TokenOf, BeginLogin
<1>4. QED
  BY <1>2, <1>3

(* After the start of a round the repository holds tokens of that round     *)
(* only, all of them for planned queries.                                  *)
LEMMA RoundReplaces ==
  ASSUME TypeOK, RoundStep, NEW t \in tokens'
  PROVE  /\ t \in Tokens
         /\ t.id = round'
         /\ t.cmd \in Commands
         /\ t.cmd \in Plan[t.dev]
<1>1. PICK answer \in [Queries -> AllAnswers] : StartRound(answer)
  BY DEF RoundStep
<1>2. t \in RoundTokens(answer) /\ round' = NextId
  BY <1>1 DEF StartRound
<1>3. QED
  BY <1>2, RoundTokensType

-----------------------------------------------------------------------------
(* The parts of the inductive invariant.                                   *)

(* Tokens stay those of the current round.                                  *)
LEMMA TokensCurrentInductive ==
  ASSUME IInv, [Next]_vars
  PROVE  TokensCurrent'
<1>1. SUFFICES ASSUME NEW t \in tokens', t.cmd # Login
               PROVE  t.id = round' /\ t.cmd \in Plan[t.dev]
  BY DEF TokensCurrent
<1>2. CASE LoginStep
  BY <1>1, <1>2, LoginAdds DEF IInv, TokensCurrent
<1>3. CASE RoundStep
  BY <1>1, <1>3, RoundReplaces DEF IInv
<1>4. CASE ~LoginStep /\ ~RoundStep
  BY <1>1, <1>4, TokensShrink DEF IInv, TokensCurrent
<1>5. QED
  BY <1>2, <1>3, <1>4

(* A login token is gone before the repository's size is looked at.         *)
LEMMA LoginTokensInductive ==
  ASSUME IInv, [Next]_vars
  PROVE  LoginTokensShortLived'
<1>1. SUFFICES ASSUME NEW t \in tokens', t.cmd = Login
               PROVE  pc' = "login_dispatch" \/ (pc' = "query" /\ elapsed' > interval')
  BY DEF LoginTokensShortLived
<1>2. CASE LoginStep
  BY <1>2 DEF LoginStep, BeginLogin
<1>3. CASE RoundStep
  BY <1>1, <1>3, RoundReplaces, LoginAssumption DEF IInv
<1>4. CASE ~LoginStep /\ ~RoundStep
  <2>1. t \in tokens
    BY <1>1, <1>4, TokensShrink
  <2>2. pc = "login_dispatch" \/ (pc = "query" /\ elapsed > interval)
    BY <1>1, <2>1 DEF IInv, LoginTokensShortLived
  <2>3. CASE EndLoginDispatch
    BY <2>3 DEF EndLoginDispatch, LoginElapsed, IInv, TypeOK
  <2>4. CASE SkipRound
    BY <2>2, <2>4 DEF SkipRound, RoundIsDue
  <2>5. ASSUME NEW p \in net, Receive(p)
        PROVE  UNCHANGED <<pc, elapsed, interval>>
    BY <2>5 DEF Receive, DropReply, ReceiveError, ReceiveData, loopVars, vars
  <2>6. ASSUME NEW d \in Volatile, LoseSession(d)
        PROVE  UNCHANGED <<pc, elapsed, interval>>
    BY <2>6 DEF LoseSession, loopVars
  <2>7. CASE UNCHANGED vars
    BY <2>2, <2>7 DEF vars
  <2>8. CASE BeginPass \/ EndDispatch \/ Aggregate \/ SkipAggregate \/ Tick
    BY <2>2, <2>8 DEF BeginPass, PassHead, EndDispatch, Aggregate, SkipAggregate, Tick
  <2>9. QED
    BY <1>4, <2>2, <2>3, <2>4, <2>5, <2>6, <2>7, <2>8 DEF Next, MainLoop
<1>5. QED
  BY <1>2, <1>3, <1>4

(* No query is left open once the values of its round are derived.          *)
LEMMA SettledInductive ==
  ASSUME IInv, [Next]_vars
  PROVE  SettledWhenQuiet'
<1>1. SUFFICES ASSUME ~inverter_query', NEW t \in tokens'
               PROVE  t.cmd = Login
  BY DEF SettledWhenQuiet
<1>2. CASE LoginStep
  <2>1. inverter_query' = inverter_query
    BY <1>2 DEF LoginStep, BeginLogin
  <2>2. QED
    BY <1>1, <1>2, <2>1, LoginAdds DEF IInv, SettledWhenQuiet
<1>3. CASE RoundStep
  <2>1. t.dev \in Devices
    BY <1>1, <1>3, RoundReplaces DEF IInv, Tokens
  <2>2. inverter_query' = (inverter_query \/ Devices # {})
    BY <1>3 DEF RoundStep, StartRound
  <2>3. QED
    BY <1>1, <2>1, <2>2
<1>4. CASE Aggregate
  BY <1>1, <1>4 DEF Aggregate, AllSettled
<1>5. CASE ~LoginStep /\ ~RoundStep /\ ~Aggregate
  <2>1. t \in tokens
    BY <1>1, <1>5, TokensShrink
  <2>2. ASSUME NEW p \in net, Receive(p)
        PROVE  inverter_query' = inverter_query
    BY <2>2 DEF Receive, DropReply, ReceiveError, ReceiveData, loopVars, vars
  <2>3. inverter_query' = inverter_query
    BY <1>5, <2>2 DEF Next, MainLoop, BeginPass, EndLoginDispatch, SkipRound,
         EndDispatch, SkipAggregate, Tick, LoseSession, loopVars, vars
  <2>4. QED
    BY <1>1, <2>1, <2>3 DEF IInv, SettledWhenQuiet
<1>6. QED
  BY <1>2, <1>3, <1>4, <1>5

-----------------------------------------------------------------------------
(* The inductive invariant holds in every reachable state of the loop.      *)
THEOREM Invariance == Spec => []IInv
<1>1. Init => IInv
  <2>1. SUFFICES ASSUME Init PROVE IInv
    OBVIOUS
  <2>2. TypeOK
    <3>1. data_map \in [Keys -> Readings] /\ session \in [Devices -> BOOLEAN]
      BY <2>1 DEF Init, Readings
    <3>2. tokens \subseteq Tokens /\ net \subseteq Packets
      BY <2>1 DEF Init
    <3>3. round \in Ids
      BY <2>1 DEF Init, Ids
    <3>4. interval \in {DayInterval, NightInterval} /\ elapsed \in 0 .. MaxElapsed
      BY <2>1 DEF Init
    <3>5. QED
      BY <2>1, <3>1, <3>2, <3>3, <3>4 DEF Init, TypeOK
  <2>3. QED
    BY <2>1, <2>2 DEF Init, IInv, TokensCurrent, LoginTokensShortLived, SettledWhenQuiet
<1>2. IInv /\ [Next]_vars => IInv'
  <2>1. SUFFICES ASSUME IInv, [Next]_vars PROVE IInv'
    OBVIOUS
  <2>2. TypeOK'
    BY <2>1, TypeOKInductive DEF IInv
  <2>3. QED
    BY <2>1, <2>2, TokensCurrentInductive, LoginTokensInductive, SettledInductive
       DEF IInv
<1>3. QED
  BY <1>1, <1>2, PTL DEF Spec

(* The loop's state is well-typed: the time since start_time and the packet *)
(* ids stay within their ranges, the tokens and packets are well-formed.    *)
THEOREM TypeCorrect == Spec => []TypeOK
<1>1. IInv => TypeOK
  BY DEF IInv
<1>2. QED
  BY <1>1, Invariance, PTL

(* clear() (main.cpp:239) leaves no token of an earlier round behind.       *)
THEOREM TokensAreCurrent == Spec => []TokensCurrent
<1>1. IInv => TokensCurrent
  BY DEF IInv
<1>2. QED
  BY <1>1, Invariance, PTL

(* A login token never reaches the test of the repository's size.           *)
THEOREM LoginTokensDie == Spec => []LoginTokensShortLived
<1>1. IInv => LoginTokensShortLived
  BY DEF IInv
<1>2. QED
  BY <1>1, Invariance, PTL

(* When the loop no longer waits for data, no query is open.                *)
THEOREM QuietIsSettled == Spec => []SettledWhenQuiet
<1>1. IInv => SettledWhenQuiet
  BY DEF IInv
<1>2. QED
  BY <1>1, Invariance, PTL

-----------------------------------------------------------------------------
(* The data map is written by ReceiveData only.                             *)
LEMMA OnlyDataWrites ==
  ASSUME [Next]_vars, data_map' # data_map
  PROVE  \E p \in net : ReceiveData(p)
<1>1. ASSUME NEW p \in net, Receive(p), ~ReceiveData(p)
      PROVE  data_map' = data_map
  BY <1>1 DEF Receive, DropReply, ReceiveError, vars
<1>2. QED
  BY <1>1 DEF Next, MainLoop, BeginPass, LoginStep, BeginLogin, EndLoginDispatch,
       RoundStep, StartRound, SkipRound, EndDispatch, Aggregate, SkipAggregate,
       Tick, LoseSession, vars

(* A reading that changes is one of the current round.                      *)
LEMMA ReadingStep ==
  ASSUME IInv, [Next]_vars, NEW k \in Keys, data_map'[k] # data_map[k]
  PROVE  data_map'[k].id = round
<1>1. PICK p \in net : ReceiveData(p)
  BY OnlyDataWrites
<1>2. k \in KeysOf(p)
  BY <1>1 DEF ReceiveData, IInv, TypeOK
<1>3. p.cmd # Login
  BY <1>2 DEF KeysOf
<1>4. TokenFor(p) \in tokens /\ TokenFor(p).cmd = p.cmd /\ TokenFor(p).id = p.id
  BY <1>1 DEF ReceiveData, Answered, IsKnown, TokenFor
<1>5. p.id = round
  BY <1>3, <1>4 DEF IInv, TokensCurrent
<1>6. data_map'[k] = [dev |-> p.dev, id |-> p.id, zero |-> p.body = "zero"]
  BY <1>1, <1>2 DEF ReceiveData
<1>7. QED
  BY <1>5, <1>6

(* No reply to an earlier round ever changes a reading, however late, often *)
(* or out of order it is delivered.                                         *)
THEOREM ReadingsAreCurrent == Spec => NoStaleReading
<1>1. IInv /\ [Next]_vars =>
        [\A k \in Keys : data_map'[k] # data_map[k] => data_map'[k].id = round]_vars
  BY ReadingStep
<1>2. QED
  BY <1>1, Invariance, PTL DEF Spec, NoStaleReading

-----------------------------------------------------------------------------
(* Derivation from the answers of the round.                               *)

(* The second inductive invariant: while the loop waits for the data of a   *)
(* round, every query of it holds its token or is accounted for.           *)
Open(q) == TokenOf(q, round) \in tokens
WaitsOrAccounted == inverter_query => \A q \in Queries : Open(q) \/ Accounted(q)

(* A query stays accounted for as long as its round goes on, no packet of   *)
(* the round is lost from net and the data map takes readings of the round  *)
(* only.                                                                   *)
LEMMA AccountedStays ==
  ASSUME NEW q \in Queries, Accounted(q), round' = round,
         InRound(q)' = InRound(q),
         \A k \in Keys : data_map'[k] # data_map[k] => data_map'[k].id = round
  PROVE  Accounted(q)'
<1>1. NotSent(q) => NotSent(q)'
  BY DEF NotSent
<1>2. Refused(q) => Refused(q)'
  BY DEF Refused
<1>3. IsRead(q) => IsRead(q)'
  BY DEF IsRead
<1>4. QED
  BY <1>1, <1>2, <1>3 DEF Accounted

(* What is accounted for when a round is sent: the queries without a token  *)
(* are those that were not sent, and have no packet in net.                *)
LEMMA RoundAccounts ==
  ASSUME TypeOK, RoundStep, NEW q \in Queries
  PROVE  Open(q)' \/ Accounted(q)'
<1>1. PICK answer \in [Queries -> AllAnswers] : StartRound(answer)
  BY DEF RoundStep
<1>2. round' = NextId
  BY <1>1 DEF StartRound
<1>3. CASE answer[q] # "unsent"
  <2>1. TokenOf(q, NextId) \in tokens'
    BY <1>1, <1>3 DEF StartRound, RoundTokens, Sent
  <2>2. QED
    BY <1>2, <2>1 DEF Open
<1>4. CASE answer[q] = "unsent"
  <2>1. SUFFICES InRound(q)' = {}
    BY DEF Accounted, NotSent
  <2>2. SUFFICES ASSUME NEW p \in net', <<p.dev, p.cmd>> = q, p.id = NextId
                 PROVE  FALSE
    BY <1>2 DEF InRound
  <2>3. PICK r \in Queries : p \in Replies(r, NextId, answer[r])
    BY <1>1, <2>2 DEF StartRound
  <2>4. PICK f \in FragmentsSent(r[2], answer[r]) : p.dev = r[1] /\ p.cmd = r[2]
    BY <2>3 DEF Replies
  <2>5. r = q
    BY <2>2, <2>4 DEF Queries
  <2>6. QED
    BY <1>4, <2>4, <2>5 DEF FragmentsSent
<1>5. QED
  BY <1>3, <1>4

(* A reply that takes the token of a query away accounts for it.            *)
LEMMA ReceiveAccounts ==
  ASSUME IInv, NEW p \in net, Receive(p), NEW q \in Queries,
         Open(q), ~Open(q)', round' = round
  PROVE  Accounted(q)'
<1>1. ReceiveError(p) \/ ReceiveData(p)
  BY DEF Receive, DropReply, vars, Open, TokenOf
<1>2. TokenFor(p) = TokenOf(q, round)
  BY <1>1, AnsweredTokens DEF IInv, Open, TokenOf
<1>3. p.dev = q[1] /\ p.cmd = q[2] /\ p.id = round
  BY <1>2 DEF TokenFor, TokenOf
<1>4. q = <<p.dev, p.cmd>> /\ p.cmd # Login
  BY <1>3 DEF Queries
<1>5. CASE ReceiveError(p)
  <2>1. p \in InRound(q)'
    BY <1>3, <1>4, <1>5 DEF InRound, ReceiveError
  <2>2. QED
    BY <1>5, <2>1 DEF Accounted, Refused, ReceiveError
<1>6. CASE ReceiveData(p)
  <2>1. LastFragment(p)
    BY <1>6 DEF ReceiveData, Open, TokenOf
  <2>2. KeysOf(p) = Carries[q[2]][1]
    BY <1>3, <1>4, <2>1 DEF LastFragment, KeysOf
  <2>3. \A k \in Carries[q[2]][1] \cap Keys : data_map'[k].id = p.id
    BY <1>6, <2>2 DEF ReceiveData
  <2>4. IsRead(q)'
    BY <1>3, <2>3 DEF IsRead
  <2>5. QED
    BY <2>4 DEF Accounted
<1>7. QED
  BY <1>1, <1>5, <1>6

(* Every step keeps the queries open or accounted for.                      *)
LEMMA WaitsInductive ==
  ASSUME IInv, WaitsOrAccounted, [Next]_vars
  PROVE  WaitsOrAccounted'
<1>1. SUFFICES ASSUME inverter_query', NEW q \in Queries
               PROVE  Open(q)' \/ Accounted(q)'
  BY DEF WaitsOrAccounted
<1>2. \A k \in Keys : data_map'[k] # data_map[k] => data_map'[k].id = round
  BY ReadingStep
<1>3. CASE RoundStep
  BY <1>3, RoundAccounts DEF IInv
<1>4. CASE LoginStep
  <2>1. PICK in \in SUBSET Accepts, heard \in SUBSET Devices : BeginLogin(in, heard)
    BY <1>4 DEF LoginStep
  <2>2. inverter_query /\ round' = round /\ tokens \subseteq tokens'
    BY <1>1, <2>1 DEF BeginLogin
  <2>3. \A p : p \in net' /\ p.id = round <=> p \in net /\ p.id = round
    <3>1. \A d \in Devices : LoginReply(d, d \in in).id = NextId
      BY DEF LoginReply
    <3>2. QED
      BY <2>1, <3>1, NextIdFresh DEF BeginLogin, IInv
  <2>4. InRound(q)' = InRound(q)
    BY <2>2, <2>3 DEF InRound
  <2>5. QED
    BY <1>2, <2>2, <2>4, AccountedStays DEF WaitsOrAccounted, Open
<1>5. ASSUME NEW p \in net, Receive(p)
      PROVE  Open(q)' \/ Accounted(q)'
  <2>1. round' = round /\ net' = net /\ inverter_query' = inverter_query
    BY <1>5 DEF Receive, DropReply, ReceiveError, ReceiveData, loopVars, vars
  <2>2. InRound(q)' = InRound(q)
    BY <2>1 DEF InRound
  <2>3. CASE Open(q)
    BY <1>5, <2>1, <2>3, ReceiveAccounts
  <2>4. CASE ~Open(q)
    BY <1>1, <1>2, <2>1, <2>2, <2>4, AccountedStays DEF WaitsOrAccounted
  <2>5. QED
    BY <2>3, <2>4
<1>6. CASE ~RoundStep /\ ~LoginStep /\ ~(\E p \in net : Receive(p))
  <2>1. UNCHANGED <<round, net, tokens>> /\ (inverter_query' => inverter_query)
    BY <1>6 DEF Next, MainLoop, BeginPass, PassHead, EndLoginDispatch, SkipRound,
         EndDispatch, Aggregate, SkipAggregate, Tick, LoseSession, loopVars, vars
  <2>2. InRound(q)' = InRound(q)
    BY <2>1 DEF InRound
  <2>3. QED
    BY <1>1, <1>2, <2>1, <2>2, AccountedStays DEF WaitsOrAccounted, Open
<1>7. QED
  BY <1>3, <1>4, <1>5, <1>6

(* Whatever is lost, late or overtaken, values are derived only when every  *)
(* query of the round was answered to its last fragment, was refused or     *)
(* could not be sent.                                                      *)
THEOREM ValuesFromAnswers == Spec => DerivedFromAnswers
<1>1. Init => WaitsOrAccounted
  BY DEF Init, WaitsOrAccounted
<1>2. IInv /\ WaitsOrAccounted /\ [Next]_vars => WaitsOrAccounted'
  BY WaitsInductive
<1>3. ASSUME IInv, WaitsOrAccounted, [Next]_vars, inverter_query, ~inverter_query'
      PROVE  \A q \in Queries : Accounted(q)
  <2>1. Aggregate
    <3>1. ASSUME NEW p \in net, Receive(p)
          PROVE  inverter_query' = inverter_query
      BY <3>1 DEF Receive, DropReply, ReceiveError, ReceiveData, loopVars, vars
    <3>2. QED
      BY <1>3, <3>1 DEF Next, MainLoop, BeginPass, LoginStep, BeginLogin, EndLoginDispatch,
         RoundStep, StartRound, SkipRound, EndDispatch, SkipAggregate, Tick,
         LoseSession, loopVars, vars
  <2>2. \A q \in Queries : ~Open(q)
    BY <2>1 DEF Aggregate, AllSettled, Open
  <2>3. QED
    BY <1>3, <2>2 DEF WaitsOrAccounted
<1>4. IInv /\ WaitsOrAccounted /\ [Next]_vars =>
        [inverter_query /\ ~inverter_query' => \A q \in Queries : Accounted(q)]_vars
  BY <1>3
<1>5. QED
  BY <1>1, <1>2, <1>4, Invariance, PTL DEF Spec, DerivedFromAnswers

-----------------------------------------------------------------------------
(* The refinement of QueryRounds.                                          *)

(* Removing the token of a query settles that query alone.                  *)
LEMMA RemovalSettles ==
  ASSUME IInv, NEW t \in tokens, tokens' = tokens \ {t}
  PROVE  Pending' = IF t.cmd = Login THEN Pending
                                     ELSE Pending \ {<<t.dev, t.cmd>>}
<1>1. CASE t.cmd = Login
  BY <1>1 DEF Pending
<1>2. CASE t.cmd # Login
  <2>1. ASSUME NEW u \in tokens, u.cmd # Login, <<u.dev, u.cmd>> = <<t.dev, t.cmd>>
        PROVE  u = t
    BY <1>2, <2>1 DEF IInv, TypeOK, Tokens, TokensCurrent
  <2>2. QED
    BY <1>2, <2>1 DEF Pending
<1>3. QED
  BY <1>1, <1>2

(* The packets of a query carry fragments that the query has.               *)
FragmentsKnown ==
  \A p \in net : p.cmd # Login => p.frag \in 0 .. Len(Carries[p.cmd]) - 1

LEMMA FragmentsInductive ==
  ASSUME FragmentsKnown, [Next]_vars
  PROVE  FragmentsKnown'
<1>1. CASE LoginStep
  <2>1. PICK in \in SUBSET Accepts, heard \in SUBSET Devices : BeginLogin(in, heard)
    BY <1>1 DEF LoginStep
  <2>2. \A d \in Devices : LoginReply(d, d \in in).cmd = Login
    BY DEF LoginReply
  <2>3. \A p \in net' : p \in net \/ p.cmd = Login
    BY <2>1, <2>2 DEF BeginLogin
  <2>4. QED
    BY <2>3 DEF FragmentsKnown
<1>2. CASE RoundStep
  <2>1. PICK answer \in [Queries -> AllAnswers] : StartRound(answer)
    BY <1>2 DEF RoundStep
  <2>2. SUFFICES ASSUME NEW p \in net', p.cmd # Login
                 PROVE  p.frag \in 0 .. Len(Carries[p.cmd]) - 1
    BY DEF FragmentsKnown
  <2>3. CASE p \in net
    BY <2>2, <2>3 DEF FragmentsKnown
  <2>4. CASE p \notin net
    <3>1. PICK q \in Queries : p \in Replies(q, NextId, answer[q])
      BY <2>1, <2>4 DEF StartRound
    <3>2. QED
      BY <3>1 DEF Replies, FragmentsSent
  <2>5. QED
    BY <2>3, <2>4
<1>3. CASE ~LoginStep /\ ~RoundStep
  <2>1. net' = net
    BY <1>3 DEF Next, MainLoop, BeginPass, EndLoginDispatch, SkipRound, EndDispatch,
       Aggregate, SkipAggregate, Receive, DropReply, ReceiveError, ReceiveData,
       Tick, LoseSession, vars
  <2>2. QED
    BY <2>1 DEF FragmentsKnown
<1>4. QED
  BY <1>1, <1>2, <1>3

(* The data of a packet are among the data of its query.                    *)
LEMMA DataOfPacket ==
  ASSUME FragmentsKnown, NEW p \in net, p.cmd # Login, <<p.dev, p.cmd>> \in Queries
  PROVE  KeysOf(p) \cap Keys \subseteq DataOf[<<p.dev, p.cmd>>]
<1>1. p.frag \in 0 .. Len(Carries[p.cmd]) - 1
  BY DEF FragmentsKnown
<1>2. KeysOf(p) = Carries[p.cmd][p.frag + 1]
  BY DEF KeysOf
<1>3. DataOf[<<p.dev, p.cmd>>] =
        Keys \cap UNION {Carries[p.cmd][f + 1] : f \in 0 .. Len(Carries[p.cmd]) - 1}
  BY DEF DataOf
<1>4. QED
  BY <1>1, <1>2, <1>3

(* Every step of the loop alone is a step of QueryRounds or leaves its      *)
(* variables.                                                              *)
LEMMA LoopRefines ==
  ASSUME IInv, MainLoop
  PROVE  [Rounds!Next]_(Rounds!vars)
<1>1. CASE LoginStep
  <2>1. PICK in \in SUBSET Accepts, heard \in SUBSET Devices : BeginLogin(in, heard)
    BY <1>1 DEF LoginStep
  <2>2. tokens \subseteq tokens'
    BY <2>1 DEF BeginLogin
  <2>3. Pending' = Pending
    BY <1>1, <2>2, LoginAdds DEF Pending
  <2>4. ~Dispatching /\ Dispatching'
    BY <2>1 DEF BeginLogin, PassHead, Dispatching
  <2>5. Rounds!Listen
    BY <2>1, <2>3, <2>4 DEF BeginLogin, Rounds!Listen
  <2>6. QED
    BY <2>5 DEF Rounds!Next
<1>2. CASE RoundStep
  <2>1. PICK answer \in [Queries -> AllAnswers] : StartRound(answer)
    BY <1>2 DEF RoundStep
  <2>2. Pending' \in SUBSET Queries
    <3>1. \A t \in tokens' : <<t.dev, t.cmd>> \in Queries
      BY <1>2, RoundReplaces DEF IInv, Queries, Tokens
    <3>2. QED
      BY <3>1 DEF Pending
  <2>3. inverter_query' = (inverter_query \/ Devices # {})
    BY <2>1 DEF StartRound
  <2>4. inverter_query \/ Pending' # {} => inverter_query'
    BY <2>2, <2>3 DEF Queries
  <2>5. inverter_query' \in BOOLEAN
    BY <2>1 DEF StartRound, IInv, TypeOK
  <2>6. ~Dispatching /\ Dispatching'
    BY <2>1 DEF StartRound, Dispatching
  <2>7. round' = (round + 1) % PidRounds /\ data_map' = data_map
    BY <2>1 DEF StartRound, NextId
  <2>8. Rounds!Begin
    BY <2>2, <2>4, <2>5, <2>6, <2>7 DEF Rounds!Begin
  <2>9. QED
    BY <2>8 DEF Rounds!Next
<1>3. CASE Aggregate
  <2>1. Pending = {} /\ Pending' = {}
    BY <1>3 DEF Aggregate, AllSettled, Pending
  <2>2. ~Dispatching /\ Dispatching' = Dispatching
    BY <1>3 DEF Aggregate, Dispatching
  <2>3. Rounds!Derive
    BY <1>3, <2>1, <2>2 DEF Aggregate, Rounds!Derive
  <2>4. QED
    BY <2>3 DEF Rounds!Next
<1>4. CASE EndLoginDispatch \/ SkipRound \/ EndDispatch
  <2>1. UNCHANGED <<round, tokens, data_map, inverter_query>>
    BY <1>4 DEF EndLoginDispatch, SkipRound, EndDispatch, loopVars
  <2>2. Dispatching' = ~Dispatching
    BY <1>4 DEF EndLoginDispatch, SkipRound, EndDispatch, Dispatching
  <2>3. Rounds!Listen
    BY <2>1, <2>2 DEF Rounds!Listen, Pending
  <2>4. QED
    BY <2>3 DEF Rounds!Next
<1>5. CASE BeginPass \/ SkipAggregate
  <2>1. UNCHANGED <<round, tokens, data_map, inverter_query>>
    BY <1>5 DEF BeginPass, PassHead, SkipAggregate, loopVars
  <2>2. Dispatching' = Dispatching
    BY <1>5 DEF BeginPass, PassHead, SkipAggregate, Dispatching
  <2>3. QED
    BY <2>1, <2>2 DEF Rounds!vars, Pending
<1>6. QED
  BY <1>1, <1>2, <1>3, <1>4, <1>5 DEF MainLoop

(* What a reply does is a step of QueryRounds: a query that is still open   *)
(* is settled or brings a part of its data, and any other reply is dropped. *)
LEMMA ReplyRefines ==
  ASSUME IInv, FragmentsKnown, NEW p \in net, Receive(p)
  PROVE  [Rounds!Next]_(Rounds!vars)
<1> DEFINE q == <<p.dev, p.cmd>>
<1>1. UNCHANGED <<pc, round, inverter_query>> /\ Dispatching' = Dispatching
  BY DEF Receive, DropReply, ReceiveError, ReceiveData, loopVars, vars, Dispatching
<1>2. CASE DropReply(p)
  BY <1>1, <1>2 DEF DropReply, vars, Rounds!vars, Pending
<1>3. CASE ReceiveError(p) \/ ReceiveData(p)
  <2>1. Dispatching /\ TokenFor(p) \in tokens
    BY <1>3 DEF ReceiveError, ReceiveData, Answered, IsKnown
  <2>2. TokenFor(p).dev = p.dev /\ TokenFor(p).cmd = p.cmd /\ TokenFor(p).id = p.id
    BY DEF TokenFor
  <2>3. data_map = [k \in Keys |-> data_map[k]]
    BY DEF IInv, TypeOK
  <2>4. CASE p.cmd = Login
    <3>1. Pending' = Pending
      <4>1. CASE tokens' = tokens
        BY <4>1 DEF Pending
      <4>2. CASE tokens' = tokens \ {TokenFor(p)}
        BY <2>1, <2>2, <2>4, <4>2, RemovalSettles
      <4>3. QED
        BY <1>3, <4>1, <4>2, AnsweredTokens DEF IInv
    <3>2. data_map' = data_map
      BY <1>3, <2>3, <2>4 DEF ReceiveError, ReceiveData, KeysOf
    <3>3. QED
      BY <1>1, <3>1, <3>2 DEF Rounds!vars
  <2>5. CASE p.cmd # Login
    <3>1. q \in Pending
      BY <2>1, <2>2, <2>5 DEF Pending
    <3>2. p.id = round /\ p.cmd \in Plan[p.dev]
      BY <2>1, <2>2, <2>5 DEF IInv, TokensCurrent
    <3>3. q \in Queries
      BY <2>1, <2>2, <2>5, <3>2 DEF IInv, TypeOK, Tokens, Queries
    <3>4. tokens' = tokens \ {TokenFor(p)} => Pending' = Pending \ {q}
      BY <2>1, <2>2, <2>5, RemovalSettles
    <3>5. CASE ReceiveError(p)
      <4>1. data_map' = [k \in Keys |-> IF k \in {}
                          THEN [dev |-> q[1], id |-> round, zero |-> FALSE]
                          ELSE data_map[k]]
        BY <2>3, <3>5 DEF ReceiveError
      <4>2. Pending' = Pending \ {q}
        BY <3>4, <3>5 DEF ReceiveError, AfterError
      <4>3. Rounds!Settle(q, {}, FALSE)
        BY <1>1, <2>1, <3>1, <4>1, <4>2 DEF Rounds!Settle, Rounds!Take
      <4>4. QED
        BY <3>3, <4>3 DEF Rounds!Next
    <3>6. CASE ReceiveData(p)
      <4> DEFINE keys == KeysOf(p) \cap Keys
                 zero == p.body = "zero"
      <4>1. keys \subseteq DataOf[q]
        BY <2>5, <3>3, DataOfPacket
      <4>2. data_map' = [k \in Keys |-> IF k \in keys
                          THEN [dev |-> q[1], id |-> round, zero |-> zero]
                          ELSE data_map[k]]
        BY <3>2, <3>6 DEF ReceiveData
      <4>3. Rounds!Take(q, keys, zero)
        BY <1>1, <2>1, <3>1, <4>1, <4>2 DEF Rounds!Take
      <4>4. CASE LastFragment(p)
        <5>1. Rounds!Settle(q, keys, zero)
          BY <3>4, <3>6, <4>3, <4>4 DEF ReceiveData, Rounds!Settle
        <5>2. QED
          BY <3>3, <4>1, <5>1 DEF Rounds!Next
      <4>5. CASE ~LastFragment(p)
        <5>1. Pending' = Pending
          BY <3>6, <4>5 DEF ReceiveData, Pending
        <5>2. Rounds!Partly(q, keys, zero)
          BY <4>3, <5>1 DEF Rounds!Partly
        <5>3. QED
          BY <3>3, <4>1, <5>2 DEF Rounds!Next
      <4>6. QED
        BY <4>4, <4>5
    <3>7. QED
      BY <1>3, <3>5, <3>6
  <2>6. QED
    BY <2>4, <2>5
<1>4. QED
  BY <1>2, <1>3 DEF Receive

(* Every step is a step of QueryRounds or leaves its variables.             *)
LEMMA StepRefines ==
  ASSUME IInv, FragmentsKnown, [Next]_vars
  PROVE  [Rounds!Next]_(Rounds!vars)
<1>1. CASE MainLoop
  BY <1>1, LoopRefines
<1>2. ASSUME NEW p \in net, Receive(p)
      PROVE  [Rounds!Next]_(Rounds!vars)
  BY <1>2, ReplyRefines
<1>3. CASE Tick \/ UNCHANGED vars
  BY <1>3 DEF Tick, vars, Rounds!vars, Pending, Dispatching
<1>4. ASSUME NEW d \in Volatile, LoseSession(d)
      PROVE  [Rounds!Next]_(Rounds!vars)
  BY <1>4 DEF LoseSession, loopVars, Rounds!vars, Pending, Dispatching
<1>5. QED
  BY <1>1, <1>2, <1>3, <1>4 DEF Next

(* The polling loop implements the abstract rounds of queries: a query is   *)
(* settled at most once in its round, takes data only while it is not        *)
(* settled and only into its own entries, and values are derived only when  *)
(* none is left to settle. No copy of a reply counts a second time.         *)
THEOREM RoundsImplemented == Spec => RoundsSpec
<1>1. Init => Rounds!Init
  BY DEF Init, Rounds!Init, Pending, Dispatching
<1>2. Init => FragmentsKnown
  BY DEF Init, FragmentsKnown
<1>3. FragmentsKnown /\ [Next]_vars => FragmentsKnown'
  BY FragmentsInductive
<1>4. IInv /\ FragmentsKnown /\ [Next]_vars => [Rounds!Next]_(Rounds!vars)
  BY StepRefines
<1>5. QED
  BY <1>1, <1>2, <1>3, <1>4, Invariance, PTL DEF Spec, RoundsSpec, Rounds!Spec
=============================================================================
