--------------------------- MODULE InverterPolling ---------------------------
(***************************************************************************)
(* The main loop of src/src/main.cpp together with the reply handler       *)
(* InverterPacketReceiver::receive of src/src/PacketReceiver.cpp: logins,   *)
(* rounds of queries, the repository of query tokens, the data map that    *)
(* replies are written to, and the derivation of aggregated values.        *)
(*                                                                         *)
(* The devices and the network are the environment. A reply, once sent,    *)
(* stays in net until its packet id is used again, so that it may be       *)
(* delivered late, out of order, more than once, or never.                 *)
(***************************************************************************)
EXTENDS Naturals, Sequences

CONSTANTS
  Devices,        \* the inverters found by the discovery
  Commands,       \* one element per sendQueryRequest call of a round
  Plan,           \* [Devices -> SUBSET Commands]: what is asked of a device
  Keys,           \* the entries of inverter_map
  Carries,        \* [Commands -> sequence of sets]: Carries[c][f + 1] are the
                  \* data of fragment f (its counter; 0 is the last one), of
                  \* which the loop keeps those in Keys
  Mpp1,           \* the key of InverterPowerMPP1
  Login,          \* the LOGIN command
  Masked,         \* the commands with (command & 0x00ff0000) != 0
  Accepts,        \* the devices that accept the credentials
  Volatile,       \* the devices that may drop an authenticated session
  LoginTokens,    \* does the authenticator register tokens for its logins?
  DayInterval, NightInterval,   \* query intervals, in ticks
  MaxElapsed,     \* bound on the time since start_time, in ticks
  PidRounds,      \* packet ids are used again after this many rounds
  Answers,        \* the ways of authenticated devices to answer explored
  Prompt          \* do replies arrive before the next tick?

AnswerKinds == {"zero", "power", "error", "garbled", "unsent"}
AllAnswers == AnswerKinds \cup {"refused"}

ASSUME PlanAssumption    == Plan \in [Devices -> SUBSET Commands]
ASSUME LoginAssumption   == Login \notin Commands
ASSUME KeysAssumption    == Mpp1 \in Keys
ASSUME CarriesAssumption == \A c \in Commands : Len(Carries[c]) \in Nat \ {0}
ASSUME TimeAssumption    ==
  /\ DayInterval \in Nat \ {0}
  /\ NightInterval \in Nat \ {0}
  /\ MaxElapsed \in Nat
  /\ MaxElapsed > DayInterval
  /\ MaxElapsed > NightInterval
ASSUME PidAssumption     == PidRounds \in Nat /\ PidRounds >= 2
ASSUME AnswersAssumption == Answers \subseteq AnswerKinds /\ Answers # {}
ASSUME EnvAssumption     == Accepts \subseteq Devices /\ Volatile \subseteq Devices
ASSUME FlagsAssumption   == LoginTokens \in BOOLEAN /\ Prompt \in BOOLEAN

VARIABLES
  pc,             \* where the loop is
  needs_login,    \* SpeedwireTokenRepository::needs_login
  night_mode,
  interval,       \* query_inverter_interval_in_ms of the current pass
  elapsed,        \* getTickCountInMs() - start_time
  inverter_query,
  tokens,         \* the token repository
  data_map,       \* inverter_map: the newest reading of every key
  round,          \* number of the current round, and id of its packets
  net,            \* inverter replies on their way
  session         \* is the device authenticated?

loopVars == <<night_mode, interval, elapsed, inverter_query>>
vars == <<pc, needs_login, night_mode, interval, elapsed, inverter_query,
          tokens, data_map, round, net, session>>

-----------------------------------------------------------------------------
(* Requests, tokens and replies.                                           *)

Ids == 0 .. PidRounds - 1
NextIdUnwrapped == round + 1
NextId == (round + 1) % PidRounds

Queries == {q \in Devices \X Commands : q[2] \in Plan[q[1]]}

Tokens == [dev : Devices, cmd : Commands \cup {Login}, id : Ids]
TokenOf(q, id) == [dev |-> q[1], cmd |-> q[2], id |-> id]

Bodies == {"ok", "zero", "power", "refused", "error", "garbled"}
Packets == [dev : Devices, cmd : Commands \cup {Login}, id : Ids,
            frag : Nat, body : Bodies]

NoReading == [dev |-> "none", id |-> PidRounds, zero |-> FALSE]
Readings == [dev : Devices, id : Ids, zero : BOOLEAN] \cup {NoReading}

\* A device without a session refuses every query with error 0x0017.
AnswersOf(d) ==
  IF session[d] THEN Answers ELSE {"refused"} \cup (Answers \cap {"unsent"})

\* The packets that answer query q of round id in the way a: all fragments
\* of the data, or one packet without data, or nothing.
FragmentsSent(c, a) ==
  {f \in 0 .. Len(Carries[c]) - 1 : a # "unsent" /\ (f = 0 \/ a \in {"zero", "power"})}

Replies(q, id, a) ==
  {[dev |-> q[1], cmd |-> q[2], id |-> id, frag |-> f, body |-> a] :
     f \in FragmentsSent(q[2], a)}

LoginReply(d, success) ==
  [dev |-> d, cmd |-> Login, id |-> NextId, frag |-> 0,
   body |-> IF success THEN "ok" ELSE "error"]

KeysOf(p) == IF p.cmd = Login THEN {} ELSE Carries[p.cmd][p.frag + 1]

\* SpeedwireTokenRepository::find
TokenFor(p) == [dev |-> p.dev, cmd |-> p.cmd, id |-> p.id]

\* An error reply that makes the loop log in again. (The mutant has the test
\* of the command mask the wrong way round.)
ReloginMasked(p) == \/ p.body = "refused" /\ p.cmd \in Masked
                    \/ p.body = "error" /\ p.cmd = Login
Relogin(p) == \/ p.body = "refused" /\ p.cmd \notin Masked
              \/ p.body = "error" /\ p.cmd = Login

-----------------------------------------------------------------------------
Init ==
  /\ pc = "top"
  /\ needs_login = TRUE
  /\ night_mode = FALSE
  /\ interval = DayInterval
  /\ elapsed = 0
  /\ inverter_query = FALSE
  /\ tokens = {}
  /\ data_map = [k \in Keys |-> NoReading]
  /\ round = 0
  /\ net = {}
  /\ session = [d \in Devices |-> FALSE]

-----------------------------------------------------------------------------
(* The main loop.                                                          *)

\* The head of a pass: the interval is taken from night_mode, then reset.
PassHead ==
  /\ pc = "top"
  /\ interval' = IF night_mode THEN NightInterval ELSE DayInterval
  /\ night_mode' = FALSE

BeginPass ==
  /\ PassHead
  /\ ~needs_login
  /\ pc' = "query"
  /\ UNCHANGED <<needs_login, elapsed, inverter_query, tokens, data_map,
                 round, net, session>>

\* Log off and log in all devices: those in "in" accept, those in "heard"
\* send a reply.
BeginLogin(in, heard) ==
  /\ PassHead
  /\ needs_login
  /\ needs_login' = FALSE
  /\ session' = [d \in Devices |-> d \in in]
  /\ IF LoginTokens
       THEN /\ tokens' = tokens \cup {TokenOf(<<d, Login>>, NextId) : d \in Devices}
            /\ net' = {p \in net : p.id # NextId}
                        \cup {LoginReply(d, d \in in) : d \in heard}
       ELSE UNCHANGED <<tokens, net>>
  /\ pc' = "login_dispatch"
  /\ UNCHANGED <<elapsed, inverter_query, data_map, round>>

\* start_time is set back by more than an interval (the mutant: by just one)
OneInterval == interval
LoginElapsed == interval + 1

\* so that a round follows the login at once.
EndLoginDispatch ==
  /\ pc = "login_dispatch"
  /\ elapsed' = LoginElapsed
  /\ pc' = "query"
  /\ UNCHANGED <<needs_login, night_mode, interval, inverter_query, tokens,
                 data_map, round, net, session>>

\* The repository after a round was sent: sendQueryRequest adds a token. (The
\* mutant does not clear the repository first.)
Sent(answer) == {TokenOf(q, NextId) : q \in {r \in Queries : answer[r] # "unsent"}}
SentUncleared(answer) == tokens \cup Sent(answer)
RoundTokens(answer) == Sent(answer)

\* Is the next round due? (The mutant also waits for the previous round.)
RoundIsDueOnceQuiet == elapsed > interval /\ ~inverter_query
RoundIsDue == elapsed > interval

\* Clear the tokens of the previous round and send the queries of the next;
\* the device behind query q answers in the way answer[q].
StartRound(answer) ==
  /\ pc = "query"
  /\ RoundIsDue
  /\ elapsed' = elapsed - interval
  /\ round' = NextId
  /\ tokens' = RoundTokens(answer)
  /\ net' = {p \in net : p.id # NextId}
              \cup UNION {Replies(q, NextId, answer[q]) : q \in Queries}
  /\ inverter_query' = (inverter_query \/ Devices # {})
  /\ pc' = "dispatch"
  /\ UNCHANGED <<needs_login, night_mode, interval, data_map, session>>

SkipRound ==
  /\ pc = "query"
  /\ ~RoundIsDue
  /\ pc' = "dispatch"
  /\ UNCHANGED <<needs_login, loopVars, tokens, data_map, round, net, session>>

EndDispatch ==
  /\ pc = "dispatch"
  /\ pc' = "aggregate"
  /\ UNCHANGED <<needs_login, loopVars, tokens, data_map, round, net, session>>

\* getTokenRepository().size() == 0 (The mutant leaves the test out.)
NotWaitedFor == TRUE
AllSettled == tokens = {}

\* All tokens are gone: derive the aggregated values and decide on the night
\* mode. The derived values go to the consumers and are not kept here.
Aggregate ==
  /\ pc = "aggregate"
  /\ inverter_query
  /\ AllSettled
  /\ inverter_query' = FALSE
  /\ night_mode' = (data_map[Mpp1] # NoReading /\ data_map[Mpp1].zero)
  /\ pc' = "top"
  /\ UNCHANGED <<needs_login, interval, elapsed, tokens, data_map, round,
                 net, session>>

SkipAggregate ==
  /\ pc = "aggregate"
  /\ ~inverter_query \/ ~AllSettled
  /\ pc' = "top"
  /\ UNCHANGED <<needs_login, loopVars, tokens, data_map, round, net, session>>

-----------------------------------------------------------------------------
(* InverterPacketReceiver::receive, called from within dispatch.           *)

Dispatching == pc \in {"login_dispatch", "dispatch"}

\* Is there a token for the reply? (The mutant asks for the round only.)
IsOfRound(p) == p.id = round
IsKnown(p) == TokenFor(p) \in tokens

\* No token, or one whose command the reply does not match: DROPPED.
DropReply(p) ==
  /\ Dispatching
  /\ ~IsKnown(p) \/ p.body = "garbled"
  /\ UNCHANGED vars

Answered(p) ==
  /\ Dispatching
  /\ IsKnown(p)

\* An error settles the query. (The mutant returns before the removal.)
TokenKept(p) == tokens
AfterError(p) == tokens \ {TokenFor(p)}

ReceiveError(p) ==
  /\ Answered(p)
  /\ p.body \in {"refused", "error"}
  /\ needs_login' = (needs_login \/ Relogin(p))
  /\ tokens' = AfterError(p)
  /\ UNCHANGED <<pc, loopVars, data_map, round, net, session>>

\* The last fragment takes the token away, whatever came before it. (The
\* mutant does not look at the fragment counter.)
AnyFragment(p) == TRUE
LastFragment(p) == p.frag = 0

ReceiveData(p) ==
  /\ Answered(p)
  /\ p.body \in {"ok", "zero", "power"}
  /\ data_map' = [k \in Keys |->
                    IF k \in KeysOf(p)
                      THEN [dev |-> p.dev, id |-> p.id, zero |-> p.body = "zero"]
                      ELSE data_map[k]]
  /\ tokens' = IF LastFragment(p) THEN tokens \ {TokenFor(p)} ELSE tokens
  /\ UNCHANGED <<pc, needs_login, loopVars, round, net, session>>

Receive(p) == DropReply(p) \/ ReceiveError(p) \/ ReceiveData(p)

-----------------------------------------------------------------------------
(* The environment.                                                        *)

Deliverable(p) == TokenFor(p) \in tokens /\ p.body # "garbled"

\* Time passes while the loop waits in dispatch; elapsed is read nowhere
\* between two dispatches but in StartRound and SkipRound.
Tick ==
  /\ pc = "dispatch"
  /\ elapsed < MaxElapsed
  /\ (Prompt => \A p \in net : ~Deliverable(p))
  /\ elapsed' = elapsed + 1
  /\ UNCHANGED <<pc, needs_login, night_mode, interval, inverter_query,
                 tokens, data_map, round, net, session>>

LoseSession(d) ==
  /\ session[d]
  /\ session' = [session EXCEPT ![d] = FALSE]
  /\ UNCHANGED <<pc, needs_login, loopVars, tokens, data_map, round, net>>

-----------------------------------------------------------------------------
LoginStep == \E in \in SUBSET Accepts, heard \in SUBSET Devices : BeginLogin(in, heard)

RoundStep ==
  \E answer \in [Queries -> AllAnswers] :
    /\ \A q \in Queries : answer[q] \in AnswersOf(q[1])
    /\ StartRound(answer)

MainLoop == \/ BeginPass \/ LoginStep \/ EndLoginDispatch
            \/ RoundStep \/ SkipRound
            \/ EndDispatch \/ Aggregate \/ SkipAggregate

Next == \/ MainLoop
        \/ \E p \in net : Receive(p)
        \/ Tick
        \/ \E d \in Volatile : LoseSession(d)

Spec == Init /\ [][Next]_vars

-----------------------------------------------------------------------------
(* Fairness.                                                               *)

\* while(true), with dispatch returning after its poll timeout, and time
\* passing while it waits.
LoopFairness == WF_vars(MainLoop) /\ SF_vars(Tick)

\* A device is not cut off for ever: now and then a login gets through, a
\* device without a session refuses an unmasked query, and its refusal is
\* delivered.
RecoveryFairness ==
  \A d \in Devices :
    /\ SF_vars(\E in \in SUBSET Accepts, heard \in SUBSET Devices :
                 d \in in /\ BeginLogin(in, heard))
    /\ SF_vars(\E answer \in [Queries -> AllAnswers] :
                 /\ \A q \in Queries : answer[q] \in AnswersOf(q[1])
                 /\ \E c \in Plan[d] \ Masked : answer[<<d, c>>] = "refused"
                 /\ StartRound(answer))
    /\ SF_vars(\E p \in net : /\ p.dev = d /\ p.cmd \notin Masked
                              /\ p.body = "refused" /\ ReceiveError(p))

\* No last fragment and no error reply is lost: dispatch drains the sockets.
\* Now and then a login gets through to all devices that accept it.
DeliveryFairness ==
  /\ SF_vars(\E heard \in SUBSET Devices : BeginLogin(Accepts, heard))
  /\ \A q \in Queries :
      SF_vars(\E p \in net : /\ <<p.dev, p.cmd>> = q /\ p.frag = 0
                             /\ ReceiveError(p) \/ ReceiveData(p))

FairSpec     == Spec /\ LoopFairness
RecoverySpec == FairSpec /\ RecoveryFairness
PromptSpec   == FairSpec /\ DeliveryFairness

-----------------------------------------------------------------------------
(* Properties.                                                             *)

TypeOK ==
  /\ pc \in {"top", "login_dispatch", "query", "dispatch", "aggregate"}
  /\ needs_login \in BOOLEAN
  /\ night_mode \in BOOLEAN
  /\ interval \in {DayInterval, NightInterval}
  /\ elapsed \in 0 .. MaxElapsed
  /\ inverter_query \in BOOLEAN
  /\ tokens \subseteq Tokens
  /\ data_map \in [Keys -> Readings]
  /\ round \in Ids
  /\ net \subseteq Packets
  /\ session \in [Devices -> BOOLEAN]

(* Outside a login every token belongs to a query of the current round:     *)
(* "clear any remaining command tokens" (main.cpp:238) leaves none behind   *)
(* that a late reply to an earlier round could still match.                 *)
TokensCurrent ==
  \A t \in tokens : t.cmd # Login => t.id = round /\ t.cmd \in Plan[t.dev]

(* A reply changes the data map only if it answers the round under way: no  *)
(* packet that was delayed, duplicated or overtaken by a later round brings *)
(* back an old reading (PacketReceiver.cpp:101-116, 154-175).               *)
NoStaleReading ==
  [][\A k \in Keys : data_map'[k] # data_map[k] => data_map'[k].id = round]_vars

(* A login token lives only until the round that the login forces           *)
(* (main.cpp:230, 235-239). It never reaches the test of the repository's   *)
(* size, so an unanswered login cannot hold up the derived values.          *)
LoginTokensShortLived ==
  (\E t \in tokens : t.cmd = Login) =>
    \/ pc = "login_dispatch"
    \/ pc = "query" /\ elapsed > interval

(* Once the values of a round are derived, none of its queries is open, so  *)
(* no reading arrives after the derivation it should have been part of.     *)
SettledWhenQuiet ==
  ~inverter_query => \A t \in tokens : t.cmd = Login

(* Values are derived from what was answered: of every query of the round   *)
(* the last fragment has been taken into the data map, or the query could   *)
(* not be sent or was answered with an error. A query that is only partly   *)
(* answered is waited for (PacketReceiver.cpp:149, 178, main.cpp:249, 315). *)
InRound(q) == {p \in net : <<p.dev, p.cmd>> = q /\ p.id = round}
NotSent(q) == InRound(q) = {}
Refused(q) == \E p \in InRound(q) : p.body \in {"refused", "error"}
IsRead(q)  == \A k \in Carries[q[2]][1] \cap Keys : data_map[k].id = round

Accounted(q) == NotSent(q) \/ Refused(q) \/ IsRead(q)

DerivedFromAnswers ==
  [][inverter_query /\ ~inverter_query' => \A q \in Queries : Accounted(q)]_vars

(* The loop implements the abstract rounds of queries: whatever arrives      *)
(* late, twice or in another order, a query is settled at most once in its  *)
(* round, and writes only its own entries of the data map, and none once it  *)
(* is settled: the second copy of a reply does not undo what another        *)
(* inverter has since written to an entry that both share                   *)
(* (PacketReceiver.cpp:101-116, 154-180, main.cpp:238-239, 315).            *)
Pending == {<<t.dev, t.cmd>> : t \in {u \in tokens : u.cmd # Login}}

DataOf ==
  [q \in Queries |-> Keys \cap UNION {Carries[q[2]][f + 1] : f \in 0 .. Len(Carries[q[2]]) - 1}]

Rounds == INSTANCE QueryRounds WITH
  Data <- DataOf, Rounds <- PidRounds, pending <- Pending, readings <- data_map,
  waiting <- inverter_query, listening <- Dispatching

RoundsSpec == Rounds!Spec

(* Rounds keep coming, whatever is lost, refused or garbled: a device that  *)
(* never answers holds up the derived values but not the queries.           *)
RoundsKeepComing == \A i \in Ids : []<>(round = i)

(* A device that accepts the credentials and lost its session is logged in  *)
(* again (PacketReceiver.cpp:127-151, main.cpp:223-231).                    *)
SessionRecovers == \A d \in Accepts : ~session[d] ~> session[d]

(* When every query is answered before the next tick, every wait for the    *)
(* data of a round ends, errors included (main.cpp:314-315).                *)
EveryRoundDerived == inverter_query ~> ~inverter_query

(* "wait for inverter to respond with all data before deriving aggregated   *)
(* inverter values", "enable / disable night mode based on the dc power on  *)
(* mpp1" (main.cpp:313, 320): night mode is not entered on the dc power of  *)
(* an earlier round.                                                       *)
DarkInThisRound ==
  [][inverter_query /\ ~inverter_query' /\ night_mode' => data_map[Mpp1].id = round]_vars

=============================================================================
