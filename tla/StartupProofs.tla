---------------------------- MODULE StartupProofs ----------------------------
(***************************************************************************)
(* Proofs about Startup, for every set of devices, whoever sleeps, wakes,   *)
(* answers or stalls, and for every http server.                            *)
(***************************************************************************)
EXTENDS Startup, FiniteSetTheorems, TLAPS

USE DeviceAssumption

(* What the steps of a client have to do with the startup: a socket is open *)
(* while a request is under way, and a request is that of a target.         *)
UnderWay == {"connecting", "sending", "receiving"}

OneRequest ==
  /\ phase \in {"idle", "done"} \cup UnderWay
  /\ socket = "open" <=> phase \in UnderWay
  /\ phase \in UnderWay => target # NoDevice
  /\ stage \in {"search", "check", "search again", "loop"} => target = NoDevice
  /\ devices \subseteq PreRegistered

(* The devices that the startup promises to find, and how far each one has  *)
(* got: it is found or awake, has no socket, or is still to be woken.       *)
Promised == Required \cap PreRegistered \cap Wakeable \cap Reliable

Met == registered \cup unreached \cup awake

ToWake(d) == d \in devices \/ (target = d /\ phase = "idle")

Progress ==
  /\ stage = "wakeup" => \A d \in Promised : d \in Met \/ ToWake(d)
  /\ stage = "search again" => Promised \subseteq Met
  /\ stage = "loop" => Promised \subseteq registered \cup unreached

IInv == OneRequest /\ Progress

-----------------------------------------------------------------------------
(* Steps of the client that the startup does not notice.                    *)
LEMMA ClientStep ==
  ASSUME IInv, UNCHANGED discoveryVars, phase \in UnderWay,
         phase' \in UnderWay \/ phase' = "done",
         socket' = "open" <=> phase' \in UnderWay
  PROVE  IInv'
<1>1. OneRequest'
  BY DEF IInv, OneRequest, UnderWay, discoveryVars
<1>2. Progress'
  BY DEF IInv, Progress, Met, ToWake, UnderWay, discoveryVars
<1>3. QED
  BY <1>1, <1>2 DEF IInv

(* A promised device stays met: once awake it does not fall asleep again.   *)
LEMMA StaysMet ==
  ASSUME IInv, Reliable \cap awake \subseteq awake', UNCHANGED <<registered, unreached>>,
         UNCHANGED <<stage, devices, target, clientVars>>
  PROVE  IInv'
<1>1. OneRequest'
  BY DEF IInv, OneRequest, clientVars
<1>2. \A d \in Promised : d \in Met => d \in Met'
  BY DEF Promised, Met
<1>3. Progress'
  BY <1>2 DEF IInv, Progress, ToWake, clientVars
<1>4. QED
  BY <1>1, <1>3 DEF IInv

-----------------------------------------------------------------------------
LEMMA InitInv == Init => IInv
  BY DEF Init, IInv, OneRequest, Progress, UnderWay, Http!Init

LEMMA StepInv == IInv /\ [Next]_vars => IInv'
<1> SUFFICES ASSUME IInv, [Next]_vars PROVE IInv'
  OBVIOUS
<1> USE DEF UnderWay
<1>1. ASSUME NEW answering, Search(answering) PROVE IInv'
  BY <1>1 DEF Search, Discover, IInv, OneRequest, Progress, clientVars
<1>2. ASSUME NEW answering, SearchAgain(answering) PROVE IInv'
  <2>1. /\ stage = "search again" /\ stage' = "loop"
        /\ registered' = registered \cup answering
        /\ Reliable \cap awake \subseteq answering
        /\ UNCHANGED <<target, devices, unreached, phase, socket>>
    BY <1>2 DEF SearchAgain, Discover, clientVars
  <2>2. Promised \subseteq registered' \cup unreached'
    BY <2>1 DEF IInv, Progress, Promised, Met
  <2>3. QED
    BY <2>1, <2>2 DEF IInv, OneRequest, Progress
<1>3. CASE BeginWakeup
  <2>1. /\ stage = "check" /\ stage' = "wakeup"
        /\ devices' = PreRegistered \ registered
        /\ UNCHANGED <<registered, target, phase, socket>>
    BY <1>3 DEF BeginWakeup, AddressOnly, clientVars
  <2>2. \A d \in Promised : d \in Met' \/ ToWake(d)'
    BY <2>1 DEF Promised, Met, ToWake
  <2>3. OneRequest'
    BY <2>1 DEF IInv, OneRequest
  <2>4. Progress'
    BY <2>1, <2>2 DEF Progress
  <2>5. QED
    BY <2>3, <2>4 DEF IInv
<1>4. CASE SkipWakeup
  <2>1. /\ stage = "check" /\ stage' = "loop"
        /\ Required \subseteq registered
        /\ UNCHANGED <<registered, devices, unreached, target, phase, socket>>
    BY <1>4 DEF SkipWakeup, DevicesMissing, clientVars
  <2>2. QED
    BY <2>1 DEF IInv, OneRequest, Progress, Promised
<1>5. ASSUME NEW d \in devices, BeginRequest(d) PROVE IInv'
  <2>1. /\ stage = "wakeup" /\ stage' = "wakeup" /\ target = NoDevice /\ target' = d
        /\ devices' = devices \ {d}
        /\ phase' = "idle" /\ socket' = "none"
        /\ UNCHANGED <<registered, unreached, awake>>
        /\ d # NoDevice
    BY <1>5 DEF BeginRequest, NewClient, IInv, OneRequest
  <2>2. \A e \in Promised : e \in Met' \/ ToWake(e)'
    BY <2>1 DEF IInv, Progress, Promised, Met, ToWake
  <2>3. QED
    BY <2>1, <2>2 DEF IInv, OneRequest, Progress
<1>6. CASE NoSocket
  <2>1. /\ target # NoDevice /\ phase' = "done" /\ socket' = "none"
        /\ unreached' = unreached \cup {target}
        /\ UNCHANGED <<stage, awake, registered, devices, target>>
    BY <1>6 DEF NoSocket, Http!RejectRequest
  <2>2. stage = "wakeup" => \A d \in Promised : d \in Met' \/ ToWake(d)'
    BY <2>1 DEF IInv, Progress, Met, ToWake
  <2>3. stage \notin {"search", "check", "search again", "loop"}
    BY <2>1 DEF IInv, OneRequest
  <2>4. OneRequest'
    BY <2>1, <2>3 DEF IInv, OneRequest
  <2>5. Progress'
    <3>1. stage' # "search again" /\ stage' # "loop"
      BY <2>1, <2>3
    <3>2. stage' = "wakeup" => stage = "wakeup"
      BY <2>1
    <3>3. QED
      BY <2>2, <3>1, <3>2 DEF Progress
  <2>6. QED
    BY <2>4, <2>5 DEF IInv
<1>7. CASE Connect
  <2>1. /\ target # NoDevice /\ phase' = "connecting" /\ socket' = "open"
        /\ awake' = awake \cup ({target} \cap Wakeable)
        /\ UNCHANGED <<stage, registered, devices, target, unreached>>
    BY <1>7 DEF Connect, Http!OpenSocket
  <2>2. stage = "wakeup" => \A d \in Promised : d \in Met' \/ ToWake(d)'
    BY <2>1 DEF IInv, Progress, Promised, Met, ToWake
  <2>3. stage \notin {"search", "check", "search again", "loop"}
    BY <2>1 DEF IInv, OneRequest
  <2>4. OneRequest'
    BY <2>1, <2>3 DEF IInv, OneRequest
  <2>5. Progress'
    <3>1. stage' # "search again" /\ stage' # "loop"
      BY <2>1, <2>3
    <3>2. stage' = "wakeup" => stage = "wakeup"
      BY <2>1
    <3>3. QED
      BY <2>2, <3>1, <3>2 DEF Progress
  <2>6. QED
    BY <2>4, <2>5 DEF IInv
<1>8. CASE SendOrFail
  <2>1. /\ UNCHANGED discoveryVars /\ phase \in {"connecting", "sending"}
        /\ \/ phase' \in {"sending", "receiving"} /\ socket' = socket
           \/ phase' = "done" /\ socket' = "closed"
    BY <1>8 DEF SendOrFail, Http!Send, Http!Connected, Http!ConnectFails, Http!SendRequest,
       Http!SendFails
  <2>2. QED
    BY <2>1, ClientStep DEF IInv, OneRequest
<1>9. CASE Receive \/ Interrupt
  <2>1. /\ UNCHANGED discoveryVars /\ phase = "receiving"
        /\ \/ phase' = "receiving" /\ socket' = socket
           \/ phase' = "done" /\ socket' = "closed"
    BY <1>9 DEF Receive, Interrupt, Http!PollReturns, Http!ReceivePiece, Http!ReceiveNothing,
       Http!PollHup, Http!RecvFails, Http!PollError, Http!PollTimeout, Http!PollFailure,
       Http!EndReceive, Http!ParseAndClose, Http!GiveUp
  <2>2. QED
    BY <2>1, ClientStep DEF IInv, OneRequest
<1>10. CASE Respond
  <2>1. /\ UNCHANGED discoveryVars /\ phase = "receiving"
        /\ phase' = "receiving" /\ socket' = socket
    BY <1>10 DEF Respond, Http!Server, Http!ServerSends, Http!ServerCloses
  <2>2. QED
    BY <2>1, ClientStep DEF IInv, OneRequest
<1>11. CASE EndRequest
  <2>1. /\ target' = NoDevice /\ phase = "done"
        /\ UNCHANGED <<stage, awake, registered, devices, unreached, phase, socket>>
    BY <1>11 DEF EndRequest, clientVars
  <2>2. QED
    BY <2>1 DEF IInv, OneRequest, Progress, Met, ToWake
<1>12. CASE EndWakeup
  <2>1. /\ stage = "wakeup" /\ stage' = "search again"
        /\ target = NoDevice /\ devices = {}
        /\ UNCHANGED <<awake, registered, target, unreached, phase, socket>>
    BY <1>12 DEF EndWakeup, clientVars
  <2>2. \A d \in Promised : ~ToWake(d)
    BY <2>1 DEF Promised, ToWake
  <2>3. Promised \subseteq Met'
    BY <2>1, <2>2 DEF IInv, Progress, Met
  <2>4. OneRequest'
    <3>1. devices' \subseteq PreRegistered
      BY <1>12 DEF EndWakeup
    <3>2. QED
      BY <2>1, <3>1 DEF IInv, OneRequest
  <2>5. Progress'
    BY <2>1, <2>3 DEF Progress
  <2>6. QED
    BY <2>4, <2>5 DEF IInv
<1>13. ASSUME NEW d \in Devices, WakeUp(d) \/ FallAsleep(d) PROVE IInv'
  <2>1. /\ Reliable \cap awake \subseteq awake'
        /\ UNCHANGED <<stage, registered, devices, target, unreached, clientVars>>
    BY <1>13 DEF WakeUp, FallAsleep
  <2>2. QED
    BY <2>1, StaysMet
<1>14. CASE UNCHANGED vars
  BY <1>14 DEF vars, discoveryVars, clientVars, IInv, OneRequest, Progress, Met, ToWake
<1>15. QED
  BY <1>1, <1>2, <1>3, <1>4, <1>5, <1>6, <1>7, <1>8, <1>9, <1>10, <1>11, <1>12, <1>13, <1>14
     DEF Next, Discovery, Request

LEMMA Invariant == Spec => []IInv
  BY InitInv, StepInv, PTL DEF Spec

(* A required device that its address wakes up is registered when the main  *)
(* loop is entered, unless the system had no socket for it                  *)
(* (main.cpp:88-106).                                                       *)
THEOREM WokenAreFound == Spec => []WokenIsFound
<1>1. IInv => WokenIsFound
  BY DEF IInv, Progress, Promised, WokenIsFound
<1>2. QED
  BY <1>1, Invariant, PTL

-----------------------------------------------------------------------------
(* The client within the startup: each request is made by an HttpTransfer.  *)

(* Every step of the startup is one of the http client, or begins a new     *)
(* client, or does not touch it: what holds of a client of its own holds of *)
(* each one that the wakeup makes (main.cpp:93-101).                        *)
LEMMA StepOfClient ==
  ASSUME response \in Responses, Next
  PROVE  Http!Next \/ Http!Init' \/ UNCHANGED clientVars
<1>1. CASE Discovery
  <2>1. ASSUME NEW d \in devices, BeginRequest(d) PROVE Http!Init'
    BY <2>1 DEF BeginRequest, NewClient, Http!Init
  <2>2. QED
    BY <1>1, <2>1 DEF Discovery, Search, SearchAgain, Discover, BeginWakeup, SkipWakeup,
       EndWakeup, EndRequest
<1>2. CASE Request
  BY <1>2 DEF Request, NoSocket, Connect, SendOrFail, Http!Next, Http!Request
<1>3. CASE Receive \/ Interrupt \/ Respond
  BY <1>3 DEF Receive, Interrupt, Respond, Http!Next, Http!Iteration
<1>4. CASE \E d \in Devices : WakeUp(d) \/ FallAsleep(d)
  BY <1>4 DEF WakeUp, FallAsleep
<1>5. QED
  BY <1>1, <1>2, <1>3, <1>4 DEF Next

(* What the parser returns is a number each time.                           *)
LEMMA ParsedType ==
  ASSUME NEW r \in Responses, NEW n \in Nat
  PROVE  Http!Parse(r, n).code \in Int /\ Http!Parse(r, n).content \in Int
<1> USE ClientAssumption DEF Http!WellFormed, Http!NoLength, Http!Failure, Http!None,
                             Http!NoResult
<1>1. Http!ChunksSeen(r, n) \in Nat
  <2> DEFINE passed == {i \in 1 .. Len(r.chunkEnds) - 1 : r.head + r.chunkEnds[i] <= n}
  <2>1. Len(r.chunkEnds) - 1 \in Int
    OBVIOUS
  <2>2. IsFiniteSet(1 .. Len(r.chunkEnds) - 1)
    BY <2>1, FS_Interval
  <2>3. Cardinality(passed) \in Nat
    BY <2>2, FS_Subset, FS_CardinalityType
  <2>4. Http!Cardinality(passed) = Cardinality(passed)
    BY Zenon DEF Http!Cardinality, Cardinality
  <2>5. QED
    BY <2>3, <2>4 DEF Http!ChunksSeen
<1>2. Http!CodeSeen(r, n) \in Int
  BY DEF Http!CodeSeen, Http!CutShort
<1>3. /\ Http!ParseChunked(r, n).code \in Int
      /\ Http!ParseChunked(r, n).content \in Int
  BY <1>1, <1>2 DEF Http!ParseChunked
<1>4. /\ Http!ParsePlain(r, n).code \in Int
      /\ Http!ParsePlain(r, n).content \in Int
  BY <1>2 DEF Http!ParsePlain
<1>5. QED
  BY <1>3, <1>4 DEF Http!Parse

LEMMA ClientTyped ==
  ASSUME Http!TypeOK, Http!Next \/ Http!Init' \/ UNCHANGED clientVars
  PROVE  Http!TypeOK'
<1> USE ClientAssumption DEF Http!TypeOK, Http!serverVars, Http!NoResult, Http!Failure, Http!None
<1>1. Http!NoResult.code \in Int /\ Http!NoResult.content \in Int
  OBVIOUS
<1>2. /\ response.total \in Nat /\ sent \in Nat /\ nbytes_total \in Nat
      /\ \A b \in Http!Resized \cup {recv_buffer_size} : b \in Nat
  BY DEF Http!Resized, Http!WellFormed
<1>3. /\ Http!Parse(response, nbytes_total).code \in Int
      /\ Http!Parse(response, nbytes_total).content \in Int
  BY <1>2, ParsedType
<1>4. CASE Http!RejectRequest
  BY <1>2, <1>4 DEF Http!RejectRequest
<1>5. CASE Http!OpenSocket
  BY <1>2, <1>5 DEF Http!OpenSocket, Http!StartOffset, Http!WellFormed
<1>6. CASE Http!Send
  BY <1>6 DEF Http!Send, Http!Connected, Http!ConnectFails, Http!SendRequest, Http!SendFails
<1>7. ASSUME NEW k \in 1 .. response.total, Http!ReceivePiece(k)
      PROVE  Http!TypeOK'
  <2>1. /\ nbytes_total + k \in 0 .. sent /\ nbytes_total' = nbytes_total + k
        /\ UNCHANGED <<response, sent, peer>>
        /\ recv_buffer_size' \in Nat
    BY <1>2, <1>7 DEF Http!ReceivePiece
  <2>2. \/ UNCHANGED <<phase, socket, result>>
        \/ /\ phase' = "done" /\ socket' = "closed"
           /\ result' = Http!Parse(response, nbytes_total + k)
    BY <1>7, <2>1 DEF Http!ReceivePiece, Http!ParseAndClose
  <2>3. /\ Http!Parse(response, nbytes_total + k).code \in Int
        /\ Http!Parse(response, nbytes_total + k).content \in Int
    BY <1>2, <2>1, ParsedType
  <2>4. QED
    BY <2>1, <2>2, <2>3
<1>8. CASE Http!ReceiveNothing
  BY <1>2, <1>8 DEF Http!ReceiveNothing
<1>9. CASE \/ Http!PollHup \/ Http!RecvFails \/ Http!PollError
           \/ Http!PollTimeout \/ Http!PollFailure
  <2>1. Http!EndReceive /\ recv_buffer_size' \in Http!Resized \cup {recv_buffer_size}
    BY <1>9 DEF Http!PollHup, Http!RecvFails, Http!PollError, Http!PollTimeout,
       Http!PollFailure
  <2>2. /\ UNCHANGED <<response, sent, peer, nbytes_total>>
        /\ phase' = "done" /\ socket' = "closed"
        /\ result' \in {Http!NoResult, Http!Parse(response, nbytes_total)}
    BY <2>1 DEF Http!EndReceive, Http!ParseAndClose, Http!GiveUp
  <2>3. QED
    BY <1>1, <1>2, <1>3, <2>1, <2>2
<1>10. CASE Http!Server
  BY <1>2, <1>10 DEF Http!Server, Http!ServerSends, Http!ServerCloses
<1>11. CASE Http!Init'
  BY <1>11 DEF Http!Init, Http!WellFormed
<1>12. CASE UNCHANGED clientVars
  BY <1>12 DEF clientVars
<1>13. QED
  BY <1>4, <1>5, <1>6, <1>7, <1>8, <1>9, <1>10, <1>11, <1>12
     DEF Http!Next, Http!Request, Http!Iteration, Http!PollReturns

-----------------------------------------------------------------------------
(* The state of the startup is well-typed, with that of its client: only    *)
(* devices with a known address are targets, or left without a socket.      *)
THEOREM StartupTypeCorrect == Spec => []TypeOK
<1>1. Init => TypeOK
  BY ClientAssumption DEF Init, TypeOK, Http!Init, Http!TypeOK, Http!WellFormed,
     Http!NoResult, Http!Failure, Http!None
<1>2. TypeOK /\ [Next]_vars => TypeOK'
  <2>1. SUFFICES ASSUME TypeOK, [Next]_vars PROVE TypeOK'
    OBVIOUS
  <2>2. Http!TypeOK'
    <3>1. Http!TypeOK /\ response \in Responses
      BY <2>1 DEF TypeOK, Http!TypeOK
    <3>2. Http!Next \/ Http!Init' \/ UNCHANGED clientVars
      BY <2>1, <3>1, StepOfClient DEF vars
    <3>3. QED
      BY <3>1, <3>2, ClientTyped
  <2> USE <2>1 DEF TypeOK
  <2>3. CASE \E answering \in SUBSET awake : Search(answering) \/ SearchAgain(answering)
    BY <2>2, <2>3 DEF Search, SearchAgain, Discover
  <2>4. CASE BeginWakeup \/ SkipWakeup \/ EndWakeup \/ EndRequest
    BY <2>2, <2>4 DEF BeginWakeup, SkipWakeup, EndWakeup, EndRequest, AddressOnly
  <2>5. CASE \E d \in devices : BeginRequest(d)
    BY <2>2, <2>5 DEF BeginRequest
  <2>6. CASE Request
    BY <2>2, <2>6 DEF Request, NoSocket, Connect, SendOrFail, discoveryVars
  <2>7. CASE Receive \/ Interrupt \/ Respond
    BY <2>2, <2>7 DEF Receive, Interrupt, Respond, discoveryVars
  <2>8. CASE \E d \in Devices : WakeUp(d) \/ FallAsleep(d)
    BY <2>2, <2>8 DEF WakeUp, FallAsleep
  <2>9. CASE UNCHANGED vars
    BY <2>2, <2>9 DEF vars, discoveryVars
  <2>10. QED
    BY <2>3, <2>4, <2>5, <2>6, <2>7, <2>8, <2>9 DEF Next, Discovery
<1>3. QED
  BY <1>1, <1>2, PTL DEF Spec

(* Each request of the wakeup is a behaviour of HttpTransfer, up to the     *)
(* client of the next one (main.cpp:93-101).                                *)
THEOREM RequestsAreTransfers ==
  Spec => Http!Init /\ [][Http!Next \/ Http!Init']_clientVars
<1>1. Init => Http!Init
  BY DEF Init
<1>2. TypeOK /\ [Next]_vars => [Http!Next \/ Http!Init']_clientVars
  <2>1. TypeOK => response \in Responses
    BY DEF TypeOK, Http!TypeOK
  <2>2. QED
    BY <2>1, StepOfClient DEF vars
<1>3. QED
  BY <1>1, <1>2, StartupTypeCorrect, PTL DEF Spec
=============================================================================
