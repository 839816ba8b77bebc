------------------------------- MODULE Startup -------------------------------
(***************************************************************************)
(* The startup of src/src/main.cpp before the main loop: a search for the   *)
(* devices; if a required one is missing, an http request to each device    *)
(* that is known by its address only, which wakes up a sleeping inverter,   *)
(* and a second search. Each request is made by a client of its own, an     *)
(* HttpTransfer, and holds up everything else until it returns.             *)
(*                                                                         *)
(* The devices, which sleep and wake, and the search, which is a library's, *)
(* are the environment.                                                    *)
(***************************************************************************)
EXTENDS Integers, Sequences, FiniteSets

CONSTANTS
  Devices,
  PreRegistered,   \* the devices of preRegisterDevice: the address is known
  Required,        \* the devices of requireDevice
  Reliable,        \* devices that, once awake, stay so and answer each search
  Wakeable,        \* devices that a connection to them wakes up
  NoDevice,            \* not a device
  \* of HttpTransfer:
  Responses, InitialBuffer, Reserve, ReallocMayFail, FinReports

ASSUME DeviceAssumption ==
  /\ PreRegistered \subseteq Devices
  /\ Required \subseteq Devices
  /\ Reliable \subseteq Devices
  /\ Wakeable \subseteq Devices
  /\ NoDevice \notin Devices

VARIABLES
  stage,        \* "search", "check", "wakeup", "search again" or "loop"
  awake,        \* the devices that are awake
  registered,   \* the devices that the discoverer has registered fully
  devices,      \* what the wakeup has still to go through
  target,       \* the device that a request is made to
  unreached,    \* the devices for which there was no socket
  \* of HttpTransfer:
  phase, socket, recv_buffer_size, response, sent, peer, nbytes_total, result

Http == INSTANCE HttpTransfer

\* What HttpTransfer assumes of its constants.
ASSUME ClientAssumption ==
  /\ \A r \in Responses : Http!WellFormed(r)
  /\ InitialBuffer \in Nat \ {0}
  /\ Reserve \in Nat \ {0}
  /\ ReallocMayFail \in BOOLEAN

clientVars == <<phase, socket, recv_buffer_size, response, sent, peer,
                nbytes_total, result>>
discoveryVars == <<stage, awake, registered, devices, target, unreached>>
vars == <<discoveryVars, clientVars>>

-----------------------------------------------------------------------------
Init ==
  /\ stage = "search"
  /\ awake \in SUBSET Devices
  /\ registered = {}
  /\ devices = {}
  /\ target = NoDevice
  /\ unreached = {}
  /\ Http!Init

\* discoverDevices: who is asleep does not answer, nor does everyone else.
Discover(answering) ==
  /\ answering \subseteq awake
  /\ Reliable \cap awake \subseteq answering
  /\ registered' = registered \cup answering
  /\ UNCHANGED <<awake, devices, target, unreached, clientVars>>

Search(answering) ==
  /\ stage = "search"
  /\ Discover(answering)
  /\ stage' = "check"

\* getNumberOfMissingDevices() > 0 (The mutant only asks whether any device
\* was found at all.)
NoneFound == registered = {}
DevicesMissing == ~(Required \subseteq registered)

\* hasIPAddressOnly (The mutant does not ask for an address.)
Unregistered == Devices \ registered
AddressOnly == PreRegistered \ registered

BeginWakeup ==
  /\ stage = "check"
  /\ DevicesMissing
  /\ stage' = "wakeup"
  /\ devices' = AddressOnly
  /\ UNCHANGED <<awake, registered, target, unreached, clientVars>>

SkipWakeup ==
  /\ stage = "check"
  /\ ~DevicesMissing
  /\ stage' = "loop"
  /\ UNCHANGED <<awake, registered, devices, target, unreached, clientVars>>

NewClient ==
  /\ phase' = "idle"
  /\ socket' = "none"
  /\ recv_buffer_size' = InitialBuffer
  /\ response' = response
  /\ sent' = 0
  /\ peer' = "open"
  /\ nbytes_total' = 0
  /\ result' = Http!NoResult

\* A client is constructed for each device.
BeginRequest(d) ==
  /\ stage = "wakeup"
  /\ target = NoDevice
  /\ target' = d
  /\ devices' = devices \ {d}
  /\ NewClient
  /\ UNCHANGED <<stage, awake, registered, unreached>>

\* sendHttpGetRequest gets no socket ...
NoSocket ==
  /\ target # NoDevice
  /\ phase = "idle"
  /\ Http!RejectRequest
  /\ unreached' = unreached \cup {target}
  /\ UNCHANGED <<stage, awake, registered, devices, target>>

\* ... or tries to connect, which may wake up the device.
Connect ==
  /\ target # NoDevice
  /\ phase = "idle"
  /\ Http!OpenSocket
  /\ awake' = awake \cup ({target} \cap Wakeable)
  /\ UNCHANGED <<stage, registered, devices, target, unreached>>

SendOrFail ==
  /\ Http!Send
  /\ UNCHANGED discoveryVars

Receive ==
  /\ Http!PollReturns
  /\ UNCHANGED discoveryVars

Interrupt ==
  /\ Http!PollFailure
  /\ UNCHANGED discoveryVars

\* The response code is printed only; the client is destroyed.
EndRequest ==
  /\ target # NoDevice
  /\ phase = "done"
  /\ target' = NoDevice
  /\ UNCHANGED <<stage, awake, registered, devices, unreached, clientVars>>

EndWakeup ==
  /\ stage = "wakeup"
  /\ target = NoDevice
  /\ devices = {}
  /\ stage' = "search again"
  /\ UNCHANGED <<awake, registered, devices, target, unreached, clientVars>>

SearchAgain(answering) ==
  /\ stage = "search again"
  /\ Discover(answering)
  /\ stage' = "loop"

-----------------------------------------------------------------------------
(* The devices.                                                            *)

Respond ==
  /\ Http!Server
  /\ UNCHANGED discoveryVars

WakeUp(d) ==
  /\ stage # "loop"
  /\ d \notin awake
  /\ awake' = awake \cup {d}
  /\ UNCHANGED <<stage, registered, devices, target, unreached, clientVars>>

FallAsleep(d) ==
  /\ stage # "loop"
  /\ d \in awake \ Reliable
  /\ awake' = awake \ {d}
  /\ UNCHANGED <<stage, registered, devices, target, unreached, clientVars>>

-----------------------------------------------------------------------------
Discovery ==
  \/ \E answering \in SUBSET awake : Search(answering) \/ SearchAgain(answering)
  \/ BeginWakeup \/ SkipWakeup \/ EndWakeup
  \/ \E d \in devices : BeginRequest(d)
  \/ EndRequest

Request == NoSocket \/ Connect \/ SendOrFail

Next ==
  \/ Discovery \/ Request \/ Receive \/ Interrupt \/ Respond
  \/ \E d \in Devices : WakeUp(d) \/ FallAsleep(d)

Spec == Init /\ [][Next]_vars

\* One thread, which is never stopped. connect gives up after some time. The
\* devices owe nothing.
FairSpec == Spec /\ WF_vars(Discovery) /\ WF_vars(Request) /\ WF_vars(Receive)

-----------------------------------------------------------------------------
(* Properties.                                                             *)

TypeOK ==
  /\ stage \in {"search", "check", "wakeup", "search again", "loop"}
  /\ awake \subseteq Devices
  /\ registered \subseteq Devices
  /\ devices \subseteq PreRegistered
  /\ target \in PreRegistered \cup {NoDevice}
  /\ unreached \subseteq PreRegistered
  /\ Http!TypeOK

(* The main loop is entered, unless a wakeup request never returns          *)
(* (main.cpp:84-111): on linux, when the server has closed the connection   *)
(* in order or the buffer could not be enlarged, recv returns 0 and the     *)
(* receive loop goes on, for ever (HttpClient.cpp:288-305). Nothing else -   *)
(* who is asleep, stalls, resets or refuses - keeps the startup from it.     *)
NothingToRead == ~Http!Readable /\ peer = "fin"
NoRoom == Http!Readable /\ Http!Room(recv_buffer_size) = 0

Stuck == phase = "receiving" /\ (NothingToRead \/ NoRoom)

LoopIsEntered == <>(stage = "loop") \/ <>[]Stuck

(* A required device that can be woken up by its address is not missing in  *)
(* the main loop, which never searches again (main.cpp:88-106), unless the  *)
(* system had no socket for it.                                            *)
WokenIsFound ==
  stage = "loop" =>
    Required \cap PreRegistered \cap Wakeable \cap Reliable \subseteq registered \cup unreached

=============================================================================
