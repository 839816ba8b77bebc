----------------------------- MODULE QueryRounds -----------------------------
(***************************************************************************)
(* What the inverter polling loop of src/src/main.cpp promises, with the   *)
(* packets, their fragments and errors, the tokens, the timers and the     *)
(* logins left out.                                                        *)
(*                                                                         *)
(* Queries are sent in rounds, at most one round each time that the loop   *)
(* has listened. Within a round a query is settled at most once, and data   *)
(* are taken for it only before that: from then on it can be repeated and   *)
(* delayed as it may. Aggregated values are derived only when a round is    *)
(* under way and none of its queries is left unsettled.                    *)
(***************************************************************************)
EXTENDS Naturals

CONSTANTS
  Queries,      \* every query a round may send, a pair of device and command
  Keys,         \* the entries that data are taken into
  Data,         \* [Queries -> SUBSET Keys]: what a query may bring
  Rounds,       \* rounds are numbered modulo Rounds
  NoReading     \* the reading of an entry before the first data

VARIABLES
  round,        \* the current round
  pending,      \* the queries of it that are not settled
  readings,     \* the newest reading of each entry
  waiting,      \* a round is under way, its values not yet derived
  listening     \* the loop takes what arrives

vars == <<round, pending, readings, waiting, listening>>

TypeOK ==
  /\ round \in 0 .. Rounds - 1
  /\ pending \subseteq Queries
  /\ waiting \in BOOLEAN
  /\ listening \in BOOLEAN

Init ==
  /\ round = 0
  /\ pending = {}
  /\ readings = [k \in Keys |-> NoReading]
  /\ waiting = FALSE
  /\ listening = FALSE

\* The next round starts, and what was left of the last one is given up; then
\* the loop listens.
Begin ==
  /\ ~listening
  /\ round' = (round + 1) % Rounds
  /\ pending' \in SUBSET Queries
  /\ waiting' \in BOOLEAN
  /\ waiting \/ pending' # {} => waiting'
  /\ listening' = TRUE
  /\ UNCHANGED readings

\* The loop listens without a new round, or no longer.
Listen ==
  /\ listening' = ~listening
  /\ UNCHANGED <<round, pending, readings, waiting>>

\* Some of the data of a query that is not settled become the readings of the
\* round.
Take(q, keys, zero) ==
  /\ listening
  /\ q \in pending
  /\ keys \subseteq Data[q]
  /\ readings' = [k \in Keys |-> IF k \in keys
                                   THEN [dev |-> q[1], id |-> round, zero |-> zero]
                                   ELSE readings[k]]
  /\ UNCHANGED <<round, waiting, listening>>

\* There is more to come of the query ...
Partly(q, keys, zero) == Take(q, keys, zero) /\ UNCHANGED pending

\* ... or it is settled, by its last data or, without any, by an error.
Settle(q, keys, zero) == Take(q, keys, zero) /\ pending' = pending \ {q}

\* The aggregated values of the round are derived.
Derive ==
  /\ ~listening
  /\ waiting
  /\ pending = {}
  /\ waiting' = FALSE
  /\ UNCHANGED <<round, pending, readings, listening>>

Next ==
  \/ Begin \/ Listen \/ Derive
  \/ \E q \in Queries : \E keys \in SUBSET Data[q], zero \in BOOLEAN :
       Partly(q, keys, zero) \/ Settle(q, keys, zero)

Spec == Init /\ [][Next]_vars

=============================================================================
