-------------------------- MODULE MCInverterPolling --------------------------
(* Small instances of InverterPolling: a pv inverter asked for dc power,    *)
(* which comes in two fragments, and a battery inverter asked for ac power. *)
EXTENDS InverterPolling

CONSTANTS pv, battery, dc, ac, mpp1, mpp2, acPower

MCPlan == [d \in {pv, battery} |-> IF d = pv THEN {dc} ELSE {ac}]
MCCarries == [c \in {dc, ac} |-> IF c = dc THEN <<{mpp2}, {mpp1}>> ELSE <<{acPower}>>]

(* The dc power of both inputs in one fragment. *)
OneFragment == [c \in {dc, ac} |-> IF c = dc THEN <<{mpp1, mpp2}>> ELSE <<{acPower}>>]

(* Only the dc power is asked for. *)
DcPlan == [d \in Devices |-> {dc}]

(* One battery inverter asked a masked and an unmasked command. *)
RecoveryPlan == [d \in {battery} |-> {dc, ac}]
=============================================================================
