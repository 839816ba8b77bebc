----------------------------- MODULE MCNightMode -----------------------------
(* InverterPolling with a history variable, to compare the query interval    *)
(* that each pass uses with what the last derivation found out.              *)
EXTENDS MCInverterPolling

VARIABLE dark   \* the last derivation saw no dc power on mpp1

InitDark == Init /\ dark = FALSE

NextDark ==
  /\ Next
  /\ dark' = IF inverter_query /\ ~inverter_query' THEN night_mode' ELSE dark

SpecDark == InitDark /\ [][NextDark]_<<vars, dark>>

(* "enable / disable night mode based on the dc power on mpp1"               *)
(* (main.cpp:320): as long as the last derivation saw no dc power, every     *)
(* pass uses the night interval.                                             *)
NightModeLasts ==
  [][pc = "top" /\ pc' # "top" /\ dark => interval' = NightInterval]_<<vars, dark>>
=============================================================================
