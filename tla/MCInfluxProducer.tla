-------------------------- MODULE MCInfluxProducer --------------------------
(* Every kind of device once, and two emeters, which share a cache.          *)
EXTENDS InfluxProducer

MCKindOf == [d \in Devices |->
               CASE d = "house" -> "house"       [] d \in {"meter", "meter2"} -> "emeter"
                 [] d = "probe" -> "experimental" [] d = "pv" -> "inverter"
                 [] d = "battery" -> "battery"   [] d = "gateway" -> "other"]
=============================================================================
