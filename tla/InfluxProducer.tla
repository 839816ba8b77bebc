--------------------------- MODULE InfluxProducer ---------------------------
(***************************************************************************)
(* InfluxDBProducer::produce of src/src/InfluxDBProducer.cpp, called for    *)
(* the values of inverters and, by EmeterPacketReceiver::receive of         *)
(* src/src/PacketReceiver.cpp, for each value of an emeter packet and for    *)
(* the values derived at the end of it.                                     *)
(*                                                                         *)
(* A measurement time is converted to a time of the clock that depends on   *)
(* when it is converted. A time stamp is therefore a pair: the measurement  *)
(* time it is of (NoTime for none) and the time of the clock it was taken   *)
(* at. One point is kept, and used for one value after the other.           *)
(***************************************************************************)
EXTENDS Naturals

CONSTANTS
  Devices,       \* the devices that values are produced for
  KindOf,        \* [Devices -> Kinds], by serial number and device class
  Elements,      \* the values of a packet, or derived from it
  Times,         \* measurement times other than 0
  MaxNow         \* bound on the clock

NoTime == 0      \* the default of parameter time: no measurement time
Name == "sma_emeter"

CachedKinds == {"house", "emeter", "inverter", "battery"}
Kinds == CachedKinds \cup {"experimental", "other"}

ASSUME KindAssumption  == KindOf \in [Devices -> Kinds]
ASSUME TimesAssumption == Times \subseteq Nat \ {NoTime}
ASSUME NowAssumption   == MaxNow \in Nat

VARIABLES
  now,           \* the system clock
  last,          \* lastEmeterTime, lastInverterTime, lastBatteryTime
  influxPoint,   \* the point that the next value is put into
  packet,        \* the emeter packet being received
  written        \* the points written for this packet or this value

vars == <<now, last, influxPoint, packet, written>>

-----------------------------------------------------------------------------
Stamp(of, at) == [of |-> of, at |-> at]

\* SpeedwireTime::convertEmeterTimeToUnixEpochTime and its inverter twin.
Convert(time) == Stamp(time, now)

\* The emeter's cache is that of the house too.
Caches == {"emeter", "inverter", "battery"}
CacheOf(kind) == IF kind = "house" THEN "emeter" ELSE kind

\* if (last.sma_time != time) (The mutants convert a time just once, or each
\* time again.)
OnceConverted(mapping, time) == mapping.sma_time # NoTime
NeverConverted(mapping, time) == FALSE
IsConverted(mapping, time) == mapping.sma_time = time

\* (The mutant leaves the converted time as it was.)
LookupHalf(mapping, time) == [mapping EXCEPT !.sma_time = time]
Lookup(mapping, time) ==
  IF IsConverted(mapping, time) THEN mapping
  ELSE [sma_time |-> time, system_time |-> Convert(time)]

\* What a new point looks like: it is stamped with the time it is made at.
NewPoint(name) == [name |-> name, tags |-> {}, stamp |-> Stamp(NoTime, now)]

\* The tags of a value. A device of no known kind gets no device tag.
DeviceTag(kind) == IF kind \in {"emeter", "experimental"} THEN "meter" ELSE kind
Tags(d, element) ==
  {<<"serial", d>>, <<"element", element>>}
    \cup (IF KindOf[d] = "other" THEN {} ELSE {<<"device", DeviceTag(KindOf[d])>>})

\* The point that goes on with the name of the last one. (The mutant forgets
\* to begin a new one.)
SamePoint(point) == point
NextPoint(point) == NewPoint(point.name)

\* InfluxDBProducer::produce, with the points that were written before it.
Produce(d, element, time, before) ==
  LET kind == KindOf[d]
      cache == CacheOf(kind)
      mapping == Lookup(last[cache], time)
      stamp == IF time = NoTime \/ kind = "other" THEN influxPoint.stamp
               ELSE IF kind = "experimental" THEN Convert(time)
               ELSE mapping.system_time
      point == [name |-> influxPoint.name, tags |-> influxPoint.tags \cup Tags(d, element),
                stamp |-> stamp]
  IN /\ last' = IF time # NoTime /\ kind \in CachedKinds
                  THEN [last EXCEPT ![cache] = mapping] ELSE last
     /\ written' = before \cup {[point |-> point, dev |-> d, element |-> element, time |-> time]}
     /\ influxPoint' = NextPoint(point)

-----------------------------------------------------------------------------
NoPacket == [stage |-> "none"]

Init ==
  /\ now = 0
  /\ last = [c \in Caches |-> [sma_time |-> NoTime, system_time |-> Stamp(NoTime, 0)]]
  /\ influxPoint = NewPoint(Name)
  /\ packet = NoPacket
  /\ written = {}

\* EmeterPacketReceiver::receive finds the device by its serial number. The
\* values of the packet are handled one by one ...
BeginPacket(d, time) ==
  /\ packet = NoPacket
  /\ KindOf[d] \in {"emeter", "experimental"}
  /\ packet' = [stage |-> "elements", dev |-> d, time |-> time, todo |-> Elements]
  /\ written' = {}
  /\ UNCHANGED <<now, last, influxPoint>>

\* ... and passed to the filter, which hands on to the producer some of them,
Consume(element) ==
  /\ packet.stage = "elements"
  /\ element \in packet.todo
  /\ packet' = [packet EXCEPT !.todo = @ \ {element}]
  /\ \/ Produce(packet.dev, element, packet.time, written)
     \/ UNCHANGED <<last, written, influxPoint>>
  /\ UNCHANGED now

\* then the end of the packet is signalled,
EndOfObisData ==
  /\ packet.stage = "elements"
  /\ packet.todo = {}
  /\ packet' = [packet EXCEPT !.stage = "derived"]
  /\ UNCHANGED <<now, last, influxPoint, written>>

\* upon which values are derived for the device and for the house.
Derive(d, element) ==
  /\ packet.stage = "derived"
  /\ d = packet.dev \/ KindOf[d] = "house"
  /\ Produce(d, element, packet.time, written)
  /\ UNCHANGED <<now, packet>>

EndPacket ==
  /\ packet.stage = "derived"
  /\ packet' = NoPacket
  /\ written' = {}
  /\ UNCHANGED <<now, last, influxPoint>>

\* A value of an inverter, with the time it was measured at, if any.
Measure(d, element, time) ==
  /\ packet = NoPacket
  /\ KindOf[d] \in {"inverter", "battery", "other"}
  /\ Produce(d, element, time, {})
  /\ UNCHANGED <<now, packet>>

Tick ==
  /\ now < MaxNow
  /\ now' = now + 1
  /\ UNCHANGED <<last, influxPoint, packet, written>>

Next ==
  \/ \E d \in Devices, time \in Times \cup {NoTime} :
       \/ BeginPacket(d, time)
       \/ \E element \in Elements : Measure(d, element, time)
  \/ \E element \in Elements :
       \/ Consume(element)
       \/ \E d \in Devices : Derive(d, element)
  \/ EndOfObisData \/ EndPacket \/ Tick

Spec == Init /\ [][Next]_vars

-----------------------------------------------------------------------------
(* Properties.                                                             *)

Stamps == [of : Times \cup {NoTime}, at : 0 .. MaxNow]

(* A cache holds the conversion of its own measurement time.                *)
TypeOK ==
  /\ now \in 0 .. MaxNow
  /\ last \in [Caches -> [sma_time : Times \cup {NoTime}, system_time : Stamps]]
  /\ \A c \in Caches : last[c].system_time.of = last[c].sma_time
  /\ influxPoint.stamp \in Stamps
  /\ packet = NoPacket \/ /\ packet.stage \in {"elements", "derived"}
                          /\ packet.dev \in Devices
                          /\ packet.time \in Times \cup {NoTime}
                          /\ packet.todo \subseteq Elements
  /\ \A w \in written : /\ w.point.stamp \in Stamps
                        /\ w.dev \in Devices
                        /\ w.time \in Times \cup {NoTime}

Timed(w) == w.time # NoTime /\ KindOf[w.dev] # "other"

(* A value is stored under its own measurement time, not under that of the  *)
(* device that used the cache before it; a value without one is stored      *)
(* under no measurement time (InfluxDBProducer.cpp:37-98, 131-133).         *)
StampIsOwn ==
  \A w \in written : w.point.stamp.of = IF Timed(w) THEN w.time ELSE NoTime

(* All values of an emeter packet, and the household values derived from    *)
(* it, are stored under one time stamp, however long it takes to handle the *)
(* packet, so that they can be related to each other in the database        *)
(* (InfluxDBProducer.cpp:40-47, 66-73; PacketReceiver.cpp:45-58).           *)
OneStampPerPacket ==
  \A v, w \in written :
    Timed(v) /\ Timed(w) /\ {KindOf[v.dev], KindOf[w.dev]} \subseteq {"emeter", "house"} =>
      v.point.stamp = w.point.stamp

(* The one point that is used for all values carries nothing over from one  *)
(* value to the next (InfluxDBProducer.cpp:104-128, 135-143).               *)
PointIsOwn ==
  \A w \in written :
    w.point.name = Name /\ w.point.tags = Tags(w.dev, w.element)

=============================================================================
