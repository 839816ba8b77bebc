------------------------- MODULE InfluxProducerProofs -------------------------
(***************************************************************************)
(* Proofs about InfluxProducer, for every set of devices and values, all    *)
(* measurement times and a clock that runs for any time.                    *)
(***************************************************************************)
EXTENDS InfluxProducer, TLAPS

USE KindAssumption, TimesAssumption, NowAssumption

(* The point that waits for the next value is a new one.                    *)
PointIsNew ==
  /\ influxPoint.name = Name
  /\ influxPoint.tags = {}
  /\ influxPoint.stamp.of = NoTime

(* While a packet is handled all written values have its time, and those    *)
(* whose time is converted by the emeter's cache have the stamp that the    *)
(* cache still holds. After that, what is written is a single value.        *)
ByEmeterCache(w) == Timed(w) /\ KindOf[w.dev] \in {"emeter", "house"}

InPacket(w) ==
  /\ w.time = packet.time
  /\ ByEmeterCache(w) =>
       last["emeter"] = [sma_time |-> packet.time, system_time |-> w.point.stamp]

PacketStamps ==
  /\ packet # NoPacket => \A w \in written : InPacket(w)
  /\ packet = NoPacket => \A v, w \in written : v = w

PacketTyped ==
  packet = NoPacket \/ /\ packet.stage \in {"elements", "derived"}
                       /\ packet.dev \in Devices
                       /\ packet.time \in Times \cup {NoTime}
                       /\ packet.todo \subseteq Elements

IInv == TypeOK /\ PointIsNew /\ StampIsOwn /\ PointIsOwn /\ PacketStamps

-----------------------------------------------------------------------------
(* What a call of produce does, whoever makes it: caches stay coherent, a   *)
(* cache that already holds the time is left as it is, and the new value w  *)
(* carries its own stamp and tags.                                         *)
Value(w, d, element, time) ==
  /\ w.dev = d /\ w.element = element /\ w.time = time
  /\ w.point.stamp \in Stamps
  /\ w.point.name = Name
  /\ w.point.tags = Tags(d, element)
  /\ w.point.stamp.of = IF Timed(w) THEN time ELSE NoTime

Coherent ==
  /\ last \in [Caches -> [sma_time : Times \cup {NoTime}, system_time : Stamps]]
  /\ \A c \in Caches : last[c].system_time.of = last[c].sma_time
  /\ influxPoint.stamp \in Stamps
  /\ PointIsNew

Effect(d, element, time, before, w) ==
  /\ written' = before \cup {w}
  /\ Value(w, d, element, time)
  /\ Coherent'
  /\ ByEmeterCache(w) =>
       last'["emeter"] = [sma_time |-> time, system_time |-> w.point.stamp]
  /\ last["emeter"].sma_time = time => last'["emeter"] = last["emeter"]

LEMMA ProduceKeeps ==
  ASSUME IInv, NEW d \in Devices, NEW element \in Elements, NEW time \in Times \cup {NoTime},
         NEW before, Produce(d, element, time, before)
  PROVE  \E w : Effect(d, element, time, before, w)
<1> DEFINE kind == KindOf[d]
           cache == CacheOf(kind)
           mapping == Lookup(last[cache], time)
           stamp == IF time = NoTime \/ kind = "other" THEN influxPoint.stamp
                    ELSE IF kind = "experimental" THEN Convert(time)
                    ELSE mapping.system_time
           point == [name |-> influxPoint.name, tags |-> influxPoint.tags \cup Tags(d, element),
                     stamp |-> stamp]
           w == [point |-> point, dev |-> d, element |-> element, time |-> time]
<1>1. kind \in Kinds
  OBVIOUS
<1>2. /\ last' = IF time # NoTime /\ kind \in CachedKinds
                   THEN [last EXCEPT ![cache] = mapping] ELSE last
      /\ written' = before \cup {w}
      /\ influxPoint' = NextPoint(point)
  BY DEF Produce
<1>3. point = [name |-> Name, tags |-> Tags(d, element), stamp |-> stamp]
  <2> HIDE DEF stamp
  <2>1. influxPoint.name = Name /\ influxPoint.tags \cup Tags(d, element) = Tags(d, element)
    BY DEF IInv, PointIsNew
  <2>2. QED
    BY <2>1
<1>4. Convert(time) \in Stamps /\ Convert(time).of = time
  BY DEF Convert, Stamp, Stamps, IInv, TypeOK
<1>5. influxPoint.stamp \in Stamps /\ influxPoint.stamp.of = NoTime
  BY DEF IInv, TypeOK, PointIsNew
<1>6. influxPoint' = [name |-> Name, tags |-> {}, stamp |-> Stamp(NoTime, now)]
  <2> HIDE DEF point
  <2>1. point.name = Name
    BY <1>3
  <2>2. QED
    BY <1>2, <2>1 DEF NextPoint, NewPoint
<1>7. influxPoint'.stamp \in Stamps /\ PointIsNew'
  BY <1>6 DEF Stamp, Stamps, PointIsNew, IInv, TypeOK
<1>8. /\ Coherent'
      /\ stamp \in Stamps
      /\ stamp.of = IF time # NoTime /\ kind # "other" THEN time ELSE NoTime
      /\ time # NoTime /\ kind \in {"emeter", "house"} =>
           last'["emeter"] = [sma_time |-> time, system_time |-> stamp]
      /\ last["emeter"].sma_time = time => last'["emeter"] = last["emeter"]
  <2>1. CASE kind \in CachedKinds
    <3>1. cache \in Caches
      BY <2>1 DEF CacheOf, Caches, CachedKinds
    <3>2. /\ mapping \in [sma_time : Times \cup {NoTime}, system_time : Stamps]
          /\ mapping.sma_time = time /\ mapping.system_time.of = time
          /\ last[cache].sma_time = time => mapping = last[cache]
      BY <1>4, <3>1 DEF Lookup, IsConverted, IInv, TypeOK
    <3>3. last' \in [Caches -> [sma_time : Times \cup {NoTime}, system_time : Stamps]]
      BY <1>2, <3>1, <3>2 DEF IInv, TypeOK
    <3>4. \A c \in Caches : last'[c].system_time.of = last'[c].sma_time
      BY <1>2, <3>1, <3>2 DEF IInv, TypeOK
    <3>5. last["emeter"].sma_time = time => last'["emeter"] = last["emeter"]
      BY <1>2, <3>1, <3>2 DEF IInv, TypeOK, Caches
    <3>6. time # NoTime => stamp = mapping.system_time /\ last'[cache] = mapping
      BY <1>2, <2>1, <3>1 DEF IInv, TypeOK, CachedKinds
    <3>7. stamp \in Stamps /\ stamp.of = time
      BY <1>5, <2>1, <3>2, <3>6 DEF NoTime, Stamps
    <3>8. kind \in {"emeter", "house"} => cache = "emeter"
      BY DEF CacheOf
    <3>9. time # NoTime /\ kind \in {"emeter", "house"} =>
            last'["emeter"] = [sma_time |-> time, system_time |-> stamp]
      BY <3>2, <3>6, <3>8
    <3>10. kind # "other"
      BY <2>1 DEF CachedKinds
    <3> HIDE DEF mapping, stamp
    <3>11. QED
      BY <1>7, <3>3, <3>4, <3>5, <3>7, <3>9, <3>10 DEF Coherent
  <2>2. CASE kind \notin CachedKinds
    <3>1. last' = last
      BY <1>2, <2>2
    <3>2. kind \in {"experimental", "other"}
      BY <1>1, <2>2 DEF Kinds
    <3>3. /\ stamp \in Stamps
          /\ stamp.of = IF time # NoTime /\ kind # "other" THEN time ELSE NoTime
      BY <1>4, <1>5, <3>2
    <3> HIDE DEF mapping, stamp
    <3>4. QED
      BY <1>7, <3>1, <3>2, <3>3 DEF Coherent, IInv, TypeOK
  <2>3. QED
    BY <2>1, <2>2
<1>9. Value(w, d, element, time)
  <2> HIDE DEF stamp
  <2>1. w = [point |-> [name |-> Name, tags |-> Tags(d, element), stamp |-> stamp],
             dev |-> d, element |-> element, time |-> time]
    BY <1>3
  <2> HIDE DEF w, point
  <2>2. QED
    BY <1>8, <2>1 DEF Value, Timed
<1>10. ByEmeterCache(w) =>
         last'["emeter"] = [sma_time |-> time, system_time |-> w.point.stamp]
  <2> HIDE DEF stamp
  <2>1. w.point.stamp = stamp
    BY <1>3
  <2> HIDE DEF w, point
  <2>2. QED
    BY <1>8, <1>9, <2>1 DEF Value, Timed, ByEmeterCache
<1>11. Effect(d, element, time, before, w)
  <2> HIDE DEF w, point
  <2> QED
    BY <1>2, <1>8, <1>9, <1>10 DEF Effect
<1>12. QED
  BY <1>11

(* A value that is written for the packet keeps the invariant.              *)
LEMMA PacketProduce ==
  ASSUME IInv, packet # NoPacket, packet'.time = packet.time, packet' # NoPacket,
         NEW d \in Devices, NEW element \in Elements,
         Produce(d, element, packet.time, written), now' = now, PacketTyped'
  PROVE  IInv'
<1>1. packet.time \in Times \cup {NoTime}
  BY DEF IInv, TypeOK
<1>2. PICK w : Effect(d, element, packet.time, written, w)
  BY <1>1, ProduceKeeps
<1>3. /\ written' = written \cup {w}
      /\ Value(w, d, element, packet.time)
      /\ Coherent'
  BY <1>2 DEF Effect
<1>4. TypeOK'
  BY <1>1, <1>3 DEF IInv, TypeOK, Value, Coherent, PacketTyped
<1>5. StampIsOwn'
  BY <1>3 DEF IInv, StampIsOwn, Value, Timed
<1>6. PointIsOwn'
  BY <1>3 DEF IInv, PointIsOwn, Value
<1>7. ASSUME NEW v \in written PROVE InPacket(v)'
  <2>1. InPacket(v)
    BY DEF IInv, PacketStamps
  <2>2. CASE ByEmeterCache(v)
    <3>1. last["emeter"] = [sma_time |-> packet.time, system_time |-> v.point.stamp]
      BY <2>1, <2>2 DEF InPacket
    <3>2. last'["emeter"] = last["emeter"]
      BY <1>2, <3>1 DEF Effect
    <3>3. QED
      BY <2>1, <3>1, <3>2 DEF InPacket
  <2>3. CASE ~ByEmeterCache(v)
    BY <2>1, <2>3 DEF InPacket, ByEmeterCache, Timed
  <2>4. QED
    BY <2>2, <2>3
<1>8. InPacket(w)'
  BY <1>2 DEF Effect, Value, InPacket, ByEmeterCache, Timed
<1>9. PacketStamps'
  BY <1>3, <1>7, <1>8 DEF PacketStamps
<1>10. QED
  BY <1>3, <1>4, <1>5, <1>6, <1>9 DEF IInv, Coherent

-----------------------------------------------------------------------------
LEMMA InitInv == Init => IInv
  BY DEF Init, IInv, TypeOK, PointIsNew, StampIsOwn, PointIsOwn, PacketStamps,
         NewPoint, Stamp, Stamps, Caches, NoPacket

LEMMA StepInv == IInv /\ [Next]_vars => IInv'
<1> SUFFICES ASSUME IInv, [Next]_vars PROVE IInv'
  OBVIOUS
<1>1. ASSUME NEW d \in Devices, NEW time \in Times \cup {NoTime}, BeginPacket(d, time)
      PROVE IInv'
  <2>1. /\ packet' = [stage |-> "elements", dev |-> d, time |-> time, todo |-> Elements]
        /\ written' = {}
        /\ UNCHANGED <<now, last, influxPoint>>
    BY <1>1 DEF BeginPacket
  <2>2. TypeOK'
    BY <2>1 DEF IInv, TypeOK
  <2>3. packet' # NoPacket
    BY <2>1 DEF NoPacket
  <2>4. QED
    BY <2>1, <2>2, <2>3 DEF IInv, PointIsNew, StampIsOwn, PointIsOwn, PacketStamps
<1>2. ASSUME NEW d \in Devices, NEW element \in Elements, NEW time \in Times \cup {NoTime},
             Measure(d, element, time)
      PROVE IInv'
  <2>1. packet = NoPacket /\ packet' = NoPacket /\ now' = now
    BY <1>2 DEF Measure
  <2>2. PICK w : Effect(d, element, time, {}, w)
    BY <1>2, ProduceKeeps DEF Measure
  <2>3. written' = {w} /\ Value(w, d, element, time) /\ Coherent'
    BY <2>2 DEF Effect
  <2>4. TypeOK'
    BY <2>1, <2>3 DEF IInv, TypeOK, Value, Coherent
  <2>5. StampIsOwn' /\ PointIsOwn'
    BY <2>3 DEF StampIsOwn, PointIsOwn, Value, Timed
  <2>6. PacketStamps'
    BY <2>1, <2>3 DEF PacketStamps
  <2>7. QED
    BY <2>3, <2>4, <2>5, <2>6 DEF IInv, Coherent
<1>3. ASSUME NEW element \in Elements, Consume(element)
      PROVE IInv'
  <2>1. /\ packet # NoPacket
        /\ packet' = [packet EXCEPT !.todo = @ \ {element}]
        /\ now' = now
    BY <1>3 DEF Consume, NoPacket
  <2>2. packet' # NoPacket /\ packet'.time = packet.time /\ PacketTyped'
    BY <1>3, <2>1 DEF Consume, IInv, TypeOK, PacketTyped, NoPacket
  <2>3. CASE Produce(packet.dev, element, packet.time, written)
    BY <2>1, <2>2, <2>3, PacketProduce DEF IInv, TypeOK
  <2>4. CASE UNCHANGED <<last, written, influxPoint>>
    <3>1. TypeOK'
      BY <2>1, <2>2, <2>4 DEF IInv, TypeOK, PacketTyped
    <3>2. QED
      BY <2>1, <2>2, <2>4, <3>1
      DEF IInv, PointIsNew, StampIsOwn, PointIsOwn, PacketStamps, InPacket
  <2>5. QED
    BY <1>3, <2>3, <2>4 DEF Consume
<1>4. ASSUME EndOfObisData PROVE IInv'
  <2>1. /\ packet # NoPacket
        /\ packet' = [packet EXCEPT !.stage = "derived"]
        /\ UNCHANGED <<now, last, influxPoint, written>>
    BY <1>4 DEF EndOfObisData, NoPacket
  <2>2. packet' # NoPacket /\ packet'.time = packet.time /\ PacketTyped'
    BY <1>4, <2>1 DEF EndOfObisData, IInv, TypeOK, PacketTyped, NoPacket
  <2>3. TypeOK'
    BY <2>1, <2>2 DEF IInv, TypeOK, PacketTyped
  <2>4. QED
    BY <2>1, <2>2, <2>3
    DEF IInv, PointIsNew, StampIsOwn, PointIsOwn, PacketStamps, InPacket
<1>5. ASSUME NEW d \in Devices, NEW element \in Elements, Derive(d, element)
      PROVE IInv'
  <2>1. packet # NoPacket /\ packet' = packet /\ now' = now
    BY <1>5 DEF Derive, NoPacket
  <2>2. PacketTyped'
    BY <2>1 DEF IInv, TypeOK, PacketTyped
  <2>3. QED
    BY <1>5, <2>1, <2>2, PacketProduce DEF Derive
<1>6. CASE EndPacket
  <2>1. packet' = NoPacket /\ written' = {} /\ UNCHANGED <<now, last, influxPoint>>
    BY <1>6 DEF EndPacket
  <2>2. QED
    BY <2>1 DEF IInv, TypeOK, PointIsNew, StampIsOwn, PointIsOwn, PacketStamps
<1>7. CASE Tick
  <2>1. /\ now' \in 0 .. MaxNow
        /\ UNCHANGED <<last, influxPoint, packet, written>>
    BY <1>7 DEF Tick, IInv, TypeOK
  <2>2. QED
    BY <2>1 DEF IInv, TypeOK, PointIsNew, StampIsOwn, PointIsOwn, PacketStamps, InPacket
<1>8. CASE UNCHANGED vars
  BY <1>8 DEF vars, IInv, TypeOK, PointIsNew, StampIsOwn, PointIsOwn, PacketStamps, InPacket
<1>9. QED
  BY <1>1, <1>2, <1>3, <1>4, <1>5, <1>6, <1>7, <1>8 DEF Next

LEMMA Invariant == Spec => []IInv
  BY InitInv, StepInv, PTL DEF Spec

(* The state of the producer is well-typed, and each cache holds the        *)
(* conversion of the measurement time that it names                         *)
(* (InfluxDBProducer.cpp:37-98).                                            *)
THEOREM ProducerTypeCorrect == Spec => []TypeOK
<1>1. IInv => TypeOK
  BY DEF IInv
<1>2. QED
  BY <1>1, Invariant, PTL

(* However values of devices of all kinds alternate, each one is stored     *)
(* under its own measurement time (InfluxDBProducer.cpp:37-98, 131-133).    *)
THEOREM StampsAreOwn == Spec => []StampIsOwn
<1>1. IInv => StampIsOwn
  BY DEF IInv
<1>2. QED
  BY <1>1, Invariant, PTL

(* The values of an emeter packet and of the house share one time stamp,    *)
(* however long the packet takes (InfluxDBProducer.cpp:40-47, 66-73).       *)
THEOREM PacketHasOneStamp == Spec => []OneStampPerPacket
<1>1. IInv => OneStampPerPacket
  <2> SUFFICES ASSUME IInv, NEW v \in written, NEW w \in written, Timed(v), Timed(w),
                      {KindOf[v.dev], KindOf[w.dev]} \subseteq {"emeter", "house"}
               PROVE v.point.stamp = w.point.stamp
    BY DEF OneStampPerPacket
  <2>1. CASE packet = NoPacket
    BY <2>1 DEF IInv, PacketStamps
  <2>2. CASE packet # NoPacket
    <3>1. InPacket(v) /\ InPacket(w)
      BY <2>2 DEF IInv, PacketStamps
    <3>2. ByEmeterCache(v) /\ ByEmeterCache(w)
      BY DEF ByEmeterCache
    <3>3. QED
      BY <3>1, <3>2 DEF InPacket
  <2>3. QED
    BY <2>1, <2>2
<1>2. QED
  BY <1>1, Invariant, PTL

(* No value is stored with the name or the tags of another one              *)
(* (InfluxDBProducer.cpp:104-128, 135-143).                                 *)
THEOREM PointsAreOwn == Spec => []PointIsOwn
<1>1. IInv => PointIsOwn
  BY DEF IInv
<1>2. QED
  BY <1>1, Invariant, PTL
=============================================================================
