CONSTANTS
  Devices = {"house", "meter", "meter2", "probe", "pv", "battery", "gateway"}
  KindOf <- MCKindOf
  Elements = {"e1", "e2"}
  Times = {1, 2}
  MaxNow = 2
SPECIFICATION Spec
INVARIANT TypeOK
INVARIANT StampIsOwn
INVARIANT OneStampPerPacket
INVARIANT PointIsOwn
