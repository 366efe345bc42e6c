CONSTANTS
  pc = pc
  s1 = s1
  s2 = s2
  s3 = s3
  c1 = c1
  c2 = c2
  Devices = {pc}
  Sockets = {s1, s2}
  Commands = {c1}
  MayFail = TRUE
  NoSocket = NoSocket
  DeviceOf <- MCDeviceOf
  TargetOf <- MCTargetOf

SPECIFICATION FairSpec

INVARIANTS
  TypeOK
  ThrownIsFinalised

PROPERTIES
  RevokedIsFinal
  KeepsDeviceCall
  StartedIsFinished

CHECK_DEADLOCK FALSE
