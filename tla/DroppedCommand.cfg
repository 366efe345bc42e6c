CONSTANTS
  pc = pc
  s1 = s1
  s2 = s2
  s3 = s3
  c1 = c1
  c2 = c2
  Devices = {pc}
  Sockets = {s1}
  Commands = {c1}
  MayFail = FALSE
  NoSocket = NoSocket
  DeviceOf <- MCDeviceOf
  TargetOf <- MCTargetOf

SPECIFICATION Spec

INVARIANTS
  DeliveryFailuresAreFinalised

CHECK_DEADLOCK FALSE
