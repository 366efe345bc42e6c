------------------------------- MODULE MCDevices -------------------------------
EXTENDS Devices

CONSTANTS pc, s1, s2, s3, c1, c2

\* One desktop, its connections, and commands that are all for it.
MCDeviceOf == [s \in Sockets |-> pc]
MCTargetOf == [c \in Commands |-> pc]

===============================================================================
