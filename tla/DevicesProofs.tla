---------------------------- MODULE DevicesProofs ------------------------------
(***************************************************************************)
(* Proofs about Devices: its types, that revocation is final, that a       *)
(* request that throws leaves no open command, and that a command keeps    *)
(* the promises of DeviceCall, for any number of devices, connections and  *)
(* commands, with failures and restarts.                                   *)
(***************************************************************************)
EXTENDS Devices, TLAPS

\* The row, its caller and the desktop agree on each command.
CommandInv(c) ==
  /\ caller[c] \in {"none", "binding", "create"} => command[c] = "none"
  /\ caller[c] \in {"send", "start"} => command[c] = "QUEUED"
  /\ caller[c] = "write" => command[c] = "RUNNING"
  /\ caller[c] = "fail" => command[c] \in {"QUEUED", "RUNNING"}
  /\ caller[c] \in {"none", "binding", "create", "send", "start", "write", "fail"} =>
       travel[c] = "none"
  /\ caller[c] = "poll" => command[c] \in {"RUNNING", "COMPLETED", "FAILED"}
  /\ caller[c] # "done" => answer[c] = "none"
  /\ travel[c] \in {"none", "sent", "working"} => performed[c] = 0
  /\ travel[c] = "COMPLETED" => performed[c] = 1
  /\ performed[c] \in {0, 1}
  /\ command[c] = "COMPLETED" => performed[c] = 1
  /\ answer[c] = "COMPLETED" => performed[c] = 1
  /\ answer[c] = "threw" => travel[c] = "none" /\ command[c] \in {"none", "FAILED"}

ConnTypeOK ==
  /\ device    \in [Devices -> DeviceStatus]
  /\ bound     \in [Devices -> BOOLEAN]
  /\ revoking  \subseteq Devices
  /\ registry  \in [Devices -> Sockets \union {NoSocket}]
  /\ handler   \in [Sockets -> Handler]
  /\ wire      \in [Sockets -> Wire]
  /\ client    \in [Devices -> Sockets \union {NoSocket}]

CallTypeOK ==
  /\ command   \in [Commands -> CommandStatus]
  /\ caller    \in [Commands -> Caller]
  /\ answer    \in [Commands -> Answer]
  /\ travel    \in [Commands -> Travel]
  /\ via       \in [Commands -> Sockets \union {NoSocket}]
  /\ performed \in [Commands -> Nat]

\* What a handler works on, and what is registered, has been connected.
SocketInv ==
  /\ \A s \in Sockets : handler[s] # "none" => wire[s] # "none"
  /\ \A d \in Devices : registry[d] # NoSocket => wire[registry[d]] # "none"

DevicesInv == TypeOK /\ SocketInv /\ \A c \in Commands : CommandInv(c)

LEMMA TypesSplit == TypeOK <=> ConnTypeOK /\ CallTypeOK
  BY DEF TypeOK, ConnTypeOK, CallTypeOK

\* The rest of the system does not touch what concerns another command.
OthersKeep(c) ==
  \A o \in Commands \ {c} :
    /\ command'[o] = command[o] /\ caller'[o] = caller[o] /\ answer'[o] = answer[o]
    /\ travel'[o] = travel[o] /\ performed'[o] = performed[o]

LEMMA OthersInv ==
  ASSUME NEW c \in Commands, OthersKeep(c), \A o \in Commands : CommandInv(o), CommandInv(c)'
  PROVE  \A o \in Commands : CommandInv(o)'
<1>1. ASSUME NEW o \in Commands \ {c} PROVE CommandInv(o)'
  BY DEF OthersKeep, CommandInv
<1> QED BY <1>1

-------------------------------------------------------------------------------
(* Connections *)

LEMMA ClosingType ==
  ASSUME ConnTypeOK, NEW s \in Sockets, Closing(s)
  PROVE  wire' \in [Sockets -> Wire]
  BY DEF ConnTypeOK, Closing, Wire

LEMMA HandlerType ==
  ASSUME ConnTypeOK, NEW s \in Sockets, NEW from, NEW to \in Handler, HandlerMoves(s, from, to)
  PROVE  handler' \in [Sockets -> Handler]
  BY DEF ConnTypeOK, HandlerMoves

\* Nothing brings a revoked device back.
Revocation == \A d \in Devices : device[d] = "REVOKED" => device'[d] = "REVOKED"

LEMMA BeatsType ==
  ASSUME ConnTypeOK, NEW d \in Devices, Beats(d)
  PROVE  device' \in [Devices -> DeviceStatus] /\ Revocation
  BY DEF Beats, ConnTypeOK, DeviceStatus, Revocation

LEMMA ConnectionTypes ==
  ASSUME ConnTypeOK, NEW s \in Sockets, ConnectionStep(s)
  PROVE  ConnTypeOK' /\ Revocation /\ UNCHANGED callVars
<1>0. DeviceOf[s] \in Devices BY DevicesAssumption
<1>1. CASE Connect(s)
  BY <1>0, <1>1 DEF Connect, ConnTypeOK, Revocation, Handler, Wire
<1>2. CASE Lookup(s)
  <2>1. handler' \in [Sockets -> Handler]
    <3>1. HandlerMoves(s, "lookup", "heartbeat") \/ HandlerMoves(s, "lookup", "refused")
      BY <1>2 DEF Lookup
    <3> QED BY <3>1, HandlerType DEF Handler
  <2>2. wire' \in [Sockets -> Wire]
    <3>1. UNCHANGED wire \/ Closing(s) BY <1>2 DEF Lookup
    <3> QED BY <3>1, ClosingType DEF ConnTypeOK
  <2> QED BY <1>2, <2>1, <2>2 DEF Lookup, ConnTypeOK, Revocation
<1>3. CASE Heartbeat(s)
  <2>1. handler' \in [Sockets -> Handler]
    BY <1>3, HandlerType DEF Heartbeat, Handler
  <2>2. device' \in [Devices -> DeviceStatus] /\ Revocation
    BY <1>0, <1>3, BeatsType DEF Heartbeat
  <2> QED BY <1>3, <2>1, <2>2 DEF Heartbeat, ConnTypeOK
<1>4. CASE Register(s)
  <2>1. handler' \in [Sockets -> Handler]
    BY <1>4, HandlerType DEF Register, Handler
  <2> QED BY <1>0, <1>4, <2>1 DEF Register, ConnTypeOK, Revocation
<1>5. CASE ConnectThrows(s)
  <2>1. \E l \in {"lookup", "heartbeat"} : HandlerMoves(s, l, "refused")
    BY <1>5 DEF ConnectThrows
  <2>2. handler' \in [Sockets -> Handler] BY <2>1, HandlerType DEF Handler
  <2>3. device' \in [Devices -> DeviceStatus] /\ Revocation
    <3>1. UNCHANGED device \/ Beats(DeviceOf[s]) BY <1>5 DEF ConnectThrows
    <3>2. CASE UNCHANGED device BY <3>2 DEF ConnTypeOK, Revocation
    <3> QED BY <1>0, <3>1, <3>2, BeatsType
  <2> QED BY <1>5, <2>2, <2>3 DEF ConnectThrows, ConnTypeOK
<1>6. CASE ClientCloses(s) BY <1>0, <1>6 DEF ClientCloses, ConnTypeOK, Revocation
<1>7. CASE ServerCloses(s) BY <1>0, <1>7 DEF ServerCloses, ConnTypeOK, Revocation, Wire
<1> QED BY <1>1, <1>2, <1>3, <1>4, <1>5, <1>6, <1>7 DEF ConnectionStep

LEMMA ServiceTypes ==
  ASSUME ConnTypeOK, NEW d \in Devices, RevokeRow(d) \/ Disconnect(d) \/ Bind(d)
  PROVE  ConnTypeOK' /\ Revocation /\ UNCHANGED callVars
<1>1. CASE RevokeRow(d) BY <1>1 DEF RevokeRow, ConnTypeOK, DeviceStatus, Revocation
<1>2. CASE Disconnect(d)
  <2>1. wire' \in [Sockets -> Wire]
    <3>1. CASE registry[d] = NoSocket BY <1>2, <3>1 DEF Disconnect, ConnTypeOK
    <3>2. CASE registry[d] # NoSocket
      <4>1. registry[d] \in Sockets BY <3>2 DEF ConnTypeOK
      <4>2. Closing(registry[d]) BY <1>2, <3>2 DEF Disconnect
      <4> QED BY <4>1, <4>2 DEF ConnTypeOK, Closing, Wire
    <3> QED BY <3>1, <3>2
  <2> QED BY <1>2, <2>1 DEF Disconnect, ConnTypeOK, Revocation
<1>3. CASE Bind(d)
  <2>1. bound' = [bound EXCEPT ![d] = ~bound[d]] BY <1>3 DEF Bind
  <2>2. bound' \in [Devices -> BOOLEAN] BY <2>1 DEF ConnTypeOK
  <2> QED BY <1>3, <2>2 DEF Bind, ConnTypeOK, Revocation
<1> QED BY <1>1, <1>2, <1>3

\* No step connects a device that is out.
StaysOut == \A d \in Devices : Out(d) => Out(d)'

LEMMA SocketStep ==
  ASSUME ConnTypeOK, SocketInv, Revocation, NEW s \in Sockets, ConnectionStep(s)
  PROVE  SocketInv' /\ StaysOut
<1>0. DeviceOf[s] \in Devices BY DevicesAssumption
<1>1. CASE Connect(s)
  <2>1. /\ wire[s] = "none" /\ wire' = [wire EXCEPT ![s] = "open"]
        /\ handler' = [handler EXCEPT ![s] = "lookup"] /\ UNCHANGED registry
    BY <1>1 DEF Connect
  <2>2. \A d \in Devices : registry[d] # s
    BY <2>1, DevicesAssumption DEF SocketInv
  <2>3. SocketInv' BY <2>1, <2>2 DEF SocketInv, ConnTypeOK
  <2>4. StaysOut BY <2>1, <2>2 DEF StaysOut, Out, Reachable, Revocation, ConnTypeOK
  <2> QED BY <2>3, <2>4
<1>2. CASE Lookup(s)
  <2>1. /\ UNCHANGED <<device, registry>> /\ handler[s] = "lookup"
        /\ UNCHANGED wire \/ Closing(s)
        /\ \/ handler' = [handler EXCEPT ![s] = "refused"]
           \/ /\ device[DeviceOf[s]] # "REVOKED"
              /\ handler' = [handler EXCEPT ![s] = "heartbeat"]
    BY <1>2 DEF Lookup, HandlerMoves
  <2>2. \A x \in Sockets : wire'[x] = wire[x] \/ (wire[x] = "open" /\ wire'[x] = "closing")
    BY <2>1 DEF Closing, ConnTypeOK
  <2>3. SocketInv' BY <2>1, <2>2 DEF SocketInv, ConnTypeOK
  <2>4. StaysOut BY <2>1, <2>2 DEF StaysOut, Out, Reachable, ConnTypeOK
  <2> QED BY <2>3, <2>4
<1>3. CASE Heartbeat(s) \/ ConnectThrows(s)
  <2>1. /\ UNCHANGED <<wire, registry>> /\ handler[s] \in {"lookup", "heartbeat"}
        /\ \/ handler' = [handler EXCEPT ![s] = "refused"]
           \/ /\ handler[s] = "heartbeat"
              /\ handler' = [handler EXCEPT ![s] = "register"]
    BY <1>3 DEF Heartbeat, ConnectThrows, HandlerMoves
  <2>2. SocketInv' BY <2>1 DEF SocketInv, ConnTypeOK
  <2>3. StaysOut BY <2>1 DEF StaysOut, Out, Reachable, Revocation, ConnTypeOK
  <2> QED BY <2>2, <2>3
<1>4. CASE Register(s)
  <2>1. /\ UNCHANGED <<wire, device>> /\ handler[s] = "register"
        /\ handler' = [handler EXCEPT ![s] = "attached"]
        /\ registry' = [registry EXCEPT ![DeviceOf[s]] = s]
    BY <1>4 DEF Register, HandlerMoves
  <2>2. SocketInv' BY <1>0, <2>1 DEF SocketInv, ConnTypeOK
  <2>3. StaysOut BY <1>0, <2>1 DEF StaysOut, Out, Reachable, ConnTypeOK
  <2> QED BY <2>2, <2>3
<1>5. CASE ClientCloses(s)
  BY <1>5 DEF ClientCloses, SocketInv, StaysOut, Out, Reachable
<1>6. CASE ServerCloses(s)
  <2>1. /\ UNCHANGED <<device, handler>> /\ wire' = [wire EXCEPT ![s] = "closed"]
        /\ UNCHANGED registry \/ registry' = [registry EXCEPT ![DeviceOf[s]] = NoSocket]
    BY <1>6 DEF ServerCloses
  <2>2. SocketInv' BY <1>0, <2>1 DEF SocketInv, ConnTypeOK
  <2>3. StaysOut BY <1>0, <2>1 DEF StaysOut, Out, Reachable, ConnTypeOK
  <2> QED BY <2>2, <2>3
<1> QED BY <1>1, <1>2, <1>3, <1>4, <1>5, <1>6 DEF ConnectionStep

LEMMA ServiceSockets ==
  ASSUME ConnTypeOK, SocketInv, Revocation, NEW d \in Devices, RevokeRow(d) \/ Disconnect(d) \/ Bind(d)
  PROVE  SocketInv' /\ StaysOut
<1>1. UNCHANGED <<registry, handler>> BY DEF RevokeRow, Disconnect, Bind
<1>2. \A x \in Sockets : wire'[x] = wire[x] \/ (wire[x] = "open" /\ wire'[x] = "closing")
  <2>1. UNCHANGED wire \/ (registry[d] \in Sockets /\ Closing(registry[d]))
    BY DEF RevokeRow, Disconnect, Bind, ConnTypeOK
  <2> QED BY <2>1 DEF Closing, ConnTypeOK
<1>3. SocketInv' BY <1>1, <1>2 DEF SocketInv, ConnTypeOK
<1>4. StaysOut BY <1>1, <1>2 DEF StaysOut, Out, Reachable, Revocation, ConnTypeOK
<1> QED BY <1>3, <1>4

-------------------------------------------------------------------------------
(* Commands *)

LEMMA RequestInv ==
  ASSUME ConnTypeOK, CallTypeOK, NEW c \in Commands, CommandInv(c), FindDevice(c) \/ RequestStep(c)
  PROVE  /\ UNCHANGED <<connVars, performed>>
         /\ CallTypeOK' /\ OthersKeep(c) /\ CommandInv(c)'
         /\ UNCHANGED answer \/ Call!TellDone(c) \/ Call!TellThrew(c) \/ Call!TellOther(c)
<1>1. CASE FindDevice(c)
  <2>1. CASE CallerMoves(c, "none", "binding") /\ UNCHANGED answer
    BY <1>1, <2>1 DEF FindDevice, CallerMoves, CallTypeOK, OthersKeep, CommandInv, Caller
  <2>2. CASE Returns(c, "none", "threw")
    BY <1>1, <2>2 DEF FindDevice, Returns, CallerMoves, CallTypeOK, OthersKeep, CommandInv,
       Caller, Answer, Call!TellThrew, Call!Tell
  <2> QED BY <1>1, <2>1, <2>2 DEF FindDevice
<1>2. CASE CheckBinding(c)
  <2>1. CASE CallerMoves(c, "binding", "create") /\ UNCHANGED answer
    BY <1>2, <2>1 DEF CheckBinding, CallerMoves, CallTypeOK, OthersKeep, CommandInv, Caller
  <2>2. CASE Returns(c, "binding", "threw")
    BY <1>2, <2>2 DEF CheckBinding, Returns, CallerMoves, CallTypeOK, OthersKeep, CommandInv,
       Caller, Answer, Call!TellThrew, Call!Tell
  <2> QED BY <1>2, <2>1, <2>2 DEF CheckBinding
<1>3. CASE CreateCommand(c)
  BY <1>3 DEF CreateCommand, Queues, CallerMoves, CallTypeOK, OthersKeep, CommandInv, Caller,
     CommandStatus
<1>4. CASE SendCommand(c)
  <2>1. via' \in [Commands -> Sockets \union {NoSocket}]
    <3>1. CASE UNCHANGED via BY <3>1 DEF CallTypeOK
    <3>2. CASE Reachable(TargetOf[c]) /\ via' = [via EXCEPT ![c] = registry[TargetOf[c]]]
      <4>1. registry[TargetOf[c]] \in Sockets \union {NoSocket}
        BY DevicesAssumption DEF ConnTypeOK
      <4> QED BY <3>2, <4>1 DEF CallTypeOK
    <3> QED BY <1>4, <3>1, <3>2 DEF SendCommand
  <2>2. CallerMoves(c, "send", "start") \/ CallerMoves(c, "send", "fail")
    BY <1>4 DEF SendCommand
  <2> QED BY <1>4, <2>1, <2>2 DEF SendCommand, CallerMoves, CallTypeOK, OthersKeep, CommandInv,
          Caller
<1>5. CASE StartCommand(c)
  <2>1. /\ CallerMoves(c, "start", "write") \/ CallerMoves(c, "start", "fail")
        /\ caller'[c] = "write" => Starts(c)
    BY <1>5 DEF StartCommand, CallerMoves, CallTypeOK
  <2>2. command[c] = "QUEUED" BY <1>5 DEF StartCommand, CallerMoves, CommandInv
  <2>3. UNCHANGED command \/ command' = [command EXCEPT ![c] = "RUNNING"]
    BY <1>5, <2>2 DEF StartCommand, Starts
  <2>4. caller'[c] = "write" => command' = [command EXCEPT ![c] = "RUNNING"]
    BY <2>1, <2>2 DEF Starts
  <2>5. /\ caller' \in [Commands -> Caller] /\ caller'[c] \in {"write", "fail"}
        /\ \A o \in Commands \ {c} : caller'[o] = caller[o]
    BY <2>1 DEF CallerMoves, CallTypeOK, Caller
  <2>6. UNCHANGED <<connVars, answer, travel, via, performed>> /\ caller[c] = "start"
    BY <1>5 DEF StartCommand, CallerMoves
  <2>7. CallTypeOK' BY <2>3, <2>5, <2>6 DEF CallTypeOK, CommandStatus
  <2>8. OthersKeep(c) BY <2>3, <2>5, <2>6 DEF OthersKeep, CallTypeOK
  <2>9. CommandInv(c)' BY <2>2, <2>3, <2>4, <2>5, <2>6 DEF CommandInv, CallTypeOK
  <2> QED BY <2>6, <2>7, <2>8, <2>9
<1>10. CASE WriteCommand(c)
  <2>1. \E to \in {"sent", "lost"} : travel' = [travel EXCEPT ![c] = to]
    BY <1>10 DEF WriteCommand
  <2> QED BY <1>10, <2>1 DEF WriteCommand, CallerMoves, CallTypeOK, OthersKeep, CommandInv,
          Caller, Travel
<1>6. CASE FailCommand(c)
  <2>1. command' = [command EXCEPT ![c] = "FAILED"]
    BY <1>6 DEF FailCommand, Returns, CallerMoves, Finish, OpenCommand, CommandInv
  <2> QED BY <1>6, <2>1 DEF FailCommand, Returns, CallerMoves, CallTypeOK, OthersKeep, CommandInv,
          Caller, Answer, CommandStatus, Call!TellThrew, Call!Tell
<1>7. CASE Accept(c)
  BY <1>7 DEF Accept, Returns, CallerMoves, CallTypeOK, OthersKeep, CommandInv, Caller, Answer,
     Call!TellOther, Call!Tell
<1>8. CASE Poll(c)
  <2>1. CASE ~OpenCommand(c) /\ Returns(c, "poll", command[c])
    <3>1. command[c] \in {"COMPLETED", "FAILED"}
      BY <2>1 DEF OpenCommand, Returns, CallerMoves, CommandInv
    <3> QED BY <1>8, <2>1, <3>1 DEF Poll, Returns, CallerMoves, CallTypeOK, OthersKeep, CommandInv,
            Caller, Answer, Call!TellDone, Call!TellOther, Call!Tell
  <2>2. CASE Returns(c, "poll", "TIMEOUT")
    BY <1>8, <2>2 DEF Poll, Returns, CallerMoves, CallTypeOK, OthersKeep, CommandInv, Caller,
       Answer, Call!TellOther, Call!Tell
  <2> QED BY <1>8, <2>1, <2>2 DEF Poll
<1>9. CASE QueryThrows(c)
  <2>1. PICK l \in {"binding", "create", "fail", "poll"} :
          /\ Returns(c, l, "error")
          /\ \/ UNCHANGED command
             \/ l = "create" /\ command' = [command EXCEPT ![c] = "QUEUED"]
             \/ l = "fail" /\ command' = [command EXCEPT ![c] = "FAILED"]
    BY <1>9 DEF QueryThrows, Queues, Finish
  <2> QED BY <1>9, <2>1 DEF QueryThrows, Returns, CallerMoves, CallTypeOK, OthersKeep, CommandInv,
          Caller, Answer, CommandStatus, Call!TellOther, Call!Tell
<1> QED BY <1>1, <1>2, <1>3, <1>4, <1>5, <1>6, <1>7, <1>8, <1>9, <1>10 DEF RequestStep

LEMMA TravelInv ==
  ASSUME CallTypeOK, NEW c \in Commands, CommandInv(c), TravelStep(c)
  PROVE  /\ UNCHANGED <<connVars, answer>>
         /\ CallTypeOK' /\ OthersKeep(c) /\ CommandInv(c)'
         /\ UNCHANGED performed \/ Call!Perform(c)
<1>1. CASE Deliver(c)
  BY <1>1 DEF Deliver, Travels, CallTypeOK, OthersKeep, CommandInv, Travel
<1>2. CASE Execute(c)
  <2>1. PICK status \in {"COMPLETED", "FAILED"}, acted \in {0, 1} :
          /\ status = "COMPLETED" => acted = 1
          /\ performed' = [performed EXCEPT ![c] = performed[c] + acted]
          /\ Travels(c, "working", IF UsesSocketOf(c) THEN status ELSE "lost")
    BY <1>2 DEF Execute
  <2>2. travel[c] = "working" /\ performed[c] = 0 /\ answer[c] # "threw"
    BY <2>1 DEF Travels, CommandInv
  <2>3. performed' = [performed EXCEPT ![c] = acted] BY <2>1, <2>2
  <2>4. \E to \in {status, "lost"} : travel' = [travel EXCEPT ![c] = to]
    BY <2>1 DEF Travels
  <2>5. UNCHANGED <<connVars, command, caller, answer, via>> BY <1>2 DEF Execute
  <2>6. performed' = performed \/ Call!Perform(c)
    <3>1. CASE acted = 0 BY <2>2, <2>3, <3>1 DEF CallTypeOK
    <3>2. CASE acted = 1 BY <2>2, <2>3, <2>5, <3>2 DEF Call!Perform
    <3> QED BY <3>1, <3>2
  <2> QED BY <2>1, <2>2, <2>3, <2>4, <2>5, <2>6 DEF CallTypeOK, OthersKeep, CommandInv, Travel
<1>3. CASE RecordResult(c)
  <2>1. \/ UNCHANGED command
        \/ OpenCommand(c) /\ command' = [command EXCEPT ![c] = travel[c]]
    BY <1>3 DEF RecordResult, Finish
  <2> QED BY <1>3, <2>1 DEF RecordResult, CallTypeOK, OthersKeep, CommandInv, Travel, OpenCommand,
          CommandStatus
<1>4. CASE Lose(c)
  BY <1>4 DEF Lose, CallTypeOK, OthersKeep, CommandInv, Travel
<1> QED BY <1>1, <1>2, <1>3, <1>4 DEF TravelStep

\* The requests of the process are gone, the rows and the desktops are not.
LEMMA RestartInv ==
  ASSUME DevicesInv, Restart
  PROVE  DevicesInv' /\ Revocation /\ StaysOut /\ UNCHANGED <<performed, answer>>
<1>0. ConnTypeOK /\ CallTypeOK BY TypesSplit DEF DevicesInv
<1>1. /\ UNCHANGED <<device, bound, client, command, answer, travel, via, performed>>
      /\ caller' = [c \in Commands |-> IF caller[c] \in {"none", "done"} THEN caller[c] ELSE "gone"]
  BY DEF Restart
<1>2. ConnTypeOK'
  <2>1. registry' \in [Devices -> Sockets \union {NoSocket}] BY DEF Restart
  <2>2. wire' \in [Sockets -> Wire] BY DEF Restart, Wire
  <2>3. handler' \in [Sockets -> Handler] BY <1>0 DEF Restart, ConnTypeOK, Handler
  <2>4. revoking' \subseteq Devices BY DEF Restart
  <2> QED BY <1>0, <1>1, <2>1, <2>2, <2>3, <2>4 DEF ConnTypeOK
<1>3. CallTypeOK'
  <2>1. caller' \in [Commands -> Caller] BY <1>0, <1>1 DEF CallTypeOK, Caller
  <2> QED BY <1>0, <1>1, <2>1 DEF CallTypeOK
<1>4. ASSUME NEW c \in Commands PROVE CommandInv(c)'
  <2>1. CommandInv(c) BY DEF DevicesInv
  <2>2. caller'[c] = caller[c] \/ (caller'[c] = "gone" /\ caller[c] # "done") BY <1>1
  <2> QED BY <1>1, <2>1, <2>2 DEF CommandInv
<1>5. TypeOK'
  BY <1>2, <1>3 DEF TypeOK, ConnTypeOK, CallTypeOK
<1>6. /\ \A d \in Devices : registry'[d] = NoSocket
      /\ \A s \in Sockets : wire'[s] = "none" => wire[s] = "none"
      /\ \A s \in Sockets : handler'[s] = handler[s] \/ (handler[s] # "none" /\ handler'[s] = "refused")
  BY DEF Restart
<1>7. SocketInv' BY <1>6 DEF SocketInv, DevicesInv
<1>8. StaysOut BY <1>1, <1>6 DEF StaysOut, Out, Reachable
<1> QED BY <1>1, <1>4, <1>5, <1>7, <1>8 DEF DevicesInv, Revocation

\* Every step keeps the invariant and what is revoked, and is a step of the
\* abstract call or none.
LEMMA DevicesStep ==
  ASSUME DevicesInv, [Next]_vars
  PROVE  DevicesInv' /\ Revocation /\ StaysOut /\ [Call!Next]_(Call!vars)
<1>0. ConnTypeOK /\ CallTypeOK /\ SocketInv /\ \A c \in Commands : CommandInv(c)
  BY TypesSplit DEF DevicesInv
<1>1. CASE \/ \E s \in Sockets : ConnectionStep(s)
           \/ \E d \in Devices : RevokeRow(d) \/ Disconnect(d) \/ Bind(d)
  <2>1. ConnTypeOK' /\ Revocation /\ UNCHANGED callVars
    BY <1>0, <1>1, ConnectionTypes, ServiceTypes
  <2>5. SocketInv' /\ StaysOut BY <1>0, <1>1, <2>1, SocketStep, ServiceSockets
  <2>2. UNCHANGED <<command, caller, answer, travel, via, performed>> BY <2>1 DEF callVars
  <2>3. TypeOK' BY <1>0, <2>1, <2>2 DEF TypeOK, ConnTypeOK, CallTypeOK
  <2>4. \A c \in Commands : CommandInv(c)' BY <1>0, <2>2 DEF CommandInv
  <2> QED BY <2>1, <2>2, <2>3, <2>4, <2>5 DEF DevicesInv, Call!vars
<1>2. ASSUME NEW c \in Commands, FindDevice(c) \/ RequestStep(c) \/ TravelStep(c)
      PROVE  DevicesInv' /\ Revocation /\ StaysOut /\ [Call!Next]_(Call!vars)
  <2>1. /\ UNCHANGED connVars /\ CallTypeOK' /\ OthersKeep(c) /\ CommandInv(c)'
        /\ Call!Next \/ UNCHANGED <<performed, answer>>
    <3>1. CASE FindDevice(c) \/ RequestStep(c)
      <4>1. /\ UNCHANGED <<connVars, performed>>
            /\ CallTypeOK' /\ OthersKeep(c) /\ CommandInv(c)'
            /\ UNCHANGED answer \/ Call!TellDone(c) \/ Call!TellThrew(c) \/ Call!TellOther(c)
        BY <1>0, <3>1, RequestInv
      <4> QED BY <4>1 DEF Call!Next
    <3>2. CASE TravelStep(c)
      <4>1. /\ UNCHANGED <<connVars, answer>>
            /\ CallTypeOK' /\ OthersKeep(c) /\ CommandInv(c)'
            /\ UNCHANGED performed \/ Call!Perform(c)
        BY <1>0, <3>2, TravelInv
      <4> QED BY <4>1 DEF Call!Next
    <3> QED BY <1>2, <3>1, <3>2
  <2>2. UNCHANGED <<device, bound, revoking, registry, handler, wire, client>>
    BY <2>1 DEF connVars
  <2>3. TypeOK' BY <1>0, <2>1, <2>2 DEF TypeOK, ConnTypeOK, CallTypeOK
  <2>4. \A o \in Commands : CommandInv(o)' BY <1>0, <2>1, OthersInv
  <2>5. SocketInv' /\ StaysOut BY <1>0, <2>2 DEF SocketInv, StaysOut, Out, Reachable
  <2> QED BY <2>1, <2>2, <2>3, <2>4, <2>5 DEF DevicesInv, Revocation, Call!vars
<1>3. CASE Restart BY <1>3, RestartInv DEF Call!vars
<1>4. CASE UNCHANGED vars
  <2>1. /\ UNCHANGED <<command, caller, answer, travel, via, performed>>
        /\ UNCHANGED <<device, bound, revoking, registry, handler, wire, client>>
    BY <1>4 DEF vars, callVars, connVars
  <2>2. TypeOK' BY <1>0, <2>1 DEF TypeOK, ConnTypeOK, CallTypeOK
  <2>3. \A c \in Commands : CommandInv(c)' BY <1>0, <2>1 DEF CommandInv
  <2>4. SocketInv' /\ StaysOut BY <1>0, <2>1 DEF SocketInv, StaysOut, Out, Reachable
  <2> QED BY <2>1, <2>2, <2>3, <2>4 DEF DevicesInv, Revocation, Call!vars
<1> QED BY <1>1, <1>2, <1>3, <1>4 DEF Next

LEMMA DevicesInit == Init => DevicesInv /\ Call!Init
<1> SUFFICES ASSUME Init PROVE DevicesInv /\ Call!Init
  OBVIOUS
<1>1. TypeOK
  BY DEF Init, TypeOK, DeviceStatus, CommandStatus, Handler, Wire, Caller, Answer, Travel
<1>2. \A c \in Commands : CommandInv(c) BY DEF Init, CommandInv
<1>3. Call!Init BY DEF Init, Call!Init
<1>4. SocketInv BY DEF Init, SocketInv
<1> QED BY <1>1, <1>2, <1>3, <1>4 DEF DevicesInv

-------------------------------------------------------------------------------

THEOREM DevicesInductive == Spec => []DevicesInv
<1>1. DevicesInv /\ [Next]_vars => DevicesInv' BY DevicesStep
<1> QED BY DevicesInit, <1>1, PTL DEF Spec

THEOREM DevicesTypeCorrect == Spec => []TypeOK
<1>1. DevicesInv => TypeOK BY DEF DevicesInv
<1> QED BY DevicesInductive, <1>1, PTL

\* A request that throws, at whatever point and whatever the connection did,
\* leaves no command behind that is still open.
THEOREM ThrowFinalises == Spec => []ThrownIsFinalised
<1>1. DevicesInv => ThrownIsFinalised BY DEF DevicesInv, CommandInv, ThrownIsFinalised
<1> QED BY DevicesInductive, <1>1, PTL

\* Revocation is final for the row whatever connection is on its way; and a
\* revoked device that has no connection, and none that was let in before, never
\* has one again, for any number of connections it opens and whatever fails.
THEOREM RevocationIsFinal == Spec => RevokedIsFinal
<1>1. DevicesInv /\ [Next]_vars =>
        [\A d \in Devices :
           /\ device[d] = "REVOKED" => device'[d] = "REVOKED"
           /\ Out(d) => Out(d)']_vars
  BY DevicesStep DEF Revocation, StaysOut
<1> QED BY DevicesInductive, <1>1, PTL DEF Spec, RevokedIsFinal

\* Over all connections, restarts and losses a command is one call with the
\* promises of DeviceCall.
THEOREM ImplementsDeviceCall == Spec => KeepsDeviceCall
<1>1. Init => Call!Init BY DevicesInit
<1>2. DevicesInv /\ [Next]_vars => [Call!Next]_(Call!vars) BY DevicesStep
<1> QED BY DevicesInductive, <1>1, <1>2, PTL DEF Spec, KeepsDeviceCall, Call!Spec

===============================================================================
