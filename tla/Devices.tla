-------------------------------- MODULE Devices --------------------------------
(***************************************************************************)
(* Device commands: DeviceService, DeviceGateway and DeviceRepository of   *)
(* the API, the desktop agent that connects to the gateway, and the        *)
(* connection between them.                                                *)
(*                                                                         *)
(* The gateway keeps one socket per device in memory (registry); devices,  *)
(* bindings and commands are rows.  A command is created by one request    *)
(* and sent at most once, so its way to the desktop and back is a function *)
(* of the command: travel[c] on socket via[c].                             *)
(*                                                                         *)
(* The two ends see a connection close at different times: client[d] is    *)
(* the socket the desktop uses, wire[s] what the server makes of it.       *)
(***************************************************************************)
EXTENDS Naturals

CONSTANTS
  Devices, Commands,
  Sockets,      \* connections the desktops may open, one after the other
  DeviceOf,     \* whose token a socket presents
  TargetOf,     \* the device a command is for
  NoSocket,
  MayFail       \* connections drop, writes throw, processes restart

ASSUME DevicesAssumption ==
  /\ DeviceOf \in [Sockets -> Devices]
  /\ TargetOf \in [Commands -> Devices]
  /\ NoSocket \notin Sockets
  /\ MayFail \in BOOLEAN

VARIABLES
  device,       \* devices.status
  bound,        \* whether an active binding permits the action
  revoking,     \* devices whose revoke handler has yet to disconnect them
  registry,     \* DeviceGateway.sockets
  handler,      \* how far handleConnection is for each socket
  wire,         \* the server's end of each socket
  client,       \* the socket the desktop agent of each device uses
  command,      \* device_commands.status
  caller,       \* progress of the request for each command
  answer,       \* what that request returned
  travel, via,  \* where the command is between API and desktop
  performed     \* history: how often the desktop acted on the command

connVars == <<device, bound, revoking, registry, handler, wire, client>>
callVars == <<command, caller, answer, travel, via, performed>>
vars     == <<connVars, callVars>>

DeviceStatus  == {"OFFLINE", "ONLINE", "REVOKED"}
CommandStatus == {"none", "QUEUED", "RUNNING", "COMPLETED", "FAILED"}
Handler       == {"none", "lookup", "heartbeat", "register", "attached", "refused"}
Wire          == {"none", "open", "closing", "closed"}
Caller        == {"none", "binding", "create", "send", "start", "write", "fail", "poll",
                  "done", "gone"}
Answer        == {"none", "COMPLETED", "FAILED", "TIMEOUT", "accepted", "threw", "error"}
Travel        == {"none", "sent", "working", "COMPLETED", "FAILED", "received", "lost"}

TypeOK ==
  /\ device    \in [Devices -> DeviceStatus]
  /\ bound     \in [Devices -> BOOLEAN]
  /\ revoking  \subseteq Devices
  /\ registry  \in [Devices -> Sockets \union {NoSocket}]
  /\ handler   \in [Sockets -> Handler]
  /\ wire      \in [Sockets -> Wire]
  /\ client    \in [Devices -> Sockets \union {NoSocket}]
  /\ command   \in [Commands -> CommandStatus]
  /\ caller    \in [Commands -> Caller]
  /\ answer    \in [Commands -> Answer]
  /\ travel    \in [Commands -> Travel]
  /\ via       \in [Commands -> Sockets \union {NoSocket}]
  /\ performed \in [Commands -> Nat]

\* A registered device, bound to the agent or not.
Init ==
  /\ device = [d \in Devices |-> "OFFLINE"]
  /\ bound \in [Devices -> BOOLEAN]
  /\ revoking = {}
  /\ registry = [d \in Devices |-> NoSocket]
  /\ handler = [s \in Sockets |-> "none"]
  /\ wire = [s \in Sockets |-> "none"]
  /\ client = [d \in Devices |-> NoSocket]
  /\ command = [c \in Commands |-> "none"]
  /\ caller = [c \in Commands |-> "none"]
  /\ answer = [c \in Commands |-> "none"]
  /\ travel = [c \in Commands |-> "none"]
  /\ via = [c \in Commands |-> NoSocket]
  /\ performed = [c \in Commands |-> 0]

-------------------------------------------------------------------------------
(* DeviceGateway.handleConnection *)

\* The desktop agent connects when it has no connection.
Connect(s) ==
  /\ wire[s] = "none"
  /\ client[DeviceOf[s]] = NoSocket
  /\ wire' = [wire EXCEPT ![s] = "open"]
  /\ handler' = [handler EXCEPT ![s] = "lookup"]
  /\ client' = [client EXCEPT ![DeviceOf[s]] = s]
  /\ UNCHANGED <<device, bound, revoking, registry, callVars>>

HandlerMoves(s, from, to) ==
  /\ handler[s] = from
  /\ handler' = [handler EXCEPT ![s] = to]

\* WebSocket.close: an open socket starts its closing handshake.
Closing(s) == wire' = IF wire[s] = "open" THEN [wire EXCEPT ![s] = "closing"] ELSE wire

\* (mutant) The status of the device is not looked at.
LookupUnchecked(s) ==
  /\ HandlerMoves(s, "lookup", "heartbeat")
  /\ UNCHANGED <<device, bound, revoking, registry, wire, client, callVars>>

Lookup(s) ==
  /\ \/ /\ device[DeviceOf[s]] # "REVOKED"
        /\ HandlerMoves(s, "lookup", "heartbeat")
        /\ UNCHANGED wire
     \/ /\ device[DeviceOf[s]] = "REVOKED"
        /\ HandlerMoves(s, "lookup", "refused")
        /\ Closing(s)
  /\ UNCHANGED <<device, bound, revoking, registry, client, callVars>>

\* UPDATE ... WHERE status <> 'REVOKED'
Beats(d) == device' = [device EXCEPT ![d] = IF @ = "REVOKED" THEN @ ELSE "ONLINE"]

\* The connection goes on whether or not the row was updated.
Heartbeat(s) ==
  /\ HandlerMoves(s, "heartbeat", "register")
  /\ Beats(DeviceOf[s])
  /\ UNCHANGED <<bound, revoking, registry, wire, client, callVars>>

\* The socket replaces the one registered before and gets its listeners.
Register(s) ==
  /\ HandlerMoves(s, "register", "attached")
  /\ registry' = [registry EXCEPT ![DeviceOf[s]] = s]
  /\ UNCHANGED <<device, bound, revoking, wire, client, callVars>>

\* A query throws: the socket stays open and nobody listens to it.
ConnectThrows(s) ==
  /\ MayFail
  /\ \/ HandlerMoves(s, "lookup", "refused") /\ UNCHANGED device
     \/ HandlerMoves(s, "heartbeat", "refused") /\ (Beats(DeviceOf[s]) \/ UNCHANGED device)
  /\ UNCHANGED <<bound, revoking, registry, wire, client, callVars>>

\* The desktop's end closes: in answer to the server or because it lost it.
ClientCloses(s) ==
  /\ client[DeviceOf[s]] = s
  /\ wire[s] = "open" => MayFail
  /\ client' = [client EXCEPT ![DeviceOf[s]] = NoSocket]
  /\ UNCHANGED <<device, bound, revoking, registry, handler, wire, callVars>>

\* The server's end closes; the listener, once attached, removes whatever
\* socket is registered for the device.
ServerCloses(s) ==
  /\ wire[s] \in {"open", "closing"}
  /\ client[DeviceOf[s]] = s => MayFail
  /\ wire' = [wire EXCEPT ![s] = "closed"]
  /\ registry' = IF handler[s] = "attached"
                 THEN [registry EXCEPT ![DeviceOf[s]] = NoSocket] ELSE registry
  /\ UNCHANGED <<device, bound, revoking, handler, client, callVars>>

-------------------------------------------------------------------------------
(* DeviceService.revoke, bind and unbind *)

\* The update may take effect and still throw: then nobody disconnects.
RevokeRow(d) ==
  /\ device' = [device EXCEPT ![d] = "REVOKED"]
  /\ revoking' = revoking \union {d} \/ (MayFail /\ UNCHANGED revoking)
  /\ UNCHANGED <<bound, registry, handler, wire, client, callVars>>

Disconnect(d) ==
  /\ d \in revoking
  /\ revoking' = revoking \ {d}
  /\ IF registry[d] = NoSocket THEN UNCHANGED wire ELSE Closing(registry[d])
  /\ UNCHANGED <<device, bound, registry, handler, client, callVars>>

\* bind with or without the permission, and unbind.
Bind(d) ==
  /\ bound' = [bound EXCEPT ![d] = ~@]
  /\ UNCHANGED <<device, revoking, registry, handler, wire, client, callVars>>

-------------------------------------------------------------------------------
(* DeviceService.requestCommand and waitForCommand *)

CallerMoves(c, from, to) ==
  /\ caller[c] = from
  /\ caller' = [caller EXCEPT ![c] = to]

Returns(c, from, what) ==
  /\ CallerMoves(c, from, "done")
  /\ answer' = [answer EXCEPT ![c] = what]

FindDevice(c) ==
  /\ \/ /\ device[TargetOf[c]] # "REVOKED"
        /\ CallerMoves(c, "none", "binding")
        /\ UNCHANGED answer
     \/ /\ device[TargetOf[c]] = "REVOKED"
        /\ Returns(c, "none", "threw")
  /\ UNCHANGED <<connVars, command, travel, via, performed>>

CheckBinding(c) ==
  /\ \/ bound[TargetOf[c]] /\ CallerMoves(c, "binding", "create") /\ UNCHANGED answer
     \/ ~bound[TargetOf[c]] /\ Returns(c, "binding", "threw")
  /\ UNCHANGED <<connVars, command, travel, via, performed>>

Queues(c) == command' = [command EXCEPT ![c] = "QUEUED"]

CreateCommand(c) ==
  /\ CallerMoves(c, "create", "send")
  /\ Queues(c)
  /\ UNCHANGED <<connVars, answer, travel, via, performed>>

Reachable(d) == registry[d] # NoSocket /\ wire[registry[d]] = "open"

\* DeviceGateway.sendCommand picks the socket before it awaits startCommand.
SendCommand(c) ==
  LET d == TargetOf[c] IN
  /\ \/ /\ Reachable(d)
        /\ CallerMoves(c, "send", "start")
        /\ via' = [via EXCEPT ![c] = registry[d]]
     \/ /\ ~Reachable(d)
        /\ CallerMoves(c, "send", "fail")
        /\ UNCHANGED via
  /\ UNCHANGED <<connVars, command, answer, travel, performed>>

OpenCommand(c) == command[c] \in {"QUEUED", "RUNNING"}

\* (mutant) The command is sent before the row is updated, which then throws.
StartCommandLate(c) ==
  /\ MayFail
  /\ CallerMoves(c, "start", "fail")
  /\ travel' = [travel EXCEPT ![c] = IF wire[via[c]] = "open" THEN "sent" ELSE "lost"]
  /\ UNCHANGED <<connVars, command, answer, via, performed>>

\* UPDATE ... WHERE status='QUEUED'
Starts(c) == command' = [command EXCEPT ![c] = IF @ = "QUEUED" THEN "RUNNING" ELSE @]

\* The update may take effect and still throw.
StartCommand(c) ==
  /\ \/ CallerMoves(c, "start", "write") /\ Starts(c)
     \/ MayFail /\ CallerMoves(c, "start", "fail") /\ (Starts(c) \/ UNCHANGED command)
  /\ UNCHANGED <<connVars, answer, travel, via, performed>>

\* WebSocket.send drops what is written to a socket that is no longer open, and
\* does not throw.
WriteCommand(c) ==
  /\ CallerMoves(c, "write", "poll")
  /\ travel' = [travel EXCEPT ![c] = IF wire[via[c]] = "open" THEN "sent" ELSE "lost"]
  /\ UNCHANGED <<connVars, command, answer, via, performed>>

\* DeviceRepository.completeCommand
Finish(c, status) ==
  command' = IF OpenCommand(c) THEN [command EXCEPT ![c] = status] ELSE command

\* (mutant) The error is passed on and the row is left.
FailCommandUnsaved(c) ==
  /\ Returns(c, "fail", "threw")
  /\ UNCHANGED <<connVars, command, travel, via, performed>>

FailCommand(c) ==
  /\ Returns(c, "fail", "threw")
  /\ Finish(c, "FAILED")
  /\ UNCHANGED <<connVars, travel, via, performed>>

\* (mutant) The first look at the row is the answer.
PollOnce(c) ==
  /\ Returns(c, "poll", command[c])
  /\ UNCHANGED <<connVars, command, travel, via, performed>>

\* POST /devices/:id/commands answers with the command; a device tool polls
\* the row until it is final or its time is up.  Which of them asked makes no
\* difference before this point.
Accept(c) ==
  /\ Returns(c, "poll", "accepted")
  /\ UNCHANGED <<connVars, command, travel, via, performed>>

Poll(c) ==
  /\ \/ ~OpenCommand(c) /\ Returns(c, "poll", command[c])
     \/ Returns(c, "poll", "TIMEOUT")
  /\ UNCHANGED <<connVars, command, travel, via, performed>>

\* A query of the request throws, before its effect or after: the error says
\* nothing of the device.
QueryThrows(c) ==
  /\ MayFail
  /\ \/ \E l \in {"binding", "create", "fail", "poll"} : Returns(c, l, "error") /\ UNCHANGED command
     \/ Returns(c, "create", "error") /\ Queues(c)
     \/ Returns(c, "fail", "error") /\ Finish(c, "FAILED")
  /\ UNCHANGED <<connVars, travel, via, performed>>

-------------------------------------------------------------------------------
(* The desktop agent, and the result on its way back *)

Travels(c, from, to) ==
  /\ travel[c] = from
  /\ travel' = [travel EXCEPT ![c] = to]

UsesSocketOf(c) == client[TargetOf[c]] = via[c]

Deliver(c) ==
  /\ Travels(c, "sent", "working")
  /\ UsesSocketOf(c)
  /\ UNCHANGED <<connVars, command, caller, answer, via, performed>>

\* The desktop refuses by its local policy, fails before or after it acted, or
\* succeeds; it reports on the socket that brought the command.
Execute(c) ==
  /\ \E status \in {"COMPLETED", "FAILED"}, acted \in {0, 1} :
       /\ status = "COMPLETED" => acted = 1
       /\ performed' = [performed EXCEPT ![c] = @ + acted]
       /\ Travels(c, "working", IF UsesSocketOf(c) THEN status ELSE "lost")
  /\ UNCHANGED <<connVars, command, caller, answer, via>>

\* (mutant) The listener takes the result for another agent's.
RecordResultIgnored(c) ==
  /\ Travels(c, "COMPLETED", "received") \/ Travels(c, "FAILED", "received")
  /\ UNCHANGED <<connVars, command, caller, answer, via, performed>>

\* The message listener of the gateway.
RecordResult(c) ==
  /\ travel[c] \in {"COMPLETED", "FAILED"}
  /\ wire[via[c]] \in {"open", "closing"}
  /\ handler[via[c]] = "attached"
  /\ Finish(c, travel[c])
  /\ travel' = [travel EXCEPT ![c] = "received"]
  /\ UNCHANGED <<connVars, caller, answer, via, performed>>

\* What is on the way when its end of the connection is gone, when the desktop
\* stops at work, or when the listener's query throws.
Lose(c) ==
  /\ \/ travel[c] = "sent" /\ ~UsesSocketOf(c)
     \/ travel[c] \in {"COMPLETED", "FAILED"} /\ (wire[via[c]] = "closed" \/ MayFail)
     \/ travel[c] = "working" /\ MayFail
  /\ travel' = [travel EXCEPT ![c] = "lost"]
  /\ UNCHANGED <<connVars, command, caller, answer, via, performed>>

-------------------------------------------------------------------------------

\* The API process restarts: rows stay, sockets and requests are gone.
Restart ==
  /\ MayFail
  /\ registry' = [d \in Devices |-> NoSocket]
  /\ wire' = [s \in Sockets |-> IF wire[s] = "none" THEN "none" ELSE "closed"]
  /\ handler' = [s \in Sockets |->
       IF handler[s] \in {"none", "attached"} THEN handler[s] ELSE "refused"]
  /\ caller' = [c \in Commands |->
       IF caller[c] \in {"none", "done"} THEN caller[c] ELSE "gone"]
  /\ revoking' = {}
  /\ UNCHANGED <<device, bound, client, command, answer, travel, via, performed>>

ConnectionStep(s) ==
  \/ Connect(s) \/ Lookup(s) \/ Heartbeat(s) \/ Register(s) \/ ConnectThrows(s)
  \/ ClientCloses(s) \/ ServerCloses(s)

RequestStep(c) ==
  \/ CheckBinding(c) \/ CreateCommand(c) \/ SendCommand(c) \/ StartCommand(c)
  \/ WriteCommand(c) \/ FailCommand(c) \/ Accept(c) \/ Poll(c) \/ QueryThrows(c)

TravelStep(c) == Deliver(c) \/ Execute(c) \/ RecordResult(c) \/ Lose(c)

Next ==
  \/ \E s \in Sockets : ConnectionStep(s)
  \/ \E d \in Devices : RevokeRow(d) \/ Disconnect(d) \/ Bind(d)
  \/ \E c \in Commands : FindDevice(c) \/ RequestStep(c) \/ TravelStep(c)
  \/ Restart

Spec == Init /\ [][Next]_vars

\* Handlers are scheduled, a desktop that has a command works on it, and the
\* listener of an open socket is served.
FairSpec ==
  /\ Spec
  /\ \A c \in Commands : WF_vars(RequestStep(c)) /\ WF_vars(TravelStep(c))

-------------------------------------------------------------------------------
(* Properties *)

\* To its caller a command is one call with the guarantees of DeviceCall,
\* whatever happens to the connection in between: it is not performed twice,
\* never performed after the request threw, and not reported done unless it was.
Call == INSTANCE DeviceCall

KeepsDeviceCall == Call!Spec

\* Revoked, without a connection, and with none that was let in before the
\* revocation and is about to be registered.
Out(d) ==
  /\ device[d] = "REVOKED"
  /\ ~Reachable(d)
  /\ \A s \in Sockets : DeviceOf[s] = d => handler[s] \notin {"heartbeat", "register"}

\* A device stays revoked, also when it is just connecting; and once it is out it
\* is never connected again, although its token is still found and it connects
\* again and again.  A connection that was looked up before the revocation is
\* not disconnected if it registers after it: only without one is a device out.
RevokedIsFinal ==
  [][\A d \in Devices :
       /\ device[d] = "REVOKED" => device'[d] = "REVOKED"
       /\ Out(d) => Out(d)']_vars

\* A request that throws leaves no command behind that is still open: an
\* unreachable device finalises the queued command.
\* (docs/MULTI_AGENT_DEVICE.md, "Execution reliability")
ThrownIsFinalised ==
  \A c \in Commands : answer[c] = "threw" => command[c] \in {"none", "FAILED"}

\* The request for the command ended before it could write to the socket: its
\* process stopped, or the row was started and neither that nor the clean-up
\* after it returned.
Unsent(c) == travel[c] = "none" /\ (caller[c] = "gone" \/ answer[c] = "error")

\* A started command is finished unless it was never written, or its message or
\* its result is lost on a connection that broke or to a process that stopped; a
\* caller that gave up, a revocation or a new connection does not keep the result
\* from the row.
StartedIsFinished ==
  \A c \in Commands :
    command[c] = "RUNNING" ~> ~OpenCommand(c) \/ travel[c] = "lost" \/ Unsent(c)

\* No request, connection or message is on its way.
AtRest ==
  /\ \A c \in Commands : caller[c] \in {"none", "done"} /\ travel[c] \in {"none", "received", "lost"}
  /\ \A s \in Sockets : handler[s] \in {"none", "attached", "refused"} /\ wire[s] # "closing"
  /\ \A s \in Sockets : wire[s] = "open" => client[DeviceOf[s]] = s
  /\ revoking = {}

\* README.md: "delivery failures are finalized".
DeliveryFailuresAreFinalised ==
  AtRest => \A c \in Commands : ~OpenCommand(c)

\* docs/ARCHITECTURE.md: "The device gateway delivers the command to the
\* registered desktop runtime", here one that is connected and was accepted.
ConnectedIsReachable ==
  AtRest => \A s \in Sockets :
    wire[s] = "open" /\ handler[s] = "attached" => Reachable(DeviceOf[s])

===============================================================================
