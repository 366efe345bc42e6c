------------------------------- MODULE Bindings --------------------------------
(***************************************************************************)
(* The devices page (app/devices/page.tsx) over DeviceService.register,    *)
(* bind, unbind, revoke and list, used by one employee.                    *)
(*                                                                         *)
(* A click starts an operation: a request, then load, which validates the  *)
(* session and lists devices and bindings again.  busy is one slot for the *)
(* whole page: a button is disabled only while busy names it, and every    *)
(* operation that ends clears the slot, whoever has filled it.  What a     *)
(* click means is decided by the bindings as they were listed last.        *)
(***************************************************************************)
EXTENDS Accounts

CONSTANTS
  Devices,
  OwnAgents,           \* the employee's agents
  PermissionSets,   \* what may be ticked for the next binding
  MaxClicks,        \* bound: operations of the page
  NoDevice,
  NoSession,
  OpsMayFail           \* requests are refused or rejected

ASSUME BindingsAssumption ==
  /\ NoDevice \notin Devices
  /\ MaxClicks \in Nat
  /\ OpsMayFail \in BOOLEAN

VARIABLES
  device,           \* devices.status, "none" without a row
  binding,          \* device_agent_bindings
  view,             \* "closed", "open", or "login" after a redirection
  token,            \* the session the page sends
  rows,             \* devices and bindings as they were listed last
  selected,
  busy,             \* the button whose operation is shown as under way
  ops,              \* the operations of the page so far, the first load included
  overlaps          \* history: pairs of operations that were under way together

bindingVars == <<device, binding, view, token, rows, selected, busy, ops, overlaps>>
devicesVars == <<accountVars, bindingVars>>

Free      == "free"
Status    == {"none", "OFFLINE", "REVOKED"}
Binding   == [active : BOOLEAN, permissions : PermissionSets]
NoBinding == [active |-> FALSE, permissions |-> {}]
Table     == [device : [Devices -> Status],
              binding : [Devices \X OwnAgents -> Binding \union {NoBinding}]]

\* slot is what the operation puts into busy; kind is what it asks of the API.
Op == [kind : {"load", "bind", "unbind", "revoke", "register"},
       slot : OwnAgents \union {Free, "revoke", "register"},
       device : Devices \union {NoDevice}, permissions : PermissionSets \union {{}},
       at : {"sent", "executed", "validated", "answered",
             "done", "failed", "rejected", "adrift"},
       answer : Table]

BindingTypeOK ==
  /\ device \in [Devices -> Status]
  /\ binding \in [Devices \X OwnAgents -> Binding \union {NoBinding}]
  /\ view \in {"closed", "open", "login"}
  /\ rows \in Table
  /\ selected \in Devices \union {NoDevice}
  /\ busy \in OwnAgents \union {Free, "revoke", "register"}
  /\ ops \in Seq(Op)
  /\ overlaps \subseteq (DOMAIN ops) \X (DOMAIN ops)
  /\ token \in sessions \union {NoSession}

BindingsTypeOK == AccountTypeOK /\ BindingTypeOK

Rows == [device |-> device, binding |-> binding]

BindingsInit ==
  /\ AccountInit
  /\ device = [d \in Devices |-> "none"]
  /\ binding = [b \in Devices \X OwnAgents |-> NoBinding]
  /\ view = "closed"
  /\ token = NoSession
  /\ rows = Rows
  /\ selected = NoDevice
  /\ busy = Free
  /\ ops = << >>
  /\ overlaps = {}

-------------------------------------------------------------------------------
(* Operations of the page *)

UnderWay(n) == ops[n].at \notin {"done", "failed", "rejected"}

\* The operation is the latest; those under way go on beside it.
Begin(kind, slot, d, permissions, at) ==
  LET n == Len(ops) + 1 IN
  /\ ops' = Append(ops, [kind |-> kind, slot |-> slot, device |-> d,
                         permissions |-> permissions, at |-> at, answer |-> Rows])
  /\ overlaps' = overlaps \union {<<m, n>> : m \in {i \in DOMAIN ops : UnderWay(i)}}

\* POST /devices/register by hand, before the page is used
RegisterDevice(d) ==
  /\ view = "closed"
  /\ \E s \in sessions : Valid(s)
  /\ device' = [device EXCEPT ![d] = "OFFLINE"]
  /\ UNCHANGED <<accountVars, binding, view, token, rows, selected, busy, ops, overlaps>>

Open(s) ==
  /\ view = "closed"
  /\ s \in sessions
  /\ view' = "open"
  /\ token' = s
  /\ Begin("load", Free, NoDevice, {}, "executed")
  /\ UNCHANGED <<accountVars, device, binding, rows, selected, busy>>

\* Until the first load has ended there is no button.
Enabled(slot) == view = "open" /\ ops[1].at \in {"done", "failed"} /\ busy # slot

Click(kind, slot, d, permissions) ==
  /\ Len(ops) <= MaxClicks
  /\ Enabled(slot)
  /\ busy' = slot
  /\ Begin(kind, slot, d, permissions, "sent")
  /\ UNCHANGED <<accountVars, device, binding, view, token, rows, selected>>

Usable == selected # NoDevice /\ rows.device[selected] \notin {"none", "REVOKED"}

\* Bind to device, or Apply permissions.
ClickBind(a, permissions) == Usable /\ Click("bind", a, selected, permissions)

ClickUnbind(a) ==
  /\ Usable
  /\ rows.binding[<<selected, a>>].active
  /\ Click("unbind", a, selected, {})

ClickRevoke == Usable /\ Click("revoke", "revoke", selected, {})

ClickRegister(d) ==
  /\ \A n \in DOMAIN ops : ops[n].device # d
  /\ device[d] = "none"
  /\ Click("register", "register", d, {})

Select(d) ==
  /\ view = "open"
  /\ rows.device[d] # "none"
  /\ selected' = d
  /\ UNCHANGED <<accountVars, device, binding, view, token, rows, busy, ops, overlaps>>

-------------------------------------------------------------------------------
(* DeviceService, and what the page does with an answer *)

Moves(n, from, to) ==
  /\ ops[n].at = from
  /\ ops' = [ops EXCEPT ![n].at = to]

DeviceAfter(op) ==
  CASE op.kind = "register" -> [device EXCEPT ![op.device] = "OFFLINE"]
    [] op.kind = "revoke"   -> [device EXCEPT ![op.device] = "REVOKED"]
    [] OTHER                -> device

\* (device_id, agent_id) of the row an operation is about
Key(op) == <<op.device, op.slot>>

\* (mutant) ON CONFLICT DO NOTHING: a row that exists stays as it is.
BoundOnce(op) ==
  CASE op.kind = "bind" /\ binding[Key(op)] = NoBinding ->
         [binding EXCEPT ![Key(op)] = [active |-> TRUE, permissions |-> op.permissions]]
    [] op.kind = "unbind" -> [binding EXCEPT ![Key(op)].active = FALSE]
    [] OTHER -> binding

\* A binding replaces the permissions, an unbinding keeps them.  A device may be
\* bound after it was revoked.
BindingAfter(op) ==
  CASE op.kind = "bind" ->
         [binding EXCEPT ![Key(op)] = [active |-> TRUE, permissions |-> op.permissions]]
    [] op.kind = "unbind" -> [binding EXCEPT ![Key(op)].active = FALSE]
    [] OTHER -> binding

Executes(op) == device' = DeviceAfter(op) /\ binding' = BindingAfter(op)

\* The guard lets the request pass and the statement is executed.
Execute(n) ==
  /\ Moves(n, "sent", "executed")
  /\ Valid(token)
  /\ Executes(ops[n])
  /\ UNCHANGED <<accountVars, view, token, rows, selected, busy, overlaps>>

\* The session has expired, or the API fails: the error is shown.
Refuse(n) ==
  /\ OpsMayFail \/ ~Valid(token)
  /\ Moves(n, "sent", "failed")
  /\ busy' = Free
  /\ UNCHANGED <<accountVars, device, binding, view, token, rows, selected, overlaps>>

\* load: POST /auth/validate
Validate(n) ==
  /\ Valid(token)
  /\ Moves(n, "executed", "validated")
  /\ UNCHANGED <<accountVars, device, binding, view, token, rows, selected, busy, overlaps>>

\* The page goes to the login page; what it waited for goes on.
Redirect(n) ==
  /\ ~Valid(token)
  /\ Moves(n, "executed", "failed")
  /\ view' = "login"
  /\ busy' = Free
  /\ UNCHANGED <<accountVars, device, binding, token, rows, selected, overlaps>>

\* GET /devices and GET /organization/my-agents
List(n) ==
  /\ Valid(token)
  /\ ops[n].at = "validated"
  /\ ops' = [ops EXCEPT ![n].at = "answered", ![n].answer = Rows]
  /\ UNCHANGED <<accountVars, device, binding, view, token, rows, selected, busy, overlaps>>

\* An error of one of the two: the lists stay as they were.
ListFails(n) ==
  /\ OpsMayFail \/ ~Valid(token)
  /\ Moves(n, "validated", "failed")
  /\ busy' = Free
  /\ UNCHANGED <<accountVars, device, binding, view, token, rows, selected, overlaps>>

\* (mutant) After an unbinding the lists are not replaced.
ShowUnlessUnbound(n) ==
  /\ Moves(n, "answered", "done")
  /\ rows' = IF ops[n].kind = "unbind" THEN rows ELSE ops[n].answer
  /\ busy' = Free
  /\ UNCHANGED selected
  /\ UNCHANGED <<accountVars, device, binding, view, token, overlaps>>

\* The lists are replaced whatever has been listed since.  A new device is
\* selected, and by the first load any device.
Show(n) ==
  LET shown == {d \in Devices : ops[n].answer.device[d] # "none"} IN
  /\ Moves(n, "answered", "done")
  /\ rows' = ops[n].answer
  /\ busy' = Free
  /\ CASE ops[n].kind = "register"             -> selected' = ops[n].device
       [] ops[n].kind = "load" /\ shown # {}    -> selected' \in shown
       [] OTHER                                 -> UNCHANGED selected
  /\ UNCHANGED <<accountVars, device, binding, view, token, overlaps>>

\* The connection to the API breaks: nothing catches this, and busy stays.  A
\* request that was under way may yet be executed, or be lost.
OpReject(n) ==
  /\ OpsMayFail
  /\ UnderWay(n) /\ ops[n].at # "adrift"
  /\ ops' = [ops EXCEPT ![n].at = IF @ = "sent" THEN "adrift" ELSE "rejected"]
  /\ UNCHANGED <<accountVars, device, binding, view, token, rows, selected, busy, overlaps>>

Land(n) ==
  /\ Moves(n, "adrift", "rejected")
  /\ (Valid(token) /\ Executes(ops[n])) \/ UNCHANGED <<device, binding>>
  /\ UNCHANGED <<accountVars, view, token, rows, selected, busy, overlaps>>

OpStep(n) ==
  \/ Execute(n) \/ Refuse(n) \/ Validate(n) \/ Redirect(n) \/ List(n) \/ ListFails(n) \/ Show(n)
  \/ Land(n)

DevicesPageStep ==
  \/ \E s \in sessions : Open(s)
  \/ \E a \in OwnAgents : ClickUnbind(a) \/ \E p \in PermissionSets : ClickBind(a, p)
  \/ ClickRevoke
  \/ \E d \in Devices : RegisterDevice(d) \/ ClickRegister(d) \/ Select(d)
  \/ \E n \in DOMAIN ops : OpStep(n) \/ OpReject(n)

BindingsNext == DevicesPageStep \/ (AccountStep /\ UNCHANGED bindingVars)

BindingsSpec == BindingsInit /\ [][BindingsNext]_devicesVars

-------------------------------------------------------------------------------
(* Properties *)

Overlap(n, m) == <<n, m>> \in overlaps \/ <<m, n>> \in overlaps

\* The row says what was clicked last for the agent on the device, once that
\* operation has been answered, unless two of them were under way together.
LastClickHolds ==
  \A n \in DOMAIN ops :
    LET op == ops[n]
        Same(m) == ops[m].slot = op.slot /\ ops[m].device = op.device
    IN
    /\ op.kind \in {"bind", "unbind"}
    /\ op.at \in {"executed", "validated", "answered"}
    /\ \A m \in (n + 1)..Len(ops) : ~Same(m)
    /\ \A m \in DOMAIN ops : Same(m) => ~Overlap(n, m)
    => LET row == binding[Key(op)] IN
       /\ row.active = (op.kind = "bind")
       /\ op.kind = "bind" => row.permissions = op.permissions

\* When nothing is under way the page lists the rows as they are, unless its
\* last operation overlapped another one, failed, or nothing was ever listed.
PageListsRows ==
  LET last == Len(ops) IN
  /\ ops # << >>
  /\ \A n \in DOMAIN ops : ~UnderWay(n)
  /\ \A n \in DOMAIN ops : ~Overlap(n, last)
  /\ ops[last].at = "done"
  => rows = Rows

===============================================================================
