---------------------------- MODULE BindingsProofs -----------------------------
(***************************************************************************)
(* Proofs about Accounts and Bindings: their types, that addresses are     *)
(* kept apart, and what the devices page makes of overlapping operations,  *)
(* for any number of companies, employees, devices, agents and clicks,     *)
(* with failures or without.                                               *)
(***************************************************************************)
EXTENDS Bindings, TLAPS

-------------------------------------------------------------------------------
(* Accounts *)

Ready == [at |-> "ready"]

\* A call that has found its address free: the rows it has seen have others.
HireKnows(h) ==
  hire[h].at = "checked" =>
    /\ hire[h].seen <= Len(employees)
    /\ \A i \in 1..hire[h].seen : Lower(employees[i].address) # Lower(hire[h].address)

AccountInv ==
  /\ AccountTypeOK
  /\ hire \in [Hires -> Hire \union {Ready}]
  /\ \A h \in Hires : HireKnows(h)
  /\ AddressesKeptApart

\* To trim a spelling without a blank changes nothing.
LEMMA Trimmed ==
  ASSUME NEW a \in Address
  PROVE  /\ Trim(a) \in Address /\ Lower(a) \in Address
         /\ a.as # "padded" => Trim(a) = a
<1>1. a.as # "padded" => Trim(a) = [a EXCEPT !.as = a.as] BY DEF Trim
<1>2. [a EXCEPT !.as = a.as] = a BY DEF Address
<1> QED BY <1>1, <1>2 DEF Trim, Lower, Address, Spellings

\* A row is added: the ones before stay, and the new one is told apart.
LEMMA RowAdded ==
  ASSUME AccountInv, NEW row \in Employee, Inserted(row),
         \A i \in DOMAIN employees :
           Lower(employees[i].address) = Lower(row.address) =>
             row.password # NoPassword \/ row.seen < i \/ row.given = "padded"
  PROVE  /\ employees' \in Seq(Employee) /\ Len(employees') = Len(employees) + 1
         /\ \A i \in DOMAIN employees : i \in DOMAIN employees' /\ employees'[i] = employees[i]
         /\ AddressesKeptApart'
<1>0. employees \in Seq(Employee) /\ AddressesKeptApart BY DEF AccountInv, AccountTypeOK
<1>1. /\ employees' = Append(employees, row)
      /\ \A i \in DOMAIN employees :
           employees[i].company = row.company => employees[i].address # row.address
  BY DEF Inserted
<1>2. /\ employees' \in Seq(Employee) /\ Len(employees) \in Nat
      /\ Len(employees') = Len(employees) + 1
      /\ DOMAIN employees = 1..Len(employees) /\ DOMAIN employees' = 1..(Len(employees) + 1)
      /\ \A i \in DOMAIN employees : employees'[i] = employees[i]
      /\ employees'[Len(employees) + 1] = row
  BY <1>0, <1>1
<1>3. AddressesKeptApart'
  <2> SUFFICES ASSUME NEW i \in DOMAIN employees', NEW j \in DOMAIN employees', i < j,
                      Lower(employees'[i].address) = Lower(employees'[j].address)
               PROVE  /\ \/ employees'[j].password # NoPassword
                         \/ employees'[j].seen < i
                         \/ employees'[j].given = "padded"
                      /\ employees'[i].company = employees'[j].company =>
                           employees'[i].address # employees'[j].address
    BY DEF AddressesKeptApart
  <2>1. i \in DOMAIN employees BY <1>2
  <2>2. j \in DOMAIN employees \/ j = Len(employees) + 1 BY <1>2
  <2>3. CASE j \in DOMAIN employees BY <1>0, <1>2, <2>1, <2>3 DEF AddressesKeptApart
  <2>4. CASE j = Len(employees) + 1 BY <1>1, <1>2, <2>1, <2>4
  <2> QED BY <2>2, <2>3, <2>4
<1> QED BY <1>2, <1>3

\* What a call of createEmployee has seen is not changed by rows that are added.
LEMMA KnownRowsStay ==
  ASSUME AccountInv, NEW h \in Hires, hire'[h] = hire[h],
         Len(employees') \in {Len(employees), Len(employees) + 1},
         \A i \in DOMAIN employees : employees'[i] = employees[i]
  PROVE  HireKnows(h)'
<1>1. HireKnows(h) /\ hire[h] \in Hire \union {Ready} /\ employees \in Seq(Employee)
  BY DEF AccountInv, AccountTypeOK
<1>2. CASE hire[h].at = "checked"
  <2>1. hire[h].seen \in Nat BY <1>1, <1>2 DEF Hire, Ready
  <2>2. 1..hire[h].seen \subseteq DOMAIN employees BY <1>1, <1>2, <2>1 DEF HireKnows
  <2> QED BY <1>1, <2>1, <2>2 DEF HireKnows
<1>3. CASE hire[h].at # "checked" BY <1>3 DEF HireKnows
<1> QED BY <1>2, <1>3

LEMMA SessionType ==
  ASSUME AccountTypeOK, NEW i \in Nat \ {0}, NEW row \in Employee, IssuedFor(i, row)
  PROVE  sessions \subseteq sessions' /\ sessions' \subseteq Session
<1>1. now + TTL \in Nat /\ sessions \subseteq Session BY AccountsAssumption DEF AccountTypeOK
<1>2. [employee |-> i, company |-> row.company, role |-> row.role, until |-> now + TTL] \in Session
  BY <1>1 DEF Session, Employee
<1> QED BY <1>1, <1>2 DEF IssuedFor

LEMMA RegisterKeeps ==
  ASSUME AccountInv, NEW c \in Companies, NEW a \in Address, NEW p \in Passwords,
         RegisterCompany(c, a, p)
  PROVE  AccountInv'
<1> DEFINE row == [company |-> c, address |-> Lower(a), role |-> "admin", password |-> p,
                   given |-> a.as, seen |-> Len(employees)]
<1>0. AccountTypeOK /\ employees \in Seq(Employee) /\ Len(employees) \in Nat
      /\ hire \in [Hires -> Hire \union {Ready}]
  BY DEF AccountInv, AccountTypeOK
<1>1. row \in Employee
  <2>1. Lower(a) \in Address /\ a.as \in Spellings BY Trimmed DEF Address
  <2> QED BY <1>0, <2>1 DEF Employee, Roles
<1>2. Inserted(row) /\ IssuedFor(Len(employees) + 1, row) /\ UNCHANGED <<hire, now>>
  BY DEF RegisterCompany
<1>3. row.password # NoPassword BY AccountsAssumption
<1> HIDE DEF row
<1>4. /\ employees' \in Seq(Employee) /\ Len(employees') = Len(employees) + 1
      /\ \A i \in DOMAIN employees : employees'[i] = employees[i]
      /\ AddressesKeptApart'
  BY <1>1, <1>2, <1>3, RowAdded
<1>5. sessions' \subseteq Session BY <1>0, <1>1, <1>2, SessionType
<1>6. AccountTypeOK' BY <1>0, <1>2, <1>4, <1>5 DEF AccountTypeOK
<1>7. \A h \in Hires : HireKnows(h)' BY <1>2, <1>4, KnownRowsStay
<1> QED BY <1>0, <1>2, <1>4, <1>6, <1>7 DEF AccountInv

LEMMA InsertKeeps ==
  ASSUME AccountInv, NEW h \in Hires, InsertHire(h)
  PROVE  AccountInv'
<1>0. /\ AccountTypeOK /\ employees \in Seq(Employee) /\ Len(employees) \in Nat
      /\ hire \in [Hires -> Hire \union {Ready}] /\ HireKnows(h) /\ AddressesKeptApart
  BY DEF AccountInv, AccountTypeOK
<1>1. /\ hire[h].at = "checked" /\ hire' = [hire EXCEPT ![h].at = "done"]
      /\ UNCHANGED <<sessions, now>>
  BY DEF InsertHire
<1>2. hire[h] \in Hire BY <1>0, <1>1 DEF Ready
<1>3. hire' \in [Hires -> Hire \union {Ready}] /\ hire'[h].at # "checked"
  <2>1. [hire[h] EXCEPT !.at = "done"] \in Hire BY <1>2 DEF Hire
  <2>2. [hire[h] EXCEPT !.at = "done"].at = "done" BY <1>2 DEF Hire
  <2> QED BY <1>0, <1>1, <2>1, <2>2
<1>4. \A g \in Hires \ {h} : hire'[g] = hire[g] BY <1>0, <1>1
<1>5. /\ employees' \in Seq(Employee) /\ Len(employees') \in {Len(employees), Len(employees) + 1}
      /\ \A i \in DOMAIN employees : employees'[i] = employees[i]
      /\ AddressesKeptApart'
  <2>1. CASE UNCHANGED employees BY <1>0, <2>1 DEF AddressesKeptApart
  <2>2. ASSUME NEW role \in Roles,
               Inserted([company |-> hire[h].company, address |-> Trim(hire[h].address),
                         role |-> role, password |-> NoPassword,
                         given |-> hire[h].address.as, seen |-> hire[h].seen])
        PROVE  /\ employees' \in Seq(Employee) /\ Len(employees') = Len(employees) + 1
               /\ \A i \in DOMAIN employees : employees'[i] = employees[i]
               /\ AddressesKeptApart'
    <3> DEFINE row == [company |-> hire[h].company, address |-> Trim(hire[h].address),
                       role |-> role, password |-> NoPassword,
                       given |-> hire[h].address.as, seen |-> hire[h].seen]
    <3>1. hire[h].address \in Address /\ hire[h].seen \in Nat /\ hire[h].company \in Companies
      BY <1>2 DEF Hire
    <3>2. row \in Employee
      <4>1. Trim(hire[h].address) \in Address /\ hire[h].address.as \in Spellings
        BY <3>1, Trimmed DEF Address
      <4> QED BY <3>1, <4>1 DEF Employee
    <3>3. ASSUME NEW i \in DOMAIN employees, Lower(employees[i].address) = Lower(row.address)
          PROVE  row.seen < i \/ row.given = "padded"
      <4>1. CASE row.given # "padded"
        <5>1. row.address = hire[h].address BY <3>1, <4>1, Trimmed
        <5>2. i \notin 1..hire[h].seen BY <1>0, <1>1, <3>3, <5>1 DEF HireKnows
        <5> QED BY <1>0, <3>1, <5>2
      <4> QED BY <4>1
    <3>4. Inserted(row) BY <2>2
    <3> HIDE DEF row
    <3> QED BY <3>2, <3>3, <3>4, RowAdded
  <2> QED BY <2>1, <2>2 DEF InsertHire
<1>6. ASSUME NEW g \in Hires PROVE HireKnows(g)'
  <2>1. CASE g = h BY <1>3, <2>1 DEF HireKnows
  <2>2. CASE g # h BY <1>4, <1>5, <2>2, KnownRowsStay
  <2> QED BY <2>1, <2>2
<1>7. AccountTypeOK' BY <1>0, <1>1, <1>3, <1>5 DEF AccountTypeOK, Ready
<1> QED BY <1>3, <1>5, <1>6, <1>7 DEF AccountInv

LEMMA CheckKeeps ==
  ASSUME AccountInv, NEW h \in Hires, NEW c \in Companies, NEW a \in Address, CheckHire(h, c, a)
  PROVE  AccountInv'
<1>0. /\ AccountTypeOK /\ employees \in Seq(Employee) /\ Len(employees) \in Nat
      /\ hire \in [Hires -> Hire \union {Ready}] /\ AddressesKeptApart
  BY DEF AccountInv, AccountTypeOK
<1>1. UNCHANGED <<employees, sessions, now>> BY DEF CheckHire
<1>2. PICK at \in {"checked", "done"} :
        /\ at = "checked" => RowsOf(a) = {}
        /\ hire' = [hire EXCEPT ![h] =
             [at |-> at, company |-> c, address |-> a, seen |-> Len(employees)]]
  BY DEF CheckHire
<1>3. /\ hire' \in [Hires -> Hire \union {Ready}]
      /\ hire'[h] = [at |-> at, company |-> c, address |-> a, seen |-> Len(employees)]
      /\ \A g \in Hires \ {h} : hire'[g] = hire[g]
  <2>1. [at |-> at, company |-> c, address |-> a, seen |-> Len(employees)] \in Hire
    BY <1>0 DEF Hire
  <2> QED BY <1>0, <1>2, <2>1
<1>4. ASSUME NEW g \in Hires PROVE HireKnows(g)'
  <2>1. CASE g = h
    <3>1. CASE at = "checked"
      <4>1. \A i \in DOMAIN employees : Lower(employees[i].address) # Lower(a)
        BY <1>2, <3>1 DEF RowsOf
      <4> QED BY <1>0, <1>1, <1>3, <2>1, <4>1 DEF HireKnows
    <3>2. CASE at # "checked" BY <1>3, <2>1, <3>2 DEF HireKnows
    <3> QED BY <3>1, <3>2
  <2>2. CASE g # h BY <1>0, <1>1, <1>3, <2>2, KnownRowsStay
  <2> QED BY <2>1, <2>2
<1>5. AccountTypeOK' BY <1>0, <1>1, <1>3 DEF AccountTypeOK, Ready
<1>6. AddressesKeptApart' BY <1>0, <1>1 DEF AddressesKeptApart
<1> QED BY <1>3, <1>4, <1>5, <1>6 DEF AccountInv

\* A session is only added, the clock only read.
LEMMA SameAccounts ==
  ASSUME AccountInv, UNCHANGED <<employees, hire>>, sessions' \subseteq Session,
         now' \in 0..MaxTime
  PROVE  AccountInv'
<1>1. AccountTypeOK' BY DEF AccountInv, AccountTypeOK
<1>2. AddressesKeptApart' BY DEF AccountInv, AddressesKeptApart
<1>3. \A h \in Hires : HireKnows(h)' BY DEF AccountInv, HireKnows
<1> QED BY <1>1, <1>2, <1>3 DEF AccountInv

LEMMA AccountStepKeeps == ASSUME AccountInv, AccountStep PROVE AccountInv'
<1>1. ASSUME NEW a \in Address, NEW p \in Passwords, Login(a, p) PROVE AccountInv'
  <2>1. PICK i \in RowsOf(a) : IssuedFor(i, employees[i]) BY <1>1 DEF Login
  <2>2. i \in Nat \ {0} /\ employees[i] \in Employee
    BY <2>1 DEF RowsOf, AccountInv, AccountTypeOK
  <2>3. sessions' \subseteq Session BY <2>1, <2>2, SessionType DEF AccountInv
  <2>4. UNCHANGED <<employees, hire, now>> /\ now \in 0..MaxTime
    BY <1>1 DEF Login, AccountInv, AccountTypeOK
  <2> QED BY <2>3, <2>4, SameAccounts
<1>2. CASE Tick
  <2>1. UNCHANGED <<employees, hire, sessions>> /\ sessions \subseteq Session
    BY <1>2 DEF Tick, AccountInv, AccountTypeOK
  <2>2. now' \in 0..MaxTime
    BY <1>2, AccountsAssumption DEF Tick, AccountInv, AccountTypeOK
  <2> QED BY <2>1, <2>2, SameAccounts
<1> QED BY <1>1, <1>2, RegisterKeeps, CheckKeeps, InsertKeeps DEF AccountStep

LEMMA SessionsStay ==
  ASSUME AccountInv, AccountStep
  PROVE  sessions \subseteq sessions'
<1>1. ASSUME NEW a \in Address, NEW p \in Passwords, Login(a, p) PROVE sessions \subseteq sessions'
  BY <1>1 DEF Login, IssuedFor
<1>2. ASSUME NEW c \in Companies, NEW a \in Address, NEW p \in Passwords, RegisterCompany(c, a, p)
      PROVE  sessions \subseteq sessions'
  BY <1>2 DEF RegisterCompany, IssuedFor
<1>3. CASE ~(\/ \E c \in Companies, a \in Address, p \in Passwords : RegisterCompany(c, a, p)
             \/ \E a \in Address, p \in Passwords : Login(a, p))
  BY <1>3 DEF AccountStep, CheckHire, InsertHire, Tick
<1> QED BY <1>1, <1>2, <1>3

LEMMA AccountInvInit == AccountInit => AccountInv
<1> SUFFICES ASSUME AccountInit PROVE AccountInv
  OBVIOUS
<1>1. employees = << >> /\ hire = [h \in Hires |-> Ready] /\ sessions = {} /\ now = 0
  BY DEF AccountInit, Ready
<1>2. \A h \in Hires : hire[h] = Ready /\ hire[h].at = "ready" BY <1>1 DEF Ready
<1>3. AccountTypeOK BY <1>1, <1>2, AccountsAssumption DEF AccountTypeOK, Ready
<1>4. AddressesKeptApart BY <1>1 DEF AddressesKeptApart
<1>5. \A h \in Hires : HireKnows(h) BY <1>2 DEF HireKnows
<1> QED BY <1>1, <1>3, <1>4, <1>5 DEF AccountInv

-------------------------------------------------------------------------------
(* Operations of the devices page *)

Slots == OwnAgents \union {Free, "revoke", "register"}

\* What an operation is about, as its button has it.
OpKnows(op) ==
  /\ op.kind \in {"bind", "unbind"} => op.device \in Devices /\ op.slot \in OwnAgents
  /\ op.kind = "bind" => op.permissions \in PermissionSets
  /\ op.kind \in {"register", "revoke"} => op.device \in Devices

OpsKnow == \A n \in DOMAIN ops : OpKnows(ops[n])

ClosedIsUnused == view = "closed" => ops = << >>

\* What was under way when an operation began, and what still is, is noted.
OverlapsSeen ==
  \A n \in DOMAIN ops : \A m \in 1..(n - 1) : UnderWay(m) => <<m, n>> \in overlaps

\* What the last operation has listed, if it had the API to itself, still holds.
LastListed ==
  LET last == Len(ops) IN
  ops # << >> /\ (\A n \in DOMAIN ops : ~Overlap(n, last)) =>
    /\ ops[last].at = "answered" => ops[last].answer = Rows
    /\ ops[last].at = "done" => rows = Rows

BindInv ==
  /\ BindingTypeOK /\ OpsKnow /\ ClosedIsUnused /\ OverlapsSeen
  /\ LastClickHolds /\ LastListed

\* What is fixed when an operation begins.
SameOp(op, old) ==
  op.kind = old.kind /\ op.slot = old.slot /\ op.device = old.device
    /\ op.permissions = old.permissions

\* A step of an operation leaves the others alone.
LEMMA OpMoves ==
  ASSUME BindingTypeOK, NEW n \in DOMAIN ops, OpStep(n) \/ OpReject(n)
  PROVE  /\ ops' \in Seq(Op) /\ Len(ops') = Len(ops) /\ DOMAIN ops' = DOMAIN ops
         /\ UnderWay(n) /\ UNCHANGED <<overlaps, token, accountVars>>
         /\ view' \in {view, "login"}
         /\ SameOp(ops'[n], ops[n])
         /\ \A m \in DOMAIN ops \ {n} : ops'[m] = ops[m]
<1>0. /\ ops \in Seq(Op) /\ ops[n] \in Op /\ Rows \in Table
  BY DEF BindingTypeOK, Rows, Table
<1> DEFINE Ats == {"sent", "executed", "validated", "answered", "done", "failed", "rejected",
                   "adrift"}
<1>1. ASSUME NEW at \in Ats, ops' = [ops EXCEPT ![n].at = at]
      PROVE  /\ ops' \in Seq(Op) /\ Len(ops') = Len(ops) /\ DOMAIN ops' = DOMAIN ops
             /\ SameOp(ops'[n], ops[n])
             /\ \A m \in DOMAIN ops \ {n} : ops'[m] = ops[m]
  <2>1. [ops[n] EXCEPT !.at = at] \in Op BY <1>0 DEF Op
  <2>2. ops'[n] = [ops[n] EXCEPT !.at = at] BY <1>0, <1>1
  <2>3. SameOp(ops'[n], ops[n]) BY <1>0, <2>2 DEF SameOp, Op
  <2> QED BY <1>0, <1>1, <2>1, <2>3
<1>2. CASE Execute(n) \/ Refuse(n) \/ Validate(n) \/ Redirect(n) \/ ListFails(n) \/ Show(n)
           \/ Land(n)
  <2>1. PICK from, to : Moves(n, from, to) /\ from \notin {"done", "failed", "rejected"}
                          /\ to \in Ats
    BY <1>2 DEF Execute, Refuse, Validate, Redirect, ListFails, Show, Land
  <2>2. ops' = [ops EXCEPT ![n].at = to] /\ UnderWay(n) BY <2>1 DEF Moves, UnderWay
  <2>3. UNCHANGED <<overlaps, token, accountVars>> /\ view' \in {view, "login"}
    BY <1>2 DEF Execute, Refuse, Validate, Redirect, ListFails, Show, Land
  <2> QED BY <1>1, <2>1, <2>2, <2>3
<1>3. CASE List(n)
  <2>1. ops' = [ops EXCEPT ![n].at = "answered", ![n].answer = Rows] BY <1>3 DEF List
  <2>2. [ops[n] EXCEPT !.at = "answered", !.answer = Rows] \in Op BY <1>0 DEF Op
  <2>3. ops' = [ops EXCEPT ![n] = [ops[n] EXCEPT !.at = "answered", !.answer = Rows]]
    BY <1>0, <2>1
  <2>4. SameOp(ops'[n], ops[n]) BY <1>0, <2>3 DEF SameOp, Op
  <2>5. UnderWay(n) /\ UNCHANGED <<overlaps, token, accountVars, view>>
    BY <1>3 DEF List, UnderWay
  <2>6. /\ ops' \in Seq(Op) /\ Len(ops') = Len(ops) /\ DOMAIN ops' = DOMAIN ops
        /\ \A m \in DOMAIN ops \ {n} : ops'[m] = ops[m]
    BY <1>0, <2>2, <2>3
  <2> QED BY <2>4, <2>5, <2>6
<1>4. CASE OpReject(n)
  <2>1. PICK at \in {"adrift", "rejected"} : ops' = [ops EXCEPT ![n].at = at]
    BY <1>4, <1>0 DEF OpReject, Op
  <2>2. UnderWay(n) /\ UNCHANGED <<overlaps, token, accountVars, view>>
    BY <1>4 DEF OpReject
  <2> QED BY <1>1, <2>1, <2>2
<1> QED BY <1>2, <1>3, <1>4 DEF OpStep

\* Only a request that is executed changes the tables, and the row of a binding
\* only if it is about that.
LEMMA TablesMove ==
  ASSUME BindingTypeOK, OpsKnow, NEW n \in DOMAIN ops, OpStep(n) \/ OpReject(n)
  PROVE  /\ device' \in [Devices -> Status]
         /\ binding' \in [Devices \X OwnAgents -> Binding \union {NoBinding}]
         /\ \/ UNCHANGED <<device, binding>>
            \/ Executes(ops[n]) /\ ops'[n].at \in {"executed", "rejected"}
         /\ Execute(n) => Executes(ops[n])
         /\ \A b \in Devices \X OwnAgents :
              binding'[b] = binding[b] \/ (b = Key(ops[n]) /\ ops[n].kind \in {"bind", "unbind"})
<1>0. /\ ops \in Seq(Op) /\ ops[n] \in Op /\ OpKnows(ops[n])
      /\ device \in [Devices -> Status]
      /\ binding \in [Devices \X OwnAgents -> Binding \union {NoBinding}]
  BY DEF BindingTypeOK, OpsKnow
<1>1. \/ UNCHANGED <<device, binding>>
      \/ Executes(ops[n]) /\ ops'[n].at \in {"executed", "rejected"}
  <2>1. CASE Execute(n) \/ Land(n)
    BY <1>0, <2>1 DEF Execute, Land, Moves, Op
  <2>2. CASE ~(Execute(n) \/ Land(n))
    BY <2>2 DEF OpStep, Refuse, Validate, Redirect, List, ListFails, Show, OpReject
  <2> QED BY <2>1, <2>2
<1>2. Execute(n) => Executes(ops[n]) BY DEF Execute
<1>3. CASE UNCHANGED <<device, binding>> BY <1>0, <1>1, <1>2, <1>3
<1>4. CASE Executes(ops[n])
  <2>1. device' = DeviceAfter(ops[n]) /\ binding' = BindingAfter(ops[n]) BY <1>4 DEF Executes
  <2>2. device' \in [Devices -> Status] BY <1>0, <2>1 DEF DeviceAfter, OpKnows, Status
  <2>3. CASE ops[n].kind = "bind"
    <3>1. /\ Key(ops[n]) \in Devices \X OwnAgents
          /\ [active |-> TRUE, permissions |-> ops[n].permissions] \in Binding
      BY <1>0, <2>3 DEF OpKnows, Key, Binding
    <3>2. binding' = [binding EXCEPT ![Key(ops[n])] =
                        [active |-> TRUE, permissions |-> ops[n].permissions]]
      BY <2>1, <2>3 DEF BindingAfter
    <3> HIDE DEF Key
    <3> QED BY <1>0, <1>1, <1>2, <2>2, <2>3, <3>1, <3>2
  <2>4. CASE ops[n].kind = "unbind"
    <3>1. Key(ops[n]) \in Devices \X OwnAgents
      BY <1>0, <2>4 DEF OpKnows, Key
    <3>2. binding' = [binding EXCEPT ![Key(ops[n])].active = FALSE]
      BY <2>1, <2>4 DEF BindingAfter
    <3>3. [binding[Key(ops[n])] EXCEPT !.active = FALSE] \in Binding \union {NoBinding}
      <4>1. CASE binding[Key(ops[n])] \in Binding BY <4>1 DEF Binding
      <4>2. CASE binding[Key(ops[n])] = NoBinding
        <5>1. [NoBinding EXCEPT !.active = FALSE] = [NoBinding EXCEPT !.active = NoBinding.active]
          BY DEF NoBinding
        <5>2. [NoBinding EXCEPT !.active = NoBinding.active] = NoBinding
          <6>1. NoBinding \in [active : BOOLEAN, permissions : {{}}] BY DEF NoBinding
          <6>2. \A r \in [active : BOOLEAN, permissions : {{}}] :
                  [r EXCEPT !.active = r.active] = r
            OBVIOUS
          <6> QED BY <6>1, <6>2
        <5> QED BY <4>2, <5>1, <5>2
      <4> QED BY <1>0, <3>1, <4>1, <4>2
    <3>4. binding' = [binding EXCEPT ![Key(ops[n])] =
                        [binding[Key(ops[n])] EXCEPT !.active = FALSE]]
      BY <3>2
    <3>5. /\ binding' \in [Devices \X OwnAgents -> Binding \union {NoBinding}]
          /\ \A b \in Devices \X OwnAgents : binding'[b] = binding[b] \/ b = Key(ops[n])
      BY <1>0, <3>1, <3>3, <3>4
    <3> QED BY <1>1, <1>2, <2>2, <2>4, <3>5
  <2>5. CASE ops[n].kind \notin {"bind", "unbind"}
    <3>1. binding' = binding BY <2>1, <2>5 DEF BindingAfter
    <3> QED BY <1>0, <1>1, <1>2, <2>2, <3>1
  <2> QED BY <2>3, <2>4, <2>5
<1> QED BY <1>1, <1>3, <1>4

\* Types of what the page keeps.
LEMMA OpKeepsTypes ==
  ASSUME BindingTypeOK, OpsKnow, NEW n \in DOMAIN ops, OpStep(n) \/ OpReject(n)
  PROVE  BindingTypeOK' /\ OpsKnow'
<1>0. /\ ops \in Seq(Op) /\ ops[n] \in Op /\ OpKnows(ops[n])
      /\ rows \in Table /\ selected \in Devices \union {NoDevice}
      /\ busy \in OwnAgents \union {Free, "revoke", "register"}
      /\ view \in {"closed", "open", "login"}
  BY DEF BindingTypeOK, OpsKnow
<1>1. /\ ops' \in Seq(Op) /\ DOMAIN ops' = DOMAIN ops /\ UNCHANGED <<overlaps, token, sessions>>
      /\ view' \in {view, "login"} /\ SameOp(ops'[n], ops[n])
      /\ \A m \in DOMAIN ops \ {n} : ops'[m] = ops[m]
  BY OpMoves DEF accountVars
<1>2. /\ device' \in [Devices -> Status]
      /\ binding' \in [Devices \X OwnAgents -> Binding \union {NoBinding}]
  BY TablesMove
<1>3. busy' \in {busy, Free}
  BY DEF OpStep, Execute, Refuse, Validate, Redirect, List, ListFails, Show, Land, OpReject
<1>4. rows' \in Table /\ selected' \in Devices \union {NoDevice}
  <2>1. CASE Show(n)
    <3>1. rows' = ops[n].answer BY <2>1 DEF Show
    <3>2. ops[n].answer \in Table BY <1>0 DEF Op
    <3>3. \/ selected' = ops[n].device /\ ops[n].kind = "register"
          \/ selected' \in Devices \/ UNCHANGED selected
      BY <2>1 DEF Show
    <3> QED BY <1>0, <3>1, <3>2, <3>3 DEF OpKnows
  <2>2. CASE ~Show(n)
    BY <1>0, <2>2 DEF OpStep, Execute, Refuse, Validate, Redirect, List, ListFails, Land, OpReject
  <2> QED BY <2>1, <2>2
<1>5. OpsKnow'
  <2>1. OpKnows(ops'[n]) BY <1>0, <1>1 DEF SameOp, OpKnows
  <2> QED BY <1>1, <2>1 DEF OpsKnow
<1>6. busy' \in OwnAgents \union {Free, "revoke", "register"} BY <1>0, <1>3
<1>7. view' \in {"closed", "open", "login"} BY <1>0, <1>1
<1> QED BY <1>1, <1>2, <1>4, <1>5, <1>6, <1>7 DEF BindingTypeOK

\* An operation that works beside others overlaps them: with no overlap noted,
\* it is the only one.
LEMMA Alone ==
  ASSUME BindingTypeOK, OverlapsSeen, NEW n \in DOMAIN ops, NEW m \in DOMAIN ops,
         UnderWay(n), m # n, ~Overlap(m, n)
  PROVE  n > m
<1>1. n \in Nat /\ m \in Nat /\ n >= 1 BY DEF BindingTypeOK
<1>2. CASE n < m
  <2>1. n \in 1..(m - 1) BY <1>1, <1>2
  <2> QED BY <2>1 DEF OverlapsSeen, Overlap
<1> QED BY <1>1, <1>2

\* What was clicked last is still in the row.
LEMMA OpKeepsClicks ==
  ASSUME BindInv, NEW n \in DOMAIN ops, OpStep(n) \/ OpReject(n)
  PROVE  LastClickHolds'
<1>0. /\ BindingTypeOK /\ OpsKnow /\ OverlapsSeen /\ LastClickHolds
      /\ ops \in Seq(Op) /\ ops[n] \in Op
      /\ binding \in [Devices \X OwnAgents -> Binding \union {NoBinding}]
  BY DEF BindInv, BindingTypeOK
<1>1. /\ Len(ops') = Len(ops) /\ DOMAIN ops' = DOMAIN ops /\ UnderWay(n) /\ UNCHANGED overlaps
      /\ SameOp(ops'[n], ops[n]) /\ \A m \in DOMAIN ops \ {n} : ops'[m] = ops[m]
  BY <1>0, OpMoves
<1>2. \A m \in DOMAIN ops : SameOp(ops'[m], ops[m]) BY <1>1 DEF SameOp
<1> SUFFICES ASSUME NEW m \in DOMAIN ops,
                    ops[m].kind \in {"bind", "unbind"},
                    ops'[m].at \in {"executed", "validated", "answered"},
                    \A i \in (m + 1)..Len(ops) :
                      ~(ops[i].slot = ops[m].slot /\ ops[i].device = ops[m].device),
                    \A i \in DOMAIN ops :
                      ops[i].slot = ops[m].slot /\ ops[i].device = ops[m].device => ~Overlap(m, i)
             PROVE  /\ binding'[Key(ops[m])].active = (ops[m].kind = "bind")
                    /\ ops[m].kind = "bind" =>
                         binding'[Key(ops[m])].permissions = ops[m].permissions
  <2>1. Len(ops) \in Nat /\ DOMAIN ops = 1..Len(ops) BY <1>0
  <2>2. \A i \in (1..Len(ops)) : SameOp(ops'[i], ops[i]) BY <1>2, <2>1
  <2>3. \A i, j \in DOMAIN ops : Overlap(i, j)' <=> Overlap(i, j) BY <1>1 DEF Overlap
  <2>4. \A i \in DOMAIN ops : Key(ops'[i]) = Key(ops[i]) BY <1>2 DEF SameOp, Key
  <2>5. \A i \in DOMAIN ops : \A j \in (i + 1)..Len(ops) : j \in DOMAIN ops BY <2>1
  <2> HIDE DEF Key, Overlap
  <2> QED BY <1>1, <1>2, <2>3, <2>4, <2>5 DEF LastClickHolds, SameOp
<1>3. Key(ops[m]) \in Devices \X OwnAgents BY <1>0 DEF OpsKnow, OpKnows, Key
<1>4. CASE m = n
  <2>1. CASE Execute(n)
    <3>1. binding' = BindingAfter(ops[m]) BY <1>4, <2>1 DEF Execute, Executes
    <3>2. CASE ops[m].kind = "bind"
      <4>1. binding' = [binding EXCEPT ![Key(ops[m])] =
                          [active |-> TRUE, permissions |-> ops[m].permissions]]
        BY <3>1, <3>2 DEF BindingAfter
      <4>2. binding'[Key(ops[m])] = [active |-> TRUE, permissions |-> ops[m].permissions]
        BY <1>0, <1>3, <4>1
      <4>3. /\ binding'[Key(ops[m])].active = TRUE
            /\ binding'[Key(ops[m])].permissions = ops[m].permissions
        BY <4>2
      <4> QED BY <3>2, <4>3
    <3>3. CASE ops[m].kind = "unbind"
      <4>1. binding' = [binding EXCEPT ![Key(ops[m])].active = FALSE]
        BY <3>1, <3>3 DEF BindingAfter
      <4>2. binding'[Key(ops[m])] = [binding[Key(ops[m])] EXCEPT !.active = FALSE]
        BY <1>0, <1>3, <4>1
      <4>3. binding[Key(ops[m])] \in Binding \union {NoBinding} BY <1>0, <1>3
      <4>4. binding'[Key(ops[m])].active = FALSE BY <4>2, <4>3 DEF Binding, NoBinding
      <4> QED BY <3>3, <4>4
    <3> QED BY <3>2, <3>3
  <2>2. CASE ~Execute(n)
    <3>1. ops[m].at \in {"executed", "validated"} /\ UNCHANGED binding
      BY <1>0, <1>4, <2>2 DEF OpStep, Refuse, Validate, Redirect, List, ListFails, Show, Land,
         OpReject, Moves, Op
    <3> QED BY <1>0, <3>1 DEF LastClickHolds
  <2> QED BY <2>1, <2>2
<1>5. CASE m # n
  <2>1. ops[m].at \in {"executed", "validated", "answered"} BY <1>1, <1>5
  <2>2. /\ binding[Key(ops[m])].active = (ops[m].kind = "bind")
        /\ ops[m].kind = "bind" => binding[Key(ops[m])].permissions = ops[m].permissions
    BY <1>0, <2>1 DEF LastClickHolds
  <2>3. binding'[Key(ops[m])] = binding[Key(ops[m])]
    <3>1. SUFFICES ASSUME Key(ops[m]) = Key(ops[n]) PROVE FALSE BY <1>0, <1>3, TablesMove
    <3>2. ops[n].slot = ops[m].slot /\ ops[n].device = ops[m].device BY <3>1 DEF Key
    <3>3. ~Overlap(m, n) BY <3>2
    <3>4. n > m BY <1>0, <1>1, <1>5, <3>3, Alone
    <3>5. n \in (m + 1)..Len(ops) BY <1>0, <3>4
    <3> QED BY <3>2, <3>5
  <2> QED BY <2>2, <2>3
<1> QED BY <1>4, <1>5

\* What is listed last is what there is.
LEMMA OpKeepsLists ==
  ASSUME BindInv, NEW n \in DOMAIN ops, OpStep(n) \/ OpReject(n)
  PROVE  LastListed'
<1> DEFINE last == Len(ops)
<1>0. /\ BindingTypeOK /\ OpsKnow /\ OverlapsSeen /\ LastListed
      /\ ops \in Seq(Op) /\ ops[n] \in Op /\ Len(ops) \in Nat /\ DOMAIN ops = 1..Len(ops)
  BY DEF BindInv, BindingTypeOK
<1>1. /\ Len(ops') = Len(ops) /\ DOMAIN ops' = DOMAIN ops /\ UnderWay(n) /\ UNCHANGED overlaps
      /\ \A m \in DOMAIN ops \ {n} : ops'[m] = ops[m]
  BY <1>0, OpMoves
<1>2. last \in DOMAIN ops /\ ops # << >> BY <1>0
<1> SUFFICES ASSUME \A i \in DOMAIN ops : ~Overlap(i, last)
             PROVE  /\ ops'[last].at = "answered" => ops'[last].answer = Rows'
                    /\ ops'[last].at = "done" => rows' = Rows'
  BY <1>1 DEF LastListed, Overlap
<1>3. n = last
  <2>1. SUFFICES ASSUME n # last PROVE FALSE OBVIOUS
  <2>2. ~Overlap(last, n) BY DEF Overlap
  <2>3. n > last BY <1>0, <1>1, <1>2, <2>1, <2>2, Alone
  <2> QED BY <1>0, <2>3
<1>4. /\ ops[last].at = "answered" => ops[last].answer = Rows
      /\ ops[last].at = "done" => rows = Rows
  BY <1>0, <1>2 DEF LastListed
<1> HIDE DEF last
<1>5. CASE List(n)
  <2>1. ops' = [ops EXCEPT ![n].at = "answered", ![n].answer = Rows]
        /\ UNCHANGED <<device, binding>>
    BY <1>5 DEF List
  <2>2. ops'[n] = [ops[n] EXCEPT !.at = "answered", !.answer = Rows] BY <1>0, <2>1
  <2>3. ops'[n].at = "answered" /\ ops'[n].answer = Rows BY <1>0, <2>2 DEF Op
  <2> QED BY <1>3, <2>1, <2>3 DEF Rows
<1>6. CASE Show(n)
  <2>1. /\ ops[n].at = "answered" /\ rows' = ops[n].answer
        /\ ops' = [ops EXCEPT ![n].at = "done"] /\ UNCHANGED <<device, binding>>
    BY <1>6 DEF Show, Moves
  <2>2. ops'[n].at = "done" BY <1>0, <2>1 DEF Op
  <2> QED BY <1>3, <1>4, <2>1, <2>2 DEF Rows
<1>7. CASE ~(List(n) \/ Show(n))
  <2>1. PICK to \in {"executed", "failed", "validated", "rejected", "adrift"} :
          ops' = [ops EXCEPT ![n].at = to]
    BY <1>7 DEF OpStep, Execute, Refuse, Validate, Redirect, ListFails, Land, OpReject, Moves
  <2>2. ops'[n].at = to BY <1>0, <2>1 DEF Op
  <2> QED BY <1>3, <2>2
<1> QED BY <1>5, <1>6, <1>7

LEMMA OpKeeps ==
  ASSUME BindInv, NEW n \in DOMAIN ops, OpStep(n) \/ OpReject(n)
  PROVE  BindInv'
<1>0. /\ BindingTypeOK /\ OpsKnow /\ OverlapsSeen /\ ClosedIsUnused BY DEF BindInv
<1>1. BindingTypeOK' /\ OpsKnow' BY <1>0, OpKeepsTypes
<1>2. /\ DOMAIN ops' = DOMAIN ops /\ UnderWay(n) /\ UNCHANGED overlaps
      /\ view' \in {view, "login"} /\ \A m \in DOMAIN ops \ {n} : ops'[m] = ops[m]
  BY <1>0, OpMoves
<1>3. ops # << >> BY <1>0 DEF BindingTypeOK
<1>4. ClosedIsUnused' BY <1>0, <1>2, <1>3 DEF ClosedIsUnused
<1>5. OverlapsSeen'
  <2>1. \A m \in DOMAIN ops : UnderWay(m)' => UnderWay(m) BY <1>2 DEF UnderWay
  <2>2. \A k \in DOMAIN ops : \A m \in 1..(k - 1) : m \in DOMAIN ops
    BY <1>0 DEF BindingTypeOK
  <2> HIDE DEF UnderWay
  <2> QED BY <1>0, <1>2, <2>1, <2>2 DEF OverlapsSeen
<1> QED BY <1>1, <1>4, <1>5, OpKeepsClicks, OpKeepsLists DEF BindInv

\* A new operation has only begun, and those under way are noted beside it.
LEMMA BeginKeeps ==
  ASSUME BindInv, NEW kind, NEW slot, NEW d, NEW permissions, NEW at \in {"sent", "executed"},
         Begin(kind, slot, d, permissions, at),
         at = "executed" => kind \notin {"bind", "unbind"},
         kind \in {"load", "bind", "unbind", "revoke", "register"}, slot \in Slots,
         d \in Devices \union {NoDevice}, permissions \in PermissionSets \union {{}},
         OpKnows([kind |-> kind, slot |-> slot, device |-> d, permissions |-> permissions,
                  at |-> at, answer |-> Rows]),
         UNCHANGED <<device, binding, rows, selected, sessions>>,
         busy' \in Slots, view' \in {"open", "login"}, token' \in sessions \union {NoSession}
  PROVE  BindInv'
<1> DEFINE op == [kind |-> kind, slot |-> slot, device |-> d, permissions |-> permissions,
                  at |-> at, answer |-> Rows]
           n == Len(ops) + 1
<1>0. /\ BindingTypeOK /\ OpsKnow /\ OverlapsSeen /\ LastClickHolds
      /\ ops \in Seq(Op) /\ Len(ops) \in Nat /\ DOMAIN ops = 1..Len(ops)
      /\ Rows \in Table /\ overlaps \subseteq (DOMAIN ops) \X (DOMAIN ops)
  BY DEF BindInv, BindingTypeOK, Rows, Table
<1>1. op \in Op BY <1>0 DEF Op, Slots
<1>2. op.kind = kind /\ op.at = at /\ OpKnows(op) OBVIOUS
<1>3. /\ ops' = Append(ops, op)
      /\ overlaps' = overlaps \union {<<m, n>> : m \in {i \in DOMAIN ops : UnderWay(i)}}
  BY DEF Begin
<1> HIDE DEF op
<1>4. /\ ops' \in Seq(Op) /\ Len(ops') = n /\ DOMAIN ops' = 1..n /\ n \in Nat
      /\ DOMAIN ops \subseteq DOMAIN ops' /\ n \in DOMAIN ops'
      /\ \A m \in DOMAIN ops : ops'[m] = ops[m]
      /\ ops'[n] = op
      /\ \A m \in DOMAIN ops' : m \in DOMAIN ops \/ m = n
  BY <1>0, <1>1, <1>3
<1>5. overlaps \subseteq overlaps' /\ overlaps' \subseteq (DOMAIN ops') \X (DOMAIN ops')
  BY <1>0, <1>3, <1>4
<1>6. BindingTypeOK'
  <2>1. device' \in [Devices -> Status] /\ rows' \in Table
        /\ binding' \in [Devices \X OwnAgents -> Binding \union {NoBinding}]
        /\ selected' \in Devices \union {NoDevice}
    BY <1>0 DEF BindingTypeOK
  <2>2. busy' \in OwnAgents \union {Free, "revoke", "register"} BY DEF Slots
  <2> QED BY <1>4, <1>5, <2>1, <2>2 DEF BindingTypeOK
<1>7. OpsKnow' BY <1>0, <1>2, <1>4 DEF OpsKnow
<1>8. ClosedIsUnused' BY DEF ClosedIsUnused
<1>9. OverlapsSeen'
  <2> SUFFICES ASSUME NEW k \in DOMAIN ops', NEW m \in 1..(k - 1), UnderWay(m)'
               PROVE  <<m, k>> \in overlaps'
    BY DEF OverlapsSeen
  <2>1. m \in DOMAIN ops /\ m \in Nat BY <1>0, <1>4
  <2>2. UnderWay(m) BY <1>4, <2>1 DEF UnderWay
  <2>3. CASE k \in DOMAIN ops BY <1>0, <1>5, <2>2, <2>3 DEF OverlapsSeen
  <2>4. CASE k = n BY <1>3, <2>1, <2>2, <2>4
  <2> QED BY <1>4, <2>3, <2>4
<1>10. LastClickHolds'
  <2> SUFFICES ASSUME NEW m \in DOMAIN ops',
                      ops'[m].kind \in {"bind", "unbind"},
                      ops'[m].at \in {"executed", "validated", "answered"},
                      \A i \in (m + 1)..Len(ops') :
                        ~(ops'[i].slot = ops'[m].slot /\ ops'[i].device = ops'[m].device),
                      \A i \in DOMAIN ops' :
                        ops'[i].slot = ops'[m].slot /\ ops'[i].device = ops'[m].device
                          => ~Overlap(m, i)'
               PROVE  /\ binding'[Key(ops'[m])].active = (ops'[m].kind = "bind")
                      /\ ops'[m].kind = "bind" =>
                           binding'[Key(ops'[m])].permissions = ops'[m].permissions
    BY DEF LastClickHolds
  <2>1. m \in DOMAIN ops BY <1>2, <1>4
  <2>2. ops'[m] = ops[m] BY <1>4, <2>1
  <2>3. \A i \in DOMAIN ops : ops'[i] = ops[i] /\ (Overlap(m, i) => Overlap(m, i)')
    BY <1>4, <1>5 DEF Overlap
  <2>4. \A i \in (m + 1)..Len(ops) : i \in (m + 1)..Len(ops') /\ i \in DOMAIN ops
    BY <1>0, <1>4, <2>1
  <2>5. DOMAIN ops \subseteq DOMAIN ops' BY <1>4
  <2> HIDE DEF Overlap, n
  <2>6. /\ \A i \in (m + 1)..Len(ops) :
             ~(ops[i].slot = ops[m].slot /\ ops[i].device = ops[m].device)
        /\ \A i \in DOMAIN ops :
             ops[i].slot = ops[m].slot /\ ops[i].device = ops[m].device => ~Overlap(m, i)
    BY <2>2, <2>3, <2>4, <2>5
  <2>7. /\ binding[Key(ops[m])].active = (ops[m].kind = "bind")
        /\ ops[m].kind = "bind" => binding[Key(ops[m])].permissions = ops[m].permissions
    BY <1>0, <2>1, <2>2, <2>6 DEF LastClickHolds
  <2> QED BY <2>2, <2>7
<1>11. LastListed'
  <2>1. ops'[Len(ops')].at \notin {"answered", "done"} BY <1>2, <1>4
  <2> QED BY <2>1 DEF LastListed
<1> QED BY <1>6, <1>7, <1>8, <1>9, <1>10, <1>11 DEF BindInv

\* A click on a button.
LEMMA ClickKeeps ==
  ASSUME BindInv, NEW kind \in {"bind", "unbind", "revoke", "register"}, NEW slot \in Slots,
         NEW d \in Devices, NEW permissions \in PermissionSets \union {{}},
         kind \in {"bind", "unbind"} => slot \in OwnAgents,
         kind = "bind" => permissions \in PermissionSets,
         Click(kind, slot, d, permissions)
  PROVE  BindInv'
<1>1. /\ Begin(kind, slot, d, permissions, "sent") /\ busy' = slot /\ view = "open"
      /\ UNCHANGED <<device, binding, rows, selected, sessions, view, token>>
  BY DEF Click, Enabled, accountVars
<1>2. token \in sessions \union {NoSession} BY DEF BindInv, BindingTypeOK
<1>3. OpKnows([kind |-> kind, slot |-> slot, device |-> d, permissions |-> permissions,
               at |-> "sent", answer |-> Rows])
  BY DEF OpKnows
<1> QED BY <1>1, <1>2, <1>3, BeginKeeps

\* Tables and operations as they were: registrations before the page is open,
\* selections, other work on accounts.
LEMMA SameOps ==
  ASSUME BindInv, UNCHANGED <<binding, view, rows, busy, ops, overlaps>>,
         device' \in [Devices -> Status], ops # << >> => UNCHANGED device,
         selected' \in Devices \union {NoDevice}, token' \in sessions' \union {NoSession}
  PROVE  BindInv'
<1>1. BindingTypeOK' BY DEF BindInv, BindingTypeOK
<1>2. OpsKnow' /\ ClosedIsUnused' BY DEF BindInv, OpsKnow, ClosedIsUnused
<1>3. OverlapsSeen' BY DEF BindInv, OverlapsSeen, UnderWay
<1>4. LastClickHolds' BY DEF BindInv, LastClickHolds, Overlap
<1>5. LastListed' BY DEF BindInv, LastListed, Overlap, Rows
<1> QED BY <1>1, <1>2, <1>3, <1>4, <1>5 DEF BindInv

LEMMA PageKeeps ==
  ASSUME BindInv, DevicesPageStep
  PROVE  BindInv'
<1>0. /\ BindingTypeOK /\ ClosedIsUnused /\ selected \in Devices \union {NoDevice}
      /\ device \in [Devices -> Status] /\ token \in sessions \union {NoSession}
      /\ busy \in Slots /\ rows \in Table
  BY DEF BindInv, BindingTypeOK, Slots
<1>1. ASSUME NEW s \in sessions, Open(s) PROVE BindInv'
  <2>1. /\ Begin("load", Free, NoDevice, {}, "executed") /\ view' = "open" /\ token' = s
        /\ UNCHANGED <<device, binding, rows, selected, busy, sessions>>
    BY <1>1 DEF Open, accountVars
  <2>2. OpKnows([kind |-> "load", slot |-> Free, device |-> NoDevice, permissions |-> {},
                 at |-> "executed", answer |-> Rows])
    BY DEF OpKnows
  <2>3. Free \in Slots BY DEF Slots
  <2> QED BY <1>0, <2>1, <2>2, <2>3, BeginKeeps
<1>2. ASSUME NEW a \in OwnAgents, ClickUnbind(a) PROVE BindInv'
  <2>1. selected \in Devices /\ Click("unbind", a, selected, {})
    BY <1>0, <1>2 DEF ClickUnbind, Usable
  <2> QED BY <2>1, ClickKeeps DEF Slots
<1>3. ASSUME NEW a \in OwnAgents, NEW p \in PermissionSets, ClickBind(a, p) PROVE BindInv'
  <2>1. selected \in Devices /\ Click("bind", a, selected, p)
    BY <1>0, <1>3 DEF ClickBind, Usable
  <2> QED BY <2>1, ClickKeeps DEF Slots
<1>4. CASE ClickRevoke
  <2>1. selected \in Devices /\ Click("revoke", "revoke", selected, {})
    BY <1>0, <1>4 DEF ClickRevoke, Usable
  <2> QED BY <2>1, ClickKeeps DEF Slots
<1>5. ASSUME NEW d \in Devices, ClickRegister(d) PROVE BindInv'
  <2>1. Click("register", "register", d, {}) BY <1>5 DEF ClickRegister
  <2> QED BY <2>1, ClickKeeps DEF Slots
<1>6. ASSUME NEW d \in Devices, RegisterDevice(d) PROVE BindInv'
  <2>1. /\ ops = << >> /\ device' = [device EXCEPT ![d] = "OFFLINE"]
        /\ UNCHANGED <<binding, view, rows, busy, ops, overlaps, selected, token, sessions>>
    BY <1>0, <1>6 DEF RegisterDevice, ClosedIsUnused, accountVars
  <2>2. device' \in [Devices -> Status] BY <1>0, <2>1 DEF Status
  <2> QED BY <1>0, <2>1, <2>2, SameOps
<1>7. ASSUME NEW d \in Devices, Select(d) PROVE BindInv'
  <2>1. /\ selected' = d
        /\ UNCHANGED <<device, binding, view, rows, busy, ops, overlaps, token, sessions>>
    BY <1>7 DEF Select, accountVars
  <2> QED BY <1>0, <2>1, SameOps
<1> QED BY <1>1, <1>2, <1>3, <1>4, <1>5, <1>6, <1>7, OpKeeps DEF DevicesPageStep

-------------------------------------------------------------------------------
(* Accounts and the devices page *)

LEMMA BindingsInvInit == BindingsInit => AccountInv /\ BindInv
<1> SUFFICES ASSUME BindingsInit PROVE AccountInv /\ BindInv
  OBVIOUS
<1>1. AccountInv BY AccountInvInit DEF BindingsInit
<1>2. /\ device \in [Devices -> Status]
      /\ binding \in [Devices \X OwnAgents -> Binding \union {NoBinding}]
      /\ view = "closed" /\ token = NoSession /\ rows = Rows /\ selected = NoDevice
      /\ busy = Free /\ ops = << >> /\ overlaps = {}
  BY DEF BindingsInit, Status
<1>3. BindingTypeOK BY <1>2 DEF BindingTypeOK, Table, Rows
<1>4. OpsKnow /\ ClosedIsUnused /\ OverlapsSeen /\ LastClickHolds /\ LastListed
  BY <1>2 DEF OpsKnow, ClosedIsUnused, OverlapsSeen, LastClickHolds, LastListed
<1> QED BY <1>1, <1>3, <1>4 DEF BindInv

LEMMA BindingsInvStep ==
  AccountInv /\ BindInv /\ [BindingsNext]_devicesVars => (AccountInv /\ BindInv)'
<1> SUFFICES ASSUME AccountInv, BindInv, [BindingsNext]_devicesVars
             PROVE  (AccountInv /\ BindInv)'
  OBVIOUS
<1>1. CASE DevicesPageStep
  <2>1. UNCHANGED accountVars
    <3>1. CASE \E n \in DOMAIN ops : OpStep(n) \/ OpReject(n)
      BY <3>1, OpMoves DEF BindInv
    <3>2. CASE ~\E n \in DOMAIN ops : OpStep(n) \/ OpReject(n)
      BY <1>1, <3>2 DEF DevicesPageStep, Open, ClickUnbind, ClickBind, ClickRevoke,
         RegisterDevice, ClickRegister, Select, Click
    <3> QED BY <3>1, <3>2
  <2>2. AccountInv'
    <3>1. sessions' \subseteq Session /\ now' \in 0..MaxTime /\ UNCHANGED <<employees, hire>>
      BY <2>1 DEF accountVars, AccountInv, AccountTypeOK
    <3> QED BY <3>1, SameAccounts
  <2> QED BY <1>1, <2>2, PageKeeps
<1>2. CASE (AccountStep \/ UNCHANGED accountVars) /\ UNCHANGED bindingVars
  <2>1. sessions \subseteq sessions' BY <1>2, SessionsStay DEF accountVars
  <2>2. BindInv'
    <3>1. UNCHANGED <<device, binding, view, rows, busy, ops, overlaps, selected, token>>
      BY <1>2 DEF bindingVars
    <3>2. /\ device \in [Devices -> Status] /\ selected \in Devices \union {NoDevice}
          /\ token \in sessions \union {NoSession}
      BY DEF BindInv, BindingTypeOK
    <3> QED BY <2>1, <3>1, <3>2, SameOps
  <2>3. AccountInv'
    <3>1. CASE AccountStep BY <3>1, AccountStepKeeps
    <3>2. CASE UNCHANGED accountVars
      <4>1. sessions' \subseteq Session /\ now' \in 0..MaxTime /\ UNCHANGED <<employees, hire>>
        BY <3>2 DEF accountVars, AccountInv, AccountTypeOK
      <4> QED BY <4>1, SameAccounts
    <3> QED BY <1>2, <3>1, <3>2
  <2> QED BY <2>2, <2>3
<1> QED BY <1>1, <1>2 DEF BindingsNext, devicesVars

\* What calls of createEmployee have seen, and what the operations of the page,
\* the tables and the lists know of each other.
THEOREM BindingsInductive == BindingsSpec => [](AccountInv /\ BindInv)
  BY BindingsInvInit, BindingsInvStep, PTL DEF BindingsSpec

\* Tables, sessions, operations and lists keep their types, whatever overlaps,
\* expires or breaks.
THEOREM BindingsTypeCorrect == BindingsSpec => []BindingsTypeOK
<1>1. AccountInv /\ BindInv => BindingsTypeOK BY DEF AccountInv, BindInv, BindingsTypeOK
<1> QED BY BindingsInductive, <1>1, PTL

\* However calls of createEmployee, which look first and insert later, overlap:
\* a login name is given twice only in the ways that are stated.
THEOREM AddressesApart == BindingsSpec => []AddressesKeptApart
<1>1. AccountInv => AddressesKeptApart BY DEF AccountInv
<1> QED BY BindingsInductive, <1>1, PTL

\* An operation that overlapped no other one about its binding has the last word
\* on the row, whatever else is clicked, refused, or lost on the way.
THEOREM LastClicksHold == BindingsSpec => []LastClickHolds
<1>1. BindInv => LastClickHolds BY DEF BindInv
<1> QED BY BindingsInductive, <1>1, PTL

\* A page at rest lists the rows as they are if its last operation was alone and
\* ended well: nothing older is shown over it or still executed.
THEOREM ListsAreCurrent == BindingsSpec => []PageListsRows
<1>1. BindInv => PageListsRows BY DEF BindInv, LastListed, PageListsRows
<1> QED BY BindingsInductive, <1>1, PTL

===============================================================================
