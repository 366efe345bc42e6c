------------------------------- MODULE Accounts --------------------------------
(***************************************************************************)
(* Companies, employees and sessions: AuthService, AuthGuard and           *)
(* OrganizationService.createEmployee over the table of employees.         *)
(*                                                                         *)
(* Whoever registers a company becomes its admin and has a password.  The  *)
(* admin adds employees, who have none: AuthService.register, which would  *)
(* set one, is reached by no route.  A row never changes and is never      *)
(* deleted.  An address is spelled in lower case, with capitals, or in     *)
(* lower case with a blank at an end; the login ignores capitals only.     *)
(***************************************************************************)
EXTENDS Naturals, Sequences, FiniteSets

CONSTANTS
  Companies,
  Mails,            \* addresses, whatever their spelling
  Passwords,
  NoPassword,
  Hires,            \* calls of createEmployee
  TTL,              \* how long a session lasts
  MaxTime           \* bound on the clock

ASSUME AccountsAssumption ==
  /\ NoPassword \notin Passwords
  /\ TTL \in Nat /\ MaxTime \in Nat

VARIABLES
  employees,        \* table, in the order of insertion
  hire,             \* what each call of createEmployee is doing
  sessions,         \* tokens that have been issued
  now

accountVars == <<employees, hire, sessions, now>>

Spellings == {"lower", "capitals", "padded"}
Roles     == {"admin", "employee"}
Address   == [mail : Mails, as : Spellings]

\* given and seen are history: the spelling that was typed, and how many rows
\* there were when createEmployee looked for the address.
Employee == [company : Companies, address : Address, role : Roles,
             password : Passwords \union {NoPassword}, given : Spellings, seen : Nat]

Session == [employee : Nat \ {0}, company : Companies, role : Roles,
            until : Nat]

Hire == [at : {"ready", "checked", "done"}, company : Companies, address : Address, seen : Nat]

AccountTypeOK ==
  /\ employees \in Seq(Employee)
  /\ \A h \in Hires : hire[h] \in Hire \union {[at |-> "ready"]}
  /\ sessions \subseteq Session
  /\ now \in 0..MaxTime

AccountInit ==
  /\ employees = << >>
  /\ hire = [h \in Hires |-> [at |-> "ready"]]
  /\ sessions = {}
  /\ now = 0

-------------------------------------------------------------------------------

\* lower() and trim()
Lower(a) == [a EXCEPT !.as = IF @ = "capitals" THEN "lower" ELSE @]
Trim(a)  == [a EXCEPT !.as = IF @ = "padded" THEN "lower" ELSE @]

\* (mutant) The address is looked for as it is spelled.
RowsAsSpelled(a) == {i \in DOMAIN employees : employees[i].address = a}

\* WHERE lower(email)=lower($1)
RowsOf(a) == {i \in DOMAIN employees : Lower(employees[i].address) = Lower(a)}

\* UNIQUE(company_id,email)
Inserted(row) ==
  /\ ~\E i \in DOMAIN employees :
       employees[i].company = row.company /\ employees[i].address = row.address
  /\ employees' = Append(employees, row)

IssuedFor(i, row) ==
  sessions' = sessions \union
    {[employee |-> i, company |-> row.company, role |-> row.role, until |-> now + TTL]}

\* AuthService.registerCompany, one transaction.  No other company's employees
\* are asked for the address, which is not trimmed.
RegisterCompany(c, a, p) ==
  LET row == [company |-> c, address |-> Lower(a), role |-> "admin", password |-> p,
              given |-> a.as, seen |-> Len(employees)] IN
  /\ \A i \in DOMAIN employees : employees[i].company # c
  /\ Inserted(row)
  /\ IssuedFor(Len(employees) + 1, row)
  /\ UNCHANGED <<hire, now>>

\* AuthService.login looks at one row; the query has no order.
Login(a, p) ==
  /\ \E i \in RowsOf(a) : employees[i].password = p /\ IssuedFor(i, employees[i])
  /\ UNCHANGED <<employees, hire, now>>

\* AuthService.validate: nothing but the time is looked at.
Valid(s) == now <= s.until

\* AuthGuard: the company of the body is that of the token.
Allows(s, c) == Valid(s) /\ s.company = c

\* RolesGuard
HasRole(s, role) == s.role = role

\* createEmployee looks whether the address is known anywhere ...
CheckHire(h, c, a) ==
  /\ hire[h].at = "ready"
  /\ \E s \in sessions : Allows(s, c) /\ HasRole(s, "admin")
  /\ hire' = [hire EXCEPT ![h] =
       IF RowsOf(a) = {}
         THEN [at |-> "checked", company |-> c, address |-> a, seen |-> Len(employees)]
         ELSE [at |-> "done", company |-> c, address |-> a, seen |-> Len(employees)]]
  /\ UNCHANGED <<employees, sessions, now>>

\* ... and inserts it trimmed, unless the key refuses or the insertion fails.
InsertHire(h) ==
  /\ hire[h].at = "checked"
  /\ \/ \E role \in Roles :
          Inserted([company |-> hire[h].company, address |-> Trim(hire[h].address),
                    role |-> role, password |-> NoPassword,
                    given |-> hire[h].address.as, seen |-> hire[h].seen])
     \/ UNCHANGED employees
  /\ hire' = [hire EXCEPT ![h].at = "done"]
  /\ UNCHANGED <<sessions, now>>

Tick ==
  /\ now < MaxTime
  /\ now' = now + 1
  /\ UNCHANGED <<employees, hire, sessions>>

AccountStep ==
  \/ \E c \in Companies, a \in Address, p \in Passwords : RegisterCompany(c, a, p)
  \/ \E a \in Address, p \in Passwords : Login(a, p)
  \/ \E h \in Hires, c \in Companies, a \in Address : CheckHire(h, c, a)
  \/ \E h \in Hires : InsertHire(h)
  \/ Tick

-------------------------------------------------------------------------------
(* Properties *)

\* Two employees answer to the same login name only if the later one registered
\* a company, was added while the other one was (after the look for the address),
\* or was typed with a blank; within a company they are then spelled apart.
AddressesKeptApart ==
  \A i, j \in DOMAIN employees :
    LET a == employees[i]  b == employees[j] IN
    i < j /\ Lower(a.address) = Lower(b.address) =>
      /\ b.password # NoPassword \/ b.seen < i \/ b.given = "padded"
      /\ a.company = b.company => a.address # b.address

===============================================================================
