----------------------------- MODULE ApprovalGate -----------------------------
(***************************************************************************)
(* What the approval and tool-execution services promise together, for     *)
(* each request to use a tool, with no mention of HTTP handlers, database  *)
(* round trips or their interleavings:                                     *)
(*                                                                         *)
(*   - a sensitive request is put before a human, who grants or denies it  *)
(*     once and for all; an insensitive one is waived through;             *)
(*   - the tool is invoked at most once, and only for a request that was   *)
(*     granted or waived;                                                  *)
(*   - the stored outcome says "done" only of an invoked tool, "refused"   *)
(*     only of a denied request, and is never rewritten.                   *)
(*                                                                         *)
(* docs/SECURITY.md section 7 states the two central clauses: "Sensitive   *)
(* tools cannot run without required approval" and "Rejected approvals do  *)
(* not execute the action".  ToolApproval implements this specification.   *)
(***************************************************************************)
EXTENDS Naturals

CONSTANT Requests       \* the requests for a tool, or for a bare approval

VARIABLES
  decision,             \* what the human said of each request
  performed,            \* how often its tool was invoked
  outcome               \* the result stored for it

vars == <<decision, performed, outcome>>

Decisions == {"none", "open", "granted", "denied", "waived"}
Outcomes  == {"none", "done", "refused"}

Init ==
  /\ decision  = [r \in Requests |-> "none"]
  /\ performed = [r \in Requests |-> 0]
  /\ outcome   = [r \in Requests |-> "none"]

Move(r, from, to) ==
  /\ decision[r] = from
  /\ decision' = [decision EXCEPT ![r] = to]
  /\ UNCHANGED <<performed, outcome>>

Ask(r)   == Move(r, "none", "open")
Waive(r) == Move(r, "none", "waived")
Grant(r) == Move(r, "open", "granted")
Deny(r)  == Move(r, "open", "denied")

Perform(r) ==
  /\ decision[r] \in {"granted", "waived"}
  /\ performed[r] = 0
  /\ performed' = [performed EXCEPT ![r] = 1]
  /\ UNCHANGED <<decision, outcome>>

Store(r, o) ==
  /\ outcome[r] = "none"
  /\ outcome' = [outcome EXCEPT ![r] = o]
  /\ UNCHANGED <<decision, performed>>

Done(r)   == performed[r] = 1 /\ Store(r, "done")
Refuse(r) == decision[r] = "denied" /\ Store(r, "refused")

Next ==
  \E r \in Requests :
    \/ Ask(r) \/ Waive(r) \/ Grant(r) \/ Deny(r)
    \/ Perform(r) \/ Done(r) \/ Refuse(r)

Spec == Init /\ [][Next]_vars

===============================================================================
