------------------------------ MODULE DeviceCall -------------------------------
(***************************************************************************)
(* What a device tool promises whoever calls it: the device acts on a      *)
(* command at most once; a caller told COMPLETED has had it done; a caller *)
(* whose request threw knows that nothing was done nor will be.  FAILED,   *)
(* TIMEOUT and a database error promise neither: the device may have       *)
(* acted, or may yet.                                                      *)
(***************************************************************************)
EXTENDS Naturals

CONSTANT Commands

VARIABLES
  performed,    \* how often the device acted on each command
  answer        \* what the caller was told, "none" so far

vars == <<performed, answer>>

Init ==
  /\ performed = [c \in Commands |-> 0]
  /\ answer = [c \in Commands |-> "none"]

Perform(c) ==
  /\ performed[c] = 0
  /\ answer[c] # "threw"
  /\ performed' = [performed EXCEPT ![c] = 1]
  /\ UNCHANGED answer

Tell(c, what) ==
  /\ answer[c] = "none"
  /\ answer' = [answer EXCEPT ![c] = what]
  /\ UNCHANGED performed

TellDone(c)  == performed[c] = 1 /\ Tell(c, "COMPLETED")
TellThrew(c) == performed[c] = 0 /\ Tell(c, "threw")
TellOther(c) == \E what \in {"FAILED", "TIMEOUT", "accepted", "error"} : Tell(c, what)

Next == \E c \in Commands : Perform(c) \/ TellDone(c) \/ TellThrew(c) \/ TellOther(c)

Spec == Init /\ [][Next]_vars

===============================================================================
