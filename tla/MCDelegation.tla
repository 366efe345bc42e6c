----------------------------- MODULE MCDelegation ------------------------------
EXTENDS Delegation, TLC

CONSTANTS owner, boss, r1, r2, r3, r4, d1, d2, u1, t1, h1

MCOwnerOf    == [r \in Requests |-> owner]
MCRunOwner   == [u \in Runs |-> owner]
MCTaskOf     == [u \in Runs |-> t1]
MCDirectTask == [r \in Direct |-> t1]
MCRespondsTo == [h \in Respondents |-> t1]

\* Bound: the worker and the employee are not at work on the task at once; one may
\* come before the other, or after it has failed or stopped.
Apart == \A h \in Respondents :
  answering[h] \in {"message", "finish"} =>
    delivery[RespondsTo[h]] \in {"queued", "elsewhere", "done", "lost"}

Interchangeable == Permutations(Deciders) \union Permutations(Requests \ Direct)

===============================================================================
