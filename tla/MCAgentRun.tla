------------------------------ MODULE MCAgentRun ------------------------------
EXTENDS AgentRun, TLC

CONSTANTS owner, boss, r1, r2, r3, r4, d1, d2, u1, u2, t1, t2

\* One employee owns every agent; the other one is the company's admin.
MCOwnerOf  == [r \in Requests |-> owner]
MCRunOwner == [u \in Runs |-> owner]

\* Each run works on a task of its own, the requests outside a run on the
\* second one.
MCTaskOf     == [u \in Runs |-> IF u = u1 THEN t1 ELSE t2]
MCDirectTask == [r \in Direct |-> t2]

\* A behaviour has one run, whichever is started: runs share nothing but what
\* the requests outside a run share with them.
Started  == {u \in Runs : loop[u] # NoLoop \/ run[u].status # "none"}
OneRun   == Cardinality(Started) <= 1
MCARSpec == ARInit /\ [][ARNext /\ OneRun']_vars

\* Handlers, and requests of runs among themselves, differ only by name.
Interchangeable == Permutations(Deciders) \union Permutations(Requests \ Direct)

===============================================================================
