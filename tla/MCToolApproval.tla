---------------------------- MODULE MCToolApproval ----------------------------
EXTENDS ToolApproval, TLC

CONSTANTS owner, other, boss, r1, r2, d1, d2

\* Two requests whose agents belong to the two plain employees.
MCOwnerOf == (r1 :> owner) @@ (r2 :> other)

\* The handlers differ in nothing but their name.
Interchangeable == Permutations(Deciders)

===============================================================================
