-------------------------------- MODULE MCTeam ---------------------------------
EXTENDS TeamOrchestrator, TLC

CONSTANTS owner, r1, d1, coder, tester, writer, allround,
          uc, ut, ud, ur, ux, tc, tt, td, tr, tx

MCOwnerOf    == [r \in Requests |-> owner]
MCRunOwner   == [u \in Runs |-> owner]
MCDirectTask == << >>

MCRunFor == [coding |-> uc, testing |-> ut, documentation |-> ud, repair |-> ur, retest |-> ux]
MCTaskOf == uc :> tc @@ ut :> tt @@ ud :> td @@ ur :> tr @@ ux :> tx

MCRoles == coder :> {"coding"} @@ tester :> {"testing"} @@ writer :> {"documentation"}
           @@ allround :> {"coding", "testing"}

\* A full team, one agent for two roles, a team without a tester.
MCRosters == {<<coder, tester, writer>>, <<allround>>, <<writer, coder>>}

\* Of what is in an answer only the text of the expression itself matters.
MCResponses == {{"passed"}, {"failed", "\\bfailed\\b"}}

\* The same failure in words.
MCWords == {{"passed"}, {"failed"}}

===============================================================================
