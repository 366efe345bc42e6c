-------------------------------- MODULE MCPages --------------------------------
EXTENDS Activity, MyAgent, Bindings

CONSTANTS
  i1, i2, ann, bob, q1, p1, p2,
  a1, b1, k1, k2, k3, r1, n1, c1, c2,
  acme, globex, m1, w1, w2, read, write, d1, d2

\* Bound: what takes part.
\*   "activity"         Ann's request, the activity pages of two processes, and
\*                      three breaks of connections, of subscriptions one; the
\*                      pages are opened before, and the second is Ann's and
\*                      stays open
\*   "chat"             Ann sends k1 from the my-agent page; after the answer a
\*                      delegated result may come, which the agent leaves
\*                      without an answer
\*   "turns", "result"  Ann calls the API with two turns, or with a turn and a
\*                      delegated result, and renames; Bob, of another company,
\*                      has a conversation and writes memories
\*   "accounts"         companies, employees and sessions; which company comes
\*                      first does not matter
\*   "buttons"          the devices page: three clicks, one device, one set of
\*                      permissions, nothing fails
\*   "devices"          ... two clicks, two devices, requests fail
\*   "expiry"           ... two clicks, one device, and the session expires
VARIABLE scene

Scenes == {"activity", "chat", "turns", "result", "accounts",
           "buttons", "devices", "expiry"}

-------------------------------------------------------------------------------

\* Ann's requests are served by the first process.  Each process has a page.
MCAtInstance == [x \in Requests \union Pages |-> IF x = p2 THEN i2 ELSE i1]
MCViewerOf   == [q \in Requests |-> ann]
MCCompanyOf  == [e \in Employees |-> IF e = bob THEN 2 ELSE 1]
MCEmployeeOf == [a \in Agents |-> IF a = b1 THEN bob ELSE ann]
MCCallerOf   == [k \in Turns |-> ann]
MCPermissionSets == {{read}, {read, write}}

AtActivity ==
  /\ scene = "activity"
  /\ FeedNext
  /\ pubDrops'[i1] + 2 * (subDrops'[i1] + subDrops'[i2]) <= 3
  /\ \A p \in Pages : ConnectPage(p) => pubDrops[i1] + subDrops[i1] + subDrops[i2] = 0
  /\ viewer'[p2] # bob /\ socket'[p2] # "closing"
  /\ UNCHANGED <<vars, devicesVars>>

AtMyAgent ==
  /\ scene = "chat"
  /\ \/ PageStep
     \/ /\ \/ TurnStep(k1) \/ Proceed(r1)
           \/ turn[k1].at = "answered" /\ sending = None /\ learning = {} /\ Call(r1)
        /\ UNCHANGED pageVars
  /\ UNCHANGED <<feedVars, devicesVars>>

AtApi ==
  /\ scene \in {"turns", "result"}
  /\ \/ \E k \in {k2, IF scene = "turns" THEN k3 ELSE r1} : TurnStep(k) \/ Call(k)
     \/ Remember(bob)
     \/ \E c \in Conversations : Rename(ann, c) \/ CreateConversation(bob, b1, c)
  /\ UNCHANGED <<pageVars, feedVars, devicesVars>>

AtAccounts ==
  /\ scene = "accounts"
  /\ AccountStep /\ now' = 0
  /\ employees' # << >> => employees'[1].company = acme /\ employees'[1].password = w1
  /\ UNCHANGED <<bindingVars, feedVars, vars>>

AtDevices ==
  /\ scene \in {"buttons", "devices", "expiry"}
  /\ \/ DevicesPageStep
     \/ /\ RegisterCompany(acme, [mail |-> m1, as |-> "lower"], w1) \/ Tick
        /\ UNCHANGED bindingVars
  /\ scene # "buttons" => Len(ops') <= 3
  /\ scene # "devices" => device'[d2] = "none" /\ \A n \in DOMAIN ops' : ops'[n].device # d2
  /\ scene # "expiry"  => now' = 0
  /\ scene = "buttons" => \A n \in DOMAIN ops' :
       ops'[n].at \notin {"failed", "adrift", "rejected"} /\ write \notin ops'[n].permissions
  /\ UNCHANGED <<feedVars, vars>>

MCInit == FeedInit /\ Init /\ BindingsInit /\ scene \in Scenes

MCNext ==
  /\ AtActivity \/ AtMyAgent \/ AtApi \/ AtAccounts \/ AtDevices
  /\ UNCHANGED scene

MCSpec ==
  /\ MCInit /\ [][MCNext]_<<feedVars, vars, devicesVars, scene>>
  /\ FeedFairness /\ Fairness

===============================================================================
