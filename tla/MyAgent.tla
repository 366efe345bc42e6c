-------------------------------- MODULE MyAgent --------------------------------
(***************************************************************************)
(* The my-agent page (app/my-agent/page.tsx) over the chat of the API.     *)
(*                                                                         *)
(* The page keeps the conversation it shows and its messages in two pieces *)
(* of state.  Every click starts a request and goes on when its answer     *)
(* arrives, whatever the employee has clicked meanwhile; nothing catches a *)
(* request that is rejected.  A message that is sent goes through          *)
(* POST /agents/act, which answers with a chat turn when no tool is        *)
(* planned; otherwise, or with auto-route, the answer comes from a run or  *)
(* a task and the message is not stored.  What a routed task adds to the   *)
(* conversation later is a turn of Results in Chat.                        *)
(***************************************************************************)
EXTENDS Chat

CONSTANTS
  User,        \* who has the page open
  Sent,        \* turns sent from the page
  HistoryLimit \* messages the page is served, 30 in the code

None       == "none"
Refreshing == "refreshing"

ASSUME PageAssumption ==
  /\ User \in Employees
  /\ Sent \subseteq {k \in Turns \ Results : CallerOf[k] = User}
  /\ Sent \intersect {None, Refreshing} = {}
  /\ HistoryLimit \in Nat \ {0}

VARIABLES
  page,        \* "loading" until load has ended
  listed,      \* conversations in the sidebar
  active,      \* the conversation the page says it shows
  shown,       \* messages
  fetching,    \* GET /conversations/:id/messages of each conversation
  creating,    \* POST /conversations
  sending,     \* the turn whose answer the page waits for
  rejected,    \* and it never comes: the request was rejected
  outside,     \* turns sent that were not worked on as chat turns
  calm         \* history: nothing of the page overlapped since the last opening

pageVars == <<page, listed, active, shown, fetching, creating, sending, rejected, outside, calm>>
vars == <<chatVars, pageVars>>

NotCreating == [agent |-> NoAgent, row |-> NoConversation, select |-> FALSE]
Idle  == "idle"
Asked == "asked"
NotFetching == [state |-> Idle, messages |-> << >>]

PageTypeOK ==
  /\ page \in {"loading", "ready"}
  /\ listed \subseteq Conversations
  /\ active \in Conversations \union {NoConversation}
  /\ shown \in Seq(Message)
  /\ fetching \in [Conversations -> [state : {Idle, Asked, "answered"},
                                    messages : Seq(Message)]]
  /\ creating \in [agent : Agents \union {NoAgent},
                   row : Conversations \union {NoConversation}, select : BOOLEAN]
  /\ sending \in Sent \union {None, Refreshing}
  /\ rejected \in BOOLEAN
  /\ outside \subseteq Sent
  /\ calm \in BOOLEAN

TypeOK == ChatTypeOK /\ PageTypeOK

Init ==
  /\ ChatInit
  /\ page = "loading"
  /\ listed = {}
  /\ active = NoConversation
  /\ shown = << >>
  /\ fetching = [c \in Conversations |-> NotFetching]
  /\ creating = NotCreating
  /\ sending = None
  /\ rejected = FALSE
  /\ outside = {}
  /\ calm = FALSE

-------------------------------------------------------------------------------

MyAgents == {a \in Agents : EmployeeOf[a] = User}
Mine     == {c \in Conversations : conversations[c].owner = User}

\* Nothing of the page is under way but what is named.
Quiet(c) ==
  /\ \A d \in Conversations \ {c} : fetching[d].state = Idle
  /\ creating = NotCreating
  /\ sending = None

-------------------------------------------------------------------------------
(* load *)

\* The lists arrive.  load means to open the first conversation, but
\* openConversation still sees the agents of the first rendering, none, and
\* returns.  Without a conversation one is created and not selected; load waits.
Load ==
  /\ page = "loading" /\ creating = NotCreating
  /\ listed' = Mine
  /\ IF Mine = {} /\ MyAgents # {}
       THEN /\ \E a \in MyAgents : creating' = [NotCreating EXCEPT !.agent = a]
            /\ UNCHANGED page
       ELSE page' = "ready" /\ UNCHANGED creating
  /\ UNCHANGED <<chatVars, active, shown, fetching, sending, rejected, outside, calm>>

-------------------------------------------------------------------------------
(* openConversation *)

\* A click in the sidebar, or on an agent that has a conversation.  Bound: not
\* again while the messages of this conversation are on their way.
OpenConversation(c) ==
  /\ page = "ready"
  /\ c \in listed
  /\ fetching[c].state = Idle
  /\ active' = c
  /\ fetching' = [fetching EXCEPT ![c] = [NotFetching EXCEPT !.state = Asked]]
  /\ calm' = FALSE
  /\ UNCHANGED <<chatVars, page, listed, shown, creating, sending, rejected, outside>>

\* The last messages of a conversation; those before are cut off.
Latest(list) ==
  IF Len(list) > HistoryLimit
    THEN SubSeq(list, Len(list) - HistoryLimit + 1, Len(list)) ELSE list

\* ConversationService.messages
ServeMessages(c) ==
  /\ fetching[c].state = Asked
  /\ fetching' = [fetching EXCEPT ![c] = [state |-> "answered", messages |-> Latest(messages[c])]]
  /\ UNCHANGED <<chatVars, page, listed, active, shown, creating, sending, rejected, outside, calm>>

\* They are shown whatever is active by now.
MessagesArrive(c) ==
  /\ fetching[c].state = "answered"
  /\ shown' = fetching[c].messages
  /\ fetching' = [fetching EXCEPT ![c] = NotFetching]
  /\ calm' = (Quiet(c) /\ active = c)
  /\ UNCHANGED <<chatVars, page, listed, active, creating, sending, rejected, outside>>

\* An error, or no answer: what was shown stays under the new conversation.
MessagesFail(c) ==
  /\ MayFail
  /\ fetching[c].state = Asked
  /\ fetching' = [fetching EXCEPT ![c] = NotFetching]
  /\ UNCHANGED <<chatVars, page, listed, active, shown, creating, sending, rejected, outside, calm>>

-------------------------------------------------------------------------------
(* newConversation *)

\* New chat, or a click on an agent without a conversation.  Bound: one at a time.
NewConversation(a) ==
  /\ page = "ready"
  /\ creating = NotCreating
  /\ a \in MyAgents
  /\ \/ active # NoConversation /\ conversations[active].agent = a
     \/ \A c \in listed : conversations[c].agent # a
  /\ creating' = [NotCreating EXCEPT !.agent = a, !.select = TRUE]
  /\ calm' = FALSE
  /\ UNCHANGED <<chatVars, page, listed, active, shown, fetching, sending, rejected, outside>>

ServeCreate(c) ==
  /\ creating.agent # NoAgent /\ creating.row = NoConversation
  /\ Insert(c, User, creating.agent)
  /\ creating' = [creating EXCEPT !.row = c]
  /\ UNCHANGED <<messages, memories, turn, learning, written, page, listed, active, shown,
                 fetching, sending, rejected, outside, calm>>

\* (mutant) The messages of the conversation shown before stay.
ConversationArrivesUncleared ==
  /\ creating.row # NoConversation
  /\ listed' = listed \union {creating.row}
  /\ creating' = NotCreating
  /\ page' = "ready"
  /\ IF creating.select
       THEN /\ active' = creating.row
            /\ calm' = (sending = None /\ \A c \in Conversations : fetching[c].state = Idle)
       ELSE UNCHANGED <<active, calm>>
  /\ UNCHANGED <<chatVars, shown, fetching, sending, rejected, outside>>

ConversationArrives ==
  /\ creating.row # NoConversation
  /\ listed' = listed \union {creating.row}
  /\ creating' = NotCreating
  /\ page' = "ready"
  /\ IF creating.select
       THEN /\ active' = creating.row
            /\ shown' = << >>
            /\ calm' = (sending = None /\ \A c \in Conversations : fetching[c].state = Idle)
       ELSE UNCHANGED <<active, shown, calm>>
  /\ UNCHANGED <<chatVars, fetching, sending, rejected, outside>>

\* An error of the API; load goes on.
CreateFails ==
  /\ MayFail
  /\ creating.agent # NoAgent /\ creating.row = NoConversation
  /\ creating' = NotCreating
  /\ page' = "ready"
  /\ UNCHANGED <<chatVars, listed, active, shown, fetching, sending, rejected, outside, calm>>

-------------------------------------------------------------------------------
(* send *)

Shows(sender, k) == [sender |-> sender, turn |-> k]

\* The message is shown at once; the call is a chat turn, or works outside one.
Send(k) ==
  /\ page = "ready"
  /\ active # NoConversation
  /\ sending = None
  /\ k \in Sent \ outside
  /\ shown' = Append(shown, Shows("USER", k))
  /\ sending' = k
  /\ \/ BeginChat(k, conversations[active].agent, active) /\ UNCHANGED outside
     \/ turn[k].at = "ready" /\ outside' = outside \union {k} /\ UNCHANGED chatVars
  /\ UNCHANGED <<page, listed, active, fetching, creating, rejected, calm>>

\* What send appends for an answer: a response of the agent, a note that a task
\* was routed or that an approval is needed, the note and a response, nothing.
\* Without an LLM provider the response of a chat turn is stored, but the page
\* takes its status for the need of an approval.
Replies(k) ==
  IF k \in outside
    THEN {<< >>, <<Shows("SYSTEM", k)>>, <<Shows("AGENT", k)>>,
          <<Shows("SYSTEM", k), Shows("AGENT", k)>>}
    ELSE CASE turn[k].at = "answered" -> {<<Shows("AGENT", k)>>, <<Shows("SYSTEM", k)>>}
           [] turn[k].at = "silent"   -> {<< >>}
           [] OTHER                   -> {}

Answered(k) == sending = k /\ ~rejected

\* It is appended to whatever is shown by now.
AnswerArrives(k) ==
  /\ Answered(k)
  /\ \E items \in Replies(k) : shown' = shown \o items
  /\ sending' = Refreshing
  /\ UNCHANGED <<chatVars, page, listed, active, fetching, creating, rejected, outside, calm>>

\* (mutant) An error is shown, and the page keeps waiting.
ErrorArrivesUnnoticed(k) ==
  /\ Answered(k)
  /\ (k \in outside /\ MayFail) \/ turn[k].at = "failed"
  /\ UNCHANGED vars

\* An error of the API.
ErrorArrives(k) ==
  /\ Answered(k)
  /\ (k \in outside /\ MayFail) \/ turn[k].at = "failed"
  /\ sending' = None
  /\ UNCHANGED <<chatVars, page, listed, active, shown, fetching, creating, rejected, outside,
                 calm>>

\* The sidebar is loaded again before the next message can be sent.
Refresh ==
  /\ sending = Refreshing /\ ~rejected
  /\ sending' = None
  /\ listed' = Mine
  /\ UNCHANGED <<chatVars, page, active, shown, fetching, creating, rejected, outside, calm>>

\* The connection to the API breaks: nothing catches this, and sending stays.
Reject ==
  /\ MayFail
  /\ sending # None /\ ~rejected
  /\ rejected' = TRUE
  /\ UNCHANGED <<chatVars, page, listed, active, shown, fetching, creating, sending, outside,
                 calm>>

\* The employee loads the page anew; what was sent is worked on regardless.
Reload ==
  /\ page' = "loading"
  /\ listed' = {}
  /\ active' = NoConversation
  /\ shown' = << >>
  /\ fetching' = [c \in Conversations |-> NotFetching]
  /\ creating' = NotCreating
  /\ sending' = None
  /\ rejected' = FALSE
  /\ calm' = FALSE
  /\ UNCHANGED <<chatVars, outside>>

-------------------------------------------------------------------------------

AnswerStep(k) == AnswerArrives(k) \/ ErrorArrives(k)

PageStep ==
  \/ Load \/ ConversationArrives \/ CreateFails \/ Refresh \/ Reject \/ Reload
  \/ \E a \in Agents : NewConversation(a)
  \/ \E c \in Conversations :
       OpenConversation(c) \/ ServeMessages(c) \/ MessagesArrive(c) \/ MessagesFail(c)
         \/ ServeCreate(c)
  \/ \E k \in Sent : Send(k) \/ AnswerStep(k)

\* What goes on at the API, for the page and for others.
ApiStep ==
  \/ \E k \in Turns : TurnStep(k)
  \/ \E k \in Turns \ Sent : Call(k)
  \/ \E e \in Employees : Direct(e)

Next == PageStep \/ (ApiStep /\ UNCHANGED pageVars)

Spec == Init /\ [][Next]_vars

\* A turn that has begun goes on, answers of the API arrive and an error ends
\* the wait.  Nobody has to click, and the agent service may never answer a
\* chat turn: its request has no timeout.
Fairness ==
  /\ \A k \in Turns : WF_vars(Proceed(k) /\ UNCHANGED pageVars)
  /\ \A k \in Sent : WF_vars(AnswerStep(k))
  /\ WF_vars(Refresh)

FairSpec == Spec /\ Fairness

-------------------------------------------------------------------------------
(* Properties *)

\* The question of a turn is stored in the conversation, before the first
\* message that is shown.
CutOff(k) ==
  \E q, f \in DOMAIN messages[active] :
    /\ q < f
    /\ messages[active][q] = Shows("USER", k)
    /\ messages[active][f] = shown[1]

\* While nothing of the page overlaps, what it shows is what it says it shows:
\* messages of the active conversation and of turns sent in it, each once, an
\* answer after its question unless the question is cut off, and no answer of a
\* chat turn that is not stored.  An opening that overtakes another, or happens
\* during send, breaks it until the conversation is opened again.
PageShowsActive ==
  calm => \A i \in DOMAIN shown :
    LET m == shown[i] IN
    /\ m.turn \notin outside => turn[m.turn].conversation = active
    /\ \A j \in DOMAIN shown \ {i} : shown[j] # m
    /\ m.sender = "AGENT" /\ m.turn \in Sent =>
         CutOff(m.turn) \/ \E j \in 1..(i - 1) : shown[j] = Shows("USER", m.turn)
    /\ m.sender = "AGENT" /\ m.turn \notin outside =>
         \E j \in DOMAIN messages[active] : messages[active][j] = m

\* The composer is free again after every message, unless the request was
\* rejected, the agent service never answers or a run works for ever.
SendEnds ==
  \A k \in Sent : sending = k /\ k \notin outside ~>
    sending # k \/ rejected \/ turn[k].at = "asked"

===============================================================================
