--------------------------------- MODULE Chat ----------------------------------
(***************************************************************************)
(* Chat turns, conversations and memory: AgentService.chat,                *)
(* receiveDelegatedResult and learnFromConversation over                   *)
(* ConversationService, MemoryService and their tables.                    *)
(*                                                                         *)
(* A turn is one call of chat, or of receiveDelegatedResult (Results).     *)
(* Between its database round trips other turns work on the same           *)
(* conversation, names and memories change, and any of them may throw.     *)
(* The text of a message is the turn it belongs to.                        *)
(***************************************************************************)
EXTENDS Naturals, Sequences, FiniteSets

CONSTANTS
  Employees,
  CompanyOf,        \* the company of an employee
  Agents,
  EmployeeOf,       \* the employee an agent belongs to
  Turns,
  Results,          \* turns that process the answer to a delegated task
  CallerOf,         \* the employee of the token
  Learnable,        \* turns whose text MemoryLearningService.extract picks
  Notes,            \* texts written to memory by hand, without secrets
  NoteScopes,       \* bound: the scopes they are written with
  Conversations,    \* ids
  NoConversation, NoAgent, NoOne,
  MayFail           \* a round trip may throw

Default == "New conversation"
Renamed == "A name"

ASSUME ChatAssumption ==
  /\ CompanyOf \in [Employees -> Nat]
  /\ EmployeeOf \in [Agents -> Employees]
  /\ Results \subseteq Turns /\ Learnable \subseteq Turns
  /\ CallerOf \in [Turns -> Employees]
  /\ NoConversation \notin Conversations
  /\ NoAgent \notin Agents /\ NoOne \notin Employees
  /\ NoteScopes \subseteq {"PRIVATE", "PROJECT", "TEAM", "COMPANY"}
  /\ Turns \intersect (Notes \union {Default, Renamed}) = {}
  /\ MayFail \in BOOLEAN

VARIABLES
  conversations,    \* table: owner, agent and title of each row
  messages,         \* conversation_messages of each conversation by created_at
  memories,         \* table
  turn,             \* what each turn is doing and has read
  learning,         \* learnFromConversation of these turns is under way
  written           \* history: notes that have been written

chatVars == <<conversations, messages, memories, turn, learning, written>>

Scopes  == {"PRIVATE", "PROJECT", "TEAM", "COMPANY"}
Message == [sender : {"USER", "AGENT", "SYSTEM"}, turn : Turns]
Memory  == [agent : Agents, scope : Scopes, text : Turns \union Notes]

\* The title is the default one, the text of a turn, or a name given by hand.
Titles == {Default, Renamed} \union Turns

NoRow == [owner |-> NoOne, agent |-> NoAgent, title |-> Default]
Row   == [owner : Employees, agent : Agents, title : Titles]

Ended == {"answered", "silent", "failed"}
At == {"ready", "opening", "adding", "titling", "naming", "reading", "recalling",
       "asked", "storing"} \union Ended

Turn == [at : At, agent : Agents \union {NoAgent},
         conversation : Conversations \union {NoConversation},
         history : SUBSET Message, memories : SUBSET Memory]

ChatTypeOK ==
  /\ conversations \in [Conversations -> Row \union {NoRow}]
  /\ messages \in [Conversations -> Seq(Message)]
  /\ memories \subseteq Memory
  /\ turn \in [Turns -> Turn]
  /\ learning \subseteq Turns
  /\ written \subseteq Notes

ChatInit ==
  /\ conversations = [c \in Conversations |-> NoRow]
  /\ messages = [c \in Conversations |-> << >>]
  /\ memories = {}
  /\ turn = [k \in Turns |-> [at |-> "ready", agent |-> NoAgent,
                              conversation |-> NoConversation,
                              history |-> {}, memories |-> {}]]
  /\ learning = {}
  /\ written = {}

-------------------------------------------------------------------------------
(* ConversationService and MemoryService *)

Exists(c) == conversations[c] # NoRow

\* findOwned, before every access.  The agent of the conversation is not asked.
Owned(c, e) == c \in Conversations /\ conversations[c].owner = e

\* assertAgent and assertOwner.  The agent is looked up in the company.
OwnsAgent(e, a) == a \in Agents /\ EmployeeOf[a] = e

\* ConversationService.create
Insert(c, e, a) ==
  /\ ~Exists(c)
  /\ OwnsAgent(e, a)
  /\ conversations' =
       [conversations EXCEPT ![c] = [owner |-> e, agent |-> a, title |-> Default]]

\* ConversationService.addMessage
AddMessage(k, c, sender) ==
  /\ Owned(c, CallerOf[k])
  /\ messages' = [messages EXCEPT ![c] = Append(@, [sender |-> sender, turn |-> k])]

\* (mutant) Everything but private memory is shared.
SearchShared(e, a) ==
  {m \in memories : m.agent = a \/ m.scope # "PRIVATE"}

\* MemoryService.semanticSearch.  Ranking and limit are left out: any of these
\* may be what the search returns.
Search(e, a) ==
  {m \in memories : \/ m.agent = a
                    \/ /\ CompanyOf[EmployeeOf[m.agent]] = CompanyOf[e]
                       /\ m.scope = "COMPANY"}

\* POST /memory
CreateMemory(e, a, scope, n) ==
  /\ n \notin written
  /\ OwnsAgent(e, a)
  /\ memories' = memories \union {[agent |-> a, scope |-> scope, text |-> n]}
  /\ written' = written \union {n}
  /\ UNCHANGED <<conversations, messages, turn, learning>>

\* DELETE /memory/:agentId/:id
DeleteMemory(e, m) ==
  /\ m \in memories
  /\ OwnsAgent(e, m.agent)
  /\ memories' = memories \ {m}
  /\ UNCHANGED <<conversations, messages, turn, learning, written>>

\* PATCH /conversations/:id/title
Rename(e, c) ==
  /\ Owned(c, e)
  /\ conversations' = [conversations EXCEPT ![c].title = Renamed]
  /\ UNCHANGED <<messages, memories, turn, learning, written>>

\* POST /conversations
CreateConversation(e, a, c) ==
  /\ Insert(c, e, a)
  /\ UNCHANGED <<messages, memories, turn, learning, written>>

-------------------------------------------------------------------------------
(* AgentService.chat *)

Goes(k, from, to) ==
  /\ turn[k].at = from
  /\ turn' = [turn EXCEPT ![k].at = to]

\* The call of k reaches the service; it is for an agent of the caller's.  With
\* no conversation it creates one.
BeginChat(k, a, c) ==
  /\ turn[k].at = "ready"
  /\ k \notin Results
  /\ OwnsAgent(CallerOf[k], a)
  /\ turn' = [turn EXCEPT ![k].at = "opening", ![k].agent = a, ![k].conversation = c]
  /\ UNCHANGED <<conversations, messages, memories, learning, written>>

\* A conversation that is given has to be the caller's.
FindConversation(k) ==
  /\ turn[k].conversation # NoConversation
  /\ IF Owned(turn[k].conversation, CallerOf[k])
       THEN Goes(k, "opening", "adding")
       ELSE Goes(k, "opening", "failed")
  /\ UNCHANGED <<conversations, messages, memories, learning, written>>

OpenNewConversation(k, c) ==
  /\ turn[k].at = "opening"
  /\ turn[k].conversation = NoConversation
  /\ Insert(c, CallerOf[k], turn[k].agent)
  /\ turn' = [turn EXCEPT ![k].at = "adding", ![k].conversation = c]
  /\ UNCHANGED <<messages, memories, learning, written>>

AddQuestion(k) ==
  /\ k \notin Results
  /\ Goes(k, "adding", "titling")
  /\ AddMessage(k, turn[k].conversation, "USER")
  /\ UNCHANGED <<conversations, memories, learning, written>>

\* (mutant) A conversation of any length is named by the turn.
IsFirstAlways(c) == TRUE

\* existingMessages: the last two
IsFirst(c) == Len(messages[c]) = 1 /\ messages[c][1].sender = "USER"

CheckTitle(k) ==
  /\ Goes(k, "titling", IF IsFirst(turn[k].conversation) THEN "naming" ELSE "reading")
  /\ UNCHANGED <<conversations, messages, memories, learning, written>>

\* Whatever the title is by now.
WriteTitle(k) ==
  /\ Goes(k, "naming", "reading")
  /\ conversations' = [conversations EXCEPT ![turn[k].conversation].title = k]
  /\ UNCHANGED <<messages, memories, learning, written>>

\* The last twelve messages.
MessagesOf(c) == {messages[c][i] : i \in DOMAIN messages[c]}

ReadHistory(k) ==
  /\ turn[k].at = "reading"
  /\ turn' = [turn EXCEPT ![k].at = "recalling",
                          ![k].history = MessagesOf(turn[k].conversation)]
  /\ UNCHANGED <<conversations, messages, memories, learning, written>>

\* The search, and the request to the agent service with what was read.
Recall(k) ==
  /\ turn[k].at = "recalling"
  /\ turn' = [turn EXCEPT ![k].at = "asked",
                          ![k].memories = Search(CallerOf[k], turn[k].agent)]
  /\ UNCHANGED <<conversations, messages, memories, learning, written>>

\* The service answers, with or without a response, or reports an error.
ServiceAnswers(k) ==
  /\ turn[k].at = "asked"
  /\ \E at \in {"storing", "silent", "failed"} :
       turn' = [turn EXCEPT ![k].at = at, ![k].history = {}, ![k].memories = {}]
  /\ UNCHANGED <<conversations, messages, memories, learning, written>>

\* (mutant) The response is returned before it is stored.
StoreAnswerLater(k) ==
  /\ Goes(k, "storing", "answered")
  /\ learning' = learning \union {k}
  /\ UNCHANGED <<conversations, messages, memories, written>>

\* Learning goes on after the response has been returned.
StoreAnswer(k) ==
  /\ Goes(k, "storing", "answered")
  /\ AddMessage(k, turn[k].conversation, "AGENT")
  /\ learning' = learning \union {k}
  /\ UNCHANGED <<conversations, memories, written>>

\* (mutant) Somebody's agent learns.
LearnShared(k) ==
  /\ k \in learning
  /\ learning' = learning \ {k}
  /\ memories' = IF k \in Learnable
       THEN memories \union {[agent |-> turn[k].agent, scope |-> "COMPANY", text |-> k]}
       ELSE memories
  /\ UNCHANGED <<conversations, messages, turn, written>>

\* learnFromConversation: what extract picks becomes private memory.
Learn(k) ==
  /\ k \in learning
  /\ learning' = learning \ {k}
  /\ memories' = IF k \in Learnable
       THEN memories \union {[agent |-> turn[k].agent, scope |-> "PRIVATE", text |-> k]}
       ELSE memories
  /\ UNCHANGED <<conversations, messages, turn, written>>

\* The embedding provider or the database fails; the error is logged.
LearnFails(k) ==
  /\ MayFail
  /\ k \in learning
  /\ learning' = learning \ {k}
  /\ UNCHANGED <<conversations, messages, memories, turn, written>>

-------------------------------------------------------------------------------
(* AgentService.receiveDelegatedResult *)

\* The history is read before the result is added to the conversation.
BeginResult(k, a, c) ==
  /\ turn[k].at = "ready"
  /\ k \in Results
  /\ OwnsAgent(CallerOf[k], a) /\ Owned(c, CallerOf[k])
  /\ turn' = [turn EXCEPT ![k].at = "adding", ![k].agent = a, ![k].conversation = c,
                          ![k].history = MessagesOf(c)]
  /\ UNCHANGED <<conversations, messages, memories, learning, written>>

AddResult(k) ==
  /\ k \in Results
  /\ Goes(k, "adding", "recalling")
  /\ AddMessage(k, turn[k].conversation, "SYSTEM")
  /\ UNCHANGED <<conversations, memories, learning, written>>

\* Only this request to the service has a timeout.
ResultTimesOut(k) ==
  /\ k \in Results
  /\ turn[k].at = "asked"
  /\ turn' = [turn EXCEPT ![k].at = "failed", ![k].history = {}, ![k].memories = {}]
  /\ UNCHANGED <<conversations, messages, memories, learning, written>>

\* A round trip throws; what the turn has stored stays.
Throw(k) ==
  /\ MayFail
  /\ turn[k].at \notin {"ready"} \union Ended
  /\ turn' = [turn EXCEPT ![k].at = "failed", ![k].history = {}, ![k].memories = {}]
  /\ UNCHANGED <<conversations, messages, memories, learning, written>>

-------------------------------------------------------------------------------

\* What a turn that has begun does by itself.
Proceed(k) ==
  \/ FindConversation(k) \/ \E c \in Conversations : OpenNewConversation(k, c)
  \/ AddQuestion(k) \/ CheckTitle(k) \/ WriteTitle(k) \/ ReadHistory(k)
  \/ AddResult(k) \/ Recall(k) \/ StoreAnswer(k) \/ ResultTimesOut(k)

TurnStep(k) ==
  \/ Proceed(k) \/ ServiceAnswers(k) \/ Throw(k)
  \/ Learn(k) \/ LearnFails(k)

Remember(e) ==
  \/ \E a \in Agents, s \in NoteScopes, n \in Notes : CreateMemory(e, a, s, n)
  \/ \E m \in memories : DeleteMemory(e, m)

\* What an employee may ask of the two services besides.
Direct(e) ==
  \/ Remember(e)
  \/ \E c \in Conversations :
       Rename(e, c) \/ \E a \in Agents : CreateConversation(e, a, c)

\* Calls of the API that are not made by the page.
Call(k) ==
  \E a \in Agents :
    \/ \E c \in Conversations \union {NoConversation} : BeginChat(k, a, c)
    \/ \E c \in Conversations : BeginResult(k, a, c)

\* Everything clients can make of the two services.
ChatNext ==
  \/ \E k \in Turns : TurnStep(k) \/ Call(k)
  \/ \E e \in Employees : Direct(e)

ChatSpec == ChatInit /\ [][ChatNext]_chatVars

-------------------------------------------------------------------------------
(* Properties of the tables *)

Ours(c, i, k) == messages[c][i].turn = k

\* Whatever ids a caller sends, it writes to the caller's own conversations, and
\* what the agent service is asked with comes from
\* the caller's own conversation, and from the memory of the agent itself or
\* what the same company shares.
PromptIsOwn ==
  /\ \A c \in Conversations : \A m \in MessagesOf(c) :
       CallerOf[m.turn] = conversations[c].owner
  /\ \A k \in Turns :
    /\ \A m \in turn[k].history : CallerOf[m.turn] = CallerOf[k]
    /\ \A m \in turn[k].memories :
         \/ m.agent = turn[k].agent
         \/ /\ m.scope = "COMPANY"
            /\ CompanyOf[EmployeeOf[m.agent]] = CompanyOf[CallerOf[k]]

\* Turns that overlap in a conversation, or throw halfway, leave a record that
\* can be read: an answer comes once, after its one question or result, and
\* only a turn that stored its answer has returned it.
AnswersFollowQuestions ==
  /\ \A c \in Conversations : \A i \in DOMAIN messages[c] :
       LET k == messages[c][i].turn IN
       /\ c = turn[k].conversation
       /\ \A j \in DOMAIN messages[c] \ {i} : messages[c][j] # messages[c][i]
       /\ messages[c][i].sender = "AGENT" =>
            \E j \in 1..(i - 1) : Ours(c, j, k) /\ messages[c][j].sender # "AGENT"
  /\ \A k \in Turns : turn[k].at = "answered" =>
       \E i \in DOMAIN messages[turn[k].conversation] :
         messages[turn[k].conversation][i] = [sender |-> "AGENT", turn |-> k]

\* A conversation is named after its first message if at all; it keeps the
\* default only when another message came between the first one and the look
\* for it, or its turn threw.
NamedAfterFirst ==
  \A c \in Conversations : messages[c] # << >> =>
    LET title == conversations[c].title  first == messages[c][1] IN
    /\ title \in Turns => first = [sender |-> "USER", turn |-> title]
    /\ title = Default /\ first.sender = "USER" =>
         \/ turn[first.turn].at \in {"titling", "naming", "failed"}
         \/ Len(messages[c]) > 1 /\ messages[c][2].turn # first.turn

\* What an agent has learned by itself is private to it and was said to it in a
\* turn whose answer is stored.
LearnedFromAnswers ==
  \A m \in memories : m.text \in Turns =>
    /\ m.scope = "PRIVATE" /\ m.text \in Learnable
    /\ m.agent = turn[m.text].agent /\ turn[m.text].at = "answered"

===============================================================================
