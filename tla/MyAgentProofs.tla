---------------------------- MODULE MyAgentProofs ------------------------------
(***************************************************************************)
(* Proofs about Chat, and about the my-agent page over it, for any number  *)
(* of employees, agents, turns, conversations and notes, with failures or  *)
(* without.                                                                *)
(*                                                                         *)
(* Of Chat, for any client: its types, that prompts and conversations are  *)
(* the caller's own, what is learned, that turns leave a readable record,  *)
(* and what conversations are named after.                                 *)
(*                                                                         *)
(* The page makes of the API only what any client can: what was proved of  *)
(* Chat holds with the page, however its requests overlap.  What it shows  *)
(* is the active conversation as long as nothing overlaps.                 *)
(***************************************************************************)
EXTENDS MyAgent, TLAPS

\* A turn that has gone this far has its caller's conversation ...
Inside == At \ {"ready", "opening", "failed"}

\* ... or has its question or result in it.
AfterAsking == {"titling", "naming", "reading", "recalling", "asked", "storing",
                "answered", "silent"}

\* What a turn in the prompt may be given.
OwnHistory(k) == \A m \in turn[k].history : CallerOf[m.turn] = CallerOf[k]

OwnMemories(k) ==
  \A m \in turn[k].memories :
    \/ m.agent = turn[k].agent
    \/ /\ m.scope = "COMPANY"
       /\ CompanyOf[EmployeeOf[m.agent]] = CompanyOf[CallerOf[k]]

\* What a turn knows at each label.
TurnKnows(k) ==
  /\ turn[k].at # "ready" => OwnsAgent(CallerOf[k], turn[k].agent)
  /\ turn[k].at = "ready" => turn[k].history = {} /\ turn[k].memories = {}
  /\ turn[k].at \in Inside => Owned(turn[k].conversation, CallerOf[k])
  /\ OwnHistory(k) /\ OwnMemories(k)

MessagesAreOwn ==
  \A c \in Conversations : \A i \in DOMAIN messages[c] :
    CallerOf[messages[c][i].turn] = conversations[c].owner

\* What a turn has in the tables at each label.
TurnRecord(k) ==
  /\ turn[k].at \in {"ready", "opening", "adding"} =>
       \A c \in Conversations : \A i \in DOMAIN messages[c] : messages[c][i].turn # k
  /\ turn[k].at # "answered" =>
       \A c \in Conversations : \A i \in DOMAIN messages[c] :
         messages[c][i].turn = k => messages[c][i].sender # "AGENT"
  /\ turn[k].at \in AfterAsking =>
       \E i \in DOMAIN messages[turn[k].conversation] :
         /\ messages[turn[k].conversation][i].turn = k
         /\ messages[turn[k].conversation][i].sender # "AGENT"

LearningIsDone == \A k \in learning : turn[k].at = "answered"

ChatInv ==
  /\ ChatTypeOK
  /\ \A k \in Turns : TurnKnows(k) /\ TurnRecord(k)
  /\ MessagesAreOwn
  /\ LearningIsDone
  /\ LearnedFromAnswers
  /\ AnswersFollowQuestions

\* No conversation changes hands.
OwnersStay ==
  /\ conversations' \in [Conversations -> Row \union {NoRow}]
  /\ \A c \in Conversations :
       conversations[c].owner \in Employees => conversations'[c].owner = conversations[c].owner

LEMMA MessageType ==
  ASSUME ChatTypeOK, NEW c \in Conversations, NEW i \in DOMAIN messages[c]
  PROVE  messages[c][i] \in Message
<1>1. messages[c] \in Seq(Message) BY DEF ChatTypeOK
<1> QED BY <1>1

-------------------------------------------------------------------------------
(* The table of conversations *)

LEMMA InsertKeepsOwners ==
  ASSUME ChatTypeOK, NEW e \in Employees, NEW a \in Agents, NEW c \in Conversations,
         Insert(c, e, a)
  PROVE  OwnersStay /\ conversations'[c].owner = e
<1>1. conversations[c] = NoRow /\ NoRow.owner \notin Employees
  BY ChatAssumption DEF Insert, Exists, NoRow
<1>2. conversations' =
        [conversations EXCEPT ![c] = [owner |-> e, agent |-> a, title |-> Default]]
  BY DEF Insert
<1>3. [owner |-> e, agent |-> a, title |-> Default] \in Row BY DEF Row, Titles
<1>4. conversations' \in [Conversations -> Row \union {NoRow}]
  BY <1>2, <1>3 DEF ChatTypeOK
<1> QED BY <1>1, <1>2, <1>4 DEF OwnersStay, ChatTypeOK

LEMMA TitleKeepsOwners ==
  ASSUME ChatTypeOK, NEW c \in Conversations, NEW t \in Titles,
         conversations[c].owner \in Employees,
         conversations' = [conversations EXCEPT ![c].title = t]
  PROVE  OwnersStay
<1>1. conversations[c] \in Row
  BY ChatAssumption DEF ChatTypeOK, NoRow
<1>2. [conversations[c] EXCEPT !.title = t] \in Row BY <1>1 DEF Row
<1>3. conversations' \in [Conversations -> Row \union {NoRow}]
  BY <1>2 DEF ChatTypeOK
<1> QED BY <1>1, <1>3 DEF OwnersStay, ChatTypeOK, Row

\* A turn whose conversation is its caller's keeps it.
LEMMA OwnedStays ==
  ASSUME OwnersStay, NEW k \in Turns, NEW c, Owned(c, CallerOf[k])
  PROVE  Owned(c, CallerOf[k])'
<1>1. CallerOf[k] \in Employees BY ChatAssumption
<1> QED BY <1>1 DEF Owned, OwnersStay

\* So do the messages.
LEMMA MessagesStayOwn ==
  ASSUME ChatTypeOK, OwnersStay, MessagesAreOwn, UNCHANGED messages
  PROVE  MessagesAreOwn'
<1> SUFFICES ASSUME NEW c \in Conversations, NEW i \in DOMAIN messages[c]
             PROVE  CallerOf[messages[c][i].turn] = conversations'[c].owner
  BY DEF MessagesAreOwn
<1>1. messages[c][i] \in Message BY MessageType
<1>2. CallerOf[messages[c][i].turn] \in Employees BY <1>1, ChatAssumption DEF Message
<1> QED BY <1>2 DEF MessagesAreOwn, OwnersStay

\* A step on the table of conversations alone.
LEMMA TableInChatInv ==
  ASSUME ChatInv, OwnersStay, UNCHANGED <<messages, memories, turn, learning, written>>
  PROVE  ChatInv'
<1>1. ChatTypeOK' BY DEF ChatInv, ChatTypeOK, OwnersStay
<1>2. ASSUME NEW k \in Turns PROVE TurnKnows(k)' /\ TurnRecord(k)'
  <2>1. TurnKnows(k) /\ TurnRecord(k) BY DEF ChatInv
  <2>2. turn[k].at \in Inside => Owned(turn[k].conversation, CallerOf[k])'
    BY <2>1, OwnedStays DEF TurnKnows, Owned, OwnersStay
  <2>3. TurnKnows(k)'
    BY <2>1, <2>2 DEF TurnKnows, OwnHistory, OwnMemories, Owned, OwnsAgent
  <2>4. TurnRecord(k)' BY <2>1 DEF TurnRecord
  <2> QED BY <2>3, <2>4
<1>3. MessagesAreOwn' BY MessagesStayOwn DEF ChatInv
<1>4. LearningIsDone' /\ LearnedFromAnswers' /\ AnswersFollowQuestions'
  BY DEF ChatInv, LearningIsDone, LearnedFromAnswers, AnswersFollowQuestions, Ours
<1> QED BY <1>1, <1>2, <1>3, <1>4 DEF ChatInv

-------------------------------------------------------------------------------
(* Memory *)

\* A step on the memories alone: what is learned was answered.
LEMMA MemoryInChatInv ==
  ASSUME ChatInv, UNCHANGED <<conversations, messages, turn>>,
         memories' \subseteq Memory, written' \subseteq Notes, learning' \subseteq learning,
         \A m \in memories' : m \in memories \/ m.text \in Notes
                                \/ \E k \in learning : /\ k \in Learnable
                                                       /\ m = [agent |-> turn[k].agent,
                                                               scope |-> "PRIVATE", text |-> k]
  PROVE  ChatInv'
<1>1. ChatTypeOK' BY DEF ChatInv, ChatTypeOK
<1>2. ASSUME NEW k \in Turns PROVE TurnKnows(k)' /\ TurnRecord(k)'
  <2>1. TurnKnows(k) /\ TurnRecord(k) BY DEF ChatInv
  <2> QED BY <2>1 DEF TurnKnows, OwnHistory, OwnMemories, Owned, OwnsAgent, TurnRecord
<1>3. MessagesAreOwn' /\ LearningIsDone' /\ AnswersFollowQuestions'
  BY DEF ChatInv, MessagesAreOwn, LearningIsDone, AnswersFollowQuestions, Ours
<1>4. LearnedFromAnswers'
  <2> SUFFICES ASSUME NEW m \in memories', m.text \in Turns
               PROVE  /\ m.scope = "PRIVATE" /\ m.text \in Learnable
                      /\ m.agent = turn[m.text].agent /\ turn[m.text].at = "answered"
    BY DEF LearnedFromAnswers
  <2>1. m.text \notin Notes BY ChatAssumption
  <2>2. CASE m \in memories BY <2>2 DEF ChatInv, LearnedFromAnswers
  <2>3. CASE m \notin memories
    <3>1. PICK k \in learning : /\ k \in Learnable
                                /\ m = [agent |-> turn[k].agent,
                                        scope |-> "PRIVATE", text |-> k]
      BY <2>1, <2>3
    <3>2. turn[k].at = "answered" BY DEF ChatInv, LearningIsDone
    <3> QED BY <3>1, <3>2
  <2> QED BY <2>2, <2>3
<1> QED BY <1>1, <1>2, <1>3, <1>4 DEF ChatInv

LEMMA RememberInChatInv ==
  ASSUME ChatInv, NEW e \in Employees, Remember(e)
  PROVE  ChatInv'
<1>0. ChatTypeOK BY DEF ChatInv
<1>1. CASE \E a \in Agents, s \in NoteScopes, n \in Notes : CreateMemory(e, a, s, n)
  <2>1. PICK a \in Agents, s \in NoteScopes, n \in Notes : CreateMemory(e, a, s, n) BY <1>1
  <2>2. [agent |-> a, scope |-> s, text |-> n] \in Memory
    BY ChatAssumption DEF Memory, Scopes
  <2>3. memories' = memories \union {[agent |-> a, scope |-> s, text |-> n]}
    BY <2>1 DEF CreateMemory
  <2>4. /\ UNCHANGED <<conversations, messages, turn, learning>>
        /\ written' = written \union {n}
    BY <2>1 DEF CreateMemory
  <2> QED BY <1>0, <2>2, <2>3, <2>4, MemoryInChatInv DEF ChatTypeOK
<1>2. CASE \E m \in memories : DeleteMemory(e, m)
  <2>1. /\ UNCHANGED <<conversations, messages, turn, learning, written>>
        /\ memories' \subseteq memories
    BY <1>2 DEF DeleteMemory
  <2> QED BY <1>0, <2>1, MemoryInChatInv DEF ChatTypeOK
<1> QED BY <1>1, <1>2 DEF Remember

LEMMA LearnInChatInv ==
  ASSUME ChatInv, NEW k \in Turns, Learn(k) \/ LearnFails(k)
  PROVE  ChatInv'
<1>0. ChatTypeOK BY DEF ChatInv
<1>1. UNCHANGED <<conversations, messages, turn, written>> /\ learning' \subseteq learning
  BY DEF Learn, LearnFails
<1>2. CASE UNCHANGED memories BY <1>0, <1>1, <1>2, MemoryInChatInv DEF ChatTypeOK
<1>3. CASE ~UNCHANGED memories
  <2>1. /\ k \in learning /\ k \in Learnable
        /\ memories' = memories \union
             {[agent |-> turn[k].agent, scope |-> "PRIVATE", text |-> k]}
    BY <1>3 DEF Learn, LearnFails
  <2>2. turn[k].agent \in Agents
    BY <2>1 DEF ChatInv, LearningIsDone, TurnKnows, OwnsAgent
  <2>3. [agent |-> turn[k].agent, scope |-> "PRIVATE", text |-> k] \in Memory
    BY <2>2 DEF Memory, Scopes
  <2> QED BY <1>0, <1>1, <2>1, <2>3, MemoryInChatInv DEF ChatTypeOK
<1> QED BY <1>2, <1>3

-------------------------------------------------------------------------------
(* Turns *)

\* A step of one turn that writes no message: it keeps what it knows, is not
\* answered, and is not further than its question is.
LEMMA TurnInChatInv ==
  ASSUME ChatInv, OwnersStay, UNCHANGED <<messages, memories, learning, written>>,
         NEW k \in Turns, NEW t \in Turn, turn' = [turn EXCEPT ![k] = t],
         turn[k].at # "answered", t.at # "answered", t.at # "ready",
         OwnsAgent(CallerOf[k], t.agent),
         t.at \in Inside => Owned(t.conversation, CallerOf[k])',
         \A m \in t.history : CallerOf[m.turn] = CallerOf[k],
         \A m \in t.memories :
           \/ m.agent = t.agent
           \/ m.scope = "COMPANY" /\ CompanyOf[EmployeeOf[m.agent]] = CompanyOf[CallerOf[k]],
         turn[k].at \notin {"ready", "opening"} => t.conversation = turn[k].conversation,
         t.at \in {"opening", "adding"} => turn[k].at \in {"ready", "opening"},
         t.at \in AfterAsking => turn[k].at \in AfterAsking
  PROVE  ChatInv'
<1>0. ChatTypeOK /\ turn \in [Turns -> Turn] BY DEF ChatInv, ChatTypeOK
<1>1. turn' \in [Turns -> Turn] /\ turn'[k] = t /\ \A j \in Turns \ {k} : turn'[j] = turn[j]
  BY <1>0
<1>2. ChatTypeOK' BY <1>0, <1>1 DEF ChatTypeOK, OwnersStay
<1>3. ASSUME NEW j \in Turns PROVE TurnKnows(j)'
  <2>1. CASE j = k
    <3>1. OwnHistory(k)' /\ OwnMemories(k)' BY <1>1 DEF OwnHistory, OwnMemories
    <3>2. t.at \in Inside => Owned(turn[k].conversation, CallerOf[k])'
      BY <1>1 DEF Owned
    <3> QED BY <1>1, <2>1, <3>1, <3>2 DEF TurnKnows, OwnsAgent
  <2>2. CASE j # k
    <3>0. turn'[j] = turn[j] /\ TurnKnows(j) BY <1>1, <2>2 DEF ChatInv
    <3>1. turn[j].at \in Inside => Owned(turn[j].conversation, CallerOf[j])'
      <4>1. CallerOf[j] \in Employees BY ChatAssumption
      <4> QED BY <3>0, <4>1 DEF TurnKnows, Owned, OwnersStay
    <3> QED BY <3>0, <3>1 DEF TurnKnows, OwnHistory, OwnMemories, OwnsAgent
  <2> QED BY <2>1, <2>2
<1>4. ASSUME NEW j \in Turns PROVE TurnRecord(j)'
  <2>0. TurnRecord(j) BY DEF ChatInv
  <2>1. CASE j = k
    <3>1. t.at \in {"ready", "opening", "adding"} => turn[k].at \in {"ready", "opening", "adding"}
      OBVIOUS
    <3>2. t.at \in AfterAsking =>
            t.conversation = turn[k].conversation /\ turn[k].at \in AfterAsking
      BY DEF AfterAsking
    <3> QED BY <1>1, <2>0, <2>1, <3>1, <3>2 DEF TurnRecord
  <2>2. CASE j # k BY <1>1, <2>0, <2>2 DEF TurnRecord
  <2> QED BY <2>1, <2>2
<1>5. MessagesAreOwn' BY <1>0, MessagesStayOwn DEF ChatInv
<1>6. \A j \in Turns : turn[j].at = "answered" => turn'[j] = turn[j] BY <1>1
<1>7. LearningIsDone' BY <1>0, <1>6 DEF ChatInv, LearningIsDone, ChatTypeOK
<1>8. LearnedFromAnswers' BY <1>6 DEF ChatInv, LearnedFromAnswers
<1>9. AnswersFollowQuestions'
  <2>1. AnswersFollowQuestions BY DEF ChatInv
  <2>2. ASSUME NEW c \in Conversations, NEW i \in DOMAIN messages[c]
        PROVE  turn'[messages[c][i].turn].conversation = turn[messages[c][i].turn].conversation
    <3>1. messages[c][i].turn \in Turns
      <4>1. messages[c][i] \in Message BY <1>0, MessageType
      <4> QED BY <4>1 DEF Message
    <3>2. CASE messages[c][i].turn = k
      <4>1. turn[k].at \notin {"ready", "opening"} BY <3>2 DEF ChatInv, TurnRecord
      <4> QED BY <1>1, <3>2, <4>1
    <3>3. CASE messages[c][i].turn # k BY <1>1, <3>1, <3>3
    <3> QED BY <3>2, <3>3
  <2>3. \A j \in Turns : turn'[j].at = "answered" => turn'[j] = turn[j] BY <1>1
  <2> QED BY <2>1, <2>2, <2>3 DEF AnswersFollowQuestions, Ours
<1> QED BY <1>2, <1>3, <1>4, <1>5, <1>7, <1>8, <1>9 DEF ChatInv

LEMMA OpeningInChatInv ==
  ASSUME ChatInv, NEW k \in Turns,
         \/ Call(k) \/ FindConversation(k)
         \/ \E c \in Conversations : OpenNewConversation(k, c)
  PROVE  ChatInv'
<1>0. /\ ChatTypeOK /\ turn[k] \in Turn /\ turn \in [Turns -> Turn]
      /\ TurnKnows(k) /\ MessagesAreOwn
  BY DEF ChatInv, ChatTypeOK
<1>1. ASSUME NEW a \in Agents, NEW c \in Conversations \union {NoConversation}, BeginChat(k, a, c)
      PROVE  ChatInv'
  <2>1. PICK t \in Turn : t = [turn[k] EXCEPT !.at = "opening", !.agent = a, !.conversation = c]
    BY <1>0 DEF Turn, At
  <2>2. /\ turn[k].at = "ready" /\ OwnsAgent(CallerOf[k], a)
        /\ turn' = [turn EXCEPT ![k] = t]
        /\ UNCHANGED <<conversations, messages, memories, learning, written>>
    BY <1>0, <1>1, <2>1 DEF BeginChat
  <2>3. /\ t.at = "opening" /\ t.agent = a
        /\ t.history = {} /\ t.memories = {}
    BY <1>0, <2>1, <2>2 DEF Turn, TurnKnows
  <2>4. OwnersStay BY <1>0, <2>2 DEF OwnersStay, ChatTypeOK
  <2>5. t.at \notin Inside /\ t.at \notin AfterAsking BY <2>3 DEF Inside, AfterAsking
  <2> QED BY <2>1, <2>2, <2>3, <2>4, <2>5, TurnInChatInv
<1>2. ASSUME NEW a \in Agents, NEW c \in Conversations, BeginResult(k, a, c)
      PROVE  ChatInv'
  <2>1. /\ turn[k].at = "ready" /\ OwnsAgent(CallerOf[k], a) /\ Owned(c, CallerOf[k])
        /\ UNCHANGED <<conversations, messages, memories, learning, written>>
    BY <1>2 DEF BeginResult
  <2>2. /\ MessagesOf(c) \subseteq Message
        /\ \A m \in MessagesOf(c) : CallerOf[m.turn] = CallerOf[k]
    BY <1>0, <2>1, MessageType DEF MessagesOf, MessagesAreOwn, Owned
  <2>3. PICK t \in Turn : t = [turn[k] EXCEPT !.at = "adding", !.agent = a, !.conversation = c,
                                              !.history = MessagesOf(c)]
    BY <1>0, <2>2 DEF Turn, At
  <2>4. /\ t.at = "adding" /\ t.agent = a /\ t.conversation = c
        /\ t.history = MessagesOf(c) /\ t.memories = {}
        /\ turn' = [turn EXCEPT ![k] = t]
    BY <1>0, <1>2, <2>1, <2>3 DEF Turn, TurnKnows, BeginResult
  <2>5. OwnersStay BY <1>0, <2>1 DEF OwnersStay, ChatTypeOK
  <2>6. t.at \notin AfterAsking BY <2>4 DEF AfterAsking
  <2>7. Owned(t.conversation, CallerOf[k])' BY <2>1, <2>4 DEF Owned
  <2>8. /\ \A m \in t.history : CallerOf[m.turn] = CallerOf[k]
        /\ t.memories = {}
    BY <2>2, <2>4
  <2> QED BY <2>1, <2>4, <2>5, <2>6, <2>7, <2>8, TurnInChatInv
<1>3. CASE FindConversation(k)
  <2>1. PICK at \in {"adding", "failed"} :
          /\ turn[k].at = "opening"
          /\ turn' = [turn EXCEPT ![k].at = at]
          /\ at = "adding" => Owned(turn[k].conversation, CallerOf[k])
    BY <1>3 DEF FindConversation, Goes
  <2>2. UNCHANGED <<conversations, messages, memories, learning, written>>
    BY <1>3 DEF FindConversation
  <2>3. PICK t \in Turn : t = [turn[k] EXCEPT !.at = at] BY <1>0 DEF Turn, At, Ended
  <2>4. /\ turn' = [turn EXCEPT ![k] = t]
        /\ t.at = at /\ t.agent = turn[k].agent /\ t.conversation = turn[k].conversation
        /\ t.history = turn[k].history /\ t.memories = turn[k].memories
    BY <1>0, <2>1, <2>3 DEF Turn
  <2>5. OwnersStay BY <1>0, <2>2 DEF OwnersStay, ChatTypeOK
  <2>6. t.at \notin AfterAsking /\ (t.at \in Inside => at = "adding")
    BY <2>4 DEF AfterAsking, Inside
  <2>7. t.at \in Inside => Owned(t.conversation, CallerOf[k])'
    BY <2>1, <2>2, <2>4, <2>6 DEF Owned
  <2>8. /\ OwnsAgent(CallerOf[k], t.agent)
        /\ \A m \in t.history : CallerOf[m.turn] = CallerOf[k]
        /\ \A m \in t.memories :
             \/ m.agent = t.agent
             \/ m.scope = "COMPANY" /\ CompanyOf[EmployeeOf[m.agent]] = CompanyOf[CallerOf[k]]
    BY <1>0, <2>1, <2>4 DEF TurnKnows, OwnHistory, OwnMemories
  <2> QED BY <2>1, <2>2, <2>4, <2>5, <2>6, <2>7, <2>8, TurnInChatInv
<1>4. ASSUME NEW c \in Conversations, OpenNewConversation(k, c)
      PROVE  ChatInv'
  <2>1. PICK t \in Turn : t = [turn[k] EXCEPT !.at = "adding", !.conversation = c]
    BY <1>0 DEF Turn, At
  <2>2. /\ turn[k].at = "opening" /\ Insert(c, CallerOf[k], turn[k].agent)
        /\ turn' = [turn EXCEPT ![k] = t]
        /\ UNCHANGED <<messages, memories, learning, written>>
    BY <1>0, <1>4, <2>1 DEF OpenNewConversation
  <2>3. /\ t.at = "adding" /\ t.agent = turn[k].agent /\ t.conversation = c
        /\ t.history = turn[k].history /\ t.memories = turn[k].memories
    BY <1>0, <2>1 DEF Turn
  <2>4. OwnsAgent(CallerOf[k], turn[k].agent) BY <1>0, <2>2 DEF TurnKnows
  <2>5. OwnersStay /\ conversations'[c].owner = CallerOf[k]
    BY <1>0, <2>2, <2>4, InsertKeepsOwners, ChatAssumption DEF OwnsAgent
  <2>6. t.at \notin AfterAsking BY <2>3 DEF AfterAsking
  <2>7. Owned(t.conversation, CallerOf[k])' BY <2>3, <2>5 DEF Owned
  <2>8. /\ \A m \in t.history : CallerOf[m.turn] = CallerOf[k]
        /\ \A m \in t.memories :
             \/ m.agent = t.agent
             \/ m.scope = "COMPANY" /\ CompanyOf[EmployeeOf[m.agent]] = CompanyOf[CallerOf[k]]
    BY <1>0, <2>3 DEF TurnKnows, OwnHistory, OwnMemories
  <2> QED BY <2>2, <2>3, <2>4, <2>5, <2>6, <2>7, <2>8, TurnInChatInv
<1> QED BY <1>1, <1>2, <1>3, <1>4 DEF Call

\* The steps between the question and the answer, and those that end a turn.
LEMMA WorkInChatInv ==
  ASSUME ChatInv, NEW k \in Turns,
         \/ CheckTitle(k) \/ WriteTitle(k) \/ ReadHistory(k) \/ Recall(k)
         \/ ServiceAnswers(k) \/ ResultTimesOut(k) \/ Throw(k)
  PROVE  ChatInv'
<1>0. /\ ChatTypeOK /\ turn[k] \in Turn /\ turn \in [Turns -> Turn]
      /\ TurnKnows(k) /\ MessagesAreOwn
  BY DEF ChatInv, ChatTypeOK
<1>1. UNCHANGED <<messages, memories, learning, written>>
  BY DEF CheckTitle, WriteTitle, ReadHistory, Recall, ServiceAnswers, ResultTimesOut, Throw
<1>2. turn[k].at \notin {"ready", "answered"}
  BY DEF CheckTitle, WriteTitle, ReadHistory, Recall, ServiceAnswers, ResultTimesOut, Throw,
     Goes, Ended
<1>3. PICK t \in Turn :
        /\ turn' = [turn EXCEPT ![k] = t]
        /\ t.agent = turn[k].agent /\ t.conversation = turn[k].conversation
        /\ t.at \in {"naming", "reading", "recalling", "asked", "storing", "silent", "failed"}
        /\ t.at # "failed" => turn[k].at \in {"titling", "naming", "reading", "recalling", "asked"}
        /\ \/ t.history = turn[k].history
           \/ t.history = {}
           \/ /\ turn[k].at = "reading"
              /\ t.history = MessagesOf(turn[k].conversation)
        /\ \/ t.memories = turn[k].memories
           \/ t.memories = {}
           \/ t.memories = Search(CallerOf[k], turn[k].agent)
  <2>1. ASSUME NEW at \in {"reading", "naming"}, turn' = [turn EXCEPT ![k].at = at],
               turn[k].at \in {"titling", "naming"}
        PROVE  \E t \in Turn :
                 /\ turn' = [turn EXCEPT ![k] = t]
                 /\ t.at = at
                 /\ t.agent = turn[k].agent /\ t.conversation = turn[k].conversation
                 /\ t.history = turn[k].history /\ t.memories = turn[k].memories
    <3>1. [turn[k] EXCEPT !.at = at] \in Turn BY <1>0 DEF Turn, At
    <3> WITNESS [turn[k] EXCEPT !.at = at] \in Turn
    <3> QED BY <1>0, <2>1 DEF Turn
  <2>2. CASE CheckTitle(k)
    <3>1. /\ turn[k].at = "titling"
          /\ \E at \in {"reading", "naming"} : turn' = [turn EXCEPT ![k].at = at]
      BY <2>2 DEF CheckTitle, Goes
    <3> QED BY <2>1, <3>1
  <2>3. CASE WriteTitle(k)
    <3>1. turn[k].at = "naming" /\ turn' = [turn EXCEPT ![k].at = "reading"]
      BY <2>3 DEF WriteTitle, Goes
    <3> QED BY <2>1, <3>1
  <2>4. CASE ReadHistory(k)
    <3> DEFINE t == [turn[k] EXCEPT !.at = "recalling",
                                    !.history = MessagesOf(turn[k].conversation)]
    <3>1. /\ turn[k].at = "reading"
          /\ turn' = [turn EXCEPT ![k] = t]
      BY <1>0, <2>4 DEF ReadHistory
    <3>2. turn[k].conversation \in Conversations
      BY <1>0, <3>1 DEF TurnKnows, Inside, At, Owned
    <3>3. MessagesOf(turn[k].conversation) \subseteq Message
      BY <1>0, <3>2, MessageType DEF MessagesOf
    <3>4. t \in Turn BY <1>0, <3>3 DEF Turn, At
    <3> WITNESS t \in Turn
    <3> QED BY <1>0, <3>1 DEF Turn
  <2>5. CASE Recall(k)
    <3> DEFINE t == [turn[k] EXCEPT !.at = "asked",
                                    !.memories = Search(CallerOf[k], turn[k].agent)]
    <3>1. /\ turn[k].at = "recalling"
          /\ turn' = [turn EXCEPT ![k] = t]
      BY <1>0, <2>5 DEF Recall
    <3>2. Search(CallerOf[k], turn[k].agent) \subseteq Memory
      BY <1>0 DEF Search, ChatTypeOK
    <3>3. t \in Turn BY <1>0, <3>2 DEF Turn, At
    <3> WITNESS t \in Turn
    <3> QED BY <1>0, <3>1 DEF Turn
  <2>6. ASSUME NEW at \in {"storing", "silent", "failed"},
               at # "failed" => turn[k].at = "asked",
               turn' = [turn EXCEPT ![k].at = at, ![k].history = {}, ![k].memories = {}]
        PROVE  \E t \in Turn :
                 /\ turn' = [turn EXCEPT ![k] = t]
                 /\ t.agent = turn[k].agent /\ t.conversation = turn[k].conversation
                 /\ t.at = at /\ t.history = {} /\ t.memories = {}
    <3> DEFINE t == [turn[k] EXCEPT !.at = at, !.history = {}, !.memories = {}]
    <3>1. t \in Turn BY <1>0 DEF Turn, At, Ended
    <3>2. turn' = [turn EXCEPT ![k] = t] BY <1>0, <2>6
    <3> WITNESS t \in Turn
    <3> QED BY <1>0, <3>2 DEF Turn
  <2>7. CASE ServiceAnswers(k) \/ ResultTimesOut(k) \/ Throw(k)
    <3>1. PICK at \in {"storing", "silent", "failed"} :
            /\ at # "failed" => turn[k].at = "asked"
            /\ turn' = [turn EXCEPT ![k].at = at, ![k].history = {}, ![k].memories = {}]
      BY <2>7 DEF ServiceAnswers, ResultTimesOut, Throw
    <3> QED BY <2>6, <3>1
  <2> QED BY <2>2, <2>3, <2>4, <2>5, <2>7
<1>4. OwnersStay
  <2>1. CASE WriteTitle(k)
    <3>1. /\ turn[k].conversation \in Conversations
          /\ conversations[turn[k].conversation].owner = CallerOf[k]
          /\ CallerOf[k] \in Employees
      BY <1>0, <2>1, ChatAssumption DEF WriteTitle, Goes, TurnKnows, Inside, At, Owned
    <3>2. conversations' = [conversations EXCEPT ![turn[k].conversation].title = k]
      BY <2>1 DEF WriteTitle
    <3> QED BY <1>0, <3>1, <3>2, TitleKeepsOwners DEF Titles
  <2>2. CASE UNCHANGED conversations BY <1>0, <2>2 DEF OwnersStay, ChatTypeOK
  <2> QED BY <2>1, <2>2 DEF CheckTitle, ReadHistory, Recall, ServiceAnswers, ResultTimesOut, Throw
<1>5. turn[k].at \in Inside => Owned(turn[k].conversation, CallerOf[k])
  BY <1>0 DEF TurnKnows
<1>6. t.at \in Inside => Owned(t.conversation, CallerOf[k])'
  <2>1. CASE t.at = "failed" BY <2>1 DEF Inside
  <2>2. CASE t.at # "failed"
    <3>1. turn[k].at \in Inside BY <1>3, <2>2 DEF Inside, At
    <3>2. Owned(t.conversation, CallerOf[k]) BY <1>3, <1>5, <3>1
    <3> QED BY <1>4, <3>2, OwnedStays
  <2> QED BY <2>1, <2>2
<1>7. \A m \in t.history : CallerOf[m.turn] = CallerOf[k]
  <2>1. CASE t.history = turn[k].history BY <1>0, <2>1 DEF TurnKnows, OwnHistory
  <2>2. CASE turn[k].at = "reading" /\ t.history = MessagesOf(turn[k].conversation)
    <3>1. Owned(turn[k].conversation, CallerOf[k]) BY <1>5, <2>2 DEF Inside, At
    <3> QED BY <1>0, <2>2, <3>1 DEF MessagesOf, MessagesAreOwn, Owned
  <2> QED BY <1>3, <2>1, <2>2
<1>8. \A m \in t.memories :
        \/ m.agent = t.agent
        \/ m.scope = "COMPANY" /\ CompanyOf[EmployeeOf[m.agent]] = CompanyOf[CallerOf[k]]
  BY <1>0, <1>3 DEF TurnKnows, OwnMemories, Search
<1>9. OwnsAgent(CallerOf[k], t.agent) BY <1>0, <1>2, <1>3 DEF TurnKnows
<1>10. /\ t.at \notin {"opening", "adding", "ready", "answered"}
       /\ t.at \in AfterAsking => turn[k].at \in AfterAsking
  BY <1>3 DEF AfterAsking
<1> QED BY <1>1, <1>2, <1>3, <1>4, <1>6, <1>7, <1>8, <1>9, <1>10, TurnInChatInv

-------------------------------------------------------------------------------
(* Messages *)

\* The messages keep their places and a new one comes last in its conversation.
LEMMA AddMessageAppends ==
  ASSUME ChatTypeOK, NEW k \in Turns, NEW c \in Conversations,
         NEW sender \in {"USER", "AGENT", "SYSTEM"}, AddMessage(k, c, sender)
  PROVE  /\ messages' \in [Conversations -> Seq(Message)]
         /\ \A d \in Conversations : \A i \in DOMAIN messages[d] :
              i \in DOMAIN messages'[d] /\ messages'[d][i] = messages[d][i]
         /\ Len(messages[c]) + 1 \in DOMAIN messages'[c]
         /\ messages'[c][Len(messages[c]) + 1] = [sender |-> sender, turn |-> k]
         /\ \A d \in Conversations : \A i \in DOMAIN messages'[d] :
              \/ i \in DOMAIN messages[d]
              \/ d = c /\ i = Len(messages[c]) + 1
         /\ \A i \in DOMAIN messages[c] : i \in 1..Len(messages[c])
         /\ Len(messages[c]) \in Nat
<1> DEFINE new == [sender |-> sender, turn |-> k]
<1>1. new \in Message BY DEF Message
<1>2. messages' = [messages EXCEPT ![c] = Append(messages[c], new)] BY DEF AddMessage
<1>3. messages \in [Conversations -> Seq(Message)] BY DEF ChatTypeOK
<1> HIDE DEF new
<1>4. messages' \in [Conversations -> Seq(Message)]
  <2>1. Append(messages[c], new) \in Seq(Message) BY <1>1, <1>3
  <2> QED BY <1>2, <1>3, <2>1
<1>5. messages'[c] = Append(messages[c], new) BY <1>2, <1>3
<1>6. messages[c] \in Seq(Message) BY <1>3
<1>7. /\ \A i \in DOMAIN messages[c] :
           i \in DOMAIN messages'[c] /\ messages'[c][i] = messages[c][i]
      /\ Len(messages[c]) + 1 \in DOMAIN messages'[c]
      /\ messages'[c][Len(messages[c]) + 1] = new
      /\ \A i \in DOMAIN messages'[c] : i \in DOMAIN messages[c] \/ i = Len(messages[c]) + 1
      /\ \A i \in DOMAIN messages[c] : i \in 1..Len(messages[c])
      /\ Len(messages[c]) \in Nat
  BY <1>1, <1>5, <1>6
<1>8. \A d \in Conversations \ {c} : messages'[d] = messages[d] BY <1>2, <1>3
<1> QED BY <1>4, <1>7, <1>8 DEF new

LEMMA MessageInChatInv ==
  ASSUME ChatInv, NEW k \in Turns, AddQuestion(k) \/ AddResult(k) \/ StoreAnswer(k)
  PROVE  ChatInv'
<1>0. /\ ChatTypeOK /\ turn[k] \in Turn /\ turn \in [Turns -> Turn]
      /\ TurnKnows(k) /\ TurnRecord(k) /\ MessagesAreOwn /\ AnswersFollowQuestions
  BY DEF ChatInv, ChatTypeOK
<1>1. PICK c \in Conversations :
        c = turn[k].conversation /\ Owned(c, CallerOf[k])
  <2>1. turn[k].at \in Inside BY DEF AddQuestion, AddResult, StoreAnswer, Goes, Inside, At
  <2> QED BY <1>0, <2>1 DEF TurnKnows, Owned
<1>2. PICK sender \in {"USER", "AGENT", "SYSTEM"}, at \in {"titling", "recalling", "answered"} :
        /\ AddMessage(k, c, sender)
        /\ turn' = [turn EXCEPT ![k].at = at]
        /\ \/ turn[k].at = "adding" /\ sender # "AGENT" /\ at # "answered" /\ learning' = learning
           \/ /\ turn[k].at = "storing" /\ sender = "AGENT" /\ at = "answered"
              /\ learning' = learning \union {k}
  <2>1. CASE AddQuestion(k)
    <3>1. AddMessage(k, c, "USER") BY <1>1, <2>1 DEF AddQuestion, AddMessage
    <3> QED BY <2>1, <3>1 DEF AddQuestion, Goes
  <2>2. CASE AddResult(k)
    <3>1. AddMessage(k, c, "SYSTEM") BY <1>1, <2>2 DEF AddResult, AddMessage
    <3> QED BY <2>2, <3>1 DEF AddResult, Goes
  <2>3. CASE StoreAnswer(k)
    <3>1. AddMessage(k, c, "AGENT") BY <1>1, <2>3 DEF StoreAnswer, AddMessage
    <3> QED BY <2>3, <3>1 DEF StoreAnswer, Goes
  <2> QED BY <2>1, <2>2, <2>3
<1>3. UNCHANGED <<conversations, memories, written>>
  BY DEF AddQuestion, AddResult, StoreAnswer
<1>4. /\ turn' \in [Turns -> Turn]
      /\ \A j \in Turns \ {k} : turn'[j] = turn[j]
      /\ turn'[k].at = at /\ turn'[k].agent = turn[k].agent
      /\ turn'[k].conversation = c
      /\ turn'[k].history = turn[k].history /\ turn'[k].memories = turn[k].memories
  <2>1. [turn[k] EXCEPT !.at = at] \in Turn BY <1>0 DEF Turn, At, Ended
  <2>2. turn' = [turn EXCEPT ![k] = [turn[k] EXCEPT !.at = at]] BY <1>0, <1>2
  <2> QED BY <1>0, <1>1, <2>1, <2>2 DEF Turn
<1>5. /\ messages' \in [Conversations -> Seq(Message)]
      /\ \A d \in Conversations : \A i \in DOMAIN messages[d] :
           i \in DOMAIN messages'[d] /\ messages'[d][i] = messages[d][i]
      /\ Len(messages[c]) + 1 \in DOMAIN messages'[c]
      /\ messages'[c][Len(messages[c]) + 1] = [sender |-> sender, turn |-> k]
      /\ \A d \in Conversations : \A i \in DOMAIN messages'[d] :
           \/ i \in DOMAIN messages[d]
           \/ d = c /\ i = Len(messages[c]) + 1
      /\ \A i \in DOMAIN messages[c] : i \in 1..Len(messages[c])
      /\ Len(messages[c]) \in Nat
  BY <1>0, <1>2, AddMessageAppends
<1>6. ChatTypeOK' BY <1>0, <1>2, <1>3, <1>4, <1>5 DEF ChatTypeOK
<1>7. ASSUME NEW j \in Turns PROVE TurnKnows(j)'
  <2>1. TurnKnows(j) BY DEF ChatInv
  <2>2. CASE j = k
    <3>1. turn[k].at # "ready" BY <1>2
    <3>2. Owned(turn'[k].conversation, CallerOf[k]) BY <1>1, <1>4
    <3> QED BY <1>0, <1>2, <1>3, <1>4, <2>2, <3>1, <3>2
          DEF TurnKnows, OwnHistory, OwnMemories, Owned, OwnsAgent
  <2>3. CASE j # k
    BY <1>3, <1>4, <2>1, <2>3 DEF TurnKnows, OwnHistory, OwnMemories, Owned, OwnsAgent
  <2> QED BY <2>2, <2>3
<1>8. \A j \in Turns : TurnRecord(j)'
  <2>1. TurnRecord(k)'
    <3>1. at \notin {"ready", "opening", "adding"} OBVIOUS
    <3>2. ASSUME at # "answered", NEW d \in Conversations, NEW i \in DOMAIN messages'[d],
                 messages'[d][i].turn = k
          PROVE  messages'[d][i].sender # "AGENT"
      BY <1>0, <1>2, <1>5, <3>2 DEF TurnRecord
    <3>3. \E i \in DOMAIN messages'[c] :
            messages'[c][i].turn = k /\ messages'[c][i].sender # "AGENT"
      <4>1. CASE sender # "AGENT" BY <1>5, <4>1
      <4>2. CASE sender = "AGENT"
        <5>1. turn[k].at \in AfterAsking BY <1>2, <4>2 DEF AfterAsking
        <5>2. PICK i \in DOMAIN messages[c] :
                messages[c][i].turn = k /\ messages[c][i].sender # "AGENT"
          BY <1>0, <1>1, <5>1 DEF TurnRecord
        <5> QED BY <1>5, <5>2
      <4> QED BY <4>1, <4>2
    <3>4. turn'[k].at = at /\ turn'[k].conversation = c BY <1>4
    <3> QED BY <3>1, <3>2, <3>3, <3>4 DEF TurnRecord
  <2>2. ASSUME NEW j \in Turns \ {k} PROVE TurnRecord(j)'
    <3>0. TurnRecord(j) BY DEF ChatInv
    <3>1. turn'[j] = turn[j] BY <1>4
    <3>2. \A d \in Conversations : \A i \in DOMAIN messages'[d] :
            messages'[d][i].turn = j =>
              i \in DOMAIN messages[d] /\ messages'[d][i] = messages[d][i]
      BY <1>5
    <3>3. turn[j].at \in AfterAsking => turn[j].conversation \in Conversations
      <4>1. AfterAsking \subseteq Inside BY DEF AfterAsking, Inside, At, Ended
      <4>2. TurnKnows(j) BY DEF ChatInv
      <4> QED BY <4>1, <4>2 DEF TurnKnows, Owned
    <3> QED BY <1>5, <3>0, <3>1, <3>2, <3>3 DEF TurnRecord
  <2> QED BY <2>1, <2>2
<1>9. MessagesAreOwn'
  <2> SUFFICES ASSUME NEW d \in Conversations, NEW i \in DOMAIN messages'[d]
               PROVE  CallerOf[messages'[d][i].turn] = conversations[d].owner
    BY <1>3 DEF MessagesAreOwn
  <2>1. CASE i \in DOMAIN messages[d] BY <1>0, <1>5, <2>1 DEF MessagesAreOwn
  <2>2. CASE d = c /\ i = Len(messages[c]) + 1 BY <1>1, <1>5, <2>2 DEF Owned
  <2> QED BY <1>5, <2>1, <2>2
<1>10. \A j \in Turns : turn[j].at = "answered" => turn'[j] = turn[j]
  BY <1>2, <1>4
<1>11. LearningIsDone'
  BY <1>0, <1>2, <1>4, <1>10 DEF ChatInv, LearningIsDone, ChatTypeOK
<1>12. LearnedFromAnswers' BY <1>3, <1>10 DEF ChatInv, LearnedFromAnswers
<1>13. AnswersFollowQuestions'
  <2>1. ASSUME NEW d \in Conversations, NEW i \in DOMAIN messages'[d]
        PROVE  /\ d = turn'[messages'[d][i].turn].conversation
               /\ \A j \in DOMAIN messages'[d] \ {i} : messages'[d][j] # messages'[d][i]
               /\ messages'[d][i].sender = "AGENT" =>
                    \E j \in 1..(i - 1) : /\ messages'[d][j].turn = messages'[d][i].turn
                                          /\ messages'[d][j].sender # "AGENT"
    <3>0. ASSUME NEW l \in DOMAIN messages[c]
          PROVE  messages[c][l] # [sender |-> sender, turn |-> k]
      BY <1>0, <1>2 DEF TurnRecord
    <3>1. CASE i \in DOMAIN messages[d]
      <4>1. messages'[d][i] = messages[d][i] /\ messages[d][i].turn \in Turns
        <5>1. messages[d][i] \in Message BY <1>0, <3>1, MessageType
        <5> QED BY <1>5, <3>1, <5>1 DEF Message
      <4>2. /\ d = turn[messages[d][i].turn].conversation
            /\ \A j \in DOMAIN messages[d] \ {i} : messages[d][j] # messages[d][i]
            /\ messages[d][i].sender = "AGENT" =>
                 \E j \in 1..(i - 1) : /\ messages[d][j].turn = messages[d][i].turn
                                       /\ messages[d][j].sender # "AGENT"
        BY <1>0, <3>1 DEF AnswersFollowQuestions, Ours
      <4>3. d = turn'[messages'[d][i].turn].conversation BY <1>1, <1>4, <4>1, <4>2
      <4>4. \A j \in DOMAIN messages'[d] \ {i} : messages'[d][j] # messages'[d][i]
        BY <1>5, <3>0, <3>1, <4>1, <4>2
      <4>5. \A j \in 1..(i - 1) : j \in DOMAIN messages[d]
        <5>1. messages[d] \in Seq(Message) BY <1>0 DEF ChatTypeOK
        <5> QED BY <3>1, <5>1
      <4> QED BY <1>5, <4>1, <4>2, <4>3, <4>4, <4>5
    <3>2. CASE d = c /\ i = Len(messages[c]) + 1
      <4>1. messages'[d][i] = [sender |-> sender, turn |-> k] BY <1>5, <3>2
      <4>2. d = turn'[messages'[d][i].turn].conversation BY <1>4, <3>2, <4>1
      <4>3. \A j \in DOMAIN messages'[d] \ {i} : messages'[d][j] # messages'[d][i]
        BY <1>5, <3>0, <3>2, <4>1
      <4>4. ASSUME sender = "AGENT"
            PROVE  \E j \in 1..(i - 1) :
                     messages'[d][j].turn = k /\ messages'[d][j].sender # "AGENT"
        <5>1. turn[k].at \in AfterAsking BY <1>2, <4>4 DEF AfterAsking
        <5>2. PICK j \in DOMAIN messages[c] :
                messages[c][j].turn = k /\ messages[c][j].sender # "AGENT"
          BY <1>0, <1>1, <5>1 DEF TurnRecord
        <5>3. j \in 1..(i - 1) BY <1>5, <3>2, <5>2
        <5> QED BY <1>5, <3>2, <5>2, <5>3
      <4> QED BY <4>1, <4>2, <4>3, <4>4
    <3> QED BY <1>5, <3>1, <3>2
  <2>2. ASSUME NEW j \in Turns, turn'[j].at = "answered"
        PROVE  \E i \in DOMAIN messages'[turn'[j].conversation] :
                 messages'[turn'[j].conversation][i] = [sender |-> "AGENT", turn |-> j]
    <3>1. CASE turn[j].at = "answered"
      <4>1. turn'[j] = turn[j] BY <1>10, <3>1
      <4>2. turn[j].conversation \in Conversations
        <5>1. TurnKnows(j) BY DEF ChatInv
        <5> QED BY <3>1, <5>1 DEF TurnKnows, Inside, At, Ended, Owned
      <4>3. PICK i \in DOMAIN messages[turn[j].conversation] :
              messages[turn[j].conversation][i] = [sender |-> "AGENT", turn |-> j]
        BY <1>0, <3>1 DEF AnswersFollowQuestions
      <4> QED BY <1>5, <4>1, <4>2, <4>3
    <3>2. CASE turn[j].at # "answered"
      <4>1. j = k /\ sender = "AGENT" BY <1>2, <1>4, <2>2, <3>2
      <4> QED BY <1>4, <1>5, <4>1
    <3> QED BY <3>1, <3>2
  <2> QED BY <2>1, <2>2 DEF AnswersFollowQuestions, Ours
<1> QED BY <1>6, <1>7, <1>8, <1>9, <1>11, <1>12, <1>13 DEF ChatInv

-------------------------------------------------------------------------------

LEMMA DirectInChatInv ==
  ASSUME ChatInv, NEW e \in Employees, Direct(e)
  PROVE  ChatInv'
<1>0. ChatTypeOK BY DEF ChatInv
<1>1. CASE Remember(e) BY <1>1, RememberInChatInv
<1>2. ASSUME NEW c \in Conversations, Rename(e, c)
      PROVE  ChatInv'
  <2>1. conversations[c].owner \in Employees BY <1>2 DEF Rename, Owned
  <2>2. /\ conversations' = [conversations EXCEPT ![c].title = Renamed]
        /\ UNCHANGED <<messages, memories, turn, learning, written>>
    BY <1>2 DEF Rename
  <2>3. OwnersStay BY <1>0, <2>1, <2>2, TitleKeepsOwners DEF Titles
  <2> QED BY <2>2, <2>3, TableInChatInv
<1>3. ASSUME NEW c \in Conversations, NEW a \in Agents, CreateConversation(e, a, c)
      PROVE  ChatInv'
  <2>1. /\ Insert(c, e, a)
        /\ UNCHANGED <<messages, memories, turn, learning, written>>
    BY <1>3 DEF CreateConversation
  <2>2. OwnersStay BY <1>0, <2>1, InsertKeepsOwners
  <2> QED BY <2>1, <2>2, TableInChatInv
<1> QED BY <1>1, <1>2, <1>3 DEF Direct

LEMMA ChatInvInit == ChatInit => ChatInv
<1> SUFFICES ASSUME ChatInit PROVE ChatInv
  OBVIOUS
<1>0. /\ messages = [c \in Conversations |-> << >>] /\ memories = {} /\ learning = {}
      /\ \A k \in Turns : /\ turn[k].at = "ready"
                          /\ turn[k].history = {} /\ turn[k].memories = {}
  BY DEF ChatInit
<1>1. ChatTypeOK
  <2>1. turn \in [Turns -> Turn] BY DEF ChatInit, Turn, At
  <2>2. << >> \in Seq(Message) OBVIOUS
  <2> QED BY <2>1, <2>2 DEF ChatInit, ChatTypeOK
<1>2. \A k \in Turns : TurnKnows(k) /\ TurnRecord(k)
  BY <1>0 DEF TurnKnows, OwnHistory, OwnMemories, Inside, TurnRecord, AfterAsking
<1>3. MessagesAreOwn /\ LearningIsDone /\ LearnedFromAnswers /\ AnswersFollowQuestions
  BY <1>0 DEF MessagesAreOwn, LearningIsDone, LearnedFromAnswers, AnswersFollowQuestions
<1> QED BY <1>1, <1>2, <1>3 DEF ChatInv

LEMMA ChatInvStep == ChatInv /\ [ChatNext]_chatVars => ChatInv'
<1> SUFFICES ASSUME ChatInv, [ChatNext]_chatVars PROVE ChatInv'
  OBVIOUS
<1>1. ASSUME NEW k \in Turns, TurnStep(k) PROVE ChatInv'
  BY <1>1, OpeningInChatInv, WorkInChatInv, LearnInChatInv, MessageInChatInv
     DEF TurnStep, Proceed
<1>2. ASSUME NEW k \in Turns, Call(k) PROVE ChatInv'
  BY <1>2, OpeningInChatInv
<1>3. ASSUME NEW e \in Employees, Direct(e) PROVE ChatInv'
  BY <1>3, DirectInChatInv
<1>4. CASE UNCHANGED chatVars
  <2>1. UNCHANGED <<conversations, messages, memories, turn, learning, written>>
    BY <1>4 DEF chatVars
  <2>2. ChatTypeOK /\ OwnersStay BY <2>1 DEF ChatInv, ChatTypeOK, OwnersStay
  <2> QED BY <2>1, <2>2, TableInChatInv
<1> QED BY <1>1, <1>2, <1>3, <1>4 DEF ChatNext

THEOREM ChatInductive == ChatSpec => []ChatInv
  BY ChatInvInit, ChatInvStep, PTL DEF ChatSpec

THEOREM ChatTypeCorrect == ChatSpec => []ChatTypeOK
<1>1. ChatInv => ChatTypeOK BY DEF ChatInv
<1> QED BY ChatInductive, <1>1, PTL

\* Whatever ids callers send, and however their turns overlap: nobody writes to
\* another employee's conversation, and no prompt holds another employee's words
\* or another company's memory.
THEOREM PromptsAreOwn == ChatSpec => []PromptIsOwn
<1>1. ChatInv => PromptIsOwn
  BY DEF ChatInv, TurnKnows, OwnHistory, OwnMemories, MessagesAreOwn, MessagesOf, PromptIsOwn
<1> QED BY ChatInductive, <1>1, PTL

\* Turns that overlap in a conversation or fail halfway leave every answer once,
\* behind its question, and return none that is not stored.
THEOREM RecordIsReadable == ChatSpec => []AnswersFollowQuestions
<1>1. ChatInv => AnswersFollowQuestions BY DEF ChatInv
<1> QED BY ChatInductive, <1>1, PTL

\* What agents learn by themselves stays private and comes from answered turns.
THEOREM LearningIsPrivate == ChatSpec => []LearnedFromAnswers
<1>1. ChatInv => LearnedFromAnswers BY DEF ChatInv
<1> QED BY ChatInductive, <1>1, PTL

-------------------------------------------------------------------------------
(* Names of conversations *)

\* A turn that is about to name its conversation has the first message there.
NamingKnows(k) ==
  turn[k].at = "naming" =>
    LET c == turn[k].conversation IN
    messages[c] # << >> /\ messages[c][1] = [sender |-> "USER", turn |-> k]

\* Questions are of turns of chat, results of turns of receiveDelegatedResult.
SendersMatch ==
  \A c \in Conversations : \A i \in DOMAIN messages[c] :
    /\ messages[c][i].sender = "USER" => messages[c][i].turn \notin Results
    /\ messages[c][i].sender = "SYSTEM" => messages[c][i].turn \in Results

\* A conversation with the name of a turn has that turn's message.
TitlesFollow ==
  \A c \in Conversations :
    conversations[c].title \in Turns =>
      /\ messages[c] # << >>
      /\ messages[c][1] = [sender |-> "USER", turn |-> conversations[c].title]

NameInv ==
  (\A k \in Turns : NamingKnows(k)) /\ SendersMatch /\ TitlesFollow /\ NamedAfterFirst

\* The first two places of a conversation.
LEMMA Places ==
  ASSUME ChatTypeOK, NEW c \in Conversations
  PROVE  /\ Len(messages[c]) \in Nat
         /\ messages[c] # << >> <=> 1 \in DOMAIN messages[c]
         /\ Len(messages[c]) > 1 <=> 2 \in DOMAIN messages[c]
         /\ messages[c] # << >> => messages[c][1] \in Message
<1>1. messages[c] \in Seq(Message) BY DEF ChatTypeOK
<1> QED BY <1>1

\* A message is of a turn whose conversation it is in.
LEMMA WhoseMessage ==
  ASSUME ChatInv, NEW c \in Conversations, NEW i \in DOMAIN messages[c]
  PROVE  /\ messages[c][i] \in Message /\ messages[c][i].turn \in Turns
         /\ turn[messages[c][i].turn].conversation = c
         /\ turn[messages[c][i].turn].at \notin {"ready", "opening", "adding"}
<1>1. messages[c][i] \in Message /\ messages[c][i].turn \in Turns
  BY MessageType DEF ChatInv, Message
<1>2. c = turn[messages[c][i].turn].conversation
  BY DEF ChatInv, AnswersFollowQuestions
<1>3. TurnRecord(messages[c][i].turn) BY <1>1 DEF ChatInv
<1>4. turn[messages[c][i].turn].at \notin {"ready", "opening", "adding"}
  BY <1>3 DEF TurnRecord
<1> QED BY <1>1, <1>2, <1>4

LEMMA InsideHasConversation ==
  ASSUME ChatInv, NEW k \in Turns, turn[k].at \in Inside
  PROVE  turn[k].conversation \in Conversations
BY DEF ChatInv, TurnKnows, Owned

\* A step that adds no message and gives no turn's name.
LEMMA NamesKept ==
  ASSUME ChatInv, NameInv, UNCHANGED messages,
         \A c \in Conversations :
           \/ conversations'[c].title \in {conversations[c].title, Renamed}
           \/ messages[c] = << >> /\ conversations'[c].title = Default,
         \A k \in Turns :
           \/ turn'[k] = turn[k] \/ turn'[k].at = "failed"
           \/ /\ turn[k].at \notin {"titling", "naming", "failed"}
              /\ turn'[k].at # "naming"
  PROVE  NameInv'
<1>0. /\ ChatTypeOK /\ \A k \in Turns : NamingKnows(k)
      /\ SendersMatch /\ TitlesFollow /\ NamedAfterFirst
      /\ Default \notin Turns /\ Renamed \notin Turns /\ Default # Renamed
  BY ChatAssumption DEF ChatInv, NameInv, Default, Renamed
<1>1. ASSUME NEW k \in Turns PROVE NamingKnows(k)'
  <2>1. NamingKnows(k) BY <1>0
  <2> QED BY <2>1 DEF NamingKnows
<1>2. SendersMatch' BY <1>0 DEF SendersMatch
<1>3. TitlesFollow'
  <2> SUFFICES ASSUME NEW c \in Conversations, conversations'[c].title \in Turns
               PROVE  /\ messages[c] # << >>
                      /\ messages[c][1] = [sender |-> "USER", turn |-> conversations'[c].title]
    BY DEF TitlesFollow
  <2>1. conversations'[c].title = conversations[c].title BY <1>0
  <2> QED BY <1>0, <2>1 DEF TitlesFollow
<1>4. NamedAfterFirst'
  <2> SUFFICES ASSUME NEW c \in Conversations, messages[c] # << >>,
                      conversations'[c].title = Default, messages[c][1].sender = "USER"
               PROVE  \/ turn'[messages[c][1].turn].at \in {"titling", "naming", "failed"}
                      \/ Len(messages[c]) > 1 /\ messages[c][2].turn # messages[c][1].turn
    BY <1>3 DEF NamedAfterFirst, TitlesFollow
  <2>1. conversations[c].title = Default BY <1>0
  <2>2. \/ turn[messages[c][1].turn].at \in {"titling", "naming", "failed"}
        \/ Len(messages[c]) > 1 /\ messages[c][2].turn # messages[c][1].turn
    BY <1>0, <2>1 DEF NamedAfterFirst
  <2>3. messages[c][1].turn \in Turns
    BY <1>0, Places, WhoseMessage
  <2> QED BY <2>2, <2>3
<1> QED BY <1>1, <1>2, <1>3, <1>4 DEF NameInv

\* The look for the first message.
LEMMA CheckTitleNames ==
  ASSUME ChatInv, NameInv, NEW k \in Turns, CheckTitle(k)
  PROVE  NameInv'
<1> DEFINE c == turn[k].conversation
<1>0. /\ ChatTypeOK /\ TurnRecord(k) /\ \A j \in Turns : NamingKnows(j)
      /\ SendersMatch /\ TitlesFollow /\ NamedAfterFirst /\ AnswersFollowQuestions
      /\ turn \in [Turns -> Turn]
  BY DEF ChatInv, NameInv, ChatTypeOK
<1>1. /\ turn[k].at = "titling" /\ UNCHANGED <<messages, conversations>>
      /\ turn' = [turn EXCEPT ![k].at = IF IsFirst(c) THEN "naming" ELSE "reading"]
  BY DEF CheckTitle, Goes
<1>2. /\ turn'[k].at = IF IsFirst(c) THEN "naming" ELSE "reading"
      /\ turn'[k].conversation = c
      /\ \A j \in Turns \ {k} : turn'[j] = turn[j]
  BY <1>0, <1>1 DEF Turn
<1>3. c \in Conversations BY <1>1, InsideHasConversation DEF Inside, At
<1>4. PICK i \in DOMAIN messages[c] : messages[c][i].turn = k /\ messages[c][i].sender # "AGENT"
  BY <1>0, <1>1 DEF TurnRecord, AfterAsking
<1>5. messages[c] \in Seq(Message) BY <1>0, <1>3 DEF ChatTypeOK
<1> HIDE DEF c
<1>6. ASSUME IsFirst(c)
      PROVE  messages[c] # << >> /\ messages[c][1] = [sender |-> "USER", turn |-> k]
  <2>1. Len(messages[c]) = 1 /\ messages[c][1].sender = "USER" BY <1>6 DEF IsFirst
  <2>2. i = 1 /\ messages[c][1] \in Message BY <1>4, <1>5, <2>1
  <2> QED BY <1>4, <2>1, <2>2 DEF Message
<1>7. ASSUME NEW j \in Turns PROVE NamingKnows(j)'
  <2>1. CASE j = k BY <1>1, <1>2, <1>6, <2>1 DEF NamingKnows
  <2>2. CASE j # k
    <3>1. NamingKnows(j) /\ turn'[j] = turn[j] BY <1>0, <1>2, <2>2
    <3> QED BY <1>1, <3>1 DEF NamingKnows
  <2> QED BY <2>1, <2>2
<1>8. SendersMatch' /\ TitlesFollow' BY <1>0, <1>1 DEF SendersMatch, TitlesFollow
<1>9. NamedAfterFirst'
  <2> SUFFICES ASSUME NEW d \in Conversations, messages[d] # << >>,
                      conversations[d].title = Default, messages[d][1].sender = "USER"
               PROVE  \/ turn'[messages[d][1].turn].at \in {"titling", "naming", "failed"}
                      \/ Len(messages[d]) > 1 /\ messages[d][2].turn # messages[d][1].turn
    BY <1>1, <1>8 DEF NamedAfterFirst, TitlesFollow
  <2>1. /\ 1 \in DOMAIN messages[d] /\ Len(messages[d]) \in Nat
        /\ Len(messages[d]) > 1 <=> 2 \in DOMAIN messages[d]
    BY <1>0, Places
  <2>2. /\ messages[d][1] \in Message /\ messages[d][1].turn \in Turns
        /\ turn[messages[d][1].turn].conversation = d
    BY <2>1, WhoseMessage
  <2>3. CASE messages[d][1].turn # k
    BY <1>0, <1>2, <2>2, <2>3 DEF NamedAfterFirst
  <2>4. CASE messages[d][1].turn = k
    <3>1. d = c BY <2>2, <2>4 DEF c
    <3>2. CASE IsFirst(c) BY <1>2, <2>4, <3>2
    <3>3. CASE ~IsFirst(c)
      <4>1. Len(messages[d]) # 1 BY <3>1, <3>3 DEF IsFirst
      <4>2. 2 \in DOMAIN messages[d] /\ Len(messages[d]) > 1
        <5>1. messages[d] \in Seq(Message) BY <1>5, <3>1
        <5>2. Len(messages[d]) \in Nat /\ 1 <= Len(messages[d]) BY <2>1, <5>1
        <5>3. Len(messages[d]) > 1
          <6> DEFINE n == Len(messages[d])
          <6>1. n \in Nat /\ 1 <= n /\ n # 1 BY <4>1, <5>2
          <6> HIDE DEF n
          <6>2. n > 1 BY <6>1
          <6> QED BY <6>2 DEF n
        <5> QED BY <2>1, <5>3
      <4>3. messages[d][2] \in Message BY <4>2, WhoseMessage
      <4>4. messages[d][2].turn = k => messages[d][2].sender # "AGENT"
        BY <1>0, <1>1, <4>2 DEF TurnRecord
      <4>5. messages[d][2].turn = k => messages[d][2].sender = "USER"
        <5>1. k \notin Results BY <1>0, <2>1, <2>4 DEF SendersMatch
        <5>2. messages[d][2].turn = k => messages[d][2].sender # "SYSTEM"
          BY <1>0, <4>2, <5>1 DEF SendersMatch
        <5> QED BY <4>3, <4>4, <5>2 DEF Message
      <4>6. messages[d][2] # messages[d][1]
        BY <1>0, <2>1, <4>2 DEF AnswersFollowQuestions
      <4> QED BY <2>2, <2>4, <4>2, <4>3, <4>5, <4>6 DEF Message
    <3> QED BY <3>2, <3>3
  <2> QED BY <2>3, <2>4
<1> QED BY <1>7, <1>8, <1>9 DEF NameInv

\* The name is that of the first message, whatever the title was.
LEMMA WriteTitleNames ==
  ASSUME ChatInv, NameInv, NEW k \in Turns, WriteTitle(k)
  PROVE  NameInv'
<1> DEFINE c == turn[k].conversation
<1>0. /\ ChatTypeOK /\ \A j \in Turns : NamingKnows(j)
      /\ SendersMatch /\ TitlesFollow /\ NamedAfterFirst
      /\ turn \in [Turns -> Turn] /\ Default \notin Turns
  BY ChatAssumption DEF ChatInv, NameInv, ChatTypeOK
<1>1. /\ turn[k].at = "naming" /\ turn' = [turn EXCEPT ![k].at = "reading"] /\ UNCHANGED messages
      /\ conversations' = [conversations EXCEPT ![c].title = k]
  BY DEF WriteTitle, Goes
<1>2. turn'[k].at = "reading" /\ \A j \in Turns \ {k} : turn'[j] = turn[j]
  BY <1>0, <1>1 DEF Turn
<1>3. c \in Conversations BY <1>1, InsideHasConversation DEF Inside, At
<1>4. /\ messages[c] # << >> /\ messages[c][1] = [sender |-> "USER", turn |-> k]
  <2>1. NamingKnows(k) BY <1>0
  <2> QED BY <1>1, <2>1 DEF NamingKnows
<1>5. /\ conversations'[c].title = k
      /\ \A d \in Conversations \ {c} : conversations'[d] = conversations[d]
  <2>1. /\ conversations[c] \in Row \union {NoRow}
        /\ conversations \in [Conversations -> Row \union {NoRow}]
    BY <1>0, <1>3 DEF ChatTypeOK
  <2>2. conversations'[c] = [conversations[c] EXCEPT !.title = k] BY <1>1, <1>3, <2>1
  <2>3. "title" \in DOMAIN conversations[c] BY <2>1 DEF Row, NoRow
  <2> QED BY <1>1, <1>3, <2>1, <2>2, <2>3
<1>6. ASSUME NEW j \in Turns PROVE NamingKnows(j)'
  <2>1. NamingKnows(j) BY <1>0
  <2> QED BY <1>1, <1>2, <2>1 DEF NamingKnows
<1>7. ASSUME NEW d \in Conversations, messages[d] # << >>, messages[d][1].turn = k PROVE d = c
  BY <1>0, <1>7, Places, WhoseMessage
<1> HIDE DEF c
<1>8. SendersMatch' BY <1>0, <1>1 DEF SendersMatch
<1>9. TitlesFollow' BY <1>0, <1>1, <1>4, <1>5 DEF TitlesFollow
<1>10. NamedAfterFirst'
  <2> SUFFICES ASSUME NEW d \in Conversations, messages[d] # << >>,
                      conversations'[d].title = Default, messages[d][1].sender = "USER"
               PROVE  \/ turn'[messages[d][1].turn].at \in {"titling", "naming", "failed"}
                      \/ Len(messages[d]) > 1 /\ messages[d][2].turn # messages[d][1].turn
    BY <1>1, <1>9 DEF NamedAfterFirst, TitlesFollow
  <2>1. d # c BY <1>0, <1>5
  <2>2. messages[d][1].turn # k /\ conversations[d].title = Default BY <1>5, <1>7, <2>1
  <2>3. messages[d][1].turn \in Turns BY <1>0, Places, WhoseMessage
  <2> QED BY <1>0, <1>2, <2>2, <2>3 DEF NamedAfterFirst
<1> QED BY <1>6, <1>8, <1>9, <1>10 DEF NameInv

\* A message comes last: the first one of a conversation is of a turn that has
\* still to look for it, and never the answer.
LEMMA MessageNames ==
  ASSUME ChatInv, NameInv, NEW k \in Turns, AddQuestion(k) \/ AddResult(k) \/ StoreAnswer(k)
  PROVE  NameInv'
<1>0. /\ ChatTypeOK /\ TurnRecord(k) /\ \A j \in Turns : NamingKnows(j)
      /\ SendersMatch /\ TitlesFollow /\ NamedAfterFirst
      /\ turn \in [Turns -> Turn]
  BY DEF ChatInv, NameInv, ChatTypeOK
<1>1. PICK c \in Conversations : c = turn[k].conversation
  <2>1. turn[k].at \in Inside BY DEF AddQuestion, AddResult, StoreAnswer, Goes, Inside, At
  <2> QED BY <2>1, InsideHasConversation
<1>2. PICK sender \in {"USER", "AGENT", "SYSTEM"}, at \in {"titling", "recalling", "answered"} :
        /\ AddMessage(k, c, sender)
        /\ turn' = [turn EXCEPT ![k].at = at]
        /\ UNCHANGED conversations
        /\ turn[k].at \in {"adding", "storing"}
        /\ sender = "USER" => k \notin Results /\ at = "titling"
        /\ sender = "SYSTEM" => k \in Results
  <2>1. CASE AddQuestion(k)
    <3>1. AddMessage(k, c, "USER") BY <1>1, <2>1 DEF AddQuestion, AddMessage
    <3> QED BY <2>1, <3>1 DEF AddQuestion, Goes
  <2>2. CASE AddResult(k)
    <3>1. AddMessage(k, c, "SYSTEM") BY <1>1, <2>2 DEF AddResult, AddMessage
    <3> QED BY <2>2, <3>1 DEF AddResult, Goes
  <2>3. CASE StoreAnswer(k)
    <3>1. AddMessage(k, c, "AGENT") BY <1>1, <2>3 DEF StoreAnswer, AddMessage
    <3> QED BY <2>3, <3>1 DEF StoreAnswer, Goes
  <2> QED BY <2>1, <2>2, <2>3
<1>3. turn'[k].at = at /\ \A j \in Turns \ {k} : turn'[j] = turn[j]
  BY <1>0, <1>2 DEF Turn
<1>4. /\ messages' \in [Conversations -> Seq(Message)]
      /\ \A d \in Conversations : \A i \in DOMAIN messages[d] :
           i \in DOMAIN messages'[d] /\ messages'[d][i] = messages[d][i]
      /\ messages'[c][Len(messages[c]) + 1] = [sender |-> sender, turn |-> k]
      /\ \A d \in Conversations : \A i \in DOMAIN messages'[d] :
           \/ i \in DOMAIN messages[d]
           \/ d = c /\ i = Len(messages[c]) + 1
  <2>1. AddMessage(k, c, sender) BY <1>2
  <2>2. /\ messages' \in [Conversations -> Seq(Message)]
        /\ \A d \in Conversations : \A i \in DOMAIN messages[d] :
             i \in DOMAIN messages'[d] /\ messages'[d][i] = messages[d][i]
        /\ Len(messages[c]) + 1 \in DOMAIN messages'[c]
        /\ messages'[c][Len(messages[c]) + 1] = [sender |-> sender, turn |-> k]
        /\ \A d \in Conversations : \A i \in DOMAIN messages'[d] :
             \/ i \in DOMAIN messages[d]
             \/ d = c /\ i = Len(messages[c]) + 1
        /\ \A i \in DOMAIN messages[c] : i \in 1..Len(messages[c])
        /\ Len(messages[c]) \in Nat
    BY <1>0, <2>1, AddMessageAppends
  <2> QED BY <2>2
<1>5. ASSUME NEW d \in Conversations
      PROVE  /\ messages[d] # << >> =>
                  /\ messages'[d] # << >> /\ 1 \in DOMAIN messages[d]
                  /\ messages'[d][1] = messages[d][1]
             /\ Len(messages[d]) > 1 => Len(messages'[d]) > 1 /\ messages'[d][2] = messages[d][2]
             /\ messages[d] = << >> /\ messages'[d] # << >> =>
                  messages'[d][1] = [sender |-> sender, turn |-> k]
  <2>1. /\ messages[d] # << >> <=> 1 \in DOMAIN messages[d]
        /\ Len(messages[d]) > 1 <=> 2 \in DOMAIN messages[d]
    BY <1>0, Places
  <2>2. /\ messages'[d] # << >> <=> 1 \in DOMAIN messages'[d]
        /\ Len(messages'[d]) > 1 <=> 2 \in DOMAIN messages'[d]
    <3>1. messages'[d] \in Seq(Message) BY <1>4
    <3> QED BY <3>1
  <2>3. messages[d] = << >> /\ messages'[d] # << >> => d = c /\ 1 = Len(messages[c]) + 1
    BY <1>4, <2>1, <2>2
  <2> QED BY <1>4, <2>1, <2>2, <2>3
<1>6. ASSUME NEW j \in Turns PROVE NamingKnows(j)'
  <2>1. CASE j = k BY <1>3, <2>1 DEF NamingKnows
  <2>2. CASE j # k
    <3> SUFFICES ASSUME turn'[j].at = "naming"
                 PROVE  /\ messages'[turn'[j].conversation] # << >>
                        /\ messages'[turn'[j].conversation][1] = [sender |-> "USER", turn |-> j]
      BY DEF NamingKnows
    <3>1. turn'[j] = turn[j] /\ NamingKnows(j) BY <1>0, <1>3, <2>2
    <3>2. turn[j].conversation \in Conversations BY <3>1, InsideHasConversation DEF Inside, At
    <3> QED BY <1>5, <3>1, <3>2 DEF NamingKnows
  <2> QED BY <2>1, <2>2
<1>7. SendersMatch'
  <2> SUFFICES ASSUME NEW d \in Conversations, NEW i \in DOMAIN messages'[d]
               PROVE  /\ messages'[d][i].sender = "USER" => messages'[d][i].turn \notin Results
                      /\ messages'[d][i].sender = "SYSTEM" => messages'[d][i].turn \in Results
    BY DEF SendersMatch
  <2>1. CASE i \in DOMAIN messages[d] BY <1>0, <1>4, <2>1 DEF SendersMatch
  <2>2. CASE d = c /\ i = Len(messages[c]) + 1 BY <1>2, <1>4, <2>2
  <2> QED BY <1>4, <2>1, <2>2
<1>8. TitlesFollow' BY <1>0, <1>2, <1>5 DEF TitlesFollow
<1>9. NamedAfterFirst'
  <2> SUFFICES ASSUME NEW d \in Conversations, messages'[d] # << >>,
                      conversations[d].title = Default, messages'[d][1].sender = "USER"
               PROVE  \/ turn'[messages'[d][1].turn].at \in {"titling", "naming", "failed"}
                      \/ Len(messages'[d]) > 1 /\ messages'[d][2].turn # messages'[d][1].turn
    BY <1>2, <1>8 DEF NamedAfterFirst, TitlesFollow
  <2>1. CASE messages[d] = << >> BY <1>2, <1>3, <1>5, <2>1
  <2>2. CASE messages[d] # << >>
    <3>1. messages'[d][1] = messages[d][1] /\ messages[d][1].turn \in Turns
      BY <1>5, <2>2, WhoseMessage
    <3>2. \/ turn[messages[d][1].turn].at \in {"titling", "naming", "failed"}
          \/ Len(messages[d]) > 1 /\ messages[d][2].turn # messages[d][1].turn
      BY <1>0, <2>2, <3>1 DEF NamedAfterFirst
    <3> QED BY <1>2, <1>3, <1>5, <3>1, <3>2
  <2> QED BY <2>1, <2>2
<1> QED BY <1>6, <1>7, <1>8, <1>9 DEF NameInv

LEMMA NameInvInit == ChatInit => NameInv
BY ChatAssumption DEF ChatInit, NameInv, NamingKnows, SendersMatch, TitlesFollow, NamedAfterFirst,
   NoRow

LEMMA NameInvStep == ChatInv /\ NameInv /\ [ChatNext]_chatVars => NameInv'
<1> SUFFICES ASSUME ChatInv, NameInv, [ChatNext]_chatVars PROVE NameInv'
  OBVIOUS
<1>0. /\ conversations \in [Conversations -> Row \union {NoRow}] /\ turn \in [Turns -> Turn]
      /\ \A k \in Turns : TurnKnows(k)
  BY DEF ChatInv, ChatTypeOK
<1>1. ASSUME NEW c \in Conversations, NEW e \in Employees, NEW a, Insert(c, e, a)
      PROVE  \A d \in Conversations :
               \/ conversations'[d].title = conversations[d].title
               \/ messages[d] = << >> /\ conversations'[d].title = Default
  <2>1. messages[c] = << >>
    <3>1. conversations[c].owner = NoOne BY <1>1 DEF Insert, Exists, NoRow
    <3>2. ASSUME messages[c] # << >> PROVE FALSE
      <4>1. 1 \in DOMAIN messages[c] /\ messages[c][1].turn \in Turns
        BY <3>2, Places, WhoseMessage DEF ChatInv
      <4>2. CallerOf[messages[c][1].turn] = NoOne
        BY <3>1, <4>1 DEF ChatInv, MessagesAreOwn
      <4> QED BY <4>1, <4>2, ChatAssumption
    <3> QED BY <3>2
  <2>2. conversations' = [conversations EXCEPT ![c] = [owner |-> e, agent |-> a, title |-> Default]]
    BY <1>1 DEF Insert
  <2> QED BY <1>0, <2>1, <2>2
<1>2. ASSUME NEW k \in Turns, TurnStep(k) \/ Call(k) PROVE NameInv'
  <2>1. CASE CheckTitle(k) BY <2>1, CheckTitleNames
  <2>2. CASE WriteTitle(k) BY <2>2, WriteTitleNames
  <2>3. CASE AddQuestion(k) \/ AddResult(k) \/ StoreAnswer(k) BY <2>3, MessageNames
  <2>4. CASE Learn(k) \/ LearnFails(k)
    <3>1. UNCHANGED <<conversations, messages, turn>> BY <2>4 DEF Learn, LearnFails
    <3> QED BY <3>1, NamesKept
  <2>5. CASE FindConversation(k) \/ ReadHistory(k) \/ Recall(k) \/ ServiceAnswers(k)
               \/ ResultTimesOut(k) \/ Throw(k) \/ Call(k)
    <3>1. UNCHANGED <<conversations, messages>>
      BY <2>5 DEF FindConversation, ReadHistory, Recall, ServiceAnswers, ResultTimesOut, Throw,
         Call, BeginChat, BeginResult
    <3>2. \A j \in Turns \ {k} : turn'[j] = turn[j]
      BY <1>0, <2>5 DEF FindConversation, ReadHistory, Recall, ServiceAnswers, ResultTimesOut,
         Throw, Call, BeginChat, BeginResult, Goes
    <3>3. \/ turn'[k].at = "failed"
          \/ turn[k].at \notin {"titling", "naming", "failed"} /\ turn'[k].at # "naming"
      <4>1. CASE FindConversation(k)
        BY <1>0, <4>1 DEF FindConversation, Goes, Turn
      <4>2. CASE ReadHistory(k) \/ Recall(k)
        BY <1>0, <4>2 DEF ReadHistory, Recall, Turn
      <4>3. CASE ServiceAnswers(k) \/ ResultTimesOut(k) \/ Throw(k)
        BY <1>0, <4>3 DEF ServiceAnswers, ResultTimesOut, Throw, Turn
      <4>4. CASE Call(k)
        <5>1. ASSUME NEW a \in Agents, NEW c, BeginChat(k, a, c)
              PROVE  turn[k].at = "ready" /\ turn'[k].at = "opening"
          BY <1>0, <5>1 DEF BeginChat, Turn
        <5>2. ASSUME NEW a \in Agents, NEW c, BeginResult(k, a, c)
              PROVE  turn[k].at = "ready" /\ turn'[k].at = "adding"
          BY <1>0, <5>2 DEF BeginResult, Turn
        <5> QED BY <4>4, <5>1, <5>2 DEF Call
      <4> QED BY <2>5, <4>1, <4>2, <4>3, <4>4
    <3> QED BY <3>1, <3>2, <3>3, NamesKept
  <2>6. ASSUME NEW c \in Conversations, OpenNewConversation(k, c) PROVE NameInv'
    <3>1. /\ Insert(c, CallerOf[k], turn[k].agent) /\ UNCHANGED messages
          /\ turn[k].at = "opening"
          /\ turn' = [turn EXCEPT ![k].at = "adding", ![k].conversation = c]
      BY <2>6 DEF OpenNewConversation
    <3>2. turn'[k].at = "adding" /\ \A j \in Turns \ {k} : turn'[j] = turn[j]
      BY <1>0, <3>1 DEF Turn
    <3>3. CallerOf[k] \in Employees BY ChatAssumption
    <3> QED BY <1>1, <3>1, <3>2, <3>3, NamesKept
  <2> QED BY <1>2, <2>1, <2>2, <2>3, <2>4, <2>5, <2>6 DEF TurnStep, Proceed
<1>3. ASSUME NEW e \in Employees, Direct(e) PROVE NameInv'
  <2>1. CASE Remember(e)
    <3>1. UNCHANGED <<conversations, messages, turn>>
      BY <2>1 DEF Remember, CreateMemory, DeleteMemory
    <3> QED BY <3>1, NamesKept
  <2>2. ASSUME NEW c \in Conversations, Rename(e, c) PROVE NameInv'
    <3>1. /\ conversations' = [conversations EXCEPT ![c].title = Renamed]
          /\ UNCHANGED <<messages, turn>>
      BY <2>2 DEF Rename
    <3>2. \A d \in Conversations : conversations'[d].title \in {conversations[d].title, Renamed}
      <4> SUFFICES ASSUME NEW d \in Conversations
                   PROVE  conversations'[d].title \in {conversations[d].title, Renamed}
        OBVIOUS
      <4>1. CASE d # c BY <1>0, <3>1, <4>1
      <4>2. CASE d = c
        <5>1. conversations[c] \in Row \union {NoRow} BY <1>0
        <5>2. "title" \in DOMAIN conversations[c] BY <5>1 DEF Row, NoRow
        <5> QED BY <1>0, <3>1, <4>2, <5>1, <5>2
      <4> QED BY <4>1, <4>2
    <3> QED BY <3>1, <3>2, NamesKept
  <2>3. ASSUME NEW c \in Conversations, NEW a \in Agents, CreateConversation(e, a, c)
        PROVE  NameInv'
    <3>1. Insert(c, e, a) /\ UNCHANGED <<messages, turn>> BY <2>3 DEF CreateConversation
    <3> QED BY <1>1, <3>1, NamesKept
  <2> QED BY <1>3, <2>1, <2>2, <2>3 DEF Direct
<1>4. CASE UNCHANGED chatVars
  <2>1. UNCHANGED <<conversations, messages, turn>> BY <1>4 DEF chatVars
  <2> QED BY <2>1, NamesKept
<1> QED BY <1>2, <1>3, <1>4 DEF ChatNext

\* What turns, messages and names know of each other.
THEOREM NamesInductive == ChatSpec => []NameInv
  BY NameInvInit, NameInvStep, ChatInductive, PTL DEF ChatSpec

\* A conversation gets the name of its first message or of none: turns that
\* overlap between the look for it and the name, or throw, name it after no
\* other, and it keeps the default only for one of the two reasons.
THEOREM NamesAreOfTheFirst == ChatSpec => []NamedAfterFirst
<1>1. NameInv => NamedAfterFirst BY DEF NameInv
<1> QED BY NamesInductive, <1>1, PTL

-------------------------------------------------------------------------------
(* The page *)

Fetching == [state : {Idle, Asked, "answered"}, messages : Seq(Message)]

\* The whole has these messages, one after the other, after its first n.
PartOf(list, whole, n) ==
  \A i \in DOMAIN list : i + n \in DOMAIN whole /\ whole[i + n] = list[i]

\* The latest messages are the end of the conversation.
LEMMA LatestIsEnd ==
  ASSUME NEW list \in Seq(Message)
  PROVE  /\ Latest(list) \in Seq(Message)
         /\ \E n \in Nat : PartOf(Latest(list), list, n)
<1> DEFINE cut == Len(list) - HistoryLimit
<1>0. HistoryLimit \in Nat /\ Len(list) \in Nat /\ DOMAIN list = 1..Len(list)
  BY PageAssumption
<1>1. CASE Len(list) > HistoryLimit
  <2>1. Latest(list) = SubSeq(list, cut + 1, Len(list)) BY <1>1 DEF Latest
  <2>2. cut \in Nat /\ cut + 1 \in 1..Len(list) + 1 /\ cut <= Len(list) BY <1>0, <1>1
  <2>3. Latest(list) \in Seq(Message) BY <1>0, <2>1, <2>2
  <2>4. /\ Len(Latest(list)) = Len(list) - cut
        /\ \A i \in 1..(Len(list) - cut) : Latest(list)[i] = list[i + cut]
    BY <1>0, <2>1, <2>2
  <2>5. PartOf(Latest(list), list, cut)
    BY <1>0, <2>2, <2>3, <2>4 DEF PartOf
  <2> QED BY <2>2, <2>3, <2>5
<1>2. CASE ~(Len(list) > HistoryLimit)
  <2>1. Latest(list) = list BY <1>2 DEF Latest
  <2>2. PartOf(list, list, 0) BY <1>0 DEF PartOf
  <2> QED BY <2>1, <2>2
<1> QED BY <1>1, <1>2

LEMMA ShowsMessage ==
  ASSUME NEW k \in Sent, NEW sender \in {"USER", "AGENT", "SYSTEM"}
  PROVE  Shows(sender, k) \in Message
  BY PageAssumption DEF Shows, Message

\* What send appends are messages.
LEMMA RepliesType ==
  ASSUME NEW k \in Sent
  PROVE  Replies(k) \subseteq Seq(Message)
<1>1. Shows("SYSTEM", k) \in Message /\ Shows("AGENT", k) \in Message BY ShowsMessage
<1>2. /\ << >> \in Seq(Message)
      /\ <<Shows("SYSTEM", k)>> \in Seq(Message)
      /\ <<Shows("AGENT", k)>> \in Seq(Message)
      /\ <<Shows("SYSTEM", k), Shows("AGENT", k)>> \in Seq(Message)
  BY <1>1
<1>3. CASE k \in outside BY <1>2, <1>3 DEF Replies
<1>4. CASE k \notin outside
  <2>1. Replies(k) \subseteq {<<Shows("AGENT", k)>>, <<Shows("SYSTEM", k)>>, << >>}
    BY <1>4 DEF Replies
  <2> QED BY <1>2, <2>1
<1> QED BY <1>3, <1>4

-------------------------------------------------------------------------------
(* Steps of the page as calls of the API *)

LEMMA PageStepIsClient ==
  ASSUME ChatTypeOK, PageTypeOK, PageStep
  PROVE  [ChatNext]_chatVars
<1>1. CASE UNCHANGED chatVars BY <1>1
<1>2. CASE ~UNCHANGED chatVars
  <2>1. \/ \E k \in Sent : Send(k)
        \/ \E c \in Conversations : ServeCreate(c)
    BY <1>2 DEF PageStep, Load, ConversationArrives, CreateFails, Refresh, Reject, Reload,
       NewConversation, OpenConversation, ServeMessages, MessagesArrive, MessagesFail,
       AnswerStep, AnswerArrives, ErrorArrives
  <2>2. ASSUME NEW k \in Sent, Send(k) PROVE ChatNext
    <3>1. BeginChat(k, conversations[active].agent, active) BY <1>2, <2>2 DEF Send
    <3>2. /\ conversations[active].agent \in Agents
          /\ active \in Conversations \union {NoConversation}
      BY <3>1 DEF BeginChat, OwnsAgent, PageTypeOK
    <3>3. Call(k) BY <3>1, <3>2 DEF Call
    <3> QED BY <3>3, PageAssumption DEF ChatNext
  <2>3. ASSUME NEW c \in Conversations, ServeCreate(c) PROVE ChatNext
    <3>1. CreateConversation(User, creating.agent, c)
      BY <2>3 DEF ServeCreate, CreateConversation
    <3>2. creating.agent \in Agents BY <3>1 DEF CreateConversation, Insert, OwnsAgent
    <3> QED BY <3>1, <3>2, PageAssumption DEF ChatNext, Direct
  <2> QED BY <2>1, <2>2, <2>3
<1> QED BY <1>1, <1>2

LEMMA NextIsClient ==
  ASSUME ChatTypeOK, PageTypeOK, [Next]_vars
  PROVE  [ChatNext]_chatVars
<1>1. CASE ApiStep
  <2>1. ASSUME NEW k \in Turns, TurnStep(k) PROVE ChatNext BY <2>1 DEF ChatNext
  <2>2. ASSUME NEW k \in Turns \ Sent, Call(k) PROVE ChatNext BY <2>2 DEF ChatNext
  <2>3. ASSUME NEW e \in Employees, Direct(e) PROVE ChatNext BY <2>3 DEF ChatNext
  <2> QED BY <1>1, <2>1, <2>2, <2>3 DEF ApiStep
<1>2. CASE PageStep BY <1>2, PageStepIsClient
<1>3. CASE UNCHANGED vars BY <1>3 DEF vars
<1> QED BY <1>1, <1>2, <1>3 DEF Next

-------------------------------------------------------------------------------
(* The types of the page *)

LEMMA CalmType ==
  ASSUME NEW c \in Conversations
  PROVE  /\ (Quiet(c) /\ active = c) \in BOOLEAN
         /\ (sending = None /\ \A d \in Conversations : fetching[d].state = Idle) \in BOOLEAN
  OBVIOUS

LEMMA FetchingType ==
  ASSUME PageTypeOK, NEW c \in Conversations, NEW f \in Fetching,
         fetching' = [fetching EXCEPT ![c] = f]
  PROVE  fetching' \in [Conversations -> Fetching]
  BY DEF PageTypeOK, Fetching

LEMMA OpeningTypes ==
  ASSUME ChatTypeOK, PageTypeOK, NEW c \in Conversations,
         OpenConversation(c) \/ ServeMessages(c) \/ MessagesArrive(c) \/ MessagesFail(c)
  PROVE  PageTypeOK'
<1>0. /\ listed \subseteq Conversations /\ shown \in Seq(Message)
      /\ fetching \in [Conversations -> Fetching] /\ messages[c] \in Seq(Message)
      /\ << >> \in Seq(Message)
  BY DEF ChatTypeOK, PageTypeOK, Fetching
<1>1. UNCHANGED <<page, listed, creating, sending, rejected, outside>>
  BY DEF OpenConversation, ServeMessages, MessagesArrive, MessagesFail
<1>2. fetching' \in [Conversations -> Fetching]
  <2>1. \E f \in Fetching : fetching' = [fetching EXCEPT ![c] = f]
    <3>1. CASE OpenConversation(c)
      <4>1. [NotFetching EXCEPT !.state = Asked] \in Fetching
        BY <1>0 DEF NotFetching, Fetching
      <4> QED BY <3>1, <4>1 DEF OpenConversation
    <3>2. CASE ServeMessages(c)
      <4>1. [state |-> "answered", messages |-> Latest(messages[c])] \in Fetching
        BY <1>0, LatestIsEnd DEF Fetching
      <4> QED BY <3>2, <4>1 DEF ServeMessages
    <3>3. CASE MessagesArrive(c) \/ MessagesFail(c)
      <4>1. NotFetching \in Fetching BY <1>0 DEF NotFetching, Fetching
      <4> QED BY <3>3, <4>1 DEF MessagesArrive, MessagesFail
    <3> QED BY <3>1, <3>2, <3>3
  <2> QED BY <2>1, FetchingType
<1>3. active' \in Conversations \union {NoConversation}
  BY DEF PageTypeOK, OpenConversation, ServeMessages, MessagesArrive, MessagesFail
<1>4. shown' \in Seq(Message)
  <2>1. fetching[c].messages \in Seq(Message) BY <1>0 DEF Fetching
  <2> QED BY <1>0, <2>1 DEF OpenConversation, ServeMessages, MessagesArrive, MessagesFail
<1>5. calm' \in BOOLEAN
  <2>1. CASE MessagesArrive(c) BY <2>1, CalmType DEF MessagesArrive
  <2>2. CASE OpenConversation(c) BY <2>2 DEF OpenConversation
  <2>3. CASE ServeMessages(c) \/ MessagesFail(c)
    BY <2>3 DEF ServeMessages, MessagesFail, PageTypeOK
  <2> QED BY <2>1, <2>2, <2>3
<1> QED BY <1>1, <1>2, <1>3, <1>4, <1>5 DEF PageTypeOK, Fetching

LEMMA CreatingTypes ==
  ASSUME ChatTypeOK, PageTypeOK,
         \/ Load \/ ConversationArrives \/ CreateFails
         \/ \E a \in Agents : NewConversation(a)
         \/ \E c \in Conversations : ServeCreate(c)
  PROVE  PageTypeOK'
<1>0. /\ creating.agent \in Agents \union {NoAgent}
      /\ creating.row \in Conversations \union {NoConversation}
      /\ creating.select \in BOOLEAN
      /\ listed \subseteq Conversations /\ shown \in Seq(Message) /\ << >> \in Seq(Message)
      /\ active \in Conversations \union {NoConversation} /\ calm \in BOOLEAN
      /\ page \in {"loading", "ready"}
  BY DEF PageTypeOK
<1>1. UNCHANGED <<fetching, sending, rejected, outside>>
  BY DEF Load, ConversationArrives, CreateFails, NewConversation, ServeCreate
<1> DEFINE Creating == [agent : Agents \union {NoAgent},
                        row : Conversations \union {NoConversation}, select : BOOLEAN]
<1>2. NotCreating \in Creating BY DEF NotCreating
<1>3. ASSUME NEW a \in Agents
      PROVE  /\ [NotCreating EXCEPT !.agent = a] \in Creating
             /\ [NotCreating EXCEPT !.agent = a, !.select = TRUE] \in Creating
  BY DEF NotCreating
<1>4. CASE Load
  <2>1. listed' \subseteq Conversations BY <1>4 DEF Load, Mine
  <2>2. creating' \in Creating /\ page' \in {"loading", "ready"}
    <3>1. CASE Mine = {} /\ MyAgents # {}
      <4>1. PICK a \in MyAgents : creating' = [NotCreating EXCEPT !.agent = a]
        BY <1>4, <3>1 DEF Load
      <4>2. a \in Agents /\ UNCHANGED page BY <1>4, <3>1 DEF Load, MyAgents
      <4> QED BY <1>0, <1>3, <4>1, <4>2
    <3>2. CASE ~(Mine = {} /\ MyAgents # {})
      <4>1. page' = "ready" /\ UNCHANGED creating BY <1>4, <3>2 DEF Load
      <4> QED BY <4>1 DEF PageTypeOK
    <3> QED BY <3>1, <3>2
  <2>3. UNCHANGED <<active, shown, calm>> BY <1>4 DEF Load
  <2> QED BY <1>1, <2>1, <2>2, <2>3 DEF PageTypeOK
<1>5. CASE ConversationArrives
  <2>1. /\ listed' = listed \union {creating.row} /\ creating.row # NoConversation
        /\ creating' = NotCreating /\ page' = "ready"
        /\ UNCHANGED active \/ active' = creating.row
        /\ UNCHANGED shown \/ shown' = << >>
    BY <1>5 DEF ConversationArrives
  <2>2. calm' \in BOOLEAN
    <3>1. CASE creating.select
      <4>1. calm' = (sending = None /\ \A c \in Conversations : fetching[c].state = Idle)
        BY <1>5, <3>1 DEF ConversationArrives
      <4> QED BY <4>1
    <3>2. CASE ~creating.select BY <1>0, <1>5, <3>2 DEF ConversationArrives
    <3> QED BY <3>1, <3>2
  <2> QED BY <1>0, <1>1, <1>2, <2>1, <2>2 DEF PageTypeOK
<1>6. CASE CreateFails
  <2>1. /\ creating' = NotCreating /\ page' = "ready"
        /\ UNCHANGED <<listed, active, shown, calm>>
    BY <1>6 DEF CreateFails
  <2> QED BY <1>1, <1>2, <2>1 DEF PageTypeOK
<1>7. ASSUME NEW a \in Agents, NewConversation(a)
      PROVE  PageTypeOK'
  <2>1. /\ creating' = [NotCreating EXCEPT !.agent = a, !.select = TRUE]
        /\ calm' = FALSE
        /\ UNCHANGED <<page, listed, active, shown>>
    BY <1>7 DEF NewConversation
  <2>2. creating' \in Creating BY <1>3, <2>1
  <2> QED BY <1>1, <2>1, <2>2 DEF PageTypeOK
<1>8. ASSUME NEW c \in Conversations, ServeCreate(c)
      PROVE  PageTypeOK'
  <2>1. /\ creating' = [creating EXCEPT !.row = c]
        /\ UNCHANGED <<page, listed, active, shown, calm>>
    BY <1>8 DEF ServeCreate
  <2>2. creating' \in Creating BY <2>1 DEF PageTypeOK
  <2> QED BY <1>1, <2>1, <2>2 DEF PageTypeOK
<1> QED BY <1>4, <1>5, <1>6, <1>7, <1>8

LEMMA SendingTypes ==
  ASSUME PageTypeOK,
         Refresh \/ Reject \/ \E k \in Sent : Send(k) \/ AnswerStep(k)
  PROVE  PageTypeOK'
<1>1. CASE Refresh
  <2>1. /\ sending' = None /\ listed' \subseteq Conversations
        /\ UNCHANGED <<page, active, shown, fetching, creating, rejected, outside, calm>>
    BY <1>1 DEF Refresh, Mine
  <2> QED BY <2>1 DEF PageTypeOK
<1>2. CASE Reject
  <2>1. /\ rejected' = TRUE
        /\ UNCHANGED <<page, listed, active, shown, fetching, creating, sending, outside, calm>>
    BY <1>2 DEF Reject
  <2> QED BY <2>1 DEF PageTypeOK
<1>3. ASSUME NEW k \in Sent, Send(k)
      PROVE  PageTypeOK'
  <2>1. /\ shown' = Append(shown, Shows("USER", k)) /\ sending' = k
        /\ UNCHANGED outside \/ outside' = outside \union {k}
        /\ UNCHANGED <<page, listed, active, fetching, creating, rejected, calm>>
    BY <1>3 DEF Send
  <2>2. shown' \in Seq(Message) BY <2>1, ShowsMessage DEF PageTypeOK
  <2> QED BY <2>1, <2>2 DEF PageTypeOK
<1>4. ASSUME NEW k \in Sent, AnswerArrives(k)
      PROVE  PageTypeOK'
  <2>1. PICK items \in Replies(k) : shown' = shown \o items BY <1>4 DEF AnswerArrives
  <2>2. items \in Seq(Message) BY RepliesType
  <2>3. shown' \in Seq(Message) BY <2>1, <2>2 DEF PageTypeOK
  <2>4. /\ sending' = Refreshing
        /\ UNCHANGED <<page, listed, active, fetching, creating, rejected, outside, calm>>
    BY <1>4 DEF AnswerArrives
  <2> QED BY <2>3, <2>4 DEF PageTypeOK
<1>5. ASSUME NEW k \in Sent, ErrorArrives(k)
      PROVE  PageTypeOK'
  <2>1. /\ sending' = None
        /\ UNCHANGED <<page, listed, active, shown, fetching, creating, rejected, outside, calm>>
    BY <1>5 DEF ErrorArrives
  <2> QED BY <2>1 DEF PageTypeOK
<1> QED BY <1>1, <1>2, <1>3, <1>4, <1>5 DEF AnswerStep

LEMMA PageStepTypes ==
  ASSUME ChatTypeOK, PageTypeOK, PageStep
  PROVE  PageTypeOK'
<1>1. CASE Reload
  <2>1. NotFetching \in Fetching /\ << >> \in Seq(Message) BY DEF NotFetching, Fetching
  <2>2. fetching' \in [Conversations -> Fetching] BY <1>1, <2>1 DEF Reload
  <2> QED BY <1>1, <2>1, <2>2 DEF Reload, PageTypeOK, Fetching, NotCreating
<1>2. CASE Refresh \/ Reject \/ \E k \in Sent : Send(k) \/ AnswerStep(k)
  BY <1>2, SendingTypes
<1>3. CASE \/ Load \/ ConversationArrives \/ CreateFails
           \/ \E a \in Agents : NewConversation(a)
           \/ \E c \in Conversations : ServeCreate(c)
  BY <1>3, CreatingTypes
<1>4. CASE \E c \in Conversations :
             OpenConversation(c) \/ ServeMessages(c) \/ MessagesArrive(c) \/ MessagesFail(c)
  BY <1>4, OpeningTypes
<1> QED BY <1>1, <1>2, <1>3, <1>4 DEF PageStep

-------------------------------------------------------------------------------

LEMMA PageInvStep == (ChatInv /\ PageTypeOK) /\ [Next]_vars => (ChatInv /\ PageTypeOK)'
<1> SUFFICES ASSUME ChatInv, PageTypeOK, [Next]_vars PROVE (ChatInv /\ PageTypeOK)'
  OBVIOUS
<1>1. [ChatNext]_chatVars BY NextIsClient DEF ChatInv
<1>2. ChatInv' BY <1>1, ChatInvStep
<1>3. CASE PageStep BY <1>2, <1>3, PageStepTypes DEF ChatInv
<1>4. CASE UNCHANGED pageVars
  <2>1. PageTypeOK' BY <1>4 DEF PageTypeOK, pageVars
  <2> QED BY <1>2, <2>1
<1> QED BY <1>3, <1>4 DEF Next, vars

LEMMA PageInvInit == Init => ChatInv /\ PageTypeOK
<1> SUFFICES ASSUME Init PROVE ChatInv /\ PageTypeOK
  OBVIOUS
<1>1. ChatInv BY ChatInvInit DEF Init
<1>2. NotFetching \in Fetching /\ << >> \in Seq(Message) BY DEF NotFetching, Fetching
<1>3. fetching \in [Conversations -> Fetching] BY <1>2 DEF Init
<1> QED BY <1>1, <1>2, <1>3 DEF Init, PageTypeOK, Fetching, NotCreating

THEOREM PageInductive == Spec => [](ChatInv /\ PageTypeOK)
  BY PageInvInit, PageInvStep, PTL DEF Spec

\* The page and the tables keep their types, whatever overlaps or is rejected.
THEOREM PageTypeCorrect == Spec => []TypeOK
<1>1. ChatInv /\ PageTypeOK => TypeOK BY DEF ChatInv, TypeOK
<1> QED BY PageInductive, <1>1, PTL

\* Every step of the page is a call any client can make of the API, or leaves
\* its tables alone.
THEOREM PageImplementsClient == Spec => ChatSpec
<1>1. Init => ChatInit BY DEF Init
<1>2. (ChatInv /\ PageTypeOK) /\ [Next]_vars => [ChatNext]_chatVars
  BY NextIsClient DEF ChatInv
<1> QED BY PageInductive, <1>1, <1>2, PTL DEF Spec, ChatSpec

\* With the page in the system prompts are own, records readable and names those
\* of the first message as before.
THEOREM PageKeepsChat ==
  Spec => [](PromptIsOwn /\ AnswersFollowQuestions /\ NamedAfterFirst /\ LearnedFromAnswers)
  BY PageImplementsClient, PromptsAreOwn, RecordIsReadable, NamesAreOfTheFirst, LearningIsPrivate,
     PTL

-------------------------------------------------------------------------------
(* What the page shows *)

\* What the API has served is stored, without a gap.
ServedAreStored ==
  \A c \in Conversations : fetching[c].state = "answered" =>
    \E n \in Nat : PartOf(fetching[c].messages, messages[c], n)

FetchingWhenReady ==
  page = "loading" => \A c \in Conversations : fetching[c].state = Idle

\* Nothing is on its way to a calm page but the answer to a message.
CalmIsStill ==
  calm => /\ page = "ready" /\ active \in Conversations /\ creating = NotCreating
          /\ \A c \in Conversations : fetching[c].state = Idle

\* It shows messages of turns that have been sent, ...
ShownBegun ==
  calm => \A i \in DOMAIN shown :
    shown[i].turn \in outside \/ turn[shown[i].turn].at # "ready"

\* ... and only the question of the one whose answer it waits for.
OnlyAsked ==
  calm /\ sending \in Sent =>
    /\ \E i \in DOMAIN shown : shown[i] = Shows("USER", sending)
    /\ \A i \in DOMAIN shown : shown[i].turn = sending => shown[i].sender = "USER"

ShowInv ==
  ServedAreStored /\ FetchingWhenReady /\ CalmIsStill /\ ShownBegun /\ OnlyAsked /\ PageShowsActive

\* Whatever is called, messages keep their places and a turn that has begun in a
\* conversation stays there.
LEMMA ApiKeeps ==
  ASSUME ChatInv, [ChatNext]_chatVars
  PROVE  /\ \A c \in Conversations : \A i \in DOMAIN messages[c] :
              i \in DOMAIN messages'[c] /\ messages'[c][i] = messages[c][i]
         /\ \A k \in Turns :
              turn[k].at # "ready" /\ turn[k].conversation \in Conversations =>
                turn'[k].at # "ready" /\ turn'[k].conversation = turn[k].conversation
<1> DEFINE Stay == \A k \in Turns :
              turn[k].at # "ready" /\ turn[k].conversation \in Conversations =>
                turn'[k].at # "ready" /\ turn'[k].conversation = turn[k].conversation
           Kept == \A c \in Conversations : \A i \in DOMAIN messages[c] :
              i \in DOMAIN messages'[c] /\ messages'[c][i] = messages[c][i]
<1>0. ChatTypeOK /\ turn \in [Turns -> Turn] BY DEF ChatInv, ChatTypeOK
<1>1. ASSUME NEW k \in Turns, NEW at, at # "ready", turn' = [turn EXCEPT ![k].at = at]
      PROVE  Stay
  BY <1>0, <1>1 DEF Turn
<1>2. ASSUME NEW k \in Turns, TurnStep(k) \/ Call(k) PROVE Stay /\ Kept
  <2>1. CASE FindConversation(k) \/ CheckTitle(k) \/ WriteTitle(k)
    <3>1. UNCHANGED messages BY <2>1 DEF FindConversation, CheckTitle, WriteTitle
    <3>2. \E at \in {"adding", "failed", "naming", "reading"} : turn' = [turn EXCEPT ![k].at = at]
      BY <2>1 DEF FindConversation, CheckTitle, WriteTitle, Goes
    <3> QED BY <1>1, <3>1, <3>2
  <2>2. CASE AddQuestion(k) \/ AddResult(k) \/ StoreAnswer(k)
    <3>1. \E at \in {"titling", "recalling", "answered"} : turn' = [turn EXCEPT ![k].at = at]
      BY <2>2 DEF AddQuestion, AddResult, StoreAnswer, Goes
    <3>2. Stay BY <1>1, <3>1
    <3>3. PICK sender \in {"USER", "AGENT", "SYSTEM"} : AddMessage(k, turn[k].conversation, sender)
      BY <2>2 DEF AddQuestion, AddResult, StoreAnswer
    <3>4. turn[k].conversation \in Conversations BY <3>3 DEF AddMessage, Owned
    <3>5. Kept BY <1>0, <3>3, <3>4, AddMessageAppends
    <3> QED BY <3>2, <3>5
  <2>3. CASE ReadHistory(k) \/ Recall(k) \/ ServiceAnswers(k) \/ ResultTimesOut(k) \/ Throw(k)
    <3>1. UNCHANGED messages
      BY <2>3 DEF ReadHistory, Recall, ServiceAnswers, ResultTimesOut, Throw
    <3>2. CASE ReadHistory(k) \/ Recall(k)
      BY <1>0, <3>1, <3>2 DEF ReadHistory, Recall, Turn
    <3>3. CASE ServiceAnswers(k) \/ ResultTimesOut(k) \/ Throw(k)
      <4>1. PICK at \in {"storing", "silent", "failed"} :
              turn' = [turn EXCEPT ![k].at = at, ![k].history = {}, ![k].memories = {}]
        BY <3>3 DEF ServiceAnswers, ResultTimesOut, Throw
      <4> QED BY <1>0, <3>1, <4>1 DEF Turn
    <3> QED BY <2>3, <3>1, <3>2, <3>3
  <2>4. ASSUME NEW c \in Conversations, OpenNewConversation(k, c) PROVE Stay /\ Kept
    <3>1. /\ turn[k].conversation = NoConversation /\ UNCHANGED messages
          /\ turn' = [turn EXCEPT ![k].at = "adding", ![k].conversation = c]
      BY <2>4 DEF OpenNewConversation
    <3>2. turn[k].conversation \notin Conversations BY <3>1, ChatAssumption
    <3> QED BY <1>0, <3>1, <3>2
  <2>5. CASE Learn(k) \/ LearnFails(k) BY <2>5 DEF Learn, LearnFails
  <2>6. CASE Call(k)
    <3>1. turn[k].at = "ready" /\ UNCHANGED messages /\ \A j \in Turns \ {k} : turn'[j] = turn[j]
      BY <1>0, <2>6 DEF Call, BeginChat, BeginResult
    <3> QED BY <3>1
  <2> QED BY <1>2, <2>1, <2>2, <2>3, <2>4, <2>5, <2>6 DEF TurnStep, Proceed
<1>3. ASSUME NEW e \in Employees, Direct(e) PROVE Stay /\ Kept
  <2>1. UNCHANGED <<messages, turn>>
    BY <1>3 DEF Direct, Remember, CreateMemory, DeleteMemory, Rename, CreateConversation
  <2> QED BY <2>1
<1>4. CASE UNCHANGED chatVars BY <1>4 DEF chatVars
<1> QED BY <1>2, <1>3, <1>4 DEF ChatNext

LEMMA ServedStay ==
  ASSUME ChatInv, [ChatNext]_chatVars, ServedAreStored,
         \A c \in Conversations :
           \/ fetching'[c] = fetching[c] \/ fetching'[c].state # "answered"
           \/ fetching'[c].messages = Latest(messages[c]) /\ UNCHANGED messages
  PROVE  ServedAreStored'
<1> SUFFICES ASSUME NEW c \in Conversations, fetching'[c].state = "answered"
             PROVE  \E n \in Nat : PartOf(fetching'[c].messages, messages'[c], n)
  BY DEF ServedAreStored
<1>1. CASE fetching'[c] = fetching[c]
  <2>1. PICK n \in Nat : PartOf(fetching[c].messages, messages[c], n)
    BY <1>1 DEF ServedAreStored
  <2>2. PartOf(fetching'[c].messages, messages'[c], n) BY <1>1, <2>1, ApiKeeps DEF PartOf
  <2> QED BY <2>2
<1>2. CASE fetching'[c].messages = Latest(messages[c]) /\ UNCHANGED messages
  <2>1. messages[c] \in Seq(Message) BY DEF ChatInv, ChatTypeOK
  <2> QED BY <1>2, <2>1, LatestIsEnd
<1> QED BY <1>1, <1>2

\* What is cut off stays cut off while the page shows the same first message.
LEMMA CutOffStays ==
  ASSUME NEW p \in Nat, UNCHANGED active, shown'[1] = shown[1], shown'[p] = shown[p],
         CutOff(shown[p].turn),
         \A i \in DOMAIN messages[active] :
           i \in DOMAIN messages'[active] /\ messages'[active][i] = messages[active][i]
  PROVE  CutOff(shown[p].turn)'
<1>1. PICK q, f \in DOMAIN messages[active] :
        /\ q < f
        /\ messages[active][q] = Shows("USER", shown[p].turn)
        /\ messages[active][f] = shown[1]
  BY DEF CutOff
<1> QED BY <1>1 DEF CutOff, Shows

\* A step that leaves what is shown, or after which the page is not calm.
LEMMA ShownStays ==
  ASSUME ChatInv, PageTypeOK, [ChatNext]_chatVars, ShowInv,
         calm' => calm /\ UNCHANGED <<shown, active, outside>>,
         sending' \in {sending, None, Refreshing},
         ServedAreStored', FetchingWhenReady', CalmIsStill'
  PROVE  ShowInv'
<1>1. CASE ~calm'
  BY <1>1 DEF ShowInv, ShownBegun, OnlyAsked, PageShowsActive
<1>2. CASE calm'
  <2>0. /\ calm /\ UNCHANGED <<shown, active, outside>> /\ shown \in Seq(Message)
        /\ CalmIsStill /\ ShownBegun /\ OnlyAsked /\ PageShowsActive
        /\ active \in Conversations
    BY <1>2 DEF ShowInv, PageTypeOK, CalmIsStill
  <2>1. \A i \in DOMAIN shown : shown[i] \in Message /\ shown[i].turn \in Turns
    <3>1. \A i \in DOMAIN shown : shown[i] \in Message BY <2>0
    <3> QED BY <3>1 DEF Message
  <2>2. ASSUME NEW i \in DOMAIN shown, shown[i].turn \notin outside
        PROVE  /\ turn'[shown[i].turn].at # "ready"
               /\ turn'[shown[i].turn].conversation = active
    <3>1. turn[shown[i].turn].at # "ready" BY <2>0, <2>2 DEF ShownBegun
    <3>2. turn[shown[i].turn].conversation = active BY <2>0, <2>2 DEF PageShowsActive
    <3> QED BY <2>0, <2>1, <3>1, <3>2, ApiKeeps
  <2>3. ShownBegun' BY <2>0, <2>2 DEF ShownBegun
  <2>4. OnlyAsked'
    <3>1. sending' \in Sent => sending' = sending BY PageAssumption
    <3> QED BY <2>0, <3>1 DEF OnlyAsked
  <2>5. PageShowsActive'
    <3> SUFFICES ASSUME NEW i \in DOMAIN shown
                 PROVE  /\ shown[i].turn \notin outside =>
                             turn'[shown[i].turn].conversation = active
                        /\ \A j \in DOMAIN shown \ {i} : shown[j] # shown[i]
                        /\ shown[i].sender = "AGENT" /\ shown[i].turn \in Sent =>
                             \/ CutOff(shown[i].turn)'
                             \/ \E j \in 1..(i - 1) : shown[j] = Shows("USER", shown[i].turn)
                        /\ shown[i].sender = "AGENT" /\ shown[i].turn \notin outside =>
                             \E j \in DOMAIN messages'[active] : messages'[active][j] = shown[i]
      BY <2>0 DEF PageShowsActive, Shows
    <3>1. /\ \A j \in DOMAIN shown \ {i} : shown[j] # shown[i]
          /\ shown[i].sender = "AGENT" /\ shown[i].turn \in Sent =>
               \/ CutOff(shown[i].turn)
               \/ \E j \in 1..(i - 1) : shown[j] = Shows("USER", shown[i].turn)
          /\ shown[i].sender = "AGENT" /\ shown[i].turn \notin outside =>
               \E j \in DOMAIN messages[active] : messages[active][j] = shown[i]
      BY <2>0 DEF PageShowsActive
    <3>3. CutOff(shown[i].turn) => CutOff(shown[i].turn)'
      BY <2>0, ApiKeeps, CutOffStays
    <3>2. \A j \in DOMAIN messages[active] :
            j \in DOMAIN messages'[active] /\ messages'[active][j] = messages[active][j]
      BY <2>0, ApiKeeps
    <3> QED BY <2>2, <3>1, <3>2, <3>3
  <2> QED BY <2>3, <2>4, <2>5 DEF ShowInv
<1> QED BY <1>1, <1>2

\* The messages of a conversation arrive: they are shown as they are stored.
LEMMA ArrivalShows ==
  ASSUME ChatInv, NameInv, PageTypeOK, ShowInv, NEW c \in Conversations, MessagesArrive(c)
  PROVE  ShowInv'
<1> DEFINE ms == fetching[c].messages
<1>0. /\ ChatTypeOK /\ AnswersFollowQuestions /\ SendersMatch
      /\ ServedAreStored /\ FetchingWhenReady /\ ms \in Seq(Message)
      /\ fetching \in [Conversations -> Fetching]
  BY DEF ChatInv, NameInv, ShowInv, PageTypeOK, Fetching
<1>1. /\ fetching[c].state = "answered" /\ shown' = ms
      /\ fetching' = [fetching EXCEPT ![c] = NotFetching]
      /\ calm' = (Quiet(c) /\ active = c)
      /\ UNCHANGED <<chatVars, page, listed, active, creating, sending, rejected, outside>>
  BY DEF MessagesArrive
<1>2. UNCHANGED <<messages, turn>> BY <1>1 DEF chatVars
<1>3. /\ fetching'[c] = NotFetching /\ NotFetching.state = Idle /\ Idle # "answered"
      /\ \A d \in Conversations \ {c} : fetching'[d] = fetching[d]
  BY <1>0, <1>1 DEF NotFetching, Idle
<1>4. page = "ready" BY <1>0, <1>1, <1>3 DEF FetchingWhenReady, PageTypeOK
<1>5. ServedAreStored' BY <1>0, <1>2, <1>3 DEF ServedAreStored
<1>6. FetchingWhenReady' BY <1>1, <1>4 DEF FetchingWhenReady
<1>7. CASE ~calm'
  BY <1>5, <1>6, <1>7 DEF ShowInv, CalmIsStill, ShownBegun, OnlyAsked, PageShowsActive
<1>8. CASE calm'
  <2>0. Quiet(c) /\ active = c BY <1>1, <1>8
  <2>1. CalmIsStill' BY <1>1, <1>3, <1>4, <2>0 DEF CalmIsStill, Quiet
  <2>2. OnlyAsked' BY <1>1, <2>0, PageAssumption DEF OnlyAsked, Quiet
  <2>9. PICK n \in Nat : PartOf(ms, messages[c], n) BY <1>0, <1>1 DEF ServedAreStored
  <2>3. ASSUME NEW i \in DOMAIN ms
        PROVE  /\ i + n \in DOMAIN messages[c] /\ messages[c][i + n] = ms[i]
               /\ ms[i] \in Message /\ ms[i].turn \in Turns
               /\ turn[ms[i].turn].conversation = c /\ turn[ms[i].turn].at # "ready"
    <3>1. i + n \in DOMAIN messages[c] /\ messages[c][i + n] = ms[i]
      BY <2>9 DEF PartOf
    <3> QED BY <3>1, WhoseMessage
  <2> HIDE DEF ms
  <2>4. ShownBegun' BY <1>1, <1>2, <2>3 DEF ShownBegun
  <2>5. PageShowsActive'
    <3> SUFFICES ASSUME NEW i \in DOMAIN ms
                 PROVE  /\ turn[ms[i].turn].conversation = active
                        /\ \A j \in DOMAIN ms \ {i} : ms[j] # ms[i]
                        /\ ms[i].sender = "AGENT" /\ ms[i].turn \in Sent =>
                             \/ \E q, f \in DOMAIN messages[c] :
                                  /\ q < f /\ messages[c][q] = Shows("USER", ms[i].turn)
                                  /\ messages[c][f] = ms[1]
                             \/ \E j \in 1..(i - 1) : ms[j] = Shows("USER", ms[i].turn)
                        /\ ms[i].sender = "AGENT" =>
                             \E j \in DOMAIN messages[active] : messages[active][j] = ms[i]
      BY <1>1, <1>2, <2>0 DEF PageShowsActive, Shows, CutOff
    <3>1. turn[ms[i].turn].conversation = active BY <2>0, <2>3
    <3>0. messages[c] \in Seq(Message) /\ i \in Nat /\ DOMAIN ms = 1..Len(ms) /\ 1 \in DOMAIN ms
      BY <1>0 DEF ChatTypeOK
    <3>2. ASSUME NEW j \in DOMAIN ms \ {i} PROVE ms[j] # ms[i]
      <4>1. /\ i + n \in DOMAIN messages[c] /\ messages[c][i + n] = ms[i]
            /\ j + n \in DOMAIN messages[c] /\ messages[c][j + n] = ms[j]
        BY <2>3
      <4>2. i + n # j + n BY <3>0
      <4> QED BY <1>0, <4>1, <4>2 DEF AnswersFollowQuestions
    <3>3. ASSUME ms[i].sender = "AGENT", ms[i].turn \in Sent
          PROVE  \/ \E q, f \in DOMAIN messages[c] :
                      /\ q < f /\ messages[c][q] = Shows("USER", ms[i].turn)
                      /\ messages[c][f] = ms[1]
                 \/ \E j \in 1..(i - 1) : ms[j] = Shows("USER", ms[i].turn)
      <4>1. PICK q \in 1..(i + n - 1) :
              messages[c][q].turn = ms[i].turn /\ messages[c][q].sender # "AGENT"
        BY <1>0, <2>3, <3>0, <3>3 DEF AnswersFollowQuestions, Ours
      <4>2. q \in DOMAIN messages[c] /\ i + n \in DOMAIN messages[c] BY <2>3, <3>0, <4>1
      <4>3. messages[c][q] \in Message BY <3>0, <4>2
      <4>4. messages[c][q].sender # "SYSTEM"
        BY <1>0, <3>3, <4>1, <4>2, PageAssumption DEF SendersMatch
      <4>5. messages[c][q] = Shows("USER", ms[i].turn)
        BY <4>1, <4>3, <4>4 DEF Message, Shows
      <4>6. CASE q > n
        <5>1. q - n \in 1..(i - 1) /\ q - n \in DOMAIN ms BY <3>0, <4>1, <4>6
        <5>2. ms[q - n] = messages[c][q] BY <2>3, <5>1
        <5> QED BY <4>5, <5>1, <5>2
      <4>7. CASE ~(q > n)
        <5>1. 1 + n \in DOMAIN messages[c] /\ messages[c][1 + n] = ms[1] BY <2>3, <3>0
        <5>2. q < 1 + n BY <4>1, <4>7
        <5> QED BY <4>2, <4>5, <5>1, <5>2
      <4> QED BY <4>6, <4>7
    <3>4. \E j \in DOMAIN messages[active] : messages[active][j] = ms[i] BY <2>0, <2>3
    <3> QED BY <3>1, <3>2, <3>3, <3>4
  <2> QED BY <1>5, <1>6, <2>1, <2>2, <2>4, <2>5 DEF ShowInv
<1> QED BY <1>7, <1>8

\* A message that is sent is the first of its turn on the page.
LEMMA SendShows ==
  ASSUME ChatInv, PageTypeOK, ShowInv, NEW k \in Sent, Send(k)
  PROVE  ShowInv'
<1>0. /\ shown \in Seq(Message) /\ turn \in [Turns -> Turn] /\ k \in Turns
      /\ ServedAreStored /\ FetchingWhenReady /\ CalmIsStill
      /\ ShownBegun /\ PageShowsActive
  BY PageAssumption DEF ChatInv, ChatTypeOK, PageTypeOK, ShowInv
<1>1. /\ shown' = Append(shown, Shows("USER", k)) /\ sending' = k
      /\ UNCHANGED <<page, listed, active, fetching, creating, rejected, calm>>
      /\ k \notin outside /\ turn[k].at = "ready" /\ UNCHANGED messages
      /\ \/ /\ UNCHANGED outside
            /\ turn' = [turn EXCEPT ![k].at = "opening",
                                    ![k].agent = conversations[active].agent,
                                    ![k].conversation = active]
         \/ outside' = outside \union {k} /\ UNCHANGED turn
  BY DEF Send, BeginChat, chatVars
<1>2. /\ outside \subseteq outside'
      /\ k \in outside' \/ (turn'[k].at # "ready" /\ turn'[k].conversation = active)
      /\ \A j \in Turns \ {k} : turn'[j] = turn[j]
  <2>1. CASE turn' = [turn EXCEPT ![k].at = "opening",
                                  ![k].agent = conversations[active].agent,
                                  ![k].conversation = active] /\ UNCHANGED outside
    <3>1. turn'[k] = [turn[k] EXCEPT !.at = "opening",
                                     !.agent = conversations[active].agent,
                                     !.conversation = active]
      BY <1>0, <2>1
    <3>2. turn[k] \in Turn BY <1>0
    <3>3. turn'[k].at = "opening" /\ turn'[k].conversation = active BY <3>1, <3>2 DEF Turn
    <3>4. \A j \in Turns \ {k} : turn'[j] = turn[j] BY <1>0, <2>1
    <3>5. outside \subseteq outside' BY <2>1
    <3>6. "opening" # "ready" OBVIOUS
    <3> QED BY <3>3, <3>4, <3>5, <3>6
  <2>2. CASE outside' = outside \union {k} /\ UNCHANGED turn BY <2>2
  <2> QED BY <1>1, <2>1, <2>2
<1>3. ServedAreStored' /\ FetchingWhenReady' /\ CalmIsStill'
  BY <1>0, <1>1 DEF ServedAreStored, FetchingWhenReady, CalmIsStill
<1>4. CASE ~calm
  BY <1>1, <1>3, <1>4 DEF ShowInv, ShownBegun, OnlyAsked, PageShowsActive
<1>5. CASE calm
  <2>1. \A i \in DOMAIN shown : shown[i].turn \in Turns \ {k}
    <3>1. \A i \in DOMAIN shown : shown[i] \in Message BY <1>0
    <3>2. \A i \in DOMAIN shown : shown[i].turn # k BY <1>0, <1>1, <1>5 DEF ShownBegun
    <3> QED BY <3>1, <3>2 DEF Message
  <2>2. /\ Len(shown) \in Nat /\ DOMAIN shown = 1..Len(shown)
        /\ DOMAIN shown' = 1..(Len(shown) + 1)
        /\ \A i \in DOMAIN shown : shown'[i] = shown[i]
        /\ shown'[Len(shown) + 1] = Shows("USER", k)
    <3>1. Shows("USER", k) \in Message BY ShowsMessage
    <3> QED BY <1>0, <1>1, <3>1
  <2>3. \A i \in DOMAIN shown' : i \in DOMAIN shown \/ i = Len(shown) + 1 BY <2>2
  <2>4. Shows("USER", k).turn = k /\ Shows("USER", k).sender = "USER" BY DEF Shows
  <2>5. ShownBegun'
    <3> SUFFICES ASSUME NEW i \in DOMAIN shown'
                 PROVE  shown'[i].turn \in outside' \/ turn'[shown'[i].turn].at # "ready"
      BY DEF ShownBegun
    <3>1. CASE i \in DOMAIN shown
      BY <1>0, <1>2, <1>5, <2>1, <2>2, <3>1 DEF ShownBegun
    <3>2. CASE i = Len(shown) + 1 BY <1>2, <2>2, <2>4, <3>2
    <3> QED BY <2>3, <3>1, <3>2
  <2>6. OnlyAsked'
    <3>1. Len(shown) + 1 \in DOMAIN shown' BY <2>2
    <3>2. \A i \in DOMAIN shown' : shown'[i].turn = k => shown'[i].sender = "USER"
      BY <2>1, <2>2, <2>3, <2>4
    <3> QED BY <1>1, <2>2, <3>1, <3>2 DEF OnlyAsked, Shows
  <2>7. PageShowsActive'
    <3> SUFFICES ASSUME NEW i \in DOMAIN shown'
                 PROVE  /\ shown'[i].turn \notin outside' =>
                             turn'[shown'[i].turn].conversation = active
                        /\ \A j \in DOMAIN shown' \ {i} : shown'[j] # shown'[i]
                        /\ shown'[i].sender = "AGENT" /\ shown'[i].turn \in Sent =>
                             \/ CutOff(shown[i].turn)'
                             \/ \E j \in 1..(i - 1) : shown'[j] = Shows("USER", shown'[i].turn)
                        /\ shown'[i].sender = "AGENT" /\ shown'[i].turn \notin outside' =>
                             \E j \in DOMAIN messages[active] : messages[active][j] = shown'[i]
      BY <1>1 DEF PageShowsActive, Shows
    <3>1. CASE i \in DOMAIN shown
      <4>1. /\ shown[i].turn \notin outside => turn[shown[i].turn].conversation = active
            /\ \A j \in DOMAIN shown \ {i} : shown[j] # shown[i]
            /\ shown[i].sender = "AGENT" /\ shown[i].turn \in Sent =>
                 \/ CutOff(shown[i].turn)
                 \/ \E j \in 1..(i - 1) : shown[j] = Shows("USER", shown[i].turn)
            /\ shown[i].sender = "AGENT" /\ shown[i].turn \notin outside =>
                 \E j \in DOMAIN messages[active] : messages[active][j] = shown[i]
        BY <1>0, <1>5, <3>1 DEF PageShowsActive
      <4>2. shown'[i] = shown[i] /\ shown[i].turn \in Turns \ {k} BY <2>1, <2>2, <3>1
      <4>5. CutOff(shown[i].turn) => CutOff(shown[i].turn)'
        <5>1. 1 \in DOMAIN shown BY <2>2, <3>1
        <5>2. shown'[1] = shown[1] BY <2>2, <5>1
        <5>3. i \in Nat BY <2>2, <3>1
        <5> QED BY <1>1, <4>2, <5>2, <5>3, CutOffStays
      <4>3. \A j \in DOMAIN shown' \ {i} : shown'[j] # shown'[i]
        BY <2>2, <2>3, <2>4, <4>1, <4>2
      <4>4. \A j \in 1..(i - 1) : shown'[j] = shown[j] BY <2>2, <3>1
      <4> QED BY <1>2, <4>1, <4>2, <4>3, <4>4, <4>5
    <3>2. CASE i = Len(shown) + 1
      <4>1. \A j \in DOMAIN shown' \ {i} : shown'[j] # shown'[i]
        <5>1. \A j \in DOMAIN shown' \ {i} : j \in DOMAIN shown BY <2>3, <3>2
        <5> QED BY <2>1, <2>2, <2>4, <3>2, <5>1
      <4> QED BY <1>2, <2>2, <2>4, <3>2, <4>1
    <3> QED BY <2>3, <3>1, <3>2
  <2> QED BY <1>3, <2>5, <2>6, <2>7 DEF ShowInv
<1> QED BY <1>4, <1>5

\* What is appended for an answer: of the turn, nothing twice, and the response
\* of a chat turn only when it is stored.
LEMMA RepliesKnow ==
  ASSUME NEW k \in Sent, NEW items \in Replies(k)
  PROVE  /\ items \in Seq(Message)
         /\ k \in outside \/ turn[k].at \in {"answered", "silent"}
         /\ \A i \in DOMAIN items :
              /\ items[i].turn = k /\ items[i].sender # "USER"
              /\ k \notin outside => turn[k].at = "answered"
              /\ items[i].sender = "AGENT" => items[i] = Shows("AGENT", k)
         /\ \A i, j \in DOMAIN items : i # j => items[i] # items[j]
<1>0. items \in Seq(Message) BY RepliesType
<1>1. Shows("SYSTEM", k).turn = k /\ Shows("SYSTEM", k).sender = "SYSTEM"
  BY DEF Shows
<1>2. Shows("AGENT", k).turn = k /\ Shows("AGENT", k).sender = "AGENT"
  BY DEF Shows
<1>3. \/ items = << >> \/ items = <<Shows("AGENT", k)>>
      \/ items = <<Shows("SYSTEM", k)>>
      \/ k \in outside /\ items = <<Shows("SYSTEM", k), Shows("AGENT", k)>>
  BY DEF Replies
<1>4. k \notin outside =>
        \/ turn[k].at = "answered" /\ items \in {<<Shows("AGENT", k)>>, <<Shows("SYSTEM", k)>>}
        \/ turn[k].at = "silent" /\ items = << >>
  BY DEF Replies
<1>5. CASE items = << >> BY <1>0, <1>4, <1>5
<1>6. CASE items = <<Shows("AGENT", k)>> BY <1>0, <1>2, <1>4, <1>6
<1>7. CASE items = <<Shows("SYSTEM", k)>> BY <1>0, <1>1, <1>4, <1>7
<1>8. CASE k \in outside /\ items = <<Shows("SYSTEM", k), Shows("AGENT", k)>>
  <2>1. /\ DOMAIN items = 1..2 /\ items[1] = Shows("SYSTEM", k) /\ items[2] = Shows("AGENT", k)
    BY <1>8
  <2>2. \A i \in DOMAIN items : i = 1 \/ i = 2 BY <2>1
  <2> QED BY <1>0, <1>1, <1>2, <1>8, <2>1, <2>2
<1> QED BY <1>3, <1>5, <1>6, <1>7, <1>8

\* An answer comes behind its question.
LEMMA AnswerShows ==
  ASSUME ChatInv, PageTypeOK, ShowInv, NEW k \in Sent, AnswerArrives(k)
  PROVE  ShowInv'
<1>0. /\ shown \in Seq(Message) /\ k \in Turns /\ AnswersFollowQuestions
      /\ ServedAreStored /\ FetchingWhenReady /\ CalmIsStill
      /\ ShownBegun /\ OnlyAsked /\ PageShowsActive
  BY PageAssumption DEF ChatInv, PageTypeOK, ShowInv
<1>1. /\ sending = k /\ sending' = Refreshing
      /\ UNCHANGED <<chatVars, page, listed, active, fetching, creating, rejected, outside, calm>>
  BY DEF AnswerArrives, Answered
<1>2. UNCHANGED <<messages, turn>> BY <1>1 DEF chatVars
<1>3. PICK items \in Replies(k) : shown' = shown \o items BY DEF AnswerArrives
<1>4. ServedAreStored' /\ FetchingWhenReady' /\ CalmIsStill'
  BY <1>0, <1>1, <1>2 DEF ServedAreStored, FetchingWhenReady, CalmIsStill
<1>5. CASE ~calm
  BY <1>1, <1>4, <1>5 DEF ShowInv, ShownBegun, OnlyAsked, PageShowsActive
<1>6. CASE calm
  <2> DEFINE n == Len(shown)
  <2>1. /\ n \in Nat /\ DOMAIN shown = 1..n
        /\ \A i \in DOMAIN shown : i \in DOMAIN shown' /\ shown'[i] = shown[i]
        /\ \A i \in DOMAIN shown' :
             \/ i \in DOMAIN shown
             \/ i \in Nat /\ i > n /\ i - n \in DOMAIN items /\ shown'[i] = items[i - n]
    <3>1. items \in Seq(Message) BY RepliesType
    <3> QED BY <1>0, <1>3, <3>1
  <2> HIDE DEF n
  <2>2. /\ \A i \in DOMAIN items :
             /\ items[i].turn = k /\ items[i].sender # "USER"
             /\ k \notin outside => turn[k].at = "answered"
             /\ items[i].sender = "AGENT" => items[i] = Shows("AGENT", k)
        /\ \A i, j \in DOMAIN items : i # j => items[i] # items[j]
    BY RepliesKnow
  <2>3. PICK q \in DOMAIN shown : shown[q] = Shows("USER", k)
    BY <1>0, <1>1, <1>6 DEF OnlyAsked
  <2>4. \A i \in DOMAIN shown : shown[i].turn = k => shown[i].sender = "USER"
    BY <1>0, <1>1, <1>6 DEF OnlyAsked
  <2>5. /\ k \notin outside => turn[k].conversation = active
        /\ k \in outside \/ turn[k].at # "ready"
    <3>1. shown[q].turn = k BY <2>3 DEF Shows
    <3> QED BY <1>0, <1>6, <3>1 DEF PageShowsActive, ShownBegun
  <2>6. ShownBegun'
    <3> SUFFICES ASSUME NEW i \in DOMAIN shown'
                 PROVE  shown'[i].turn \in outside \/ turn[shown'[i].turn].at # "ready"
      BY <1>1, <1>2 DEF ShownBegun
    <3>1. CASE i \in DOMAIN shown BY <1>0, <1>6, <2>1, <3>1 DEF ShownBegun
    <3>2. CASE i \notin DOMAIN shown BY <2>1, <2>2, <2>5, <3>2
    <3> QED BY <3>1, <3>2
  <2>7. OnlyAsked' BY <1>1, PageAssumption DEF OnlyAsked
  <2>8. PageShowsActive'
    <3> SUFFICES ASSUME NEW i \in DOMAIN shown'
                 PROVE  /\ shown'[i].turn \notin outside =>
                             turn[shown'[i].turn].conversation = active
                        /\ \A j \in DOMAIN shown' \ {i} : shown'[j] # shown'[i]
                        /\ shown'[i].sender = "AGENT" /\ shown'[i].turn \in Sent =>
                             \/ CutOff(shown[i].turn)'
                             \/ \E j \in 1..(i - 1) : shown'[j] = Shows("USER", shown'[i].turn)
                        /\ shown'[i].sender = "AGENT" /\ shown'[i].turn \notin outside =>
                             \E j \in DOMAIN messages[active] : messages[active][j] = shown'[i]
      BY <1>1, <1>2 DEF PageShowsActive, Shows
    <3>1. CASE i \in DOMAIN shown
      <4>1. /\ shown[i].turn \notin outside => turn[shown[i].turn].conversation = active
            /\ \A j \in DOMAIN shown \ {i} : shown[j] # shown[i]
            /\ shown[i].sender = "AGENT" /\ shown[i].turn \in Sent =>
                 \/ CutOff(shown[i].turn)
                 \/ \E j \in 1..(i - 1) : shown[j] = Shows("USER", shown[i].turn)
            /\ shown[i].sender = "AGENT" /\ shown[i].turn \notin outside =>
                 \E j \in DOMAIN messages[active] : messages[active][j] = shown[i]
        BY <1>0, <1>6, <3>1 DEF PageShowsActive
      <4>2. shown'[i] = shown[i] BY <2>1, <3>1
      <4>5. CutOff(shown[i].turn) => CutOff(shown[i].turn)'
        <5>1. 1 \in DOMAIN shown BY <2>1, <3>1
        <5>2. shown'[1] = shown[1] BY <2>1, <5>1
        <5>3. i \in Nat BY <2>1, <3>1
        <5> QED BY <1>1, <1>2, <4>2, <5>2, <5>3, CutOffStays
      <4>3. ASSUME NEW j \in DOMAIN shown' \ {i} PROVE shown'[j] # shown'[i]
        <5>1. CASE j \in DOMAIN shown BY <2>1, <4>1, <4>2, <5>1
        <5>2. CASE j \notin DOMAIN shown
          <6>1. shown'[j].turn = k /\ shown'[j].sender # "USER" BY <2>1, <2>2, <5>2
          <6> QED BY <2>4, <3>1, <4>2, <6>1
        <5> QED BY <5>1, <5>2
      <4>4. \A j \in 1..(i - 1) : shown'[j] = shown[j] BY <2>1, <3>1
      <4> QED BY <4>1, <4>2, <4>3, <4>4, <4>5
    <3>2. CASE i \notin DOMAIN shown
      <4>1. /\ i \in Nat /\ i > n /\ i - n \in DOMAIN items /\ shown'[i] = items[i - n]
            /\ shown'[i].turn = k /\ shown'[i].sender # "USER"
            /\ k \notin outside => turn[k].at = "answered"
            /\ shown'[i].sender = "AGENT" => shown'[i] = Shows("AGENT", k)
        BY <2>1, <2>2, <3>2
      <4>2. ASSUME NEW j \in DOMAIN shown' \ {i} PROVE shown'[j] # shown'[i]
        <5>1. CASE j \in DOMAIN shown BY <2>1, <2>4, <4>1, <5>1
        <5>2. CASE j \notin DOMAIN shown
          <6>1. j \in Nat /\ j - n \in DOMAIN items /\ shown'[j] = items[j - n] BY <2>1, <5>2
          <6>2. j - n # i - n BY <2>1, <4>1, <6>1
          <6> QED BY <2>2, <4>1, <6>1, <6>2
        <5> QED BY <5>1, <5>2
      <4>3. \E j \in 1..(i - 1) : shown'[j] = Shows("USER", k)
        <5>1. q \in 1..(i - 1) /\ shown'[q] = Shows("USER", k) BY <2>1, <2>3, <4>1
        <5> QED BY <5>1
      <4>4. k \notin outside /\ shown'[i].sender = "AGENT" =>
              \E j \in DOMAIN messages[active] : messages[active][j] = shown'[i]
        BY <1>0, <2>5, <4>1 DEF AnswersFollowQuestions, Shows
      <4> QED BY <2>5, <4>1, <4>2, <4>3, <4>4
    <3> QED BY <3>1, <3>2
  <2> QED BY <1>4, <2>6, <2>7, <2>8 DEF ShowInv
<1> QED BY <1>5, <1>6

\* Clicks and answers that show nothing new: after a click the page is not calm,
\* and on a calm page nothing else is on its way.
LEMMA OpeningShows ==
  ASSUME ChatInv, PageTypeOK, [ChatNext]_chatVars, ShowInv, NEW c \in Conversations,
         OpenConversation(c) \/ ServeMessages(c) \/ MessagesFail(c)
  PROVE  ShowInv'
<1>0. /\ ServedAreStored /\ FetchingWhenReady /\ CalmIsStill
      /\ fetching \in [Conversations -> Fetching]
      /\ Asked # "answered" /\ Idle # "answered" /\ Idle # Asked
  BY DEF ShowInv, PageTypeOK, Fetching, Asked, Idle
<1>1. UNCHANGED <<page, shown, creating, sending, outside>>
  BY DEF OpenConversation, ServeMessages, MessagesFail
<1>2. /\ \A d \in Conversations \ {c} : fetching'[d] = fetching[d]
      /\ \/ fetching'[c].state # "answered"
         \/ fetching'[c].messages = Latest(messages[c]) /\ UNCHANGED messages
  <2>1. CASE OpenConversation(c)
    BY <1>0, <2>1 DEF OpenConversation, NotFetching
  <2>2. CASE ServeMessages(c) BY <1>0, <2>2 DEF ServeMessages, chatVars
  <2>3. CASE MessagesFail(c) BY <1>0, <2>3 DEF MessagesFail, NotFetching
  <2> QED BY <2>1, <2>2, <2>3
<1>3. ServedAreStored' BY <1>0, <1>2, ServedStay
<1>4. page = "ready" /\ ~calm'
  <2>1. CASE OpenConversation(c) BY <2>1 DEF OpenConversation
  <2>2. CASE ServeMessages(c) \/ MessagesFail(c)
    <3>1. fetching[c].state = Asked /\ UNCHANGED calm BY <2>2 DEF ServeMessages, MessagesFail
    <3>2. ~calm BY <1>0, <3>1 DEF CalmIsStill
    <3>3. page # "loading" BY <1>0, <3>1 DEF FetchingWhenReady
    <3> QED BY <3>1, <3>2, <3>3 DEF PageTypeOK
  <2> QED BY <2>1, <2>2
<1>5. FetchingWhenReady' /\ CalmIsStill'
  BY <1>1, <1>4 DEF FetchingWhenReady, CalmIsStill
<1> QED BY <1>1, <1>3, <1>4, <1>5, ShownStays

\* The same of the lists, of a conversation that is being created, and of the
\* end of a wait.
LEMMA WaitingShows ==
  ASSUME ChatInv, PageTypeOK, [ChatNext]_chatVars, ShowInv,
         \/ Load \/ CreateFails \/ Refresh \/ Reject
         \/ \E a \in Agents : NewConversation(a)
         \/ \E c \in Conversations : ServeCreate(c)
         \/ \E k \in Sent : ErrorArrives(k)
         \/ UNCHANGED pageVars
  PROVE  ShowInv'
<1>0. ServedAreStored /\ FetchingWhenReady /\ CalmIsStill BY DEF ShowInv
<1>1. /\ UNCHANGED <<shown, active, fetching, outside>>
      /\ sending' \in {sending, None, Refreshing}
      /\ page' \in {page, "ready"}
  BY DEF Load, CreateFails, Refresh, Reject, NewConversation, ServeCreate, ErrorArrives, pageVars
<1>2. ServedAreStored' BY <1>0, <1>1, ServedStay
<1>3. FetchingWhenReady' BY <1>0, <1>1 DEF FetchingWhenReady
<1>4. calm' => calm /\ UNCHANGED <<page, creating>>
  <2>1. CASE Load
    <3>1. page = "loading" /\ UNCHANGED calm BY <2>1 DEF Load
    <3> QED BY <1>0, <3>1 DEF CalmIsStill
  <2>2. CASE CreateFails \/ \E c \in Conversations : ServeCreate(c)
    <3>1. creating.agent # NoAgent /\ UNCHANGED calm BY <2>2 DEF CreateFails, ServeCreate
    <3>2. creating # NotCreating BY <3>1 DEF NotCreating
    <3> QED BY <1>0, <3>1, <3>2 DEF CalmIsStill
  <2>3. CASE \E a \in Agents : NewConversation(a) BY <2>3 DEF NewConversation
  <2>4. CASE Refresh \/ Reject \/ (\E k \in Sent : ErrorArrives(k)) \/ UNCHANGED pageVars
    BY <2>4 DEF Refresh, Reject, ErrorArrives, pageVars
  <2> QED BY <2>1, <2>2, <2>3, <2>4
<1>5. CalmIsStill' BY <1>0, <1>1, <1>4 DEF CalmIsStill
<1> QED BY <1>1, <1>2, <1>3, <1>4, <1>5, ShownStays

\* A conversation that is selected when it has been created is shown empty.
LEMMA CreationShows ==
  ASSUME ChatInv, PageTypeOK, ShowInv, ConversationArrives
  PROVE  ShowInv'
<1>0. /\ ServedAreStored /\ FetchingWhenReady /\ CalmIsStill /\ ~calm
      /\ creating.row \in Conversations
  <2>1. creating.row # NoConversation BY DEF ConversationArrives
  <2>2. creating # NotCreating BY <2>1 DEF NotCreating
  <2> QED BY <2>1, <2>2 DEF ShowInv, CalmIsStill, PageTypeOK
<1>1. /\ page' = "ready" /\ creating' = NotCreating
      /\ UNCHANGED <<chatVars, fetching, sending, outside>>
  BY DEF ConversationArrives
<1>2. ServedAreStored' /\ FetchingWhenReady'
  BY <1>0, <1>1 DEF ServedAreStored, FetchingWhenReady, chatVars
<1>3. CASE ~calm'
  BY <1>2, <1>3 DEF ShowInv, CalmIsStill, ShownBegun, OnlyAsked, PageShowsActive
<1>4. CASE calm'
  <2>1. /\ active' = creating.row /\ shown' = << >> /\ sending = None
        /\ \A c \in Conversations : fetching[c].state = Idle
    BY <1>0, <1>4 DEF ConversationArrives
  <2>2. CalmIsStill' BY <1>0, <1>1, <2>1 DEF CalmIsStill
  <2>3. DOMAIN shown' = {} BY <2>1
  <2>4. ShownBegun' /\ PageShowsActive' BY <2>3 DEF ShownBegun, PageShowsActive
  <2>5. OnlyAsked' BY <1>1, <2>1, PageAssumption DEF OnlyAsked
  <2> QED BY <1>2, <2>2, <2>4, <2>5 DEF ShowInv
<1> QED BY <1>3, <1>4

LEMMA ReloadShows ==
  ASSUME Reload
  PROVE  ShowInv'
<1>1. ~calm' /\ \A c \in Conversations : fetching'[c].state = Idle
  BY DEF Reload, NotFetching
<1>2. Idle # "answered" BY DEF Idle
<1> QED BY <1>1, <1>2 DEF ShowInv, ServedAreStored, FetchingWhenReady, CalmIsStill, ShownBegun,
       OnlyAsked, PageShowsActive

LEMMA ShowInvInit == Init => ShowInv
<1> SUFFICES ASSUME Init PROVE ShowInv
  OBVIOUS
<1>1. ~calm /\ \A c \in Conversations : fetching[c].state = Idle
  BY DEF Init, NotFetching
<1>2. Idle # "answered" BY DEF Idle
<1> QED BY <1>1, <1>2 DEF ShowInv, ServedAreStored, FetchingWhenReady, CalmIsStill, ShownBegun,
       OnlyAsked, PageShowsActive

LEMMA ShowInvStep ==
  ChatInv /\ NameInv /\ PageTypeOK /\ ShowInv /\ [Next]_vars => ShowInv'
<1> SUFFICES ASSUME ChatInv, NameInv, PageTypeOK, ShowInv, [Next]_vars PROVE ShowInv'
  OBVIOUS
<1>1. [ChatNext]_chatVars BY NextIsClient DEF ChatInv
<1>2. CASE \E c \in Conversations : MessagesArrive(c) BY <1>2, ArrivalShows
<1>3. CASE \E k \in Sent : Send(k) BY <1>3, SendShows
<1>4. CASE \E k \in Sent : AnswerArrives(k) BY <1>4, AnswerShows
<1>5. CASE \E c \in Conversations : OpenConversation(c) \/ ServeMessages(c) \/ MessagesFail(c)
  BY <1>1, <1>5, OpeningShows
<1>6. CASE ConversationArrives BY <1>6, CreationShows
<1>7. CASE Reload BY <1>7, ReloadShows
<1>8. CASE \/ Load \/ CreateFails \/ Refresh \/ Reject
           \/ \E a \in Agents : NewConversation(a)
           \/ \E c \in Conversations : ServeCreate(c)
           \/ \E k \in Sent : ErrorArrives(k)
           \/ UNCHANGED pageVars
  BY <1>1, <1>8, WaitingShows
<1> QED BY <1>2, <1>3, <1>4, <1>5, <1>6, <1>7, <1>8 DEF Next, PageStep, AnswerStep, vars

\* What is on its way to the page is still stored, and a calm page has nothing
\* on its way but the answer to the message it shows.
THEOREM ShowInductive == Spec => []ShowInv
<1>1. Spec => []NameInv BY PageImplementsClient, NamesInductive, PTL
<1> QED BY PageInductive, <1>1, ShowInvInit, ShowInvStep, PTL DEF Spec

\* Whatever is clicked and however answers overlap: a page that has been left in
\* peace since its conversation was opened shows that conversation, each message
\* once and an answer behind its question unless that is cut off, and no answer
\* that is not stored, for any number of turns and any length of the history.
THEOREM CalmPageShowsActive == Spec => []PageShowsActive
<1>1. ShowInv => PageShowsActive BY DEF ShowInv
<1> QED BY ShowInductive, <1>1, PTL

===============================================================================
