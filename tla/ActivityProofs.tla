---------------------------- MODULE ActivityProofs -----------------------------
(***************************************************************************)
(* Proofs about Activity: its types, that a page lists only events of its  *)
(* own employee, that it lists those of a request in the order they were   *)
(* published in, and that it lists none more often than connections broke, *)
(* for any number of processes, requests and pages, any page size and any  *)
(* number of broken connections.                                           *)
(***************************************************************************)
EXTENDS Activity, FiniteSetTheorems, TLAPS

\* What Redis has taken has been published.
ChannelBegun == \A i \in Instances : \A k \in DOMAIN channel[i] : Begun(channel[i][k])

\* A request that waits for an answer has an event to wait for.
CommandBounded == \A q \in Requests : request[q] # "ready" => sent[q] < EventsPerRequest

\* A page without a connection has no employee and an empty list, so the next
\* employee who connects it finds nothing of the last one's.
ClosedIsEmpty == \A p \in Pages : socket[p] # "open" => viewer[p] = Nobody /\ events[p] = << >>

FInv == FeedTypeOK /\ ChannelBegun /\ CommandBounded /\ ClosedIsEmpty /\ ListsOwnEvents

-------------------------------------------------------------------------------
(* The list of a page *)

\* A list that gets an event is a list of the page's size, of the events it had
\* and this one.
LEMMA OnTopList ==
  ASSUME NEW e \in Event, NEW list \in Seq(Event), Len(list) <= PageSize
  PROVE  /\ OnTop(e, list) \in Seq(Event)
         /\ Len(OnTop(e, list)) <= PageSize
         /\ \A k \in DOMAIN OnTop(e, list) :
              OnTop(e, list)[k] = e \/ \E l \in DOMAIN list : OnTop(e, list)[k] = list[l]
<1> DEFINE long == <<e>> \o list
<1>0. PageSize \in Nat \ {0} BY ActivityAssumption
<1>1. /\ long \in Seq(Event)
      /\ Len(long) = 1 + Len(list)
      /\ \A k \in 1..Len(long) :
           long[k] = e \/ \E l \in DOMAIN list : long[k] = list[l]
  <2>1. long \in Seq(Event) /\ Len(long) = 1 + Len(list) OBVIOUS
  <2>2. ASSUME NEW k \in 1..Len(long)
        PROVE  long[k] = e \/ \E l \in DOMAIN list : long[k] = list[l]
    <3>1. CASE k = 1 BY <3>1
    <3>2. CASE k # 1
      <4>1. k - 1 \in DOMAIN list /\ long[k] = list[k - 1] BY <3>2, <2>1
      <4> QED BY <4>1
    <3> QED BY <3>1, <3>2
  <2> QED BY <2>1, <2>2
<1>2. CASE Len(long) > PageSize
  <2>1. OnTop(e, list) = SubSeq(long, 1, PageSize) BY <1>2 DEF OnTop
  <2> HIDE DEF long
  <2>2. /\ SubSeq(long, 1, PageSize) \in Seq(Event)
        /\ Len(SubSeq(long, 1, PageSize)) = PageSize
        /\ \A k \in 1..PageSize : SubSeq(long, 1, PageSize)[k] = long[k]
    BY <1>0, <1>1, <1>2
  <2>3. DOMAIN SubSeq(long, 1, PageSize) = 1..PageSize BY <1>0, <2>2
  <2>4. 1..PageSize \subseteq 1..Len(long) BY <1>0, <1>1, <1>2
  <2> QED BY <1>0, <1>1, <2>1, <2>2, <2>3, <2>4
<1>3. CASE ~(Len(long) > PageSize)
  <2>1. OnTop(e, list) = long BY <1>3 DEF OnTop
  <2> HIDE DEF long
  <2>2. DOMAIN long = 1..Len(long) BY <1>1
  <2>3. Len(long) <= PageSize BY <1>0, <1>1, <1>3
  <2> QED BY <1>1, <2>1, <2>2, <2>3
<1> QED BY <1>2, <1>3

\* What broadcasting does to the pages: types hold, and a page gains at most
\* this event, if it is for the employee who connected it.
LEMMA BroadcastKeeps ==
  ASSUME FInv, NEW i \in Instances, NEW e \in Event, Broadcast(i, e)
  PROVE  /\ UNCHANGED <<socket, viewer>>
         /\ clients' \subseteq Pages
         /\ events' \in [Pages -> Seq(Event)]
         /\ \A p \in Pages :
              /\ Len(events'[p]) <= PageSize
              /\ socket[p] # "open" => events'[p] = events[p]
              /\ \A k \in DOMAIN events'[p] :
                   \/ \E l \in DOMAIN events[p] : events'[p][k] = events[p][l]
                   \/ events'[p][k] = e /\ MeantFor(p, e)
<1>1. /\ UNCHANGED <<socket, viewer>>
      /\ clients' \subseteq Pages
  BY DEF FInv, FeedTypeOK, Broadcast
<1>2. events' = [p \in Pages |-> IF Gets(i, p, e) THEN OnTop(e, events[p]) ELSE events[p]]
  BY DEF Broadcast
<1>3. ASSUME NEW p \in Pages
      PROVE  /\ events'[p] \in Seq(Event)
             /\ Len(events'[p]) <= PageSize
             /\ socket[p] # "open" => events'[p] = events[p]
             /\ \A k \in DOMAIN events'[p] :
                  \/ \E l \in DOMAIN events[p] : events'[p][k] = events[p][l]
                  \/ events'[p][k] = e /\ MeantFor(p, e)
  <2>0. events[p] \in Seq(Event) /\ Len(events[p]) <= PageSize
    BY DEF FInv, FeedTypeOK
  <2>1. CASE Gets(i, p, e)
    <3>1. events'[p] = OnTop(e, events[p]) BY <1>2, <2>1
    <3>2. socket[p] = "open" /\ MeantFor(p, e) BY <2>1 DEF Gets
    <3> QED BY <2>0, <3>1, <3>2, OnTopList
  <2>2. CASE ~Gets(i, p, e)
    <3>1. events'[p] = events[p] BY <1>2, <2>2
    <3> QED BY <2>0, <3>1
  <2> QED BY <2>1, <2>2
<1>4. events' \in [Pages -> Seq(Event)] BY <1>2, <1>3
<1> QED BY <1>1, <1>3, <1>4

\* Broadcasting an event that has been published, by a step that takes nothing
\* back, leaves every page with its own events.
LEMMA BroadcastOwn ==
  ASSUME FInv, NEW i \in Instances, NEW e \in Event, Broadcast(i, e), Begun(e)',
         \A f \in Event : Begun(f) => Begun(f)'
  PROVE  /\ socket' \in [Pages -> Socket]
         /\ clients' \subseteq Pages
         /\ viewer' \in [Pages -> Viewers \union {Nobody}]
         /\ events' \in [Pages -> Seq(Event)]
         /\ \A p \in Pages : Len(events'[p]) <= PageSize
         /\ ClosedIsEmpty'
         /\ ListsOwnEvents'
<1>1. /\ UNCHANGED <<socket, viewer>>
      /\ clients' \subseteq Pages
      /\ events' \in [Pages -> Seq(Event)]
      /\ \A p \in Pages :
           /\ Len(events'[p]) <= PageSize
           /\ socket[p] # "open" => events'[p] = events[p]
           /\ \A k \in DOMAIN events'[p] :
                \/ \E l \in DOMAIN events[p] : events'[p][k] = events[p][l]
                \/ events'[p][k] = e /\ MeantFor(p, e)
  BY BroadcastKeeps
<1>2. ClosedIsEmpty' BY <1>1 DEF FInv, ClosedIsEmpty
<1>3. ListsOwnEvents'
  <2> SUFFICES ASSUME NEW p \in Pages, NEW k \in DOMAIN events'[p]
               PROVE  ViewerOf[events'[p][k][1]] = viewer'[p] /\ Begun(events[p][k])'
    BY DEF ListsOwnEvents, Begun
  <2>1. CASE events'[p][k] = e /\ MeantFor(p, e)
    BY <1>1, <2>1 DEF MeantFor, Begun
  <2>2. CASE \E l \in DOMAIN events[p] : events'[p][k] = events[p][l]
    <3>1. PICK l \in DOMAIN events[p] : events'[p][k] = events[p][l] BY <2>2
    <3>2. ViewerOf[events[p][l][1]] = viewer[p] /\ Begun(events[p][l])
      BY DEF FInv, ListsOwnEvents
    <3>3. events[p][l] \in Event
      <4>1. events[p] \in Seq(Event) BY DEF FInv, FeedTypeOK
      <4> QED BY <3>1, <4>1
    <3> QED BY <1>1, <3>1, <3>2, <3>3 DEF Begun
  <2> QED BY <1>1, <2>1, <2>2
<1> QED BY <1>1, <1>2, <1>3 DEF FInv, FeedTypeOK

-------------------------------------------------------------------------------
(* publish *)

\* The event of a request that is not through, and what returning makes of it.
LEMMA CurrentIsEvent ==
  ASSUME FInv, NEW q \in Requests, sent[q] < EventsPerRequest
  PROVE  Current(q) \in Event
<1>1. sent[q] \in 0..EventsPerRequest /\ EventsPerRequest \in Nat
  BY ActivityAssumption DEF FInv, FeedTypeOK
<1> QED BY <1>1 DEF Current, Event

LEMMA ReturnedKeeps ==
  ASSUME FInv, NEW q \in Requests, Returned(q), sent[q] < EventsPerRequest
  PROVE  /\ request' \in [Requests -> {"ready", "command", "executed"}]
         /\ sent' \in [Requests -> 0..EventsPerRequest]
         /\ CommandBounded'
         /\ \A e : e = Current(q) => Begun(e)'
         /\ \A f \in Event : Begun(f) => Begun(f)'
<1>0. /\ EventsPerRequest \in Nat
      /\ request \in [Requests -> {"ready", "command", "executed"}]
      /\ sent \in [Requests -> 0..EventsPerRequest]
      /\ CommandBounded
  BY ActivityAssumption DEF FInv, FeedTypeOK
<1>1. /\ request' = [request EXCEPT ![q] = "ready"]
      /\ sent' = [sent EXCEPT ![q] = sent[q] + 1]
  BY DEF Returned
<1>2. /\ request' \in [Requests -> {"ready", "command", "executed"}]
      /\ sent' \in [Requests -> 0..EventsPerRequest]
  BY <1>0, <1>1
<1>3. CommandBounded' BY <1>0, <1>1 DEF CommandBounded
<1>4. sent'[q] >= sent[q] + 1 BY <1>0, <1>1
<1>6. ASSUME NEW f \in Event, Begun(f) PROVE Begun(f)'
  <2>1. f[1] \in Requests /\ f[2] \in Nat BY DEF Event
  <2>2. CASE f[1] = q BY <1>0, <1>1, <1>6, <2>1, <2>2 DEF Begun
  <2>3. CASE f[1] # q BY <1>0, <1>1, <1>6, <2>1, <2>3 DEF Begun
  <2> QED BY <2>2, <2>3
<1>7. ASSUME NEW e, e = Current(q) PROVE Begun(e)'
  <2>1. e = <<q, sent[q] + 1>> BY <1>7 DEF Current
  <2> QED BY <1>0, <1>4, <2>1 DEF Begun
<1> QED BY <1>2, <1>3, <1>6, <1>7

\* An event goes to pages of the process and its request is through.
LEMMA FinishesInFInv ==
  ASSUME FInv, NEW q \in Requests, sent[q] < EventsPerRequest,
         Broadcast(AtInstance[q], Current(q)), Returned(q),
         UNCHANGED <<transport, redisVars, channel>>, fellBack' \subseteq Event
  PROVE  FInv'
<1>1. PICK e \in Event : e = Current(q) BY CurrentIsEvent
<1>2. AtInstance[q] \in Instances BY ActivityAssumption
<1>3. Broadcast(AtInstance[q], e) BY <1>1 DEF Broadcast
<1>4. /\ request' \in [Requests -> {"ready", "command", "executed"}]
      /\ sent' \in [Requests -> 0..EventsPerRequest]
      /\ CommandBounded'
      /\ Begun(e)'
      /\ \A f \in Event : Begun(f) => Begun(f)'
  BY <1>1, ReturnedKeeps
<1>5. /\ socket' \in [Pages -> Socket]
      /\ clients' \subseteq Pages
      /\ viewer' \in [Pages -> Viewers \union {Nobody}]
      /\ events' \in [Pages -> Seq(Event)]
      /\ \A p \in Pages : Len(events'[p]) <= PageSize
      /\ ClosedIsEmpty'
      /\ ListsOwnEvents'
  BY <1>2, <1>3, <1>4, BroadcastOwn
<1>6. FeedTypeOK' BY <1>4, <1>5 DEF FInv, FeedTypeOK, redisVars
<1>7. ChannelBegun'
  <2> SUFFICES ASSUME NEW i \in Instances, NEW k \in DOMAIN channel[i]
               PROVE  Begun(channel[i][k])'
    BY DEF ChannelBegun, Begun
  <2>1. channel[i][k] \in Event /\ Begun(channel[i][k])
    <3>1. channel[i] \in Seq(Event) BY DEF FInv, FeedTypeOK
    <3> QED BY <3>1 DEF FInv, ChannelBegun
  <2>2. UNCHANGED channel OBVIOUS
  <2> QED BY <1>4, <2>1, <2>2 DEF Begun
<1> QED BY <1>4, <1>5, <1>6, <1>7 DEF FInv

\* A step that leaves the pages alone and takes nothing back.
LEMMA UnseenInFInv ==
  ASSUME FInv, UNCHANGED <<sent, viewVars>>,
         \A q \in Requests : request[q] # "ready" => request'[q] # "ready",
         FeedTypeOK', ChannelBegun', CommandBounded'
  PROVE  FInv'
<1>1. ClosedIsEmpty' BY DEF FInv, ClosedIsEmpty, viewVars
<1>2. ASSUME NEW f \in Event, Begun(f) PROVE Begun(f)'
  <2>1. f[1] \in Requests BY DEF Event
  <2> QED BY <1>2, <2>1 DEF Begun
<1>3. ListsOwnEvents'
  <2> SUFFICES ASSUME NEW p \in Pages, NEW k \in DOMAIN events[p]
               PROVE  ViewerOf[events[p][k][1]] = viewer[p] /\ Begun(events[p][k])'
    BY DEF ListsOwnEvents, Begun, viewVars
  <2>1. events[p][k] \in Event
    <3>1. events[p] \in Seq(Event) BY DEF FInv, FeedTypeOK
    <3> QED BY <3>1
  <2>2. UNCHANGED events BY DEF viewVars
  <2> QED BY <1>2, <2>1, <2>2 DEF Begun, FInv, ListsOwnEvents
<1> QED BY <1>1, <1>3 DEF FInv

LEMMA PublishInFInv ==
  ASSUME FInv, NEW q \in Requests, PublishStep(q)
  PROVE  FInv'
<1>0. AtInstance[q] \in Instances BY ActivityAssumption
<1>1. CASE PublishLocally(q)
  <2>1. sent[q] < EventsPerRequest BY <1>1 DEF PublishLocally, HasMore
  <2>2. fellBack' \subseteq Event BY <1>1 DEF PublishLocally, FInv, FeedTypeOK
  <2> QED BY <1>1, <2>1, <2>2, FinishesInFInv DEF PublishLocally
<1>2. CASE PublishToRedis(q)
  <2>0. FeedTypeOK /\ CommandBounded /\ ChannelBegun BY DEF FInv
  <2>1. FeedTypeOK' BY <1>2, <2>0 DEF PublishToRedis, FeedTypeOK, Connection, viewVars
  <2>2. CommandBounded' BY <1>2, <2>0 DEF PublishToRedis, HasMore, FeedTypeOK, CommandBounded
  <2>3. \A p \in Requests : request[p] # "ready" => request'[p] # "ready"
    BY <1>2, <2>0 DEF PublishToRedis, FeedTypeOK
  <2>4. ChannelBegun'
    <3> SUFFICES ASSUME NEW i \in Instances, NEW k \in DOMAIN channel[i]
                 PROVE  Begun(channel[i][k])'
      BY <1>2 DEF PublishToRedis, ChannelBegun, Begun
    <3>1. channel[i][k][1] \in Requests
      <4>1. channel[i] \in Seq(Event) BY <2>0 DEF FeedTypeOK
      <4> QED BY <4>1 DEF Event
    <3> QED BY <1>2, <2>0, <2>3, <3>1 DEF PublishToRedis, ChannelBegun, Begun
  <2> QED BY <1>2, <2>1, <2>2, <2>3, <2>4, UnseenInFInv DEF PublishToRedis
<1>3. CASE RedisExecutes(q)
  <2>0. FeedTypeOK /\ CommandBounded /\ ChannelBegun BY DEF FInv
  <2>1. sent[q] < EventsPerRequest /\ Current(q) \in Event
    BY <1>3, <2>0, CurrentIsEvent DEF RedisExecutes, CommandBounded
  <2>2. channel' = [i \in Instances |->
          IF subscriber[i] = "up" THEN Append(channel[i], Current(q)) ELSE channel[i]]
    BY <1>3 DEF RedisExecutes
  <2>3. FeedTypeOK'
    <3>1. channel' \in [Instances -> Seq(Event)]
      BY <2>0, <2>1, <2>2 DEF FeedTypeOK
    <3> QED BY <1>3, <2>0, <3>1 DEF RedisExecutes, FeedTypeOK, redisVars, viewVars
  <2>4. CommandBounded' BY <1>3, <2>0 DEF RedisExecutes, FeedTypeOK, CommandBounded
  <2>5. \A p \in Requests : request[p] # "ready" => request'[p] # "ready"
    BY <1>3, <2>0 DEF RedisExecutes, FeedTypeOK
  <2>6. ChannelBegun'
    <3> SUFFICES ASSUME NEW i \in Instances, NEW k \in DOMAIN channel'[i]
                 PROVE  Begun(channel[i][k])'
      BY DEF ChannelBegun, Begun
    <3>0. channel[i] \in Seq(Event) BY <2>0 DEF FeedTypeOK
    <3>1. channel'[i][k] = Current(q) \/ \E l \in DOMAIN channel[i] : channel'[i][k] = channel[i][l]
      BY <2>1, <2>2, <3>0
    <3>2. CASE channel'[i][k] = Current(q)
      <4>1. request'[q] = "executed" /\ sent' = sent BY <1>3, <2>0 DEF RedisExecutes, FeedTypeOK
      <4>2. channel'[i][k] = <<q, sent[q] + 1>> BY <3>2 DEF Current
      <4> QED BY <4>1, <4>2 DEF Begun
    <3>3. CASE \E l \in DOMAIN channel[i] : channel'[i][k] = channel[i][l]
      <4>1. PICK l \in DOMAIN channel[i] : channel'[i][k] = channel[i][l] BY <3>3
      <4>2. channel[i][l] \in Event /\ Begun(channel[i][l]) BY <2>0, <3>0, <4>1 DEF ChannelBegun
      <4>3. channel[i][l][1] \in Requests BY <4>2 DEF Event
      <4> QED BY <1>3, <2>5, <4>1, <4>2, <4>3 DEF Begun, RedisExecutes
    <3> QED BY <3>1, <3>2, <3>3
  <2> QED BY <1>3, <2>3, <2>4, <2>5, <2>6, UnseenInFInv DEF RedisExecutes
<1>4. CASE RedisAnswers(q)
  <2>0. /\ FeedTypeOK /\ CommandBounded /\ ChannelBegun
        /\ sent[q] < EventsPerRequest
        /\ UNCHANGED <<transport, redisVars, channel, fellBack, viewVars>>
        /\ Returned(q)
    BY <1>4 DEF FInv, CommandBounded, RedisAnswers
  <2>1. /\ request' \in [Requests -> {"ready", "command", "executed"}]
        /\ sent' \in [Requests -> 0..EventsPerRequest]
        /\ CommandBounded'
        /\ \A f \in Event : Begun(f) => Begun(f)'
    BY <2>0, ReturnedKeeps
  <2>2. FeedTypeOK' BY <2>0, <2>1 DEF FeedTypeOK, redisVars, viewVars
  <2>3. ClosedIsEmpty' BY <2>0 DEF FInv, ClosedIsEmpty, viewVars
  <2>4. ChannelBegun'
    <3> SUFFICES ASSUME NEW i \in Instances, NEW k \in DOMAIN channel[i]
                 PROVE  Begun(channel[i][k])'
      BY <2>0 DEF ChannelBegun, Begun
    <3>1. channel[i][k] \in Event
      <4>1. channel[i] \in Seq(Event) BY <2>0 DEF FeedTypeOK
      <4> QED BY <4>1
    <3> QED BY <2>0, <2>1, <3>1 DEF ChannelBegun, Begun
  <2>5. ListsOwnEvents'
    <3>0. UNCHANGED <<events, viewer>> BY <2>0 DEF viewVars
    <3> SUFFICES ASSUME NEW p \in Pages, NEW k \in DOMAIN events[p]
                 PROVE  ViewerOf[events[p][k][1]] = viewer[p] /\ Begun(events[p][k])'
      BY <3>0 DEF ListsOwnEvents, Begun
    <3>1. events[p][k] \in Event
      <4>1. events[p] \in Seq(Event) BY <2>0 DEF FeedTypeOK
      <4> QED BY <4>1
    <3> QED BY <2>1, <3>0, <3>1 DEF Begun, FInv, ListsOwnEvents
  <2> QED BY <2>1, <2>2, <2>3, <2>4, <2>5 DEF FInv
<1>5. CASE Rejected(q)
  <2>1. sent[q] < EventsPerRequest BY <1>5 DEF Rejected, FInv, CommandBounded
  <2>2. fellBack' \subseteq Event
    BY <1>5, <2>1, CurrentIsEvent DEF Rejected, FInv, FeedTypeOK
  <2> QED BY <1>5, <2>1, <2>2, FinishesInFInv DEF Rejected
<1> QED BY <1>1, <1>2, <1>3, <1>4, <1>5 DEF PublishStep

-------------------------------------------------------------------------------
(* The other steps *)

LEMMA DeliverInFInv ==
  ASSUME FInv, NEW i \in Instances, Deliver(i)
  PROVE  FInv'
<1>0. /\ FeedTypeOK /\ ChannelBegun
      /\ channel[i] \in Seq(Event) /\ channel[i] # << >>
  BY DEF FInv, FeedTypeOK, Deliver
<1>1. PICK e \in Event : e = Head(channel[i]) BY <1>0
<1>2. Broadcast(i, e) BY <1>1 DEF Deliver, Broadcast
<1>3. UNCHANGED <<transport, redisVars, request, sent, fellBack>> BY DEF Deliver
<1>4. \A f \in Event : Begun(f) => Begun(f)' BY <1>3 DEF Begun
<1>5. Begun(e)'
  <2>1. 1 \in DOMAIN channel[i] /\ e = channel[i][1] BY <1>0, <1>1
  <2> QED BY <1>0, <1>3, <2>1 DEF ChannelBegun, Begun
<1>6. /\ socket' \in [Pages -> Socket]
      /\ clients' \subseteq Pages
      /\ viewer' \in [Pages -> Viewers \union {Nobody}]
      /\ events' \in [Pages -> Seq(Event)]
      /\ \A p \in Pages : Len(events'[p]) <= PageSize
      /\ ClosedIsEmpty'
      /\ ListsOwnEvents'
  BY <1>2, <1>4, <1>5, BroadcastOwn
<1>7. channel' = [channel EXCEPT ![i] = Tail(channel[i])] BY DEF Deliver
<1>8. FeedTypeOK'
  <2>1. channel' \in [Instances -> Seq(Event)] BY <1>0, <1>7 DEF FeedTypeOK
  <2> QED BY <1>0, <1>3, <1>6, <2>1 DEF FeedTypeOK, redisVars
<1>9. ChannelBegun'
  <2> SUFFICES ASSUME NEW j \in Instances, NEW k \in DOMAIN channel'[j]
               PROVE  Begun(channel[j][k])'
    BY DEF ChannelBegun, Begun
  <2>1. \E l \in DOMAIN channel[j] : channel'[j][k] = channel[j][l]
    <3>0. channel[j] \in Seq(Event) BY <1>0 DEF FeedTypeOK
    <3>1. CASE j = i
      <4>1. channel'[j] = Tail(channel[j]) BY <1>0, <1>7, <3>1 DEF FeedTypeOK
      <4>2. /\ channel[j] # << >> /\ Tail(channel[j]) \in Seq(Event)
            /\ Len(Tail(channel[j])) = Len(channel[j]) - 1
        BY <1>0, <3>0, <3>1
      <4>3. k \in 1..(Len(channel[j]) - 1) BY <3>0, <4>1, <4>2
      <4>4. k + 1 \in DOMAIN channel[j] /\ Tail(channel[j])[k] = channel[j][k + 1]
        BY <3>0, <4>2, <4>3
      <4> QED BY <4>1, <4>4
    <3>2. CASE j # i BY <1>0, <1>7, <3>2 DEF FeedTypeOK
    <3> QED BY <3>1, <3>2
  <2>2. PICK l \in DOMAIN channel[j] : channel'[j][k] = channel[j][l] BY <2>1
  <2> QED BY <1>0, <1>3, <2>2 DEF ChannelBegun, Begun
<1>10. CommandBounded' BY <1>3 DEF FInv, CommandBounded
<1> QED BY <1>6, <1>8, <1>9, <1>10 DEF FInv

\* Starting, and what the connections to Redis do.
LEMMA ConnectionInFInv ==
  ASSUME FInv, NEW i \in Instances,
         Start(i) \/ PublisherDrops(i) \/ SubscriberDrops(i) \/ Recover(i)
  PROVE  FInv'
<1>0. FeedTypeOK /\ ChannelBegun /\ CommandBounded BY DEF FInv
<1>1. CASE Start(i) \/ PublisherDrops(i) \/ PublisherEnds(i) \/ SubscriberReturns(i)
  <2>1. UNCHANGED <<request, sent, channel, viewVars>>
    BY <1>1 DEF Start, Subscribed, StartsLocal, PublisherDrops, PublisherEnds, SubscriberReturns
  <2>2. FeedTypeOK'
    <3>1. CASE Start(i)
      BY <1>0, <2>1, <3>1 DEF Start, Subscribed, StartsLocal, FeedTypeOK, Transport, Connection,
         viewVars
    <3>2. CASE PublisherDrops(i) \/ PublisherEnds(i)
      <4>1. \E c \in Connection : publisher' = [publisher EXCEPT ![i] = c]
        BY <3>2 DEF PublisherDrops, PublisherEnds, Connection
      <4>2. UNCHANGED pubDrops \/ pubDrops' = [pubDrops EXCEPT ![i] = pubDrops[i] + 1]
        BY <3>2 DEF PublisherDrops, PublisherEnds
      <4>3. publisher' \in [Instances -> Connection] /\ pubDrops' \in [Instances -> Nat]
        <5>1. publisher' \in [Instances -> Connection] BY <1>0, <4>1 DEF FeedTypeOK
        <5>2. pubDrops \in [Instances -> Nat] /\ pubDrops[i] + 1 \in Nat
          BY <1>0 DEF FeedTypeOK
        <5>3. pubDrops' \in [Instances -> Nat] BY <4>2, <5>2
        <5> QED BY <5>1, <5>3
      <4>4. UNCHANGED <<transport, subscriber, subDrops, fellBack>>
        BY <3>2 DEF PublisherDrops, PublisherEnds
      <4> QED BY <1>0, <2>1, <4>3, <4>4 DEF FeedTypeOK, viewVars
    <3>3. CASE SubscriberReturns(i)
      <4>1. PICK s \in {"up", "ended"} : subscriber' = [subscriber EXCEPT ![i] = s]
        BY <3>3 DEF SubscriberReturns
      <4>2. subscriber' \in [Instances -> Connection]
        BY <1>0, <4>1 DEF FeedTypeOK, Connection
      <4>3. UNCHANGED <<transport, publisher, pubDrops, subDrops, fellBack>>
        BY <3>3 DEF SubscriberReturns
      <4> QED BY <1>0, <2>1, <4>2, <4>3 DEF FeedTypeOK, viewVars
    <3> QED BY <1>1, <3>1, <3>2, <3>3
  <2>3. ChannelBegun' BY <1>0, <2>1 DEF ChannelBegun, Begun
  <2>4. CommandBounded' BY <1>0, <2>1 DEF CommandBounded
  <2> QED BY <2>1, <2>2, <2>3, <2>4, UnseenInFInv
<1>2. CASE SubscriberDrops(i)
  <2>1. UNCHANGED <<request, sent, viewVars>> /\ channel' = [channel EXCEPT ![i] = << >>]
    BY <1>2 DEF SubscriberDrops
  <2>2. FeedTypeOK'
    <3>1. channel' \in [Instances -> Seq(Event)] BY <1>0, <2>1 DEF FeedTypeOK
    <3> QED BY <1>0, <1>2, <3>1 DEF SubscriberDrops, FeedTypeOK, Connection, viewVars
  <2>3. ChannelBegun'
    <3>1. ASSUME NEW j \in Instances, NEW k \in DOMAIN channel'[j]
          PROVE  k \in DOMAIN channel[j] /\ channel'[j][k] = channel[j][k]
      <4>1. channel'[j] = channel[j] \/ channel'[j] = << >> BY <1>0, <2>1 DEF FeedTypeOK
      <4>2. channel'[j] # << >>
        <5>1. DOMAIN channel'[j] # {} BY <3>1
        <5> QED BY <5>1
      <4> QED BY <4>1, <4>2
    <3> QED BY <1>0, <2>1, <3>1 DEF ChannelBegun, Begun
  <2>4. CommandBounded' BY <1>0, <2>1 DEF CommandBounded
  <2> QED BY <2>1, <2>2, <2>3, <2>4, UnseenInFInv
<1>3. CASE PublisherReturns(i)
  <2>1. UNCHANGED <<sent, channel, viewVars>> BY <1>3 DEF PublisherReturns
  <2>2. /\ request' \in [Requests -> {"ready", "command", "executed"}]
        /\ \A q \in Requests : request[q] # "ready" <=> request'[q] # "ready"
    BY <1>0, <1>3 DEF PublisherReturns, FeedTypeOK
  <2>3. FeedTypeOK'
    BY <1>0, <1>3, <2>2 DEF PublisherReturns, FeedTypeOK, Connection, viewVars
  <2>4. ChannelBegun'
    <3> SUFFICES ASSUME NEW j \in Instances, NEW k \in DOMAIN channel[j]
                 PROVE  Begun(channel[j][k])'
      BY <2>1 DEF ChannelBegun, Begun
    <3>1. channel[j][k][1] \in Requests
      <4>1. channel[j] \in Seq(Event) BY <1>0 DEF FeedTypeOK
      <4> QED BY <4>1 DEF Event
    <3> QED BY <1>0, <2>1, <2>2, <3>1 DEF ChannelBegun, Begun
  <2>5. CommandBounded' BY <1>0, <2>1, <2>2 DEF CommandBounded
  <2> QED BY <2>1, <2>2, <2>3, <2>4, <2>5, UnseenInFInv
<1> QED BY <1>1, <1>2, <1>3 DEF Recover

\* Only a page with an empty list changes hands.
LEMMA ViewerInFInv ==
  ASSUME FInv, NEW p \in Pages, ViewerStep(p)
  PROVE  FInv'
<1>0. FeedTypeOK /\ ChannelBegun /\ CommandBounded /\ ClosedIsEmpty /\ ListsOwnEvents
  BY DEF FInv
<1>1. /\ UNCHANGED <<transport, redisVars, request, sent, channel, fellBack>>
      /\ clients' \subseteq Pages
      /\ socket' \in [Pages -> Socket]
      /\ viewer' \in [Pages -> Viewers \union {Nobody}]
  BY <1>0 DEF ViewerStep, ConnectPage, LeavePage, ClosePage, SocketMoves, HandleConnection,
     FeedTypeOK, Socket
<1>2. events' \in [Pages -> Seq(Event)] /\ \A o \in Pages : Len(events'[o]) <= PageSize
  <2>1. << >> \in Seq(Event) /\ Len(<< >>) = 0 /\ 0 <= PageSize BY ActivityAssumption
  <2>2. UNCHANGED events \/ events' = [events EXCEPT ![p] = << >>]
    BY DEF ViewerStep, ConnectPage, LeavePage, ClosePage
  <2> QED BY <1>0, <2>1, <2>2 DEF FeedTypeOK
<1>3. FeedTypeOK' BY <1>0, <1>1, <1>2 DEF FeedTypeOK, redisVars
<1>4. ChannelBegun' /\ CommandBounded' BY <1>0, <1>1 DEF ChannelBegun, CommandBounded, Begun
<1>5. /\ \A o \in Pages \ {p} :
           socket'[o] = socket[o] /\ viewer'[o] = viewer[o] /\ events'[o] = events[o]
      /\ events'[p] = << >> \/ (viewer'[p] = viewer[p] /\ events'[p] = events[p])
      /\ socket'[p] # "open" => viewer'[p] = Nobody /\ events'[p] = << >>
  <2>1. CASE ConnectPage(p)
    BY <1>0, <2>1 DEF ConnectPage, SocketMoves, HandleConnection, FeedTypeOK, ClosedIsEmpty
  <2>2. CASE LeavePage(p) BY <1>0, <2>2 DEF LeavePage, SocketMoves, FeedTypeOK
  <2>3. CASE ClosePage(p)
    BY <1>0, <2>3 DEF ClosePage, SocketMoves, FeedTypeOK, ClosedIsEmpty
  <2> QED BY <2>1, <2>2, <2>3 DEF ViewerStep
<1>6. ClosedIsEmpty' BY <1>0, <1>5 DEF ClosedIsEmpty
<1>7. ListsOwnEvents'
  <2> SUFFICES ASSUME NEW o \in Pages, NEW k \in DOMAIN events'[o]
               PROVE  ViewerOf[events'[o][k][1]] = viewer'[o] /\ Begun(events[o][k])'
    BY DEF ListsOwnEvents, Begun
  <2>1. events'[o] # << >>
    <3>1. DOMAIN events'[o] # {} OBVIOUS
    <3> QED BY <3>1
  <2>2. viewer'[o] = viewer[o] /\ events'[o] = events[o] BY <1>5, <2>1
  <2> QED BY <1>0, <1>1, <2>2 DEF ListsOwnEvents, Begun
<1> QED BY <1>3, <1>4, <1>6, <1>7 DEF FInv

-------------------------------------------------------------------------------

LEMMA FInvInit == FeedInit => FInv
<1> SUFFICES ASSUME FeedInit PROVE FInv
  OBVIOUS
<1>1. FeedTypeOK
  <2>1. EventsPerRequest \in Nat /\ 0 <= PageSize BY ActivityAssumption
  <2>2. << >> \in Seq(Event) /\ Len(<< >>) = 0 OBVIOUS
  <2> QED BY <2>1, <2>2 DEF FeedInit, FeedTypeOK, Transport, Connection, Socket
<1>2. ChannelBegun /\ CommandBounded /\ ClosedIsEmpty /\ ListsOwnEvents
  BY DEF FeedInit, ChannelBegun, CommandBounded, ClosedIsEmpty, ListsOwnEvents
<1> QED BY <1>1, <1>2 DEF FInv

LEMMA FInvStep == FInv /\ [FeedNext]_feedVars => FInv'
<1> SUFFICES ASSUME FInv, [FeedNext]_feedVars PROVE FInv'
  OBVIOUS
<1>1. CASE \E q \in Requests : PublishStep(q) BY <1>1, PublishInFInv
<1>2. CASE \E i \in Instances : Deliver(i) BY <1>2, DeliverInFInv
<1>3. CASE \E i \in Instances :
             Start(i) \/ PublisherDrops(i) \/ SubscriberDrops(i) \/ Recover(i)
  BY <1>3, ConnectionInFInv
<1>4. CASE \E p \in Pages : ViewerStep(p) BY <1>4, ViewerInFInv
<1>5. CASE UNCHANGED feedVars
  BY <1>5 DEF FInv, FeedTypeOK, ChannelBegun, CommandBounded, ClosedIsEmpty, ListsOwnEvents,
     Begun, feedVars, redisVars, viewVars
<1> QED BY <1>1, <1>2, <1>3, <1>4, <1>5 DEF FeedNext

THEOREM FeedInductive == FeedSpec => []FInv
  BY FInvInit, FInvStep, PTL DEF FeedSpec

\* The types hold; in particular the page never lists more than it keeps.
THEOREM FeedTypeCorrect == FeedSpec => []FeedTypeOK
<1>1. FInv => FeedTypeOK BY DEF FInv
<1> QED BY FeedInductive, <1>1, PTL

\* Whichever processes, connections and fallbacks an event goes through, and
\* whoever connects a page next: a page lists only what was published for the
\* employee whose token it presented.
THEOREM PagesListOwnEvents == FeedSpec => []ListsOwnEvents
<1>1. FInv => ListsOwnEvents BY DEF FInv
<1> QED BY FeedInductive, <1>1, PTL

-------------------------------------------------------------------------------
(* The order of the events of a request *)

OnTheWay(i, e) == \E k \in DOMAIN channel[i] : channel[i][k] = e

\* Only a process that started with Redis has commands there.
CommandKnows ==
  \A q \in Requests : request[q] # "ready" =>
    transport[AtInstance[q]] = "redis" /\ publisher[AtInstance[q]] # "wait"

FromRedis ==
  \A i \in Instances : \A e \in Event : OnTheWay(i, e) => transport[AtInstance[e[1]]] = "redis"

\* Redis executes the commands of a request in order, some of them twice.
ChannelInOrder ==
  \A i \in Instances : \A k, l \in DOMAIN channel[i] :
    k < l /\ channel[i][k][1] = channel[i][l][1] => channel[i][k][2] <= channel[i][l][2]

\* A page lists no event before an earlier one that is still on its way to it,
\* unless it fell back.
ListedBefore ==
  \A p \in Pages : \A e, f \in Event :
    OnTheWay(AtInstance[p], e) /\ Lists(p, f) /\ e[1] = f[1] /\ e[2] < f[2] => f \in fellBack

OInv == CommandKnows /\ FromRedis /\ ChannelInOrder /\ ListedBefore /\ OrderKept

\* What is listed or on its way is an event that was published: of a request no
\* later one than the one it is about.
LEMMA ListedSoFar ==
  ASSUME FInv, NEW p \in Pages, NEW k \in DOMAIN events[p]
  PROVE  /\ events[p][k] \in Event /\ Lists(p, events[p][k])
         /\ events[p][k][2] <= sent[events[p][k][1]] + 1
<1>1. events[p] \in Seq(Event) /\ sent \in [Requests -> 0..EventsPerRequest] /\ Begun(events[p][k])
  BY DEF FInv, FeedTypeOK, ListsOwnEvents
<1>2. events[p][k] \in Event BY <1>1
<1>3. events[p][k][1] \in Requests /\ events[p][k][2] \in 1..EventsPerRequest
  BY <1>2 DEF Event
<1>4. sent[events[p][k][1]] \in 0..EventsPerRequest /\ EventsPerRequest \in Nat
  BY <1>1, <1>3, ActivityAssumption
<1> QED BY <1>1, <1>2, <1>3, <1>4 DEF Begun, Lists

LEMMA ComesSoFar ==
  ASSUME FInv, NEW i \in Instances, NEW k \in DOMAIN channel[i]
  PROVE  /\ channel[i][k] \in Event /\ OnTheWay(i, channel[i][k])
         /\ channel[i][k][2] <= sent[channel[i][k][1]] + 1
<1>1. /\ channel[i] \in Seq(Event) /\ sent \in [Requests -> 0..EventsPerRequest]
      /\ Begun(channel[i][k])
  BY DEF FInv, FeedTypeOK, ChannelBegun
<1>2. channel[i][k] \in Event BY <1>1
<1>3. channel[i][k][1] \in Requests /\ channel[i][k][2] \in 1..EventsPerRequest
  BY <1>2 DEF Event
<1>4. sent[channel[i][k][1]] \in 0..EventsPerRequest /\ EventsPerRequest \in Nat
  BY <1>1, <1>3, ActivityAssumption
<1> QED BY <1>1, <1>2, <1>3, <1>4 DEF Begun, OnTheWay

\* Where the events of a list are when it has got one more.
LEMMA OnTopPlaces ==
  ASSUME NEW e \in Event, NEW list \in Seq(Event), Len(list) <= PageSize
  PROVE  \A k \in DOMAIN OnTop(e, list) :
           /\ k \in Nat \ {0}
           /\ k = 1 => OnTop(e, list)[k] = e
           /\ k # 1 => k - 1 \in DOMAIN list /\ OnTop(e, list)[k] = list[k - 1]
<1> DEFINE long == <<e>> \o list
<1>0. PageSize \in Nat \ {0} BY ActivityAssumption
<1>1. /\ long \in Seq(Event) /\ DOMAIN long = 1..(1 + Len(list)) /\ Len(long) = 1 + Len(list)
      /\ \A k \in 1..(1 + Len(list)) :
           /\ k = 1 => long[k] = e
           /\ k # 1 => k - 1 \in DOMAIN list /\ long[k] = list[k - 1]
  <2>1. long \in Seq(Event) /\ Len(long) = 1 + Len(list) OBVIOUS
  <2>2. long[1] = e OBVIOUS
  <2>3. ASSUME NEW k \in 1..(1 + Len(list)), k # 1
        PROVE  k - 1 \in DOMAIN list /\ long[k] = list[k - 1]
    BY <2>1, <2>3
  <2>4. DOMAIN long = 1..(1 + Len(list)) BY <2>1
  <2> QED BY <2>1, <2>2, <2>3, <2>4
<1>2. /\ DOMAIN OnTop(e, list) \subseteq DOMAIN long
      /\ \A k \in DOMAIN OnTop(e, list) : OnTop(e, list)[k] = long[k]
  <2>1. CASE Len(long) > PageSize
    <3>1. OnTop(e, list) = SubSeq(long, 1, PageSize) BY <2>1 DEF OnTop
    <3> HIDE DEF long
    <3>2. /\ DOMAIN SubSeq(long, 1, PageSize) = 1..PageSize
          /\ \A k \in 1..PageSize : SubSeq(long, 1, PageSize)[k] = long[k]
      BY <1>0, <1>1, <2>1
    <3>3. 1..PageSize \subseteq DOMAIN long BY <1>0, <1>1, <2>1
    <3> QED BY <3>1, <3>2, <3>3
  <2>2. CASE ~(Len(long) > PageSize)
    <3>1. OnTop(e, list) = long BY <2>2 DEF OnTop
    <3> QED BY <3>1
  <2> QED BY <2>1, <2>2
<1> HIDE DEF long
<1> QED BY <1>1, <1>2

\* What a page lists after a broadcast, place by place.
LEMMA BroadcastPlaces ==
  ASSUME FInv, NEW i \in Instances, NEW e \in Event, Broadcast(i, e), NEW p \in Pages,
         NEW k \in DOMAIN events'[p]
  PROVE  \/ events'[p] = events[p]
         \/ /\ AtInstance[p] = i /\ events'[p] = OnTop(e, events[p])
            /\ k \in Nat \ {0}
            /\ k = 1 => events'[p][k] = e
            /\ k # 1 => k - 1 \in DOMAIN events[p] /\ events'[p][k] = events[p][k - 1]
<1>1. events' = [o \in Pages |-> IF Gets(i, o, e) THEN OnTop(e, events[o]) ELSE events[o]]
  BY DEF Broadcast
<1>2. events[p] \in Seq(Event) /\ Len(events[p]) <= PageSize BY DEF FInv, FeedTypeOK
<1>3. CASE Gets(i, p, e)
  <2>1. events'[p] = OnTop(e, events[p]) BY <1>1, <1>3
  <2>2. AtInstance[p] = i BY <1>3 DEF Gets
  <2>3. k \in DOMAIN OnTop(e, events[p]) BY <2>1
  <2>4. /\ k \in Nat \ {0}
        /\ k = 1 => OnTop(e, events[p])[k] = e
        /\ k # 1 => k - 1 \in DOMAIN events[p] /\ OnTop(e, events[p])[k] = events[p][k - 1]
    BY <1>2, <2>3, OnTopPlaces
  <2> QED BY <2>1, <2>2, <2>4
<1>4. CASE ~Gets(i, p, e) BY <1>1, <1>4
<1> QED BY <1>3, <1>4

\* A list stays in order when an event comes that may be on top of it.
LEMMA BroadcastOrdered ==
  ASSUME FInv, OInv, NEW i \in Instances, NEW e \in Event, Broadcast(i, e),
         fellBack \subseteq fellBack',
         \A p \in Pages : AtInstance[p] = i => \A f \in Event :
           Lists(p, f) /\ e[1] = f[1] /\ e[2] < f[2] => f \in fellBack
  PROVE  OrderKept'
<1> SUFFICES ASSUME NEW p \in Pages, NEW k \in DOMAIN events'[p], NEW l \in DOMAIN events'[p],
                    k < l, events'[p][k][1] = events'[p][l][1],
                    events'[p][k][2] < events'[p][l][2]
             PROVE  events'[p][l] \in fellBack'
  BY DEF OrderKept
<1>1. CASE events'[p] = events[p] BY <1>1 DEF OInv, OrderKept
<1>2. CASE events'[p] # events[p]
  <2>1. /\ AtInstance[p] = i
        /\ k \in Nat \ {0} /\ l \in Nat \ {0}
        /\ k = 1 => events'[p][k] = e
        /\ k # 1 => k - 1 \in DOMAIN events[p] /\ events'[p][k] = events[p][k - 1]
        /\ l # 1 => l - 1 \in DOMAIN events[p] /\ events'[p][l] = events[p][l - 1]
    BY <1>2, BroadcastPlaces
  <2>2. l # 1 BY <2>1
  <2>3. CASE k = 1
    <3>1. events[p][l - 1] \in Event /\ Lists(p, events[p][l - 1]) BY <2>1, <2>2, ListedSoFar
    <3> QED BY <2>1, <2>2, <2>3, <3>1
  <2>4. CASE k # 1
    <3>1. k - 1 < l - 1 BY <2>1
    <3> QED BY <2>1, <2>2, <2>4, <3>1 DEF OInv, OrderKept
  <2> QED BY <2>3, <2>4
<1> QED BY <1>1, <1>2

\* And nothing is listed before what is still to come.
LEMMA BroadcastListed ==
  ASSUME FInv, OInv, NEW i \in Instances, NEW e \in Event, Broadcast(i, e),
         fellBack \subseteq fellBack',
         \A j \in Instances : \A f \in Event : OnTheWay(j, f)' => OnTheWay(j, f),
         \A f \in Event : OnTheWay(i, f)' /\ f[1] = e[1] /\ f[2] < e[2] => e \in fellBack'
  PROVE  ListedBefore'
<1> SUFFICES ASSUME NEW p \in Pages, NEW g \in Event, NEW f \in Event,
                    OnTheWay(AtInstance[p], g)', Lists(p, f)', g[1] = f[1], g[2] < f[2]
             PROVE  f \in fellBack'
  BY DEF ListedBefore
<1>0. AtInstance[p] \in Instances BY ActivityAssumption
<1>1. PICK k \in DOMAIN events'[p] : events'[p][k] = f BY DEF Lists
<1>2. CASE Lists(p, f) BY <1>0, <1>2 DEF OInv, ListedBefore
<1>3. CASE ~Lists(p, f)
  <2>1. AtInstance[p] = i /\ f = e BY <1>1, <1>3, BroadcastPlaces DEF Lists
  <2> QED BY <2>1
<1> QED BY <1>2, <1>3

\* A step that tells the pages nothing and sends nothing.
LEMMA QuietOrdered ==
  ASSUME FInv, OInv, UNCHANGED fellBack, CommandKnows',
         \A p \in Pages : events'[p] = events[p] \/ events'[p] = << >>,
         \A i \in Instances : channel'[i] = channel[i] \/ channel'[i] = << >>,
         \A i \in Instances : transport[i] = "redis" => transport'[i] = "redis"
  PROVE  OInv'
<1>0. \A q \in Requests \union Pages : AtInstance[q] \in Instances BY ActivityAssumption
<1>1. \A i \in Instances : \A e \in Event : OnTheWay(i, e)' => OnTheWay(i, e)
  BY DEF OnTheWay
<1>2. \A p \in Pages : \A e \in Event : Lists(p, e)' => Lists(p, e) BY DEF Lists
<1>3. FromRedis'
  <2> SUFFICES ASSUME NEW i \in Instances, NEW e \in Event, OnTheWay(i, e)'
               PROVE  transport'[AtInstance[e[1]]] = "redis"
    BY DEF FromRedis
  <2>1. e[1] \in Requests BY DEF Event
  <2> QED BY <1>0, <1>1, <2>1 DEF OInv, FromRedis
<1>4. ChannelInOrder' BY DEF OInv, ChannelInOrder
<1>5. ListedBefore' BY <1>0, <1>1, <1>2 DEF OInv, ListedBefore
<1>6. OrderKept' BY DEF OInv, OrderKept
<1> QED BY <1>3, <1>4, <1>5, <1>6 DEF OInv

\* A request publishes: a command is executed, answered or rejected.
LEMMA PublishOrdered ==
  ASSUME FInv, OInv, NEW q \in Requests, PublishStep(q)
  PROVE  OInv'
<1>0. /\ AtInstance[q] \in Instances /\ FeedTypeOK /\ CommandBounded
      /\ CommandKnows /\ FromRedis /\ ChannelInOrder /\ ListedBefore /\ OrderKept
      /\ \A p \in Requests \union Pages : AtInstance[p] \in Instances
  BY ActivityAssumption DEF FInv, OInv
<1> DEFINE e == Current(q)
<1>1. e[1] = q /\ e[2] = sent[q] + 1 BY DEF Current
<1>2. sent[q] < EventsPerRequest
  BY <1>0 DEF PublishStep, PublishLocally, PublishToRedis, HasMore, RedisExecutes, RedisAnswers,
     Rejected, CommandBounded
<1>3. e \in Event BY <1>2, CurrentIsEvent
<1>4. ASSUME NEW p \in Pages, NEW f \in Event, Lists(p, f), e[1] = f[1] PROVE ~(e[2] < f[2])
  <2>1. PICK k \in DOMAIN events[p] : events[p][k] = f BY <1>4 DEF Lists
  <2>2. f[2] <= sent[q] + 1 BY <1>1, <1>4, <2>1, ListedSoFar
  <2>3. f[2] \in Nat /\ sent[q] \in Nat BY <1>0 DEF Event, FeedTypeOK
  <2> QED BY <1>1, <2>2, <2>3
<1> HIDE DEF e
<1>5. CASE PublishLocally(q) \/ Rejected(q)
  <2>1. /\ Broadcast(AtInstance[q], e) /\ UNCHANGED <<transport, redisVars, channel>>
        /\ fellBack \subseteq fellBack'
    BY <1>5 DEF PublishLocally, Rejected, Broadcast, e
  <2>2. UNCHANGED publisher BY <2>1 DEF redisVars
  <2>3. CommandKnows'
    <3>1. request' = [request EXCEPT ![q] = "ready"] BY <1>5 DEF PublishLocally, Rejected, Returned
    <3> QED BY <1>0, <2>1, <2>2, <3>1 DEF CommandKnows, FeedTypeOK
  <2>4. FromRedis' /\ ChannelInOrder' BY <1>0, <2>1 DEF FromRedis, ChannelInOrder, OnTheWay
  <2>5. OrderKept' BY <1>0, <1>3, <1>4, <2>1, BroadcastOrdered
  <2>6. ASSUME NEW f \in Event, OnTheWay(AtInstance[q], f)', f[1] = e[1], f[2] < e[2]
        PROVE  e \in fellBack'
    <3>1. CASE PublishLocally(q)
      <4>1. OnTheWay(AtInstance[q], f) BY <2>1, <2>6 DEF OnTheWay
      <4>2. transport[AtInstance[q]] = "redis" BY <1>0, <1>1, <2>6, <4>1 DEF FromRedis
      <4> QED BY <3>1, <4>2 DEF PublishLocally
    <3>2. CASE Rejected(q) BY <3>2 DEF Rejected, e
    <3> QED BY <1>5, <3>1, <3>2
  <2>7. \A j \in Instances : \A f \in Event : OnTheWay(j, f)' => OnTheWay(j, f)
    BY <2>1 DEF OnTheWay
  <2>8. ListedBefore' BY <1>0, <1>3, <2>1, <2>6, <2>7, BroadcastListed
  <2> QED BY <2>3, <2>4, <2>5, <2>8 DEF OInv
<1>6. CASE PublishToRedis(q)
  <2>1. CommandKnows'
    <3>1. /\ transport[AtInstance[q]] = "redis" /\ UNCHANGED transport
          /\ request' = [request EXCEPT ![q] = "command"]
          /\ publisher' = [publisher EXCEPT ![AtInstance[q]] = IF @ = "wait" THEN "up" ELSE @]
      BY <1>6 DEF PublishToRedis
    <3>2. publisher'[AtInstance[q]] # "wait" BY <1>0, <3>1 DEF FeedTypeOK
    <3>3. \A i \in Instances : publisher[i] # "wait" => publisher'[i] # "wait"
      BY <1>0, <3>1 DEF FeedTypeOK
    <3>4. \A p \in Requests : p # q => request'[p] = request[p] BY <1>0, <3>1 DEF FeedTypeOK
    <3> QED BY <1>0, <3>1, <3>2, <3>3, <3>4 DEF CommandKnows
  <2>2. UNCHANGED <<transport, channel, fellBack, events>> BY <1>6 DEF PublishToRedis, viewVars
  <2> QED BY <2>1, <2>2, QuietOrdered
<1>7. CASE RedisAnswers(q)
  <2>1. UNCHANGED <<transport, publisher, channel, fellBack, events>>
    BY <1>7 DEF RedisAnswers, viewVars, redisVars
  <2>2. request' = [request EXCEPT ![q] = "ready"] BY <1>7 DEF RedisAnswers, Returned
  <2>3. CommandKnows' BY <1>0, <2>1, <2>2 DEF CommandKnows, FeedTypeOK
  <2> QED BY <2>1, <2>3, QuietOrdered
<1>8. CASE RedisExecutes(q)
  <2>1. /\ UNCHANGED <<transport, publisher, fellBack, events>>
        /\ request[q] = "command" /\ request' = [request EXCEPT ![q] = "executed"]
        /\ channel' = [i \in Instances |->
             IF subscriber[i] = "up" THEN Append(channel[i], e) ELSE channel[i]]
    BY <1>8 DEF RedisExecutes, viewVars, redisVars, e
  <2>2. CommandKnows' BY <1>0, <2>1 DEF CommandKnows, FeedTypeOK
  <2>3. ASSUME NEW i \in Instances, NEW k \in DOMAIN channel'[i]
        PROVE  /\ k \in Nat \ {0}
               /\ \/ k \in DOMAIN channel[i] /\ channel'[i][k] = channel[i][k]
                  \/ k = Len(channel[i]) + 1 /\ channel'[i][k] = e
    <3>1. channel[i] \in Seq(Event) BY <1>0 DEF FeedTypeOK
    <3>2. channel'[i] = Append(channel[i], e) \/ channel'[i] = channel[i] BY <2>1
    <3> QED BY <1>3, <3>1, <3>2
  <2>4. \A i \in Instances : \A f \in Event : OnTheWay(i, f)' => OnTheWay(i, f) \/ f = e
    BY <2>3 DEF OnTheWay
  <2>5. FromRedis'
    <3>1. transport[AtInstance[e[1]]] = "redis" BY <1>0, <1>1, <2>1 DEF CommandKnows
    <3> QED BY <1>0, <2>1, <2>4, <3>1 DEF FromRedis
  <2>6. ChannelInOrder'
    <3> SUFFICES ASSUME NEW i \in Instances,
                        NEW k \in DOMAIN channel'[i], NEW l \in DOMAIN channel'[i],
                        k < l, channel'[i][k][1] = channel'[i][l][1]
                 PROVE  channel'[i][k][2] <= channel'[i][l][2]
      BY DEF ChannelInOrder
    <3>0. channel[i] \in Seq(Event) BY <1>0 DEF FeedTypeOK
    <3>1. k \in DOMAIN channel[i] /\ channel'[i][k] = channel[i][k]
      <4>1. CASE channel'[i] = channel[i] BY <4>1
      <4>2. CASE channel'[i] = Append(channel[i], e)
        <5>1. l <= Len(channel[i]) + 1 BY <1>3, <3>0, <4>2
        <5>2. k # Len(channel[i]) + 1 BY <2>3, <3>0, <5>1
        <5> QED BY <2>3, <5>2
      <4> QED BY <2>1, <4>1, <4>2
    <3>2. CASE l \in DOMAIN channel[i] /\ channel'[i][l] = channel[i][l]
      BY <1>0, <3>1, <3>2 DEF ChannelInOrder
    <3>3. CASE channel'[i][l] = e
      <4>1. channel[i][k][2] <= sent[q] + 1 BY <1>1, <3>1, <3>3, ComesSoFar
      <4> QED BY <1>1, <3>1, <3>3, <4>1
    <3> QED BY <2>3, <3>2, <3>3
  <2>7. ListedBefore'
    <3> SUFFICES ASSUME NEW p \in Pages, NEW g \in Event, NEW f \in Event,
                        OnTheWay(AtInstance[p], g)', Lists(p, f)', g[1] = f[1], g[2] < f[2]
                 PROVE  f \in fellBack'
      BY DEF ListedBefore
    <3>1. Lists(p, f) BY <2>1 DEF Lists
    <3>2. OnTheWay(AtInstance[p], g) \/ g = e BY <1>0, <2>4
    <3> QED BY <1>0, <1>4, <2>1, <3>1, <3>2 DEF ListedBefore
  <2>8. OrderKept' BY <1>0, <2>1 DEF OrderKept
  <2> QED BY <2>2, <2>5, <2>6, <2>7, <2>8 DEF OInv
<1> QED BY <1>5, <1>6, <1>7, <1>8 DEF PublishStep

\* The first event on the channel goes to the pages.
LEMMA DeliverOrdered ==
  ASSUME FInv, OInv, NEW i \in Instances, Deliver(i)
  PROVE  OInv'
<1>0. /\ channel[i] \in Seq(Event) /\ channel[i] # << >>
      /\ channel \in [Instances -> Seq(Event)]
      /\ CommandKnows /\ FromRedis /\ ChannelInOrder /\ ListedBefore
  BY DEF FInv, FeedTypeOK, Deliver, OInv
<1>1. PICK e \in Event : e = Head(channel[i]) BY <1>0
<1>2. Broadcast(i, e) BY <1>1 DEF Deliver, Broadcast
<1>3. /\ UNCHANGED <<transport, publisher, request, sent, fellBack>>
      /\ channel' = [channel EXCEPT ![i] = Tail(channel[i])]
  BY DEF Deliver, redisVars
<1>4. 1 \in DOMAIN channel[i] /\ e = channel[i][1] BY <1>0, <1>1
<1>5. OnTheWay(i, e) BY <1>4 DEF OnTheWay
<1>6. /\ channel'[i] = Tail(channel[i]) /\ \A j \in Instances \ {i} : channel'[j] = channel[j]
      /\ \A k \in DOMAIN channel'[i] :
           /\ k \in Nat /\ k + 1 \in DOMAIN channel[i] /\ 1 < k + 1
           /\ channel'[i][k] = channel[i][k + 1]
  <2>1. channel'[i] = Tail(channel[i]) /\ \A j \in Instances \ {i} : channel'[j] = channel[j]
    BY <1>0, <1>3
  <2>2. /\ Tail(channel[i]) \in Seq(Event) /\ Len(Tail(channel[i])) = Len(channel[i]) - 1
        /\ DOMAIN Tail(channel[i]) = 1..(Len(channel[i]) - 1)
    BY <1>0
  <2>3. \A k \in 1..(Len(channel[i]) - 1) :
          /\ k \in Nat /\ k + 1 \in DOMAIN channel[i] /\ 1 < k + 1
          /\ Tail(channel[i])[k] = channel[i][k + 1]
    BY <1>0
  <2> QED BY <2>1, <2>2, <2>3
<1>7. \A j \in Instances : \A f \in Event : OnTheWay(j, f)' => OnTheWay(j, f)
  BY <1>6 DEF OnTheWay
<1>8. OrderKept'
  <2>1. ASSUME NEW p \in Pages, AtInstance[p] = i, NEW f \in Event,
               Lists(p, f), e[1] = f[1], e[2] < f[2]
        PROVE  f \in fellBack
    BY <1>0, <1>5, <2>1 DEF ListedBefore
  <2> QED BY <1>2, <1>3, <2>1, BroadcastOrdered
<1>9. ListedBefore'
  <2>1. ASSUME NEW f \in Event, OnTheWay(i, f)', f[1] = e[1], f[2] < e[2] PROVE FALSE
    <3>1. PICK k \in DOMAIN channel'[i] : channel'[i][k] = f BY <2>1 DEF OnTheWay
    <3>2. k + 1 \in DOMAIN channel[i] /\ channel[i][k + 1] = f /\ 1 < k + 1 BY <1>6, <3>1
    <3>3. e[2] <= f[2] BY <1>0, <1>4, <2>1, <3>2 DEF ChannelInOrder
    <3>4. e[2] \in Nat /\ f[2] \in Nat BY DEF Event
    <3> QED BY <2>1, <3>3, <3>4
  <2> QED BY <1>2, <1>3, <1>7, <2>1, BroadcastListed
<1>10. CommandKnows' BY <1>0, <1>3 DEF CommandKnows
<1>11. FromRedis' BY <1>0, <1>3, <1>7 DEF FromRedis
<1>12. ChannelInOrder'
  <2> SUFFICES ASSUME NEW j \in Instances,
                      NEW k \in DOMAIN channel'[j], NEW l \in DOMAIN channel'[j],
                      k < l, channel'[j][k][1] = channel'[j][l][1]
               PROVE  channel'[j][k][2] <= channel'[j][l][2]
    BY DEF ChannelInOrder
  <2>1. CASE j = i
    <3>1. /\ k \in Nat /\ k + 1 \in DOMAIN channel[i] /\ channel'[j][k] = channel[i][k + 1]
          /\ l \in Nat /\ l + 1 \in DOMAIN channel[i] /\ channel'[j][l] = channel[i][l + 1]
      BY <1>6, <2>1
    <3>2. k + 1 < l + 1 BY <3>1
    <3>3. \A x, y \in DOMAIN channel[i] :
            x < y /\ channel[i][x][1] = channel[i][y][1] => channel[i][x][2] <= channel[i][y][2]
      BY <1>0 DEF ChannelInOrder
    <3> QED BY <3>1, <3>2, <3>3
  <2>2. CASE j # i BY <1>0, <1>6, <2>2 DEF ChannelInOrder
  <2> QED BY <2>1, <2>2
<1> QED BY <1>8, <1>9, <1>10, <1>11, <1>12 DEF OInv

\* A connection breaks or comes back: the channel may be emptied.
LEMMA ConnectionOrdered ==
  ASSUME FInv, OInv, NEW i \in Instances,
         Start(i) \/ PublisherDrops(i) \/ SubscriberDrops(i) \/ Recover(i)
  PROVE  OInv'
<1>0. FeedTypeOK /\ CommandKnows /\ \A q \in Requests : AtInstance[q] \in Instances
  BY ActivityAssumption DEF FInv, OInv
<1>1. UNCHANGED <<fellBack, events>>
  BY DEF Start, Subscribed, StartsLocal, PublisherDrops, SubscriberDrops, Recover,
     PublisherReturns, PublisherEnds, SubscriberReturns, viewVars
<1>2. \A j \in Instances : channel'[j] = channel[j] \/ channel'[j] = << >>
  <2>1. UNCHANGED channel \/ channel' = [channel EXCEPT ![i] = << >>]
    BY DEF Start, Subscribed, StartsLocal, PublisherDrops, SubscriberDrops, Recover,
       PublisherReturns, PublisherEnds, SubscriberReturns
  <2> QED BY <1>0, <2>1 DEF FeedTypeOK
<1>3. \A j \in Instances : transport[j] = "redis" => transport'[j] = "redis"
  <2>1. \/ UNCHANGED transport
        \/ /\ transport[i] = "starting"
           /\ \E t \in {"redis", "local"} : transport' = [transport EXCEPT ![i] = t]
    BY DEF Start, Subscribed, StartsLocal, PublisherDrops, SubscriberDrops, Recover,
       PublisherReturns, PublisherEnds, SubscriberReturns
  <2> QED BY <1>0, <2>1 DEF FeedTypeOK
<1>4. \A j \in Instances : publisher[j] # "wait" => publisher'[j] # "wait"
  <2>1. \/ UNCHANGED publisher
        \/ \E c \in {"up", "down", "ended"} : publisher' = [publisher EXCEPT ![i] = c]
    BY DEF Start, Subscribed, StartsLocal, PublisherDrops, SubscriberDrops, Recover,
       PublisherReturns, PublisherEnds, SubscriberReturns
  <2> QED BY <1>0, <2>1 DEF FeedTypeOK
<1>5. \A q \in Requests : request'[q] # "ready" => request[q] # "ready"
  <2>1. \/ UNCHANGED request
        \/ PublisherReturns(i)
    BY DEF Start, Subscribed, StartsLocal, PublisherDrops, SubscriberDrops, Recover,
       PublisherEnds, SubscriberReturns
  <2>2. CASE PublisherReturns(i) BY <2>2 DEF PublisherReturns
  <2> QED BY <2>1, <2>2
<1>6. CommandKnows' BY <1>0, <1>3, <1>4, <1>5 DEF CommandKnows
<1> QED BY <1>1, <1>2, <1>3, <1>6, QuietOrdered

\* A page comes or goes: its list may be emptied.
LEMMA ViewerOrdered ==
  ASSUME FInv, OInv, NEW p \in Pages, ViewerStep(p)
  PROVE  OInv'
<1>1. UNCHANGED <<transport, publisher, request, channel, fellBack>>
  BY DEF ViewerStep, ConnectPage, LeavePage, ClosePage, SocketMoves, redisVars
<1>2. \A o \in Pages : events'[o] = events[o] \/ events'[o] = << >>
  <2>1. UNCHANGED events \/ events' = [events EXCEPT ![p] = << >>]
    BY DEF ViewerStep, ConnectPage, LeavePage, ClosePage
  <2> QED BY <2>1 DEF FInv, FeedTypeOK
<1>3. CommandKnows' BY <1>1 DEF OInv, CommandKnows
<1> QED BY <1>1, <1>2, <1>3, QuietOrdered

LEMMA OInvStep == FInv /\ OInv /\ [FeedNext]_feedVars => OInv'
<1> SUFFICES ASSUME FInv, OInv, [FeedNext]_feedVars PROVE OInv'
  OBVIOUS
<1>1. CASE \E q \in Requests : PublishStep(q) BY <1>1, PublishOrdered
<1>2. CASE \E i \in Instances : Deliver(i) BY <1>2, DeliverOrdered
<1>3. CASE \E i \in Instances :
             Start(i) \/ PublisherDrops(i) \/ SubscriberDrops(i) \/ Recover(i)
  BY <1>3, ConnectionOrdered
<1>4. CASE \E p \in Pages : ViewerStep(p) BY <1>4, ViewerOrdered
<1>5. CASE UNCHANGED feedVars
  <2>1. UNCHANGED <<transport, publisher, request, channel, fellBack, events>>
    BY <1>5 DEF feedVars, redisVars, viewVars
  <2>2. CommandKnows' BY <2>1 DEF OInv, CommandKnows
  <2> QED BY <2>1, <2>2, QuietOrdered
<1> QED BY <1>1, <1>2, <1>3, <1>4, <1>5 DEF FeedNext

LEMMA OInvInit == FeedInit => OInv
  BY DEF FeedInit, OInv, CommandKnows, FromRedis, ChannelInOrder, ListedBefore, OrderKept,
     OnTheWay, Lists

\* How events are ordered on the channel, on the pages and between the two.
THEOREM OrderInductive == FeedSpec => []OInv
  BY OInvInit, OInvStep, FeedInductive, PTL DEF FeedSpec

\* Commands sent twice, broken subscriptions and several processes do not change
\* the order of a request's events on a page; local delivery does.
THEOREM EventsInOrder == FeedSpec => []OrderKept
<1>1. OInv => OrderKept BY DEF OInv
<1> QED BY OrderInductive, <1>1, PTL

-------------------------------------------------------------------------------
(* How often an event is in a list *)

Times(e, list) == Cardinality({k \in DOMAIN list : list[k] = e})

One(f, e) == IF f = e THEN 1 ELSE 0

\* Places that are all one earlier, or one later, in another list are no more
\* than there.
LEMMA MovedDown ==
  ASSUME NEW A \in SUBSET Nat, NEW B, IsFiniteSet(B), \A k \in A : k - 1 \in B
  PROVE  Cardinality(A) <= Cardinality(B)
<1> DEFINE g == [k \in A |-> k - 1]
<1>1. g \in [A -> B] OBVIOUS
<1>2. ASSUME NEW a \in A, NEW b \in A, g[a] = g[b] PROVE a = b
  <2>1. a - 1 = b - 1 /\ a \in Nat /\ b \in Nat BY <1>2
  <2> QED BY <2>1
<1>3. g \in Injection(A, B) BY <1>1, <1>2 DEF Injection, IsInjective
<1> HIDE DEF g
<1> QED BY <1>3, FS_Injection

LEMMA MovedUp ==
  ASSUME NEW A \in SUBSET Nat, NEW B, IsFiniteSet(B), \A k \in A : k + 1 \in B
  PROVE  Cardinality(A) <= Cardinality(B)
<1> DEFINE g == [k \in A |-> k + 1]
<1>1. g \in [A -> B] OBVIOUS
<1>2. ASSUME NEW a \in A, NEW b \in A, g[a] = g[b] PROVE a = b
  <2>1. a + 1 = b + 1 /\ a \in Nat /\ b \in Nat BY <1>2
  <2> QED BY <2>1
<1>3. g \in Injection(A, B) BY <1>1, <1>2 DEF Injection, IsInjective
<1> HIDE DEF g
<1> QED BY <1>3, FS_Injection

LEMMA TimesType ==
  ASSUME NEW list \in Seq(Event), NEW f
  PROVE  /\ IsFiniteSet({k \in DOMAIN list : list[k] = f})
         /\ {k \in DOMAIN list : list[k] = f} \in SUBSET Nat
         /\ Times(f, list) \in Nat
<1>1. IsFiniteSet(1..Len(list)) /\ {k \in DOMAIN list : list[k] = f} \in SUBSET (1..Len(list))
  BY FS_Interval
<1>2. IsFiniteSet({k \in DOMAIN list : list[k] = f}) BY <1>1, FS_Subset
<1> QED BY <1>1, <1>2, FS_CardinalityType DEF Times

\* An empty list.
LEMMA TimesEmpty == \A f : Times(f, << >>) = 0
<1>1. \A f : {k \in DOMAIN << >> : << >>[k] = f} = {} OBVIOUS
<1> QED BY <1>1, FS_EmptySet DEF Times

\* A list that gets an event on top.
LEMMA TimesOnTop ==
  ASSUME NEW e \in Event, NEW list \in Seq(Event), Len(list) <= PageSize, NEW f
  PROVE  Times(f, OnTop(e, list)) <= Times(f, list) + One(f, e)
<1> DEFINE new == {k \in DOMAIN OnTop(e, list) : OnTop(e, list)[k] = f}
           old == {k \in DOMAIN list : list[k] = f}
<1>1. \A k \in new : k \in Nat /\ (k = 1 => f = e) /\ (k # 1 => k - 1 \in old)
  BY OnTopPlaces
<1>2. old \in SUBSET Nat /\ IsFiniteSet(old) /\ Cardinality(old) \in Nat
  BY TimesType, FS_CardinalityType
<1>3. new \in SUBSET Nat /\ IsFiniteSet(new) /\ Cardinality(new) \in Nat
  <2>1. OnTop(e, list) \in Seq(Event) BY OnTopList
  <2> QED BY <2>1, TimesType, FS_CardinalityType
<1>4. Times(f, OnTop(e, list)) = Cardinality(new) /\ Times(f, list) = Cardinality(old)
  BY DEF Times
<1> HIDE DEF new, old
<1>5. CASE f = e
  <2> DEFINE less == new \ {1}
  <2>0. /\ less \in SUBSET Nat /\ IsFiniteSet(less)
        /\ Cardinality(less) = IF 1 \in new THEN Cardinality(new) - 1 ELSE Cardinality(new)
    BY <1>3, FS_RemoveElement
  <2>1. Cardinality(less) \in Nat BY <2>0, FS_CardinalityType
  <2>2. \A k \in less : k - 1 \in old BY <1>1
  <2> HIDE DEF less
  <2>3. Cardinality(less) <= Cardinality(old) BY <1>2, <2>0, <2>2, MovedDown
  <2> QED BY <1>2, <1>3, <1>4, <1>5, <2>0, <2>1, <2>3 DEF One
<1>6. CASE f # e
  <2>1. \A k \in new : k - 1 \in old BY <1>1, <1>6
  <2>2. Cardinality(new) <= Cardinality(old) BY <1>2, <1>3, <2>1, MovedDown
  <2> QED BY <1>2, <1>4, <1>6, <2>2 DEF One
<1> QED BY <1>5, <1>6

\* A list that gets an event at its end.
LEMMA TimesAppend ==
  ASSUME NEW e \in Event, NEW list \in Seq(Event), NEW f
  PROVE  Times(f, Append(list, e)) <= Times(f, list) + One(f, e)
<1> DEFINE new == {k \in DOMAIN Append(list, e) : Append(list, e)[k] = f}
           old == {k \in DOMAIN list : list[k] = f}
           n == Len(list) + 1
<1>1. \A k \in new : k \in Nat /\ (k = n => f = e) /\ (k # n => k \in old)
  OBVIOUS
<1>2. old \in SUBSET Nat /\ IsFiniteSet(old) /\ Cardinality(old) \in Nat
  BY TimesType, FS_CardinalityType
<1>3. new \in SUBSET Nat /\ IsFiniteSet(new) /\ Cardinality(new) \in Nat
  <2>1. Append(list, e) \in Seq(Event) OBVIOUS
  <2> QED BY <2>1, TimesType, FS_CardinalityType
<1>4. Times(f, Append(list, e)) = Cardinality(new) /\ Times(f, list) = Cardinality(old)
  BY DEF Times
<1> HIDE DEF new, old, n
<1>5. CASE f = e
  <2> DEFINE less == new \ {n}
  <2>0. /\ less \in SUBSET Nat /\ IsFiniteSet(less)
        /\ Cardinality(less) = IF n \in new THEN Cardinality(new) - 1 ELSE Cardinality(new)
    BY <1>3, FS_RemoveElement
  <2>1. Cardinality(less) \in Nat BY <2>0, FS_CardinalityType
  <2>2. \A k \in less : k \in old BY <1>1
  <2> HIDE DEF less
  <2>3. Cardinality(less) <= Cardinality(old) BY <1>2, <2>0, <2>2, FS_Subset
  <2> QED BY <1>2, <1>3, <1>4, <1>5, <2>0, <2>1, <2>3 DEF One
<1>6. CASE f # e
  <2>1. \A k \in new : k \in old BY <1>1, <1>6
  <2>2. Cardinality(new) <= Cardinality(old) BY <1>2, <1>3, <2>1, FS_Subset
  <2> QED BY <1>2, <1>4, <1>6, <2>2 DEF One
<1> QED BY <1>5, <1>6

\* A list that loses its first event.
LEMMA TimesTail ==
  ASSUME NEW list \in Seq(Event), list # << >>, NEW f
  PROVE  Times(f, Tail(list)) + One(f, Head(list)) <= Times(f, list)
<1> DEFINE new == {k \in DOMAIN Tail(list) : Tail(list)[k] = f}
           old == {k \in DOMAIN list : list[k] = f}
           rest == old \ {1}
<1>1. \A k \in new : k \in Nat /\ k + 1 \in rest
  <2>1. /\ DOMAIN Tail(list) = 1..(Len(list) - 1) /\ DOMAIN list = 1..Len(list) /\ Len(list) \in Nat
        /\ \A k \in 1..(Len(list) - 1) : Tail(list)[k] = list[k + 1]
    OBVIOUS
  <2> QED BY <2>1
<1>2. old \in SUBSET Nat /\ IsFiniteSet(old) /\ Cardinality(old) \in Nat
  BY TimesType, FS_CardinalityType
<1>3. new \in SUBSET Nat /\ IsFiniteSet(new) /\ Cardinality(new) \in Nat
  <2>1. Tail(list) \in Seq(Event) OBVIOUS
  <2> QED BY <2>1, TimesType, FS_CardinalityType
<1>4. Times(f, Tail(list)) = Cardinality(new) /\ Times(f, list) = Cardinality(old)
  BY DEF Times
<1>5. f = Head(list) => 1 \in old OBVIOUS
<1> HIDE DEF new, old, rest
<1>6. /\ rest \in SUBSET Nat /\ IsFiniteSet(rest)
      /\ Cardinality(rest) = IF 1 \in old THEN Cardinality(old) - 1 ELSE Cardinality(old)
  BY <1>2, FS_RemoveElement DEF rest
<1>7. Cardinality(new) <= Cardinality(rest)
  <2>1. \A k \in new : k + 1 \in rest BY <1>1
  <2> QED BY <1>3, <1>6, <2>1, MovedUp
<1> QED BY <1>2, <1>3, <1>4, <1>5, <1>6, <1>7 DEF One, rest

-------------------------------------------------------------------------------
(* How often an event is listed *)

\* What a page lists of an event and what is on the way to it.
Copies(p, e) == Times(e, events[p]) + Times(e, channel[AtInstance[p]])

\* The event has not returned, and Redis has not executed its command since the
\* connection last broke.
Unexecuted(e) ==
  /\ sent[e[1]] < e[2]
  /\ request[e[1]] # "executed" \/ publisher[AtInstance[e[1]]] # "up"

Allowed(e) ==
  LET drops == pubDrops[AtInstance[e[1]]] IN
  IF ~Begun(e) THEN 0 ELSE IF Unexecuted(e) THEN drops ELSE 1 + drops

\* Each broken connection allows one copy more, and a command not executed yet
\* has one to come.
CopiesBounded == \A p \in Pages : \A e \in Event : Copies(p, e) <= Allowed(e)

LEMMA EventTypes ==
  ASSUME FInv, NEW e \in Event
  PROVE  /\ e[1] \in Requests /\ e[2] \in Nat \ {0} /\ AtInstance[e[1]] \in Instances
         /\ sent[e[1]] \in Nat /\ pubDrops[AtInstance[e[1]]] \in Nat
         /\ Allowed(e) \in Nat
<1>1. e[1] \in Requests /\ e[2] \in Nat \ {0} /\ AtInstance[e[1]] \in Instances
  BY ActivityAssumption DEF Event
<1>2. sent[e[1]] \in Nat /\ pubDrops[AtInstance[e[1]]] \in Nat
  BY <1>1, ActivityAssumption DEF FInv, FeedTypeOK
<1> QED BY <1>1, <1>2 DEF Allowed

LEMMA EventTypesNext ==
  ASSUME FInv', NEW e \in Event
  PROVE  /\ sent'[e[1]] \in Nat /\ pubDrops'[AtInstance[e[1]]] \in Nat
         /\ Allowed(e)' \in Nat
<1>1. e[1] \in Requests /\ e[2] \in Nat \ {0} /\ AtInstance[e[1]] \in Instances
  BY ActivityAssumption DEF Event
<1>2. sent'[e[1]] \in Nat /\ pubDrops'[AtInstance[e[1]]] \in Nat
  BY <1>1, ActivityAssumption DEF FInv, FeedTypeOK
<1> QED BY <1>1, <1>2 DEF Allowed

LEMMA CopiesTypes ==
  ASSUME FInv, FInv', NEW p \in Pages, NEW e
  PROVE  /\ Times(e, events[p]) \in Nat /\ Times(e, channel[AtInstance[p]]) \in Nat
         /\ Times(e, events'[p]) \in Nat /\ Times(e, channel'[AtInstance[p]]) \in Nat
         /\ Copies(p, e) \in Nat /\ Copies(p, e)' \in Nat
         /\ Copies(p, e)' = Times(e, events'[p]) + Times(e, channel'[AtInstance[p]])
<1>1. AtInstance[p] \in Instances BY ActivityAssumption
<1>2. /\ events[p] \in Seq(Event) /\ channel[AtInstance[p]] \in Seq(Event)
      /\ events'[p] \in Seq(Event) /\ channel'[AtInstance[p]] \in Seq(Event)
  BY <1>1 DEF FInv, FeedTypeOK
<1>3. /\ Times(e, events[p]) \in Nat /\ Times(e, channel[AtInstance[p]]) \in Nat
      /\ Times(e, events'[p]) \in Nat /\ Times(e, channel'[AtInstance[p]]) \in Nat
  BY <1>2, TimesType
<1>4. Copies(p, e)' = Times(e, events'[p]) + Times(e, channel'[AtInstance[p]])
  BY DEF Copies, Times
<1>5. Copies(p, e) = Times(e, events[p]) + Times(e, channel[AtInstance[p]]) BY DEF Copies
<1> QED BY <1>3, <1>4, <1>5

\* A step that makes no copy.
LEMMA NoCopy ==
  ASSUME FInv, FInv', CopiesBounded,
         \A p \in Pages : \A e \in Event : Copies(p, e)' <= Copies(p, e),
         \A e \in Event : Allowed(e) <= Allowed(e)'
  PROVE  CopiesBounded'
<1> SUFFICES ASSUME NEW p \in Pages, NEW e \in Event PROVE Copies(p, e)' <= Allowed(e)'
  BY DEF CopiesBounded
<1>1. Copies(p, e)' <= Copies(p, e) /\ Copies(p, e) <= Allowed(e) /\ Allowed(e) <= Allowed(e)'
  BY DEF CopiesBounded
<1>2. Copies(p, e) \in Nat /\ Copies(p, e)' \in Nat BY CopiesTypes
<1>3. Allowed(e) \in Nat BY EventTypes
<1>4. Allowed(e)' \in Nat BY EventTypesNext
<1> QED BY <1>1, <1>2, <1>3, <1>4

\* A step that makes one copy of an event.
LEMMA OneCopy ==
  ASSUME FInv, FInv', CopiesBounded, NEW b \in Event,
         \A p \in Pages : \A e \in Event : Copies(p, e)' <= Copies(p, e) + One(e, b),
         \A e \in Event : Allowed(e) + One(e, b) <= Allowed(e)'
  PROVE  CopiesBounded'
<1> SUFFICES ASSUME NEW p \in Pages, NEW e \in Event PROVE Copies(p, e)' <= Allowed(e)'
  BY DEF CopiesBounded
<1>1. /\ Copies(p, e)' <= Copies(p, e) + One(e, b) /\ Copies(p, e) <= Allowed(e)
      /\ Allowed(e) + One(e, b) <= Allowed(e)'
  BY DEF CopiesBounded
<1>2. Copies(p, e) \in Nat /\ Copies(p, e)' \in Nat BY CopiesTypes
<1>3. Allowed(e) \in Nat BY EventTypes
<1>4. Allowed(e)' \in Nat BY EventTypesNext
<1>5. One(e, b) \in Nat BY DEF One
<1> QED BY <1>1, <1>2, <1>3, <1>4, <1>5

\* A broadcast puts the event on the lists of the process once.
LEMMA BroadcastTimes ==
  ASSUME FInv, NEW i \in Instances, NEW b \in Event, Broadcast(i, b), NEW p \in Pages, NEW e
  PROVE  /\ Times(e, events'[p]) <= Times(e, events[p]) + One(e, b)
         /\ AtInstance[p] # i => events'[p] = events[p]
<1>1. events' = [o \in Pages |-> IF Gets(i, o, b) THEN OnTop(b, events[o]) ELSE events[o]]
  BY DEF Broadcast
<1>2. events[p] \in Seq(Event) /\ Len(events[p]) <= PageSize BY DEF FInv, FeedTypeOK
<1>3. CASE Gets(i, p, b)
  <2>1. events'[p] = OnTop(b, events[p]) /\ AtInstance[p] = i BY <1>1, <1>3 DEF Gets
  <2> QED BY <1>2, <2>1, TimesOnTop
<1>4. CASE ~Gets(i, p, b)
  <2>1. events'[p] = events[p] BY <1>1, <1>4
  <2>2. Times(e, events[p]) \in Nat BY <1>2, TimesType
  <2> QED BY <2>1, <2>2 DEF One
<1> QED BY <1>3, <1>4

\* A step that tells no page and sends nothing.
LEMMA QuietCopies ==
  ASSUME FInv, FInv',
         \A p \in Pages : events'[p] = events[p] \/ events'[p] = << >>,
         \A i \in Instances : channel'[i] = channel[i] \/ channel'[i] = << >>
  PROVE  \A p \in Pages : \A e \in Event : Copies(p, e)' <= Copies(p, e)
<1> SUFFICES ASSUME NEW p \in Pages, NEW e \in Event PROVE Copies(p, e)' <= Copies(p, e)
  OBVIOUS
<1>0. AtInstance[p] \in Instances BY ActivityAssumption
<1>1. /\ Times(e, events[p]) \in Nat /\ Times(e, channel[AtInstance[p]]) \in Nat
      /\ Copies(p, e)' = Times(e, events'[p]) + Times(e, channel'[AtInstance[p]])
  BY CopiesTypes
<1>2. Times(e, events'[p]) = Times(e, events[p]) \/ Times(e, events'[p]) = 0 BY TimesEmpty
<1>3. \/ Times(e, channel'[AtInstance[p]]) = Times(e, channel[AtInstance[p]])
      \/ Times(e, channel'[AtInstance[p]]) = 0
  BY <1>0, TimesEmpty
<1> QED BY <1>1, <1>2, <1>3 DEF Copies

\* A request gets on: its event is allowed one copy more when one is made, and
\* the others what they were.
LEMMA PublishAllows ==
  ASSUME FInv, FInv', CommandKnows, NEW q \in Requests, PublishStep(q), NEW b, b = Current(q)
  PROVE  \A e \in Event :
           /\ Allowed(e) <= Allowed(e)'
           /\ e = b /\ ~RedisAnswers(q) /\ ~PublishToRedis(q) => Allowed(e) + 1 <= Allowed(e)'
<1> SUFFICES ASSUME NEW e \in Event
             PROVE  /\ Allowed(e) <= Allowed(e)'
                    /\ e = b /\ ~RedisAnswers(q) /\ ~PublishToRedis(q) =>
                         Allowed(e) + 1 <= Allowed(e)'
  OBVIOUS
<1> DEFINE r == e[1]  i == AtInstance[e[1]]
<1>1. /\ r \in Requests /\ e[2] \in Nat \ {0} /\ i \in Instances /\ AtInstance[q] \in Instances
      /\ sent[r] \in Nat /\ pubDrops[i] \in Nat /\ sent[q] \in Nat /\ FeedTypeOK
      /\ b[1] = q /\ b[2] = sent[q] + 1 /\ (e = b <=> r = q /\ e[2] = sent[q] + 1)
  <2>1. e = <<e[1], e[2]>> BY DEF Event
  <2>2. b = <<q, sent[q] + 1>> BY DEF Current
  <2>3. FeedTypeOK /\ sent[q] \in Nat /\ AtInstance[q] \in Instances
    BY ActivityAssumption DEF FInv, FeedTypeOK
  <2>4. /\ r \in Requests /\ e[2] \in Nat \ {0} /\ i \in Instances
        /\ sent[r] \in Nat /\ pubDrops[i] \in Nat
    BY EventTypes
  <2>5. e = b <=> r = q /\ e[2] = sent[q] + 1 BY <2>1, <2>2
  <2> QED BY <2>2, <2>3, <2>4, <2>5
<1>2. UNCHANGED pubDrops
  BY DEF PublishStep, PublishLocally, PublishToRedis, RedisExecutes, RedisAnswers, Rejected,
     redisVars
<1>3. publisher'[i] = publisher[i] \/ publisher'[i] = "up"
  <2>1. UNCHANGED publisher \/ PublishToRedis(q)
    BY DEF PublishStep, PublishLocally, RedisExecutes, RedisAnswers, Rejected, redisVars
  <2> QED BY <1>1, <2>1 DEF PublishToRedis, FeedTypeOK
<1>4. CASE r # q
  <2>1. request'[r] = request[r] /\ sent'[r] = sent[r]
    BY <1>1, <1>4 DEF PublishStep, PublishLocally, PublishToRedis, RedisExecutes, RedisAnswers,
       Rejected, Returned, FeedTypeOK
  <2> HIDE DEF r, i
  <2>2. Begun(e)' = Begun(e) BY <2>1 DEF Begun, r
  <2>3. Unexecuted(e)' => Unexecuted(e) BY <1>3, <2>1 DEF Unexecuted, r, i
  <2> QED BY <1>1, <1>2, <1>4, <2>2, <2>3 DEF Allowed, r, i
<1>5. CASE r = q /\ (PublishLocally(q) \/ Rejected(q) \/ RedisAnswers(q))
  <2>1. /\ sent'[q] = sent[q] + 1 /\ request'[q] = "ready"
        /\ UNCHANGED publisher
    BY <1>1, <1>5 DEF PublishLocally, RedisAnswers, Rejected, Returned, FeedTypeOK, redisVars
  <2>2. CASE e[2] <= sent[q]
    BY <1>1, <1>2, <1>5, <2>1, <2>2 DEF Allowed, Begun, Unexecuted
  <2>3. CASE e[2] > sent[q] + 1
    BY <1>1, <1>2, <1>5, <2>1, <2>3 DEF Allowed, Begun, Unexecuted
  <2>4. CASE e[2] = sent[q] + 1
    <3>1. Allowed(e)' = 1 + pubDrops[i]
      BY <1>1, <1>2, <1>5, <2>1, <2>4 DEF Allowed, Begun, Unexecuted
    <3>2. PublishLocally(q) => Allowed(e) = 0
      BY <1>1, <1>5, <2>4 DEF Allowed, Begun, PublishLocally, HasMore
    <3>3. Rejected(q) => Allowed(e) = pubDrops[i]
      BY <1>1, <1>5, <2>4 DEF Allowed, Begun, Unexecuted, Rejected
    <3>4. Allowed(e) <= 1 + pubDrops[i] BY <1>1 DEF Allowed
    <3> QED BY <1>1, <1>5, <3>1, <3>2, <3>3, <3>4
  <2> QED BY <1>1, <2>2, <2>3, <2>4
<1>6. CASE r = q /\ PublishToRedis(q)
  <2>1. sent' = sent /\ request[q] = "ready" /\ request'[q] = "command"
    BY <1>1, <1>6 DEF PublishToRedis, HasMore, FeedTypeOK
  <2>2. CASE e[2] <= sent[q]
    BY <1>1, <1>2, <1>6, <2>1, <2>2 DEF Allowed, Begun, Unexecuted
  <2>3. CASE e[2] > sent[q]
    BY <1>1, <1>2, <1>6, <2>1, <2>3 DEF Allowed, Begun, Unexecuted
  <2> QED BY <1>1, <2>2, <2>3
<1>7. CASE r = q /\ RedisExecutes(q)
  <2>1. /\ sent' = sent /\ request[q] = "command" /\ request'[q] = "executed"
        /\ publisher[i] = "up" /\ publisher'[i] = "up"
    BY <1>1, <1>7 DEF RedisExecutes, FeedTypeOK, redisVars
  <2>2. CASE e[2] <= sent[q]
    BY <1>1, <1>2, <1>7, <2>1, <2>2 DEF Allowed, Begun, Unexecuted
  <2>3. CASE e[2] > sent[q] + 1
    BY <1>1, <1>2, <1>7, <2>1, <2>3 DEF Allowed, Begun, Unexecuted
  <2>4. CASE e[2] = sent[q] + 1
    BY <1>1, <1>2, <1>7, <2>1, <2>4 DEF Allowed, Begun, Unexecuted
  <2> QED BY <1>1, <2>2, <2>3, <2>4
<1> QED BY <1>4, <1>5, <1>6, <1>7 DEF PublishStep

\* Each step of a request makes no more copies than it allows.
LEMMA PublishCopies ==
  ASSUME FInv, FInv', CommandKnows, CopiesBounded, NEW q \in Requests, PublishStep(q)
  PROVE  CopiesBounded'
<1> DEFINE b == Current(q)
<1>0. /\ FeedTypeOK /\ AtInstance[q] \in Instances
      /\ \A p \in Pages : AtInstance[p] \in Instances
  BY ActivityAssumption DEF FInv
<1>1. b \in Event
  <2>1. sent[q] < EventsPerRequest
    BY DEF FInv, PublishStep, PublishLocally, PublishToRedis, HasMore, RedisExecutes, RedisAnswers,
       Rejected, CommandBounded
  <2> QED BY <1>0, <2>1, CurrentIsEvent
<1>2. \A e \in Event :
        /\ Allowed(e) <= Allowed(e)'
        /\ e = b /\ ~RedisAnswers(q) /\ ~PublishToRedis(q) => Allowed(e) + 1 <= Allowed(e)'
  BY PublishAllows
<1>3. CASE RedisAnswers(q) \/ PublishToRedis(q)
  <2>1. UNCHANGED <<channel, events>> BY <1>3 DEF RedisAnswers, PublishToRedis, viewVars
  <2>2. \A p \in Pages : \A e \in Event : Copies(p, e)' <= Copies(p, e) BY <2>1, QuietCopies
  <2> QED BY <1>2, <2>2, NoCopy
<1>4. CASE ~(RedisAnswers(q) \/ PublishToRedis(q))
  <2>1. \A p \in Pages : \A e \in Event : Copies(p, e)' <= Copies(p, e) + One(e, b)
    <3> SUFFICES ASSUME NEW p \in Pages, NEW e \in Event
                 PROVE  Copies(p, e)' <= Copies(p, e) + One(e, b)
      OBVIOUS
    <3>1. /\ Times(e, events[p]) \in Nat /\ Times(e, channel[AtInstance[p]]) \in Nat
          /\ Times(e, events'[p]) \in Nat /\ Times(e, channel'[AtInstance[p]]) \in Nat
          /\ Copies(p, e)' = Times(e, events'[p]) + Times(e, channel'[AtInstance[p]])
          /\ Copies(p, e) = Times(e, events[p]) + Times(e, channel[AtInstance[p]])
      BY CopiesTypes DEF Copies
    <3>2. One(e, b) \in Nat BY DEF One
    <3>3. CASE PublishLocally(q) \/ Rejected(q)
      <4>1. Broadcast(AtInstance[q], b) /\ UNCHANGED channel BY <3>3 DEF PublishLocally, Rejected
      <4>2. Times(e, events'[p]) <= Times(e, events[p]) + One(e, b)
        BY <1>0, <1>1, <4>1, BroadcastTimes
      <4> QED BY <3>1, <3>2, <4>1, <4>2
    <3>4. CASE RedisExecutes(q)
      <4>1. /\ UNCHANGED events
            /\ \/ channel'[AtInstance[p]] = Append(channel[AtInstance[p]], b)
               \/ channel'[AtInstance[p]] = channel[AtInstance[p]]
        BY <1>0, <3>4 DEF RedisExecutes, viewVars
      <4>2. channel[AtInstance[p]] \in Seq(Event) BY <1>0 DEF FeedTypeOK
      <4>3. Times(e, channel'[AtInstance[p]]) <= Times(e, channel[AtInstance[p]]) + One(e, b)
        <5>1. Times(e, Append(channel[AtInstance[p]], b))
                <= Times(e, channel[AtInstance[p]]) + One(e, b)
          BY <1>1, <4>2, TimesAppend
        <5>2. \/ Times(e, channel'[AtInstance[p]]) = Times(e, Append(channel[AtInstance[p]], b))
              \/ Times(e, channel'[AtInstance[p]]) = Times(e, channel[AtInstance[p]])
          BY <4>1
        <5> HIDE DEF b
        <5> QED BY <3>1, <3>2, <5>1, <5>2
      <4> QED BY <3>1, <3>2, <4>1, <4>3
    <3> QED BY <1>4, <3>3, <3>4 DEF PublishStep
  <2>2. \A e \in Event : Allowed(e) + One(e, b) <= Allowed(e)'
    <3> SUFFICES ASSUME NEW e \in Event PROVE Allowed(e) + One(e, b) <= Allowed(e)'
      OBVIOUS
    <3>1. Allowed(e) \in Nat BY EventTypes
    <3> HIDE DEF b
    <3> QED BY <1>2, <1>4, <3>1 DEF One
  <2> HIDE DEF b
  <2> QED BY <1>1, <2>1, <2>2, OneCopy
<1> QED BY <1>3, <1>4

\* A copy leaves the channel when it gets on the lists.
LEMMA DeliverCopies ==
  ASSUME FInv, FInv', CopiesBounded, NEW i \in Instances, Deliver(i)
  PROVE  CopiesBounded'
<1>0. /\ channel[i] \in Seq(Event) /\ channel[i] # << >>
      /\ channel \in [Instances -> Seq(Event)]
      /\ \A p \in Pages : AtInstance[p] \in Instances
  BY ActivityAssumption DEF FInv, FeedTypeOK, Deliver
<1>1. PICK b \in Event : b = Head(channel[i]) BY <1>0
<1>2. Broadcast(i, b) BY <1>1 DEF Deliver, Broadcast
<1>3. /\ UNCHANGED <<publisher, pubDrops, request, sent>>
      /\ channel' = [channel EXCEPT ![i] = Tail(channel[i])]
  BY DEF Deliver, redisVars
<1>4. \A e \in Event : Allowed(e) <= Allowed(e)'
  <2> SUFFICES ASSUME NEW e \in Event PROVE Allowed(e) <= Allowed(e)'
    OBVIOUS
  <2>1. Allowed(e)' = Allowed(e) BY <1>3 DEF Allowed, Begun, Unexecuted
  <2>2. Allowed(e) \in Nat BY EventTypes
  <2> QED BY <2>1, <2>2
<1>5. \A p \in Pages : \A e \in Event : Copies(p, e)' <= Copies(p, e)
  <2> SUFFICES ASSUME NEW p \in Pages, NEW e \in Event PROVE Copies(p, e)' <= Copies(p, e)
    OBVIOUS
  <2>1. /\ Times(e, events[p]) \in Nat /\ Times(e, channel[AtInstance[p]]) \in Nat
        /\ Times(e, events'[p]) \in Nat /\ Times(e, channel'[AtInstance[p]]) \in Nat
        /\ Copies(p, e)' = Times(e, events'[p]) + Times(e, channel'[AtInstance[p]])
        /\ Copies(p, e) = Times(e, events[p]) + Times(e, channel[AtInstance[p]])
    BY CopiesTypes DEF Copies
  <2>2. One(e, b) \in Nat BY DEF One
  <2>3. /\ Times(e, events'[p]) <= Times(e, events[p]) + One(e, b)
        /\ AtInstance[p] # i => events'[p] = events[p]
    BY <1>2, BroadcastTimes
  <2>4. CASE AtInstance[p] = i
    <3>1. Times(e, Tail(channel[i])) + One(e, b) <= Times(e, channel[i])
      BY <1>0, <1>1, TimesTail
    <3>2. channel'[AtInstance[p]] = Tail(channel[i]) BY <1>0, <1>3, <2>4
    <3> QED BY <2>1, <2>2, <2>3, <2>4, <3>1, <3>2
  <2>5. CASE AtInstance[p] # i
    <3>1. channel'[AtInstance[p]] = channel[AtInstance[p]] BY <1>0, <1>3, <2>5
    <3> QED BY <2>1, <2>3, <2>5, <3>1
  <2> QED BY <2>4, <2>5
<1> QED BY <1>4, <1>5, NoCopy

\* A connection that breaks allows one copy more, and none is taken back.
LEMMA ConnectionCopies ==
  ASSUME FInv, FInv', CommandKnows, CopiesBounded, NEW i \in Instances,
         Start(i) \/ PublisherDrops(i) \/ SubscriberDrops(i) \/ Recover(i)
  PROVE  CopiesBounded'
<1>0. /\ FeedTypeOK /\ \A q \in Requests \union Pages : AtInstance[q] \in Instances
  BY ActivityAssumption DEF FInv
<1>1. UNCHANGED <<sent, events>>
  BY DEF Start, Subscribed, StartsLocal, PublisherDrops, SubscriberDrops, Recover,
     PublisherReturns, PublisherEnds, SubscriberReturns, viewVars
<1>2. \A j \in Instances : channel'[j] = channel[j] \/ channel'[j] = << >>
  <2>1. UNCHANGED channel \/ channel' = [channel EXCEPT ![i] = << >>]
    BY DEF Start, Subscribed, StartsLocal, PublisherDrops, SubscriberDrops, Recover,
       PublisherReturns, PublisherEnds, SubscriberReturns
  <2> QED BY <1>0, <2>1 DEF FeedTypeOK
<1>3. \A p \in Pages : \A e \in Event : Copies(p, e)' <= Copies(p, e)
  BY <1>1, <1>2, QuietCopies
<1>4. \A e \in Event : Allowed(e) <= Allowed(e)'
  <2> SUFFICES ASSUME NEW e \in Event PROVE Allowed(e) <= Allowed(e)'
    OBVIOUS
  <2> DEFINE q == e[1]  j == AtInstance[e[1]]
  <2>1. /\ q \in Requests /\ e[2] \in Nat \ {0} /\ j \in Instances
        /\ sent[q] \in Nat /\ pubDrops[j] \in Nat /\ Allowed(e) \in Nat
    BY EventTypes
  <2>2. CASE PublisherDrops(i)
    <3>1. /\ UNCHANGED request
          /\ pubDrops'[j] = IF j = i THEN pubDrops[j] + 1 ELSE pubDrops[j]
          /\ publisher'[j] = IF j = i THEN "down" ELSE publisher[j]
      BY <1>0, <2>1, <2>2 DEF PublisherDrops, FeedTypeOK
    <3>2. Begun(e)' = Begun(e) BY <1>1, <3>1 DEF Begun
    <3>3. Unexecuted(e)' => Unexecuted(e) \/ j = i BY <1>1, <3>1 DEF Unexecuted
    <3> HIDE DEF q, j
    <3> QED BY <2>1, <3>1, <3>2, <3>3 DEF Allowed, j
  <2>3. CASE ~PublisherDrops(i)
    <3>1. UNCHANGED pubDrops
      BY <2>3 DEF Start, Subscribed, StartsLocal, SubscriberDrops, Recover,
         PublisherReturns, PublisherEnds, SubscriberReturns
    <3>2. (request'[q] = "ready") = (request[q] = "ready")
      <4>1. UNCHANGED request \/ PublisherReturns(i)
        BY <2>3 DEF Start, Subscribed, StartsLocal, SubscriberDrops, Recover,
           PublisherEnds, SubscriberReturns
      <4> QED BY <2>1, <4>1 DEF PublisherReturns
    <3>3. request[q] = "executed" /\ publisher[j] = "up" =>
            request'[q] = "executed" /\ publisher'[j] = "up"
      <4>1. CASE StartsLocal(i)
        <5>1. request[q] # "ready" => transport[j] = "redis" BY <2>1 DEF CommandKnows
        <5>2. j # i => publisher'[j] = publisher[j]
          BY <1>0, <2>1, <4>1 DEF StartsLocal, FeedTypeOK
        <5>3. transport[i] = "starting" /\ UNCHANGED request BY <4>1 DEF StartsLocal
        <5> QED BY <5>1, <5>2, <5>3
      <4>2. CASE Subscribed(i) \/ SubscriberDrops(i) \/ SubscriberReturns(i)
        BY <4>2 DEF Subscribed, SubscriberDrops, SubscriberReturns
      <4>3. CASE PublisherReturns(i)
        <5>1. publisher[i] = "down" /\ (j # i => publisher'[j] = publisher[j])
          BY <1>0, <2>1, <4>3 DEF PublisherReturns, FeedTypeOK
        <5>2. j # i => request'[q] = request[q] BY <2>1, <4>3 DEF PublisherReturns
        <5> QED BY <5>1, <5>2
      <4>4. CASE PublisherEnds(i)
        BY <1>0, <2>1, <4>4 DEF PublisherEnds, FeedTypeOK
      <4> QED BY <2>3, <4>1, <4>2, <4>3, <4>4 DEF Start, Recover
    <3>4. Begun(e)' = Begun(e) BY <1>1, <3>2 DEF Begun
    <3>5. Unexecuted(e)' => Unexecuted(e) BY <1>1, <3>3 DEF Unexecuted
    <3> HIDE DEF q, j
    <3> QED BY <2>1, <3>1, <3>4, <3>5 DEF Allowed, j
  <2> QED BY <2>2, <2>3
<1> QED BY <1>3, <1>4, NoCopy

\* Pages come and go, which makes no copy.
LEMMA ViewerCopies ==
  ASSUME FInv, FInv', CopiesBounded, NEW p \in Pages, ViewerStep(p)
  PROVE  CopiesBounded'
<1>1. UNCHANGED <<publisher, pubDrops, request, sent, channel>>
  BY DEF ViewerStep, ConnectPage, LeavePage, ClosePage, SocketMoves, redisVars
<1>2. \A o \in Pages : events'[o] = events[o] \/ events'[o] = << >>
  <2>1. UNCHANGED events \/ events' = [events EXCEPT ![p] = << >>]
    BY DEF ViewerStep, ConnectPage, LeavePage, ClosePage
  <2> QED BY <2>1 DEF FInv, FeedTypeOK
<1>3. \A o \in Pages : \A e \in Event : Copies(o, e)' <= Copies(o, e)
  BY <1>1, <1>2, QuietCopies
<1>4. \A e \in Event : Allowed(e) <= Allowed(e)'
  <2> SUFFICES ASSUME NEW e \in Event PROVE Allowed(e) <= Allowed(e)'
    OBVIOUS
  <2>1. Allowed(e)' = Allowed(e) BY <1>1 DEF Allowed, Begun, Unexecuted
  <2>2. Allowed(e) \in Nat BY EventTypes
  <2> QED BY <2>1, <2>2
<1> QED BY <1>3, <1>4, NoCopy

LEMMA CopiesInit == FeedInit => CopiesBounded
<1> SUFFICES ASSUME FeedInit PROVE CopiesBounded
  OBVIOUS
<1> SUFFICES ASSUME NEW p \in Pages, NEW e \in Event PROVE Copies(p, e) <= Allowed(e)
  BY DEF CopiesBounded
<1>1. events[p] = << >> /\ channel[AtInstance[p]] = << >>
  BY ActivityAssumption DEF FeedInit
<1>2. Copies(p, e) = 0 BY <1>1, TimesEmpty DEF Copies
<1>3. FInv BY FInvInit
<1> QED BY <1>2, <1>3, EventTypes

LEMMA CopiesStep ==
  FInv /\ FInv' /\ OInv /\ CopiesBounded /\ [FeedNext]_feedVars => CopiesBounded'
<1> SUFFICES ASSUME FInv, FInv', OInv, CopiesBounded, [FeedNext]_feedVars PROVE CopiesBounded'
  OBVIOUS
<1>0. CommandKnows BY DEF OInv
<1>1. CASE \E q \in Requests : PublishStep(q) BY <1>0, <1>1, PublishCopies
<1>2. CASE \E i \in Instances : Deliver(i) BY <1>2, DeliverCopies
<1>3. CASE \E i \in Instances :
             Start(i) \/ PublisherDrops(i) \/ SubscriberDrops(i) \/ Recover(i)
  BY <1>0, <1>3, ConnectionCopies
<1>4. CASE \E p \in Pages : ViewerStep(p) BY <1>4, ViewerCopies
<1>5. CASE UNCHANGED feedVars
  <2>1. UNCHANGED <<publisher, pubDrops, request, sent, channel, events>>
    BY <1>5 DEF feedVars, redisVars, viewVars
  <2>2. \A p \in Pages : \A e \in Event : Copies(p, e)' <= Copies(p, e) BY <2>1, QuietCopies
  <2>3. \A e \in Event : Allowed(e) <= Allowed(e)'
    <3> SUFFICES ASSUME NEW e \in Event PROVE Allowed(e) <= Allowed(e)'
      OBVIOUS
    <3>1. Allowed(e)' = Allowed(e) BY <2>1 DEF Allowed, Begun, Unexecuted
    <3>2. Allowed(e) \in Nat BY EventTypes
    <3> QED BY <3>1, <3>2
  <2> QED BY <2>2, <2>3, NoCopy
<1> QED BY <1>1, <1>2, <1>3, <1>4, <1>5 DEF FeedNext

\* What a page lists of an event and what is still on the way to it are bounded
\* by how often the connection it was published on has broken.
THEOREM CopiesInductive == FeedSpec => []CopiesBounded
  BY CopiesInit, CopiesStep, FeedInductive, OrderInductive, PTL DEF FeedSpec

\* An event is listed once, and once more for each time the connection of its
\* process broke, whatever is sent again, rejected or delivered late.
THEOREM DuplicatesAreDrops == FeedSpec => []DuplicatesNeedDrops
<1>1. FInv /\ CopiesBounded => DuplicatesNeedDrops
  <2> SUFFICES ASSUME FInv, CopiesBounded, NEW p \in Pages, NEW e \in Event
               PROVE  Times(e, events[p]) <= 1 + pubDrops[AtInstance[e[1]]]
    BY DEF DuplicatesNeedDrops, Times
  <2>1. Times(e, events[p]) \in Nat /\ Times(e, channel[AtInstance[p]]) \in Nat
    <3>1. AtInstance[p] \in Instances BY ActivityAssumption
    <3>2. events[p] \in Seq(Event) /\ channel[AtInstance[p]] \in Seq(Event)
      BY <3>1 DEF FInv, FeedTypeOK
    <3> QED BY <3>2, TimesType
  <2>2. pubDrops[AtInstance[e[1]]] \in Nat BY EventTypes
  <2>3. Allowed(e) <= 1 + pubDrops[AtInstance[e[1]]] BY <2>2 DEF Allowed
  <2>4. Allowed(e) \in Nat BY EventTypes
  <2>5. Times(e, events[p]) + Times(e, channel[AtInstance[p]]) <= Allowed(e)
    BY DEF CopiesBounded, Copies
  <2> QED BY <2>1, <2>2, <2>3, <2>4, <2>5
<1> QED BY FeedInductive, CopiesInductive, <1>1, PTL

===============================================================================
