------------------------------- MODULE Activity --------------------------------
(***************************************************************************)
(* Activity events: ActivityEventService and ActivityGateway of several    *)
(* API processes, the Redis channel between them, and the activity page.   *)
(*                                                                         *)
(* A request publishes its events one after the other and waits for each.  *)
(* With Redis an event goes to the channel, from there to every process    *)
(* that is subscribed, and from each of these to the pages connected to    *)
(* it; without Redis, or when the command is rejected, the process tells   *)
(* its own pages.  publisher[i] and subscriber[i] are the two connections  *)
(* of process i, which break and come back independently.  The client      *)
(* library sends an unanswered command again once it has reconnected,      *)
(* rejects it when the first new attempt fails (maxRetriesPerRequest: 1)   *)
(* and ends the connection for good after the third (retryStrategy).       *)
(***************************************************************************)
EXTENDS Naturals, Sequences, FiniteSets

CONSTANTS
  Instances,        \* API processes
  Viewers,          \* employees
  Requests,         \* calls that publish: chat turns, delegations, decisions
  Pages,            \* open activity pages
  AtInstance,       \* the process that serves a request or a page
  ViewerOf,         \* the employee the events of a request are for
  Nobody,
  EventsPerRequest, \* 3 for a chat turn
  PageSize,         \* 100 in the code
  MaxDrops,         \* bound: how often each connection breaks
  RedisThere        \* Redis is enabled and may answer

ASSUME ActivityAssumption ==
  /\ AtInstance \in [Requests \union Pages -> Instances]
  /\ ViewerOf \in [Requests -> Viewers]
  /\ Nobody \notin Viewers
  /\ EventsPerRequest \in Nat
  /\ PageSize \in Nat \ {0}
  /\ MaxDrops \in Nat
  /\ RedisThere \in BOOLEAN

VARIABLES
  transport,    \* redisAvailable of each process, once onModuleInit is over
  publisher, subscriber,
  pubDrops, subDrops,       \* how often each connection has broken
  request,      \* where each request is in publish
  sent,         \* how many events of the request publish has returned for
  channel,      \* what Redis has sent to each subscriber and is not handled
  fellBack,     \* history: events that fell back to local delivery
  socket,       \* the page's web socket as the server sees it
  clients,      \* ActivityGateway.clients
  viewer,       \* the employee whose token the page connected with
  events        \* what each page lists, newest first

redisVars == <<publisher, subscriber, pubDrops, subDrops>>
viewVars  == <<socket, clients, viewer, events>>
feedVars == <<transport, redisVars, request, sent, channel, fellBack, viewVars>>

Event == Requests \X (1..EventsPerRequest)

Transport  == {"starting", "redis", "local"}
Connection == {"wait", "up", "down", "ended"}
Socket     == {"none", "open", "closing"}

FeedTypeOK ==
  /\ transport  \in [Instances -> Transport]
  /\ publisher  \in [Instances -> Connection]
  /\ subscriber \in [Instances -> Connection]
  /\ pubDrops   \in [Instances -> Nat]
  /\ subDrops   \in [Instances -> Nat]
  /\ request    \in [Requests -> {"ready", "command", "executed"}]
  /\ sent       \in [Requests -> 0..EventsPerRequest]
  /\ channel    \in [Instances -> Seq(Event)]
  /\ fellBack   \subseteq Event
  /\ socket     \in [Pages -> Socket]
  /\ clients    \subseteq Pages
  /\ viewer     \in [Pages -> Viewers \union {Nobody}]
  /\ events     \in [Pages -> Seq(Event)]
  /\ \A p \in Pages : Len(events[p]) <= PageSize

FeedInit ==
  /\ transport = [i \in Instances |-> "starting"]
  /\ publisher = [i \in Instances |-> "wait"]
  /\ subscriber = [i \in Instances |-> "wait"]
  /\ pubDrops = [i \in Instances |-> 0]
  /\ subDrops = [i \in Instances |-> 0]
  /\ request = [q \in Requests |-> "ready"]
  /\ sent = [q \in Requests |-> 0]
  /\ channel = [i \in Instances |-> << >>]
  /\ fellBack = {}
  /\ socket = [p \in Pages |-> "none"]
  /\ clients = {}
  /\ viewer = [p \in Pages |-> Nobody]
  /\ events = [p \in Pages |-> << >>]

\* The event the request publishes or is about to publish.
Current(q) == <<q, sent[q] + 1>>

-------------------------------------------------------------------------------
(* ActivityEventService.onModuleInit *)

\* The subscription is answered within 1.8 s.
Subscribed(i) ==
  /\ RedisThere
  /\ transport[i] = "starting"
  /\ transport' = [transport EXCEPT ![i] = "redis"]
  /\ subscriber' = [subscriber EXCEPT ![i] = "up"]
  /\ UNCHANGED <<publisher, pubDrops, subDrops, request, sent, channel, fellBack, viewVars>>

\* It is not, or throws: both connections are given up and never tried again.
StartsLocal(i) ==
  /\ transport[i] = "starting"
  /\ transport' = [transport EXCEPT ![i] = "local"]
  /\ publisher' = [publisher EXCEPT ![i] = "ended"]
  /\ subscriber' = [subscriber EXCEPT ![i] = "ended"]
  /\ UNCHANGED <<pubDrops, subDrops, request, sent, channel, fellBack, viewVars>>

-------------------------------------------------------------------------------
(* notifyListeners and ActivityGateway.broadcast *)

\* (mutant) Every page of the process gets the event.
MeantForAll(p, e) == TRUE

\* The company is left out: an employee belongs to one.
MeantFor(p, e) == viewer[p] = ViewerOf[e[1]]

\* (mutant) The list grows.
OnTopUncut(e, list) == <<e>> \o list

\* (mutant) The event goes to the end of the list.
OnTopAtBottom(e, list) == IF Len(list) < PageSize THEN Append(list, e) ELSE list

\* The page puts the event on top of its list, which it cuts.
OnTop(e, list) ==
  LET l == <<e>> \o list IN IF Len(l) > PageSize THEN SubSeq(l, 1, PageSize) ELSE l

Gets(i, p, e) ==
  p \in clients /\ AtInstance[p] = i /\ socket[p] = "open" /\ MeantFor(p, e)

\* The gateway drops the sockets it finds closing.
Broadcast(i, e) ==
  /\ clients' = clients \ {p \in clients : AtInstance[p] = i /\ socket[p] # "open"}
  /\ events' = [p \in Pages |-> IF Gets(i, p, e) THEN OnTop(e, events[p]) ELSE events[p]]
  /\ UNCHANGED <<socket, viewer>>

-------------------------------------------------------------------------------
(* ActivityEventService.publish *)

Returned(q) ==
  /\ request' = [request EXCEPT ![q] = "ready"]
  /\ sent' = [sent EXCEPT ![q] = @ + 1]

HasMore(q) == request[q] = "ready" /\ sent[q] < EventsPerRequest

\* Requests are served once the process has started.
PublishLocally(q) ==
  /\ HasMore(q)
  /\ transport[AtInstance[q]] = "local"
  /\ Broadcast(AtInstance[q], Current(q))
  /\ Returned(q)
  /\ UNCHANGED <<transport, redisVars, channel, fellBack>>

\* The first command opens the connection (lazyConnect).
PublishToRedis(q) ==
  /\ HasMore(q)
  /\ transport[AtInstance[q]] = "redis"
  /\ request' = [request EXCEPT ![q] = "command"]
  /\ publisher' = [publisher EXCEPT ![AtInstance[q]] = IF @ = "wait" THEN "up" ELSE @]
  /\ UNCHANGED <<transport, subscriber, pubDrops, subDrops, sent, channel, fellBack, viewVars>>

\* Redis takes the command and sends the event to everybody subscribed.
RedisExecutes(q) ==
  /\ request[q] = "command"
  /\ publisher[AtInstance[q]] = "up"
  /\ request' = [request EXCEPT ![q] = "executed"]
  /\ channel' = [i \in Instances |->
       IF subscriber[i] = "up" THEN Append(channel[i], Current(q)) ELSE channel[i]]
  /\ UNCHANGED <<transport, redisVars, sent, fellBack, viewVars>>

RedisAnswers(q) ==
  /\ request[q] = "executed"
  /\ publisher[AtInstance[q]] = "up"
  /\ Returned(q)
  /\ UNCHANGED <<transport, redisVars, channel, fellBack, viewVars>>

\* (mutant) The pages of the process are not told.
RejectedUnheard(q) ==
  /\ request[q] # "ready"
  /\ publisher[AtInstance[q]] \in {"down", "ended"}
  /\ fellBack' = fellBack \union {Current(q)}
  /\ Returned(q)
  /\ UNCHANGED <<transport, redisVars, channel, viewVars>>

\* (mutant) The rejected command stays in the queue of the client library.
RejectedAndKept(q) ==
  /\ request[q] # "ready"
  /\ publisher[AtInstance[q]] \in {"down", "ended"}
  /\ fellBack' = fellBack \union {Current(q)}
  /\ Broadcast(AtInstance[q], Current(q))
  /\ UNCHANGED <<transport, redisVars, request, sent, channel>>

\* The command is rejected while the connection is down, whether or not Redis
\* has executed it: the pages of this process are told.
Rejected(q) ==
  /\ request[q] # "ready"
  /\ publisher[AtInstance[q]] \in {"down", "ended"}
  /\ fellBack' = fellBack \union {Current(q)}
  /\ Broadcast(AtInstance[q], Current(q))
  /\ Returned(q)
  /\ UNCHANGED <<transport, redisVars, channel>>

\* The message listener of the subscriber.
Deliver(i) ==
  /\ channel[i] # << >>
  /\ Broadcast(i, Head(channel[i]))
  /\ channel' = [channel EXCEPT ![i] = Tail(@)]
  /\ UNCHANGED <<transport, redisVars, request, sent, fellBack>>

-------------------------------------------------------------------------------
(* The two connections of a process to Redis *)

PublisherDrops(i) ==
  /\ publisher[i] = "up"
  /\ pubDrops[i] < MaxDrops
  /\ publisher' = [publisher EXCEPT ![i] = "down"]
  /\ pubDrops' = [pubDrops EXCEPT ![i] = @ + 1]
  /\ UNCHANGED <<transport, subscriber, subDrops, request, sent, channel, fellBack, viewVars>>

\* A command without an answer is sent again.
PublisherReturns(i) ==
  /\ publisher[i] = "down"
  /\ publisher' = [publisher EXCEPT ![i] = "up"]
  /\ request' = [q \in Requests |->
       IF AtInstance[q] = i /\ request[q] = "executed" THEN "command" ELSE request[q]]
  /\ UNCHANGED <<transport, subscriber, pubDrops, subDrops, sent, channel, fellBack, viewVars>>

PublisherEnds(i) ==
  /\ publisher[i] = "down"
  /\ publisher' = [publisher EXCEPT ![i] = "ended"]
  /\ UNCHANGED <<transport, subscriber, pubDrops, subDrops, request, sent, channel, fellBack,
                 viewVars>>

\* What was on the way is gone.
SubscriberDrops(i) ==
  /\ subscriber[i] = "up"
  /\ subDrops[i] < MaxDrops
  /\ subscriber' = [subscriber EXCEPT ![i] = "down"]
  /\ subDrops' = [subDrops EXCEPT ![i] = @ + 1]
  /\ channel' = [channel EXCEPT ![i] = << >>]
  /\ UNCHANGED <<transport, publisher, pubDrops, request, sent, fellBack, viewVars>>

\* Back and subscribed again, or ended for good; redisAvailable stays true.
SubscriberReturns(i) ==
  /\ subscriber[i] = "down"
  /\ \E s \in {"up", "ended"} : subscriber' = [subscriber EXCEPT ![i] = s]
  /\ UNCHANGED <<transport, publisher, pubDrops, subDrops, request, sent, channel, fellBack,
                 viewVars>>

-------------------------------------------------------------------------------
(* The activity page, and ActivityGateway.handleConnection *)

SocketMoves(p, from, to) ==
  /\ socket[p] = from
  /\ socket' = [socket EXCEPT ![p] = to]
  /\ UNCHANGED <<transport, redisVars, request, sent, channel, fellBack>>

\* The gateway registers the socket for the employee of its token.
HandleConnection(p) ==
  /\ clients' = clients \union {p}
  /\ \E a \in Viewers : viewer' = [viewer EXCEPT ![p] = a]

\* The page has validated its session and opens the socket.  A page whose
\* session is refused stays as it is.
ConnectPage(p) ==
  /\ transport[AtInstance[p]] # "starting"
  /\ SocketMoves(p, "none", "open")
  /\ HandleConnection(p)
  /\ UNCHANGED events

\* The page is left or its connection breaks; it does not connect again, and
\* what it listed no longer changes.
LeavePage(p) ==
  /\ SocketMoves(p, "open", "closing")
  /\ viewer' = [viewer EXCEPT ![p] = Nobody]
  /\ events' = [events EXCEPT ![p] = << >>]
  /\ UNCHANGED clients

\* The close listener of the socket.  The employee may open the page anew.
ClosePage(p) ==
  /\ SocketMoves(p, "closing", "none")
  /\ clients' = clients \ {p}
  /\ UNCHANGED <<viewer, events>>

-------------------------------------------------------------------------------

Start(i) == Subscribed(i) \/ StartsLocal(i)

PublishStep(q) ==
  \/ PublishLocally(q) \/ PublishToRedis(q)
  \/ RedisExecutes(q) \/ RedisAnswers(q) \/ Rejected(q)

Recover(i) == PublisherReturns(i) \/ PublisherEnds(i) \/ SubscriberReturns(i)

ViewerStep(p) == ConnectPage(p) \/ LeavePage(p) \/ ClosePage(p)

FeedNext ==
  \/ \E q \in Requests : PublishStep(q)
  \/ \E i \in Instances :
       Start(i) \/ Deliver(i) \/ PublisherDrops(i) \/ SubscriberDrops(i) \/ Recover(i)
  \/ \E p \in Pages : ViewerStep(p)

FeedSpec == FeedInit /\ [][FeedNext]_feedVars

\* A command that Redis has is answered, what it sent is handled, and timers of
\* a broken connection fire.  Pages come and go, and nobody has to publish.
FeedFairness ==
  /\ \A q \in Requests : WF_feedVars(RedisExecutes(q) \/ RedisAnswers(q) \/ Rejected(q))
  /\ \A i \in Instances : WF_feedVars(Deliver(i))

-------------------------------------------------------------------------------
(* Properties *)

Lists(p, e) == \E k \in DOMAIN events[p] : events[p][k] = e

Begun(e) == sent[e[1]] >= e[2] \/ (sent[e[1]] + 1 = e[2] /\ request[e[1]] # "ready")

\* Whatever process an event travels through, a page lists only events that
\* were published for the employee whose token it presented.
ListsOwnEvents ==
  \A p \in Pages : \A k \in DOMAIN events[p] :
    ViewerOf[events[p][k][1]] = viewer[p] /\ Begun(events[p][k])

\* An event is listed twice only because the connection it was published on has
\* broken: once more for each time, by the repeated command or by the fallback
\* after a command that Redis had executed.
DuplicatesNeedDrops ==
  \A p \in Pages : \A e \in Event :
    Cardinality({k \in DOMAIN events[p] : events[p][k] = e})
      <= 1 + pubDrops[AtInstance[e[1]]]

\* A page lists the events of a request, repeated ones included, in the order
\* they were published in (newest first); only an event that fell back to local
\* delivery overtakes those still on the channel.
OrderKept ==
  \A p \in Pages : \A k, l \in DOMAIN events[p] :
    LET e == events[p][k]  f == events[p][l] IN
    k < l /\ e[1] = f[1] /\ e[2] < f[2] => f \in fellBack

\* Why an event may miss a page that stays open: the subscription of the page's
\* process broke, or the event never got to another process.
Missed(p, e) ==
  LET i == AtInstance[e[1]]  j == AtInstance[p] IN
  \/ subDrops[j] > 0
  \/ i # j /\ (transport[j] # "redis" \/ transport[i] # "redis" \/ e \in fellBack)

\* An event that a request publishes while a page of its employee is open is
\* listed there, or was missed for one of these reasons, or the page closed.
EventsReachPages ==
  \A p \in Pages : \A e \in Event :
    /\ viewer[p] = ViewerOf[e[1]]
    /\ request[e[1]] = "command" /\ Current(e[1]) = e
    ~> Lists(p, e) \/ viewer[p] = Nobody \/ Missed(p, e)

===============================================================================
