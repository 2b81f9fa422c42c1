---------------------------- MODULE RequestRoutes ----------------------------
(***************************************************************************)
(* Request routes (src/src/state.rs): a session that forwards a command    *)
(* with a request_id to the backend binds the id to its connection; the    *)
(* outbox consumer sends a response with that id to this connection alone, *)
(* or to the subjects of the entry when the route is missing or stale      *)
(* (src/src/broker.rs:340-375).                                            *)
(*                                                                         *)
(* The tasks are the sessions, the consumer and one that stands for all    *)
(* who unregister a connection of others (pruner, evicting sessions).  On  *)
(* several worker threads their steps interleave at each access to the     *)
(* route map.  The subject index and the pending queues are those of       *)
(* ConnectionRegistry and MessageDelivery; here a dispatch to subjects is  *)
(* one step.  The backend, which is external, answers what it read from    *)
(* the inbox, under the subjects of the sender, whenever it likes.         *)
(***************************************************************************)
EXTENDS Integers, Sequences, FiniteSets

CONSTANTS
  Conn,          \* connection ids, each used by one session
  UserOf,        \* the user a connection is authenticated as
  RequestId,     \* request ids, which the clients choose
  Outbox,        \* the task of the outbox consumer
  Evictor,       \* the task that unregisters connections of others
  MaxTime,       \* bound: the clock, in seconds
  MaxRequests,   \* bound: commands with a request id
  RouteTTL,      \* REQUEST_ROUTE_TTL_SECONDS
  RouteMax,      \* REQUEST_ROUTE_MAX
  Workers        \* worker threads of the runtime

Task == Conn \cup {Outbox, Evictor}

ASSUME RoutesAssumption ==
  /\ Outbox \notin Conn /\ Evictor \notin Conn /\ Outbox # Evictor
  /\ MaxTime \in Nat /\ MaxRequests \in Nat /\ RouteTTL \in Nat /\ RouteMax \in Nat
  /\ Workers \in Nat \ {0}

VARIABLES
  now,           \* the clock
  connections,   \* the registered connections
  session,       \* "new", "open" (its receiver is alive) or "closed"
  routes,        \* the route of a request id, or NoRoute
  step,          \* where a task is
  target,        \* the connections a task has unregistered
  todo,          \* the request ids whose routes a task is about to remove
  command,       \* the request a session is about to publish, 0 when there is none
  found,         \* the route the consumer has read
  requests,      \* commands with a request id, in the order they were bound
  inbox,         \* which of them the backend has read and not answered
  outbox,        \* responses to them that the consumer has not read
  answer,        \* the response the consumer handles, 0 when there is none
  received,      \* history: who got the response to a request
  buffered,      \* history: responses that wait in pending queues
  late           \* history: requests bound after their connection was unregistered

tasks    == <<step, target, todo, command>>
consumer == <<found, answer>>
backend  == <<inbox, outbox>>
history  == <<requests, received, buffered, late>>
vars     == <<now, connections, session, routes, tasks, consumer, backend, history>>

NoRoute == [conn |-> "none"]

Route == [conn : Conn, at : 0..MaxTime]

Request == [id : RequestId, by : Conn, at : 0..MaxTime]

Number == 1..MaxRequests

Steps == {"rest", "prune", "collect", "remove", "check", "send", "drop", "fallback"}

(* Type invariant: the route map, and what the tasks have in hand. *)
TypeOK ==
  /\ now \in 0..MaxTime
  /\ connections \subseteq Conn
  /\ session \in [Conn -> {"new", "open", "closed"}]
  /\ routes \in [RequestId -> Route \cup {NoRoute}]
  /\ step \in [Task -> Steps]
  /\ target \in [Task -> SUBSET Conn]
  /\ todo \in [Task -> SUBSET RequestId]
  /\ command \in [Conn -> 0..Len(requests)]
  /\ found \in Route \cup {NoRoute}
  /\ requests \in Seq(Request) /\ Len(requests) <= MaxRequests
  /\ inbox \subseteq DOMAIN requests
  /\ outbox \in Seq(DOMAIN requests)
  /\ answer \in {0} \cup DOMAIN requests
  /\ answer = 0 <=> step[Outbox] = "rest"
  /\ received \in [Number -> SUBSET Conn]
  /\ buffered \subseteq DOMAIN requests
  /\ late \subseteq DOMAIN requests

Init ==
  /\ now = 0
  /\ connections = {}
  /\ session = [c \in Conn |-> "new"]
  /\ routes = [r \in RequestId |-> NoRoute]
  /\ step = [t \in Task |-> "rest"]
  /\ target = [t \in Task |-> {}]
  /\ todo = [t \in Task |-> {}]
  /\ command = [c \in Conn |-> 0]
  /\ found = NoRoute
  /\ requests = <<>>
  /\ inbox = {}
  /\ outbox = <<>>
  /\ answer = 0
  /\ received = [n \in Number |-> {}]
  /\ buffered = {}
  /\ late = {}

Busy == {t \in Task : step[t] # "rest"}

WorkerFree == Cardinality(Busy) < Workers

Go(t, s) == step' = [step EXCEPT ![t] = s]

Tick ==
  /\ now < MaxTime
  /\ now' = now + 1
  /\ UNCHANGED <<connections, session, routes, tasks, consumer, backend, history>>

-----------------------------------------------------------------------------
(* Sessions and their connections *)

Register(c) ==
  /\ session[c] = "new"
  /\ session' = [session EXCEPT ![c] = "open"]
  /\ connections' = connections \cup {c}
  /\ UNCHANGED <<now, routes, tasks, consumer, backend, history>>

(* The session loop breaks, which drops the receiver. *)
Leave(c) ==
  /\ session[c] = "open"
  /\ step[c] = "rest"
  /\ session' = [session EXCEPT ![c] = "closed"]
  /\ UNCHANGED <<now, connections, routes, tasks, consumer, backend, history>>

(* unregister_connection removes the handle, then looks for its routes. *)
Unregister(t, C) ==
  /\ connections' = connections \ C
  /\ target' = [target EXCEPT ![t] = C]
  /\ Go(t, "collect")

UnregisterSelf(c) ==
  /\ session[c] = "closed"
  /\ step[c] = "rest"
  /\ c \in connections
  /\ WorkerFree
  /\ Unregister(c, {c})
  /\ UNCHANGED <<now, session, routes, todo, command, consumer, backend, history>>

Evict(c) ==
  /\ step[Evictor] = "rest"
  /\ c \in connections
  /\ WorkerFree
  /\ Unregister(Evictor, {c})
  /\ UNCHANGED <<now, session, routes, todo, command, consumer, backend, history>>

RoutesOfNone(C) == {}  \* mutant: unregister_connection leaves the routes alone

RoutesOf(C) == {r \in RequestId : routes[r] # NoRoute /\ routes[r].conn \in C}

FinishKept ==  \* mutant: the entry stays in hand
  /\ Go(Outbox, "rest")
  /\ found' = NoRoute
  /\ UNCHANGED <<answer, inbox>>

(* The consumer is through with the entry in its hands. *)
Finish ==
  /\ Go(Outbox, "rest")
  /\ found' = NoRoute
  /\ answer' = 0
  /\ UNCHANGED inbox

(* A task is through with removing routes.  A session that has bound one   *)
(* publishes the command to the inbox; the XADD it awaits is taken as done *)
(* (if it fails, or if the command is a relay command that is refused, the *)
(* backend does not answer, which it need not do anyway).  The consumer    *)
(* has unregistered a connection with a dead receiver: in                  *)
(* send_to_connection the route is next, in send_to_subjects that was all. *)
Continue(t) ==
  \/ /\ t = Outbox
     /\ IF found # NoRoute THEN Go(t, "drop") /\ UNCHANGED <<consumer, inbox>> ELSE Finish
     /\ UNCHANGED command
  \/ /\ t \in Conn /\ command[t] # 0
     /\ Go(t, "rest")
     /\ inbox' = inbox \cup {command[t]}
     /\ command' = [command EXCEPT ![t] = 0]
     /\ UNCHANGED consumer
  \/ /\ \/ t = Evictor
        \/ t \in Conn /\ command[t] = 0
     /\ Go(t, "rest")
     /\ UNCHANGED <<command, consumer, inbox>>

(* The keys in R are next to be removed. *)
Removing(t, R) ==
  /\ todo' = [todo EXCEPT ![t] = R]
  /\ IF R = {} THEN Continue(t) ELSE Go(t, "remove") /\ UNCHANGED <<command, consumer, inbox>>

CollectRoutes(t) ==
  /\ step[t] = "collect"
  /\ Removing(t, RoutesOf(target[t]))
  /\ target' = [target EXCEPT ![t] = {}]
  /\ UNCHANGED <<now, connections, session, routes, outbox, history>>

(* request_routes.remove(key), whatever the key holds by now. *)
RemoveRoute(t) ==
  /\ step[t] = "remove"
  /\ \E r \in todo[t] :
       /\ routes' = [routes EXCEPT ![r] = NoRoute]
       /\ Removing(t, todo[t] \ {r})
  /\ UNCHANGED <<now, connections, session, target, outbox, history>>

-----------------------------------------------------------------------------
(* handle_client_message, for a command with a request_id and a step to the *)
(* backend.                                                                 *)

(* bind_request_route: a route of the same id is overwritten, whosever it  *)
(* was.  The session need not know yet that its connection is gone.        *)
Bind(c) ==
  /\ session[c] = "open"
  /\ step[c] = "rest"
  /\ WorkerFree
  /\ Len(requests) < MaxRequests
  /\ \E r \in RequestId :
       /\ routes' = [routes EXCEPT ![r] = [conn |-> c, at |-> now]]
       /\ requests' = Append(requests, [id |-> r, by |-> c, at |-> now])
  /\ late' = IF c \in connections THEN late ELSE late \cup {Len(requests) + 1}
  /\ command' = [command EXCEPT ![c] = Len(requests) + 1]
  /\ Go(c, "prune")
  /\ UNCHANGED <<now, connections, session, target, todo, consumer, backend, received, buffered>>

StaleEarly(r) ==  \* mutant: >= for >
  /\ routes[r] # NoRoute
  /\ now - routes[r].at >= RouteTTL \/ routes[r].conn \notin connections

Stale(r) ==
  /\ routes[r] # NoRoute
  /\ now - routes[r].at > RouteTTL \/ routes[r].conn \notin connections

(* prune_request_routes, whose iteration is taken as one access. *)
PruneRoutes(c) ==
  /\ step[c] = "prune"
  /\ Removing(c, IF Cardinality({r \in RequestId : routes[r] # NoRoute}) <= RouteMax THEN {}
                 ELSE {r \in RequestId : Stale(r)})
  /\ UNCHANGED <<now, connections, session, routes, target, outbox, history>>

(* External: the backend answers a command it has read. *)
Answer ==
  /\ \E n \in inbox : inbox' = inbox \ {n} /\ outbox' = Append(outbox, n)
  /\ UNCHANGED <<now, connections, session, routes, tasks, consumer, history>>

-----------------------------------------------------------------------------
(* start_outbox_consumer, for an entry with a request_id *)

Id(n)   == requests[n].id
User(n) == UserOf[requests[n].by]

(* resolve_request_route: the lookup and the age of the route. *)
ResolveGet(n) ==
  /\ found' = routes[Id(n)]
  /\ Go(Outbox, IF routes[Id(n)] = NoRoute THEN "fallback"
                ELSE IF now - routes[Id(n)].at > RouteTTL THEN "drop" ELSE "check")

(* The next entry, whose route is looked up first. *)
Take ==
  /\ step[Outbox] = "rest"
  /\ WorkerFree
  /\ outbox # <<>>
  /\ answer' = Head(outbox)
  /\ outbox' = Tail(outbox)
  /\ ResolveGet(Head(outbox))
  /\ UNCHANGED <<now, connections, session, routes, target, todo, command, inbox, history>>

MatchesAlways(c) == TRUE  \* mutant: the subjects of the entry are not looked at

MatchesSubject(c) == UserOf[c] = User(answer)

(* The user of a route is the user of its connection, which does not       *)
(* change, so the comparison of the two cannot fail and is left out.       *)
ResolveCheck ==
  /\ step[Outbox] = "check"
  /\ Go(Outbox, IF found.conn \notin connections THEN "drop"
                ELSE IF MatchesSubject(found.conn) THEN "send" ELSE "fallback")
  /\ UNCHANGED <<now, connections, session, routes, target, todo, command, consumer, backend, history>>

(* send_to_connection *)
SendRoute ==
  /\ step[Outbox] = "send"
  /\ \/ /\ found.conn \in connections /\ session[found.conn] = "open"
        /\ received' = [received EXCEPT ![answer] = @ \cup {found.conn}]
        /\ Finish
        /\ UNCHANGED <<connections, target>>
     \/ /\ found.conn \in connections /\ session[found.conn] = "closed"
        /\ Unregister(Outbox, {found.conn})
        /\ UNCHANGED <<received, consumer, inbox>>
     \/ /\ found.conn \notin connections
        /\ Go(Outbox, "drop")
        /\ UNCHANGED <<connections, target, received, consumer, inbox>>
  /\ UNCHANGED <<now, session, routes, todo, command, outbox, requests, buffered, late>>

(* The route is removed: by resolve_request_route, which found it stale,   *)
(* or by clear_request_route, after the send has failed.                   *)
DropRoute ==
  /\ step[Outbox] = "drop"
  /\ routes' = [routes EXCEPT ![Id(answer)] = NoRoute]
  /\ Go(Outbox, "fallback")
  /\ UNCHANGED <<now, connections, session, target, todo, command, consumer, backend, history>>

BuffersNever(R) == FALSE  \* mutant: as if the response were for the route only

Buffers(R) == R = {}

(* send_to_subjects, which unregisters connections with a dead receiver *)
(* and buffers the response when it reached nobody.                     *)
Fallback ==
  /\ step[Outbox] = "fallback"
  /\ LET ofUser == {c \in connections : UserOf[c] = User(answer)}
         R == {c \in ofUser : session[c] = "open"}
     IN /\ received' = [received EXCEPT ![answer] = @ \cup R]
        /\ buffered' = IF Buffers(R) THEN buffered \cup {answer} ELSE buffered
        /\ IF ofUser = R
             THEN Finish /\ UNCHANGED <<connections, target>>
             ELSE Unregister(Outbox, ofUser \ R) /\ found' = NoRoute /\ UNCHANGED <<answer, inbox>>
  /\ UNCHANGED <<now, session, routes, todo, command, outbox, requests, late>>

-----------------------------------------------------------------------------
Next ==
  \/ Tick \/ Answer
  \/ Take \/ ResolveCheck \/ SendRoute \/ DropRoute \/ Fallback
  \/ \E c \in Conn :
       \/ Register(c) \/ Leave(c) \/ UnregisterSelf(c) \/ Evict(c)
       \/ Bind(c) \/ PruneRoutes(c)
  \/ \E t \in Task : CollectRoutes(t) \/ RemoveRoute(t)

Spec == Init /\ [][Next]_vars

-----------------------------------------------------------------------------
(***************************************************************************)
(* Clients choose their request ids, so two users can use the same one:    *)
(* still a response is enqueued to connections of the user it is for only, *)
(* by the route as by the fallback (src/src/state.rs:461-468).             *)
(***************************************************************************)
Confined ==
  \A n \in DOMAIN requests :
    \A c \in received[n] : UserOf[c] = UserOf[requests[n].by]

(***************************************************************************)
(* The response to a request whose id was bound once goes to the session   *)
(* that sent it and to no other of the user's, if this session is still    *)
(* connected and RouteTTL has not passed: whatever is unregistered, pruned *)
(* or dropped meanwhile, the route of a live session stays                 *)
(* (src/src/broker.rs:348-362, src/src/state.rs:242-260, 811-816).         *)
(***************************************************************************)
FreshId(n) == \A m \in DOMAIN requests : m # n => requests[m].id # requests[n].id

RoutedToSender ==
  [][\A n \in DOMAIN requests :
       received'[n] # received[n] /\ FreshId(n)
         => LET c == requests[n].by
            IN (c \in connections /\ session[c] = "open" /\ now - requests[n].at <= RouteTTL)
                 => received'[n] = {c}]_vars

(***************************************************************************)
(* A response is not lost between its route and its subjects: when the     *)
(* consumer is through with it, it is in the channel of a live session or  *)
(* in the pending queues (src/src/broker.rs:363-375).                      *)
(***************************************************************************)
AnswerKept ==
  [][answer # 0 /\ answer' # answer
       => received'[answer] # {} \/ answer \in buffered']_vars

(***************************************************************************)
(* Unregistering a connection leaves no route to it behind, except those   *)
(* its session binds afterwards, before it notices (src/src/state.rs:      *)
(* 807-816): a route to a connection that is gone is about to be removed   *)
(* or was bound late.                                                      *)
(***************************************************************************)
RoutesCleaned ==
  \A r \in RequestId :
    routes[r] # NoRoute /\ routes[r].conn \notin connections =>
      \/ \E n \in late : requests[n].id = r /\ requests[n].by = routes[r].conn
      \/ \E t \in Task : \/ step[t] = "collect" /\ routes[r].conn \in target[t]
                         \/ step[t] = "remove" /\ r \in todo[t]
=============================================================================
