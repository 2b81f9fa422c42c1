------------------------- MODULE RequestRoutes_proofs -------------------------
(***************************************************************************)
(* Proofs about RequestRoutes, for every set of connections, users and     *)
(* request ids, all limits and any number of worker threads:               *)
(*                                                                         *)
(*   TypeCorrect         Spec => []TypeOK                                  *)
(*   AnswersConfined     Spec => []Confined                                *)
(*   NoRouteLeft         Spec => []RoutesCleaned                           *)
(*   NoAnswerLost        Spec => AnswerKept                                *)
(*   ResponseToSender    Spec => RoutedToSender                            *)
(***************************************************************************)
EXTENDS RequestRoutes, TLAPS

-----------------------------------------------------------------------------
(* Types *)

(* Which steps a task can be at, and what it has in hand there. *)
Control ==
  /\ step[Evictor] \in {"rest", "collect", "remove"}
  /\ step[Outbox] # "prune"
  /\ \A c \in Conn : step[c] \in {"rest", "prune", "collect", "remove"}
  /\ step[Outbox] \in {"check", "send"} => found # NoRoute

LEMMA TaskParts == Conn \subseteq Task /\ Outbox \in Task /\ Evictor \in Task
BY DEF Task

(* What the end of a loop over routes changes, for every task. *)
LEMMA RemovingEffect ==
  ASSUME TypeOK, NEW t \in Task, step[t] # "rest",
         NEW R \in SUBSET RequestId, Removing(t, R)
  PROVE  /\ todo' = [todo EXCEPT ![t] = R]
         /\ \E s \in {"rest", "remove", "drop"} :
              /\ step' = [step EXCEPT ![t] = s]
              /\ s = "remove" <=> R # {}
              /\ s = "drop" => t = Outbox
              /\ IF t = Outbox /\ s = "rest" THEN answer' = 0 /\ found' = NoRoute
                                             ELSE UNCHANGED <<answer, found>>
         /\ command' \in [Conn -> 0..Len(requests)]
         /\ inbox' \subseteq DOMAIN requests
<1>1. requests \in Seq(Request) /\ DOMAIN requests = 1..Len(requests) /\ Len(requests) \in Nat
  BY DEF TypeOK
<1>2. CASE R # {}
  BY <1>1, <1>2 DEF Removing, Go, TypeOK, consumer
<1>3. CASE R = {}
  <2>1. todo' = [todo EXCEPT ![t] = R] /\ Continue(t)
    BY <1>3 DEF Removing
  <2>2. CASE t = Outbox
    <3>1. t \notin Conn /\ t # Evictor
      BY <2>2, RoutesAssumption
    <3> QED
      BY <1>1, <1>3, <2>1, <2>2, <3>1 DEF Continue, Finish, Go, TypeOK, consumer
  <2>3. CASE t # Outbox
    <3>1. step' = [step EXCEPT ![t] = "rest"] /\ UNCHANGED <<answer, found>>
      BY <2>1, <2>3 DEF Continue, Go, consumer
    <3>2. command' \in [Conn -> 0..Len(requests)] /\ inbox' \subseteq DOMAIN requests
      <4>1. CASE t \in Conn /\ command[t] # 0
        <5>1. command[t] \in DOMAIN requests
          <6>1. command[t] \in 0..Len(requests)
            BY <4>1 DEF TypeOK
          <6> QED
            BY <1>1, <4>1, <6>1
        <5>2. inbox' = inbox \cup {command[t]} /\ command' = [command EXCEPT ![t] = 0]
          BY <2>1, <2>3, <4>1, RoutesAssumption DEF Continue
        <5>3. 0 \in 0..Len(requests)
          BY <1>1
        <5> QED
          BY <5>1, <5>2, <5>3 DEF TypeOK
      <4>2. CASE ~(t \in Conn /\ command[t] # 0)
        <5>1. UNCHANGED <<command, inbox>>
          BY <2>1, <2>3, <4>2 DEF Continue
        <5> QED
          BY <5>1 DEF TypeOK
      <4> QED
        BY <4>1, <4>2
    <3> QED
      BY <1>3, <2>1, <2>3, <3>1, <3>2
  <2> QED
    BY <2>2, <2>3
<1> QED
  BY <1>2, <1>3

LEMMA InitType == Init => TypeOK /\ Control
<1> SUFFICES ASSUME Init
             PROVE  TypeOK /\ Control
  OBVIOUS
<1>1. <<>> \in Seq(Request) /\ Len(<<>>) = 0 /\ DOMAIN <<>> = {}
  OBVIOUS
<1>2. outbox \in Seq(DOMAIN requests)
  BY DEF Init
<1> QED
  BY <1>1, <1>2, RoutesAssumption, TaskParts DEF Init, TypeOK, Control, Steps

LEMMA TypeStep == TypeOK /\ Control /\ [Next]_vars => TypeOK' /\ Control'
<1> SUFFICES ASSUME TypeOK, Control, [Next]_vars
             PROVE  TypeOK' /\ Control'
  OBVIOUS
<1> USE RoutesAssumption, TaskParts DEF tasks, consumer, backend, history
<1>0. /\ DOMAIN requests = 1..Len(requests) /\ Len(requests) \in Nat
      /\ DOMAIN requests \subseteq Number
  BY DEF TypeOK, Number
<1>1. ASSUME Tick
      PROVE  TypeOK' /\ Control'
  <2>1. now' \in 0..MaxTime
    BY <1>1 DEF Tick, TypeOK
  <2> QED
    BY <1>1, <2>1 DEF Tick, TypeOK, Control
<1>2. ASSUME Answer
      PROVE  TypeOK' /\ Control'
  <2>1. outbox' \in Seq(DOMAIN requests) /\ inbox' \subseteq DOMAIN requests
    BY <1>2 DEF Answer, TypeOK
  <2> QED
    BY <1>2, <2>1 DEF Answer, TypeOK, Control
<1>3. ASSUME Take
      PROVE  TypeOK' /\ Control'
  <2>1. Head(outbox) \in DOMAIN requests /\ outbox' \in Seq(DOMAIN requests)
    BY <1>3 DEF Take, TypeOK
  <2>2. requests[Head(outbox)] \in Request
    BY <1>0, <2>1 DEF TypeOK
  <2>3. Id(Head(outbox)) \in RequestId
    BY <2>2 DEF Id, Request
  <2>4. found' \in Route \cup {NoRoute}
    BY <1>3, <2>3 DEF Take, ResolveGet, TypeOK
  <2>5. \E s \in {"fallback", "drop", "check"} :
          step' = [step EXCEPT ![Outbox] = s] /\ (s = "check" => found' # NoRoute)
    BY <1>3 DEF Take, ResolveGet, Go
  <2> QED
    BY <1>0, <1>3, <2>1, <2>4, <2>5 DEF Take, TypeOK, Control, Steps
<1>4. ASSUME ResolveCheck
      PROVE  TypeOK' /\ Control'
  BY <1>4 DEF ResolveCheck, Go, TypeOK, Control, Steps
<1>5. ASSUME SendRoute
      PROVE  TypeOK' /\ Control'
  <2>1. answer \in Number /\ found.conn \in Conn
    BY <1>0, <1>5 DEF SendRoute, TypeOK, Control, Route
  <2>2. \E s \in {"rest", "collect", "drop"} :
          /\ step' = [step EXCEPT ![Outbox] = s]
          /\ answer' = IF s = "rest" THEN 0 ELSE answer
    BY <1>5 DEF SendRoute, Unregister, Finish, Go
  <2>3. /\ connections' \subseteq Conn
        /\ target' \in [Task -> SUBSET Conn]
        /\ received' \in [Number -> SUBSET Conn]
        /\ found' \in Route \cup {NoRoute}
        /\ inbox' = inbox
    BY <1>5, <2>1 DEF SendRoute, Unregister, Finish, TypeOK
  <2>4. UNCHANGED <<now, session, routes, todo, command, outbox, requests, buffered, late>>
    BY <1>5 DEF SendRoute
  <2>5. TypeOK'
    <3>1. step' \in [Task -> Steps] /\ answer' \in {0} \cup DOMAIN requests
      BY <2>2 DEF TypeOK, Steps
    <3>2. answer' = 0 <=> step'[Outbox] = "rest"
      BY <1>5, <2>2 DEF SendRoute, TypeOK
    <3> QED
      BY <2>3, <2>4, <3>1, <3>2 DEF TypeOK
  <2>6. Control'
    BY <2>2 DEF TypeOK, Control
  <2> QED
    BY <2>5, <2>6
<1>6. ASSUME DropRoute
      PROVE  TypeOK' /\ Control'
  BY <1>6 DEF DropRoute, Go, TypeOK, Control, Steps
<1>7. ASSUME Fallback
      PROVE  TypeOK' /\ Control'
  <2>1. answer \in Number /\ answer \in DOMAIN requests
    BY <1>0, <1>7 DEF Fallback, TypeOK
  <2>2. \E s \in {"rest", "collect"} :
          /\ step' = [step EXCEPT ![Outbox] = s]
          /\ answer' = IF s = "rest" THEN 0 ELSE answer
    BY <1>7 DEF Fallback, Unregister, Finish, Go
  <2>3. /\ connections' \subseteq Conn
        /\ target' \in [Task -> SUBSET Conn]
        /\ found' \in Route \cup {NoRoute}
        /\ inbox' = inbox
    <3> DEFINE ofUser == {c \in connections : UserOf[c] = User(answer)}
               D == ofUser \ {c \in ofUser : session[c] = "open"}
    <3>1. \/ UNCHANGED <<connections, target>> /\ found' = NoRoute /\ inbox' = inbox
          \/ /\ connections' = connections \ D
             /\ target' = [target EXCEPT ![Outbox] = D]
             /\ found' = NoRoute /\ inbox' = inbox
      BY <1>7 DEF Fallback, Unregister, Finish
    <3>2. D \in SUBSET Conn
      BY DEF TypeOK
    <3> HIDE DEF D
    <3>3. connections' \subseteq Conn /\ target' \in [Task -> SUBSET Conn]
      BY <3>1, <3>2 DEF TypeOK
    <3> QED
      BY <3>1, <3>3
  <2>4. received' \in [Number -> SUBSET Conn] /\ buffered' \subseteq DOMAIN requests
    <3>1. \E R \in SUBSET Conn : received' = [received EXCEPT ![answer] = @ \cup R]
      <4> DEFINE ofUser == {c \in connections : UserOf[c] = User(answer)}
                 R == {c \in ofUser : session[c] = "open"}
      <4>1. R \in SUBSET Conn
        BY DEF TypeOK
      <4>2. received' = [received EXCEPT ![answer] = @ \cup R]
        BY <1>7 DEF Fallback
      <4> QED
        BY <4>1, <4>2
    <3>2. buffered' \in {buffered, buffered \cup {answer}}
      BY <1>7 DEF Fallback
    <3> QED
      BY <2>1, <3>1, <3>2 DEF TypeOK
  <2>5. UNCHANGED <<now, session, routes, todo, command, outbox, requests, late>>
    BY <1>7 DEF Fallback
  <2>6. TypeOK'
    <3>1. step' \in [Task -> Steps] /\ answer' \in {0} \cup DOMAIN requests
      BY <2>2 DEF TypeOK, Steps
    <3>2. answer' = 0 <=> step'[Outbox] = "rest"
      BY <1>7, <2>2 DEF Fallback, TypeOK
    <3> QED
      BY <2>3, <2>4, <2>5, <3>1, <3>2 DEF TypeOK
  <2>7. Control'
    BY <2>2 DEF TypeOK, Control
  <2> QED
    BY <2>6, <2>7
<1>8. ASSUME NEW c \in Conn, Register(c)
      PROVE  TypeOK' /\ Control'
  BY <1>8 DEF Register, TypeOK, Control
<1>9. ASSUME NEW c \in Conn, Leave(c)
      PROVE  TypeOK' /\ Control'
  BY <1>9 DEF Leave, TypeOK, Control
<1>10. ASSUME NEW c \in Conn, UnregisterSelf(c) \/ Evict(c)
       PROVE  TypeOK' /\ Control'
  <2>1. PICK t \in {c, Evictor} :
          /\ step[t] = "rest"
          /\ connections' = connections \ {c}
          /\ target' = [target EXCEPT ![t] = {c}]
          /\ step' = [step EXCEPT ![t] = "collect"]
    BY <1>10 DEF UnregisterSelf, Evict, Unregister, Go
  <2>2. UNCHANGED <<now, session, routes, todo, command, found, answer, inbox, outbox,
                    requests, received, buffered, late>>
    BY <1>10 DEF UnregisterSelf, Evict
  <2>3. /\ connections' \subseteq Conn
        /\ target' \in [Task -> SUBSET Conn]
        /\ step' \in [Task -> Steps]
        /\ step'[Outbox] = step[Outbox]
    BY <2>1 DEF TypeOK, Steps
  <2>4. TypeOK'
    BY <2>2, <2>3 DEF TypeOK
  <2>5. Control'
    BY <2>1, <2>2, <2>3 DEF TypeOK, Control
  <2> QED
    BY <2>4, <2>5
<1>11. ASSUME NEW c \in Conn, Bind(c)
       PROVE  TypeOK' /\ Control'
  <2>1. PICK r \in RequestId :
          /\ routes' = [routes EXCEPT ![r] = [conn |-> c, at |-> now]]
          /\ requests' = Append(requests, [id |-> r, by |-> c, at |-> now])
    BY <1>11 DEF Bind
  <2>2. [id |-> r, by |-> c, at |-> now] \in Request /\ [conn |-> c, at |-> now] \in Route
    BY DEF TypeOK, Request, Route
  <2>3. /\ requests' \in Seq(Request) /\ Len(requests') = Len(requests) + 1
        /\ Len(requests') <= MaxRequests
        /\ DOMAIN requests' = 1..(Len(requests) + 1)
        /\ DOMAIN requests \subseteq DOMAIN requests'
    BY <1>0, <1>11, <2>1, <2>2 DEF Bind, TypeOK
  <2>4. outbox' \in Seq(DOMAIN requests')
    BY <1>11, <2>3 DEF Bind, TypeOK
  <2>5. routes' \in [RequestId -> Route \cup {NoRoute}]
    BY <2>1, <2>2 DEF TypeOK
  <2>6. command' \in [Conn -> 0..Len(requests')]
    BY <1>0, <1>11, <2>3 DEF Bind, TypeOK
  <2>7. late' \subseteq DOMAIN requests'
    BY <1>0, <1>11, <2>3 DEF Bind, TypeOK
  <2> QED
    BY <1>11, <2>3, <2>4, <2>5, <2>6, <2>7 DEF Bind, Go, TypeOK, Control, Steps
<1>12. ASSUME NEW t \in Task,
              \/ \E c \in Conn : t = c /\ PruneRoutes(c)
              \/ CollectRoutes(t) \/ RemoveRoute(t)
       PROVE  TypeOK' /\ Control'
  <2>1. PICK R \in SUBSET RequestId : Removing(t, R)
    BY <1>12 DEF PruneRoutes, CollectRoutes, RemoveRoute, RoutesOf, TypeOK
  <2>2. step[t] # "rest"
    BY <1>12 DEF PruneRoutes, CollectRoutes, RemoveRoute
  <2>3. /\ routes' \in [RequestId -> Route \cup {NoRoute}]
        /\ target' \in [Task -> SUBSET Conn]
        /\ UNCHANGED <<now, connections, session, outbox, history>>
    BY <1>12 DEF PruneRoutes, CollectRoutes, RemoveRoute, TypeOK
  <2>4. PICK s \in {"rest", "remove", "drop"} :
              /\ step' = [step EXCEPT ![t] = s]
              /\ s = "drop" => t = Outbox
              /\ IF t = Outbox /\ s = "rest" THEN answer' = 0 /\ found' = NoRoute
                                             ELSE UNCHANGED <<answer, found>>
    BY <2>1, <2>2, RemovingEffect
  <2>5. /\ todo' = [todo EXCEPT ![t] = R]
        /\ command' \in [Conn -> 0..Len(requests)]
        /\ inbox' \subseteq DOMAIN requests
    BY <2>1, <2>2, RemovingEffect
  <2>6. TypeOK'
    BY <2>2, <2>3, <2>4, <2>5 DEF TypeOK, Steps
  <2>7. Control'
    BY <2>2, <2>4 DEF Control, TypeOK, Task
  <2> QED
    BY <2>6, <2>7
<1>13. ASSUME UNCHANGED vars
       PROVE  TypeOK' /\ Control'
  BY <1>13 DEF vars, TypeOK, Control
<1> QED
  BY <1>1, <1>2, <1>3, <1>4, <1>5, <1>6, <1>7, <1>8, <1>9, <1>10, <1>11, <1>12, <1>13 DEF Next

(* The maps, the tasks' frames and the histories keep their types. *)
THEOREM TypeCorrect == Spec => []TypeOK
<1>1. TypeOK /\ Control /\ [Next]_vars => TypeOK' /\ Control'
  BY TypeStep
<1> QED
  BY InitType, <1>1, PTL DEF Spec

-----------------------------------------------------------------------------
(* Answers *)

(* The route the consumer is about to use is of the user of the response,  *)
(* and nobody has the response to a command that was not sent yet.         *)
AnswerParts ==
  /\ Confined
  /\ step[Outbox] = "send" => MatchesSubject(found.conn)
  /\ \A n \in Number \ DOMAIN requests : received[n] = {}

LEMMA AnswerInit == Init => AnswerParts
BY RoutesAssumption, TaskParts DEF Init, AnswerParts, Confined

LEMMA AnswerStep ==
  TypeOK /\ Control /\ AnswerParts /\ [Next]_vars => AnswerParts'
<1> SUFFICES ASSUME TypeOK, Control, AnswerParts, [Next]_vars
             PROVE  AnswerParts'
  OBVIOUS
<1> USE RoutesAssumption, TaskParts
<1>1. CASE /\ UNCHANGED <<requests, received>>
           /\ \/ UNCHANGED <<found, answer>> /\ step'[Outbox] = step[Outbox]
              \/ step'[Outbox] # "send"
  BY <1>1 DEF AnswerParts, Confined, MatchesSubject, User
<1>2. CASE ResolveCheck
  <2>1. UNCHANGED <<requests, received, found, answer>>
    BY <1>2 DEF ResolveCheck, consumer, history
  <2>2. step'[Outbox] = "send" => MatchesSubject(found.conn)
    BY <1>2 DEF ResolveCheck, Go, TypeOK
  <2> QED
    BY <2>1, <2>2 DEF AnswerParts, Confined, MatchesSubject, User
<1>3. ASSUME NEW R \in SUBSET Conn, answer \in DOMAIN requests,
             \A c \in R : UserOf[c] = User(answer),
             received' = [received EXCEPT ![answer] = @ \cup R],
             requests' = requests, step'[Outbox] # "send"
      PROVE  AnswerParts'
  BY <1>3 DEF AnswerParts, Confined, User, TypeOK
<1>4. CASE SendRoute
  <2>1. answer \in DOMAIN requests /\ found.conn \in Conn /\ UserOf[found.conn] = User(answer)
    BY <1>4 DEF SendRoute, AnswerParts, MatchesSubject, TypeOK, Control, Route
  <2>2. requests' = requests /\ step'[Outbox] # "send"
    BY <1>4 DEF SendRoute, Go, Finish, Unregister, TypeOK
  <2>3. \/ received' = received
        \/ received' = [received EXCEPT ![answer] = @ \cup {found.conn}]
    BY <1>4 DEF SendRoute
  <2>4. CASE received' = received
    BY <1>1, <2>2, <2>4
  <2>5. CASE received' = [received EXCEPT ![answer] = @ \cup {found.conn}]
    <3>1. {found.conn} \in SUBSET Conn /\ \A c \in {found.conn} : UserOf[c] = User(answer)
      BY <2>1
    <3> QED
      BY <1>3, <2>1, <2>2, <2>5, <3>1
  <2> QED
    BY <2>3, <2>4, <2>5
<1>5. CASE Fallback
  <2> DEFINE R == {c \in {d \in connections : UserOf[d] = User(answer)} : session[c] = "open"}
  <2>1. requests' = requests /\ step'[Outbox] # "send" /\ answer \in DOMAIN requests
    BY <1>5 DEF Fallback, Go, Finish, Unregister, TypeOK
  <2>2. received' = [received EXCEPT ![answer] = @ \cup R]
    BY <1>5 DEF Fallback
  <2>3. R \in SUBSET Conn /\ \A c \in R : UserOf[c] = User(answer)
    BY DEF TypeOK
  <2> QED
    BY <1>3, <2>1, <2>2, <2>3
<1>6. CASE Take \/ DropRoute
  BY <1>1, <1>6 DEF Take, DropRoute, ResolveGet, Go, history, TypeOK
<1>7. ASSUME NEW c \in Conn, Register(c) \/ Leave(c) \/ UnregisterSelf(c) \/ Evict(c)
      PROVE  AnswerParts'
  <2>1. UNCHANGED <<requests, received, found, answer>> /\ step'[Outbox] = step[Outbox]
    BY <1>7 DEF Register, Leave, UnregisterSelf, Evict, Unregister, Go, tasks, consumer, history,
                TypeOK
  <2> QED
    BY <1>1, <2>1
<1>8. ASSUME NEW c \in Conn, Bind(c)
      PROVE  AnswerParts'
  <2>1. PICK q \in Request : requests' = Append(requests, q)
    BY <1>8 DEF Bind, Request, TypeOK
  <2>2. /\ DOMAIN requests' = DOMAIN requests \cup {Len(requests) + 1}
        /\ Len(requests) + 1 \in Number \ DOMAIN requests
        /\ \A n \in DOMAIN requests : requests'[n] = requests[n]
    BY <1>8, <2>1 DEF Bind, TypeOK, Number
  <2>3. UNCHANGED <<received, found, answer>> /\ step'[Outbox] = step[Outbox]
    BY <1>8 DEF Bind, Go, consumer, TypeOK
  <2>4. step[Outbox] = "send" => answer \in DOMAIN requests
    BY DEF TypeOK
  <2> QED
    BY <2>2, <2>3, <2>4 DEF AnswerParts, Confined, MatchesSubject, User
<1>9. ASSUME NEW t \in Task,
             \/ \E c \in Conn : t = c /\ PruneRoutes(c)
             \/ CollectRoutes(t) \/ RemoveRoute(t)
      PROVE  AnswerParts'
  <2>1. PICK R \in SUBSET RequestId : Removing(t, R)
    BY <1>9 DEF PruneRoutes, CollectRoutes, RemoveRoute, RoutesOf, TypeOK
  <2>2. step[t] # "rest" /\ UNCHANGED <<requests, received>>
    BY <1>9 DEF PruneRoutes, CollectRoutes, RemoveRoute, history
  <2>3. PICK s \in {"rest", "remove", "drop"} :
              /\ step' = [step EXCEPT ![t] = s]
              /\ IF t = Outbox /\ s = "rest" THEN answer' = 0 /\ found' = NoRoute
                                             ELSE UNCHANGED <<answer, found>>
    BY <2>1, <2>2, RemovingEffect
  <2>4. CASE t = Outbox
    BY <1>1, <2>2, <2>3, <2>4 DEF TypeOK
  <2>5. CASE t # Outbox
    BY <1>1, <2>2, <2>3, <2>5 DEF TypeOK
  <2> QED
    BY <2>4, <2>5
<1>10. CASE Tick \/ Answer \/ UNCHANGED vars
  BY <1>1, <1>10 DEF Tick, Answer, vars, tasks, consumer, history
<1> QED
  BY <1>2, <1>4, <1>5, <1>6, <1>7, <1>8, <1>9, <1>10 DEF Next

(* Responses are enqueued to connections of the right user only, whoever   *)
(* else used the same request id.                                          *)
THEOREM AnswersConfined == Spec => []Confined
<1>1. Init => TypeOK /\ Control /\ AnswerParts
  BY InitType, AnswerInit
<1>2. TypeOK /\ Control /\ AnswerParts /\ [Next]_vars
        => TypeOK' /\ Control' /\ AnswerParts'
  BY TypeStep, AnswerStep
<1>3. AnswerParts => Confined
  BY DEF AnswerParts
<1> QED
  BY <1>1, <1>2, <1>3, PTL DEF Spec

-----------------------------------------------------------------------------
(* Routes of connections that are gone *)

BoundLate(r) == \E n \in late : requests[n].id = r /\ requests[n].by = routes[r].conn

AboutToGo(r, t) == \/ step[t] = "collect" /\ routes[r].conn \in target[t]
                   \/ step[t] = "remove" /\ r \in todo[t]

LEMMA CleanedInit == Init => RoutesCleaned
BY DEF Init, RoutesCleaned

LEMMA CleanedStep ==
  TypeOK /\ Control /\ RoutesCleaned /\ [Next]_vars => RoutesCleaned'
<1> SUFFICES ASSUME TypeOK, Control, RoutesCleaned, [Next]_vars,
                    NEW r \in RequestId, routes'[r] # NoRoute,
                    routes'[r].conn \notin connections'
             PROVE  BoundLate(r)' \/ \E t \in Task : AboutToGo(r, t)'
  BY DEF RoutesCleaned, BoundLate, AboutToGo
<1> USE RoutesAssumption, TaskParts
<1>0. routes[r] # NoRoute /\ routes[r].conn \notin connections
        => BoundLate(r) \/ \E t \in Task : AboutToGo(r, t)
  BY DEF RoutesCleaned, BoundLate, AboutToGo
(* Steps of a task u that removes nothing and unregisters D, if anything.  *)
<1>1. ASSUME NEW u \in Task, NEW D \in SUBSET Conn, NEW s \in Steps,
             routes' = routes, UNCHANGED <<requests, late, todo>>,
             step[u] \notin {"collect", "remove"},
             step' = [step EXCEPT ![u] = s],
             connections \subseteq connections' \cup D,
             \/ D = {} /\ target' = target
             \/ s = "collect" /\ target' = [target EXCEPT ![u] = D]
      PROVE  BoundLate(r)' \/ \E t \in Task : AboutToGo(r, t)'
  <2>1. CASE routes[r].conn \in D
    <3>1. AboutToGo(r, u)'
      BY <1>1, <2>1 DEF AboutToGo, TypeOK
    <3> QED
      BY <3>1
  <2>2. CASE routes[r].conn \notin D
    <3>1. CASE BoundLate(r)
      BY <1>1, <3>1 DEF BoundLate
    <3>2. ASSUME NEW t \in Task, AboutToGo(r, t)
          PROVE  AboutToGo(r, t)'
      BY <1>1, <3>2 DEF AboutToGo, TypeOK
    <3> QED
      BY <1>0, <1>1, <2>2, <3>1, <3>2
  <2> QED
    BY <2>1, <2>2
<1>2. CASE Tick \/ Answer \/ (\E c \in Conn : Register(c) \/ Leave(c)) \/ UNCHANGED vars
  BY <1>0, <1>2 DEF Tick, Answer, Register, Leave, vars, tasks, history, BoundLate, AboutToGo
<1>3. CASE Take \/ ResolveCheck
  <2>1. PICK s \in Steps : step' = [step EXCEPT ![Outbox] = s]
    BY <1>3 DEF Take, ResolveCheck, ResolveGet, Go, Steps
  <2> QED
    BY <1>1, <1>3, <2>1 DEF Take, ResolveCheck, history
<1>4. CASE SendRoute
  <2>1. found.conn \in Conn
    BY <1>4 DEF SendRoute, TypeOK, Control, Route
  <2>2. CASE UNCHANGED <<connections, target>>
    <3>1. PICK s \in Steps : step' = [step EXCEPT ![Outbox] = s]
      BY <1>4 DEF SendRoute, Finish, Unregister, Go, Steps
    <3> QED
      BY <1>1, <1>4, <2>2, <3>1 DEF SendRoute
  <2>3. CASE Unregister(Outbox, {found.conn})
    BY <1>1, <1>4, <2>1, <2>3 DEF SendRoute, Unregister, Go, Steps
  <2> QED
    BY <1>4, <2>2, <2>3 DEF SendRoute
<1>5. CASE Fallback
  <2>1. CASE UNCHANGED <<connections, target>>
    <3>1. PICK s \in Steps : step' = [step EXCEPT ![Outbox] = s]
      BY <1>5 DEF Fallback, Finish, Unregister, Go, Steps
    <3> QED
      BY <1>1, <1>5, <2>1, <3>1 DEF Fallback
  <2>2. ASSUME NEW D \in SUBSET Conn, Unregister(Outbox, D)
        PROVE  BoundLate(r)' \/ \E t \in Task : AboutToGo(r, t)'
    BY <1>1, <1>5, <2>2 DEF Fallback, Unregister, Go, Steps
  <2>3. \/ UNCHANGED <<connections, target>>
        \/ \E D \in SUBSET Conn : Unregister(Outbox, D)
    <3> DEFINE ofUser == {c \in connections : UserOf[c] = User(answer)}
               R == {c \in ofUser : session[c] = "open"}
    <3>1. UNCHANGED <<connections, target>> \/ Unregister(Outbox, ofUser \ R)
      BY <1>5 DEF Fallback
    <3>2. ofUser \ R \in SUBSET Conn
      BY DEF TypeOK
    <3> QED
      BY <3>1, <3>2
  <2> QED
    BY <2>1, <2>2, <2>3
<1>6. CASE DropRoute
  <2>1. routes'[r] = routes[r]
    BY <1>6 DEF DropRoute, TypeOK
  <2>2. ASSUME NEW t \in Task, AboutToGo(r, t)
        PROVE  AboutToGo(r, t)'
    BY <1>6, <2>1, <2>2 DEF DropRoute, Go, AboutToGo, TypeOK
  <2>3. ASSUME BoundLate(r)
        PROVE  BoundLate(r)'
    BY <1>6, <2>1, <2>3 DEF DropRoute, history, BoundLate
  <2> QED
    BY <1>0, <1>6, <2>1, <2>2, <2>3 DEF DropRoute
<1>7. ASSUME NEW c \in Conn, UnregisterSelf(c)
      PROVE  BoundLate(r)' \/ \E t \in Task : AboutToGo(r, t)'
  BY <1>1, <1>7, ZenonT(40) DEF UnregisterSelf, Unregister, Go, Steps, history
<1>8. ASSUME NEW c \in Conn, Evict(c)
      PROVE  BoundLate(r)' \/ \E t \in Task : AboutToGo(r, t)'
  BY <1>1, <1>8 DEF Evict, Unregister, Go, Steps, history
<1>9. ASSUME NEW c \in Conn, Bind(c)
      PROVE  BoundLate(r)' \/ \E t \in Task : AboutToGo(r, t)'
  <2>1. PICK q \in RequestId :
          /\ routes' = [routes EXCEPT ![q] = [conn |-> c, at |-> now]]
          /\ requests' = Append(requests, [id |-> q, by |-> c, at |-> now])
    BY <1>9 DEF Bind
  <2>2. /\ requests'[Len(requests) + 1] = [id |-> q, by |-> c, at |-> now]
        /\ \A n \in DOMAIN requests : requests'[n] = requests[n]
    BY <2>1, SMTT(20) DEF TypeOK, Request
  <2>3. CASE r = q
    <3>1. routes'[r].conn = c
      BY <2>1, <2>3 DEF TypeOK
    <3>2. Len(requests) + 1 \in late'
      BY <1>9, <3>1 DEF Bind
    <3> QED
      BY <2>2, <2>3, <3>1, <3>2 DEF BoundLate
  <2>4. CASE r # q
    <3>1. routes'[r] = routes[r] /\ connections' = connections
      BY <1>9, <2>1, <2>4 DEF Bind, TypeOK
    <3>2. ASSUME NEW t \in Task, AboutToGo(r, t)
          PROVE  AboutToGo(r, t)'
      BY <1>9, <3>1, <3>2 DEF Bind, Go, AboutToGo, TypeOK
    <3>3. ASSUME BoundLate(r)
          PROVE  BoundLate(r)'
      BY <1>9, <2>2, <3>1, <3>3 DEF Bind, BoundLate, TypeOK
    <3> QED
      BY <1>0, <3>1, <3>2, <3>3
  <2> QED
    BY <2>3, <2>4
(* A loop over the routes R of task u: those that concern r stay in it.    *)
<1>10. ASSUME NEW u \in Task, NEW R \in SUBSET RequestId, Removing(u, R), step[u] # "rest",
              UNCHANGED <<connections, requests, late>>,
              routes'[r] = routes[r], \A t \in Task \ {u} : target'[t] = target[t],
              AboutToGo(r, u) => r \in R
       PROVE  BoundLate(r)' \/ \E t \in Task : AboutToGo(r, t)'
  <2>1. PICK s \in {"rest", "remove", "drop"} :
              step' = [step EXCEPT ![u] = s] /\ (s = "remove" <=> R # {})
    BY <1>10, RemovingEffect
  <2>2. todo' = [todo EXCEPT ![u] = R]
    BY <1>10, RemovingEffect
  <2>3. CASE AboutToGo(r, u)
    <3>1. AboutToGo(r, u)'
      BY <1>10, <2>1, <2>2, <2>3 DEF AboutToGo, TypeOK
    <3> QED
      BY <3>1
  <2>4. ASSUME NEW t \in Task \ {u}, AboutToGo(r, t)
        PROVE  AboutToGo(r, t)'
    BY <1>10, <2>1, <2>2, <2>4 DEF AboutToGo, TypeOK
  <2>5. CASE BoundLate(r)
    BY <1>10, <2>5 DEF BoundLate
  <2> QED
    BY <1>0, <1>10, <2>3, <2>4, <2>5
<1>11. ASSUME NEW c \in Conn, PruneRoutes(c)
       PROVE  BoundLate(r)' \/ \E t \in Task : AboutToGo(r, t)'
  <2>1. PICK R \in SUBSET RequestId : Removing(c, R)
    BY <1>11 DEF PruneRoutes
  <2>2. ~AboutToGo(r, c)
    BY <1>11 DEF PruneRoutes, AboutToGo
  <2> QED
    BY <1>10, <1>11, <2>1, <2>2 DEF PruneRoutes, history
<1>12. ASSUME NEW u \in Task, CollectRoutes(u)
       PROVE  BoundLate(r)' \/ \E t \in Task : AboutToGo(r, t)'
  <2>1. RoutesOf(target[u]) \in SUBSET RequestId /\ Removing(u, RoutesOf(target[u]))
    BY <1>12 DEF CollectRoutes, RoutesOf
  <2>2. AboutToGo(r, u) => r \in RoutesOf(target[u])
    BY <1>12 DEF CollectRoutes, RoutesOf, AboutToGo
  <2>3. /\ step[u] # "rest" /\ UNCHANGED <<connections, requests, late, routes>>
        /\ \A t \in Task \ {u} : target'[t] = target[t]
    BY <1>12 DEF CollectRoutes, history, TypeOK
  <2> QED
    BY <1>10, <2>1, <2>2, <2>3
<1>13. ASSUME NEW u \in Task, RemoveRoute(u)
       PROVE  BoundLate(r)' \/ \E t \in Task : AboutToGo(r, t)'
  <2>1. PICK q \in todo[u] :
          routes' = [routes EXCEPT ![q] = NoRoute] /\ Removing(u, todo[u] \ {q})
    BY <1>13 DEF RemoveRoute
  <2>2. r # q /\ routes'[r] = routes[r] /\ todo[u] \ {q} \in SUBSET RequestId
    BY <2>1 DEF TypeOK
  <2>3. AboutToGo(r, u) => r \in todo[u] \ {q}
    BY <1>13, <2>2 DEF RemoveRoute, AboutToGo
  <2>4. step[u] # "rest" /\ UNCHANGED <<connections, requests, late, target>>
    BY <1>13 DEF RemoveRoute, history
  <2> QED
    BY <1>10, <2>1, <2>2, <2>3, <2>4
<1> QED
  BY <1>2, <1>3, <1>4, <1>5, <1>6, <1>7, <1>8, <1>9, <1>11, <1>12, <1>13 DEF Next

(* A route whose connection is gone was bound afterwards or is in the hands *)
(* of a task that removes it, however many tasks unregister, bind and prune. *)
THEOREM NoRouteLeft == Spec => []RoutesCleaned
<1>1. Init => TypeOK /\ Control /\ RoutesCleaned
  BY InitType, CleanedInit
<1>2. TypeOK /\ Control /\ RoutesCleaned /\ [Next]_vars
        => TypeOK' /\ Control' /\ RoutesCleaned'
  BY TypeStep, CleanedStep
<1> QED
  BY <1>1, <1>2, PTL DEF Spec

-----------------------------------------------------------------------------
(* No answer is lost *)

(* The consumer that is done with an entry but for connections it has still *)
(* to unregister has enqueued or buffered it.                               *)
AnswerPlaced ==
  step[Outbox] \in {"collect", "remove"} /\ found = NoRoute
    => received[answer] # {} \/ answer \in buffered

LEMMA AnswerAtFallback ==
  ASSUME TypeOK, Fallback
  PROVE  received'[answer] # {} \/ answer \in buffered'
<1> DEFINE R == {c \in {d \in connections : UserOf[d] = User(answer)} : session[c] = "open"}
<1>1. answer \in DOMAIN requests /\ answer \in Number
  BY RoutesAssumption DEF Fallback, TypeOK, Number
<1>2. received' = [received EXCEPT ![answer] = @ \cup R]
  BY DEF Fallback
<1>3. R = {} => answer \in buffered'
  BY DEF Fallback, Buffers
<1>4. received'[answer] = received[answer] \cup R
  BY <1>1, <1>2 DEF TypeOK
<1> QED
  BY <1>3, <1>4

LEMMA PlacedStep ==
  TypeOK /\ Control /\ AnswerPlaced /\ [Next]_vars => AnswerPlaced'
<1> SUFFICES ASSUME TypeOK, Control, AnswerPlaced, [Next]_vars
             PROVE  AnswerPlaced'
  OBVIOUS
<1> USE RoutesAssumption, TaskParts
<1>1. CASE UNCHANGED <<found, answer, received, buffered>> /\ step'[Outbox] = step[Outbox]
  BY <1>1 DEF AnswerPlaced
<1>2. CASE step'[Outbox] \notin {"collect", "remove"}
  BY <1>2 DEF AnswerPlaced
<1>3. CASE Take \/ ResolveCheck \/ DropRoute
  BY <1>2, <1>3 DEF Take, ResolveCheck, DropRoute, ResolveGet, Go, TypeOK
<1>4. CASE SendRoute
  <2>1. CASE Unregister(Outbox, {found.conn}) /\ UNCHANGED consumer
    BY <1>4, <2>1 DEF SendRoute, AnswerPlaced, Control, consumer
  <2>2. CASE Finish \/ Go(Outbox, "drop")
    BY <1>2, <2>2 DEF Finish, Go, TypeOK
  <2> QED
    BY <1>4, <2>1, <2>2 DEF SendRoute
<1>5. CASE Fallback
  <2>1. received'[answer] # {} \/ answer \in buffered'
    BY <1>5, AnswerAtFallback
  <2>2. CASE Finish
    BY <1>2, <2>2 DEF Finish, Go, TypeOK
  <2>3. CASE answer' = answer
    BY <2>1, <2>3 DEF AnswerPlaced
  <2> QED
    BY <1>5, <2>2, <2>3 DEF Fallback
<1>6. ASSUME NEW c \in Conn, Register(c) \/ Leave(c) \/ UnregisterSelf(c) \/ Evict(c) \/ Bind(c)
      PROVE  AnswerPlaced'
  <2>1. UNCHANGED <<found, answer, received, buffered>> /\ step'[Outbox] = step[Outbox]
    BY <1>6 DEF Register, Leave, UnregisterSelf, Evict, Bind, Unregister, Go, tasks, consumer,
                history, TypeOK
  <2> QED
    BY <1>1, <2>1
<1>7. ASSUME NEW t \in Task,
             \/ \E c \in Conn : t = c /\ PruneRoutes(c)
             \/ CollectRoutes(t) \/ RemoveRoute(t)
      PROVE  AnswerPlaced'
  <2>1. PICK R \in SUBSET RequestId : Removing(t, R)
    BY <1>7 DEF PruneRoutes, CollectRoutes, RemoveRoute, RoutesOf, TypeOK
  <2>2. step[t] \in {"prune", "collect", "remove"} /\ UNCHANGED <<received, buffered>>
    BY <1>7 DEF PruneRoutes, CollectRoutes, RemoveRoute, history
  <2>3. PICK s \in {"rest", "remove", "drop"} :
              /\ step' = [step EXCEPT ![t] = s]
              /\ IF t = Outbox /\ s = "rest" THEN answer' = 0 /\ found' = NoRoute
                                             ELSE UNCHANGED <<answer, found>>
    BY <2>1, <2>2, RemovingEffect
  <2>4. CASE t # Outbox
    BY <1>1, <2>2, <2>3, <2>4 DEF TypeOK
  <2>5. CASE t = Outbox /\ s = "remove"
    <3>1. step[Outbox] \in {"collect", "remove"}
      BY <2>2, <2>5 DEF Control
    <3> QED
      BY <2>2, <2>3, <2>5, <3>1 DEF AnswerPlaced
  <2>6. CASE t = Outbox /\ s # "remove"
    BY <1>2, <2>3, <2>6 DEF TypeOK
  <2> QED
    BY <2>4, <2>5, <2>6
<1>8. CASE Tick \/ Answer \/ UNCHANGED vars
  BY <1>1, <1>8 DEF Tick, Answer, vars, tasks, consumer, history
<1> QED
  BY <1>3, <1>4, <1>5, <1>6, <1>7, <1>8 DEF Next

LEMMA AnswerNotLost ==
  ASSUME TypeOK, Control, AnswerPlaced, Next, answer # 0, answer' # answer
  PROVE  received'[answer] # {} \/ answer \in buffered'
<1> USE RoutesAssumption, TaskParts
<1>1. answer \in Number /\ step[Outbox] # "rest"
  BY DEF TypeOK, Number
<1>2. ~Take /\ ~ResolveCheck /\ ~DropRoute /\ ~Tick /\ ~Answer
  BY <1>1 DEF Take, ResolveCheck, DropRoute, Tick, Answer, consumer
<1>3. CASE SendRoute
  <2>1. received' = [received EXCEPT ![answer] = @ \cup {found.conn}]
    BY <1>3 DEF SendRoute, consumer
  <2> QED
    BY <1>1, <2>1 DEF TypeOK
<1>4. CASE Fallback
  BY <1>4, AnswerAtFallback
<1>5. ~\E c \in Conn : \/ Register(c) \/ Leave(c) \/ UnregisterSelf(c) \/ Evict(c) \/ Bind(c)
  BY DEF Register, Leave, UnregisterSelf, Evict, Bind, consumer
<1>6. ASSUME NEW t \in Task,
             \/ \E c \in Conn : t = c /\ PruneRoutes(c)
             \/ CollectRoutes(t) \/ RemoveRoute(t)
      PROVE  received'[answer] # {} \/ answer \in buffered'
  <2>1. PICK R \in SUBSET RequestId : Removing(t, R)
    BY <1>6 DEF PruneRoutes, CollectRoutes, RemoveRoute, RoutesOf, TypeOK
  <2>2. step[t] \in {"prune", "collect", "remove"} /\ UNCHANGED <<received, buffered>>
    BY <1>6 DEF PruneRoutes, CollectRoutes, RemoveRoute, history
  <2>3. t = Outbox /\ found = NoRoute
    BY <2>1 DEF Removing, Continue, Finish, consumer
  <2> QED
    BY <2>2, <2>3 DEF AnswerPlaced, Control
<1> QED
  BY <1>2, <1>3, <1>4, <1>5, <1>6 DEF Next

(* A response the consumer is through with is in the channel of a live      *)
(* session or buffered, whatever was unregistered while it was in its hands. *)
THEOREM NoAnswerLost == Spec => AnswerKept
<1>1. Init => TypeOK /\ Control /\ AnswerPlaced
  BY InitType, RoutesAssumption, TaskParts DEF Init, AnswerPlaced
<1>2. TypeOK /\ Control /\ AnswerPlaced /\ [Next]_vars
        => TypeOK' /\ Control' /\ AnswerPlaced'
  BY TypeStep, PlacedStep
<1>3. TypeOK /\ Control /\ AnswerPlaced /\ [Next]_vars
        => [answer # 0 /\ answer' # answer
              => received'[answer] # {} \/ answer \in buffered']_vars
  BY AnswerNotLost
<1> QED
  BY <1>1, <1>2, <1>3, PTL DEF Spec, AnswerKept

-----------------------------------------------------------------------------
(***************************************************************************)
(* The response goes to who asked.  What makes a route useless is for      *)
(* good: the connection is gone, the session is over, or the time is up.   *)
(* Whatever removes the route of a request has seen one of these; so the   *)
(* one route of a request that is still good is found, and nothing but it. *)
(***************************************************************************)
Gone(n) ==
  \/ requests[n].by \notin connections
  \/ session[requests[n].by] # "open"
  \/ now - requests[n].at > RouteTTL

RouteFor(n) == [conn |-> requests[n].by, at |-> requests[n].at]

(* Who is connected, asked or was unregistered is not new any more. *)
SessionsSeen ==
  /\ \A c \in connections : session[c] # "new"
  /\ \A n \in DOMAIN requests : session[requests[n].by] # "new"
  /\ \A t \in Task : \A c \in target[t] : session[c] # "new" /\ c \notin connections

(* A route is of a request; one that is about to be removed, of one gone. *)
RoutesBound ==
  /\ \A r \in RequestId : routes[r] # NoRoute =>
       \E n \in DOMAIN requests : requests[n].id = r /\ routes[r] = RouteFor(n)
  /\ \A t \in Task : \A r \in todo[t] :
       \E n \in DOMAIN requests : requests[n].id = r /\ Gone(n)

(* A request is answered once: until it is, nobody has the response, and   *)
(* it is in one place of the way from the session to the consumer.         *)
InSession ==
  \A c \in Conn : command[c] # 0 =>
    /\ received[command[c]] = {} /\ command[c] \notin inbox /\ command[c] # answer
    /\ \A d \in Conn : command[d] = command[c] => d = c
    /\ \A i \in DOMAIN outbox : outbox[i] # command[c]

InInbox ==
  \A n \in inbox : received[n] = {} /\ n # answer /\ \A i \in DOMAIN outbox : outbox[i] # n

InOutbox ==
  \A i \in DOMAIN outbox :
    /\ received[outbox[i]] = {} /\ outbox[i] # answer
    /\ \A j \in DOMAIN outbox : outbox[j] = outbox[i] => j = i

InHand == step[Outbox] \in {"check", "send"} => received[answer] = {}

NotYetSent == \A n \in Number \ DOMAIN requests : received[n] = {}

OneAnswer == InSession /\ InInbox /\ InOutbox /\ InHand /\ NotYetSent

(* The route of a request with an id of its own that is not gone. *)
RouteInPlace ==
  \A n \in DOMAIN requests : FreshId(n) /\ ~Gone(n) =>
    /\ routes[Id(n)] = RouteFor(n)
    /\ answer = n => step[Outbox] \in {"check", "send"} /\ found = RouteFor(n)

LEMMA RequestFacts ==
  ASSUME TypeOK
  PROVE  /\ DOMAIN requests = 1..Len(requests) /\ Len(requests) \in Nat
         /\ DOMAIN requests \subseteq Number /\ 0 \notin DOMAIN requests
         /\ \A n \in DOMAIN requests :
              /\ requests[n] \in Request /\ requests[n].id \in RequestId
              /\ requests[n].by \in Conn /\ requests[n].at \in 0..MaxTime
<1>1. /\ requests \in Seq(Request) /\ DOMAIN requests = 1..Len(requests) /\ Len(requests) \in Nat
      /\ Len(requests) <= MaxRequests
  BY DEF TypeOK
<1>2. \A n \in DOMAIN requests : requests[n] \in Request
  BY <1>1
<1> QED
  BY <1>1, <1>2, RoutesAssumption DEF Request, Number

LEMMA BindEffect ==
  ASSUME TypeOK, NEW c \in Conn, Bind(c)
  PROVE  \E r \in RequestId :
           /\ routes' = [routes EXCEPT ![r] = [conn |-> c, at |-> now]]
           /\ DOMAIN requests' = DOMAIN requests \cup {Len(requests) + 1}
           /\ Len(requests) + 1 \in Number \ DOMAIN requests
           /\ requests'[Len(requests) + 1] = [id |-> r, by |-> c, at |-> now]
           /\ \A n \in DOMAIN requests : requests'[n] = requests[n]
<1>1. PICK r \in RequestId :
        /\ routes' = [routes EXCEPT ![r] = [conn |-> c, at |-> now]]
        /\ requests' = Append(requests, [id |-> r, by |-> c, at |-> now])
  BY DEF Bind
<1>2. PICK q \in Request : q = [id |-> r, by |-> c, at |-> now]
  BY DEF Request, TypeOK
<1>3. requests \in Seq(Request) /\ Len(requests) < MaxRequests
  BY DEF Bind, TypeOK
<1>4. /\ DOMAIN requests' = DOMAIN requests \cup {Len(requests) + 1}
      /\ Len(requests) + 1 \in Number \ DOMAIN requests
      /\ requests'[Len(requests) + 1] = q
      /\ \A n \in DOMAIN requests : requests'[n] = requests[n]
  BY <1>1, <1>2, <1>3, RoutesAssumption DEF Number
<1> QED
  BY <1>1, <1>2, <1>4

(* What the end of a loop does to the command of a session. *)
LEMMA RemovingCommand ==
  ASSUME TypeOK, NEW t \in Task, NEW R, Removing(t, R)
  PROVE  \/ UNCHANGED <<command, inbox>>
         \/ /\ t \in Conn /\ command[t] # 0
            /\ inbox' = inbox \cup {command[t]}
            /\ command' = [command EXCEPT ![t] = 0]
            /\ UNCHANGED answer
<1>1. CASE R = {}
  <2>1. Continue(t)
    BY <1>1 DEF Removing
  <2> QED
    BY <2>1 DEF Continue, Finish, consumer
<1>2. CASE R # {}
  BY <1>2 DEF Removing
<1> QED
  BY <1>1, <1>2

(* Time and sessions go one way only. *)
LEMMA Forward ==
  ASSUME TypeOK, Control, [Next]_vars
  PROVE  /\ now' \in Nat /\ now \in Nat /\ now' >= now
         /\ \A c \in Conn : session[c] # "new" =>
              /\ session'[c] # "new"
              /\ c \in connections' => c \in connections
              /\ session'[c] = "open" => session[c] = "open"
         /\ DOMAIN requests \subseteq DOMAIN requests'
         /\ \A n \in DOMAIN requests : requests'[n] = requests[n]
<1> USE RoutesAssumption, TaskParts
<1>1. now \in Nat
  BY DEF TypeOK
<1>2. CASE UNCHANGED <<session, requests>> /\ now' \in {now, now + 1} /\ connections' \subseteq connections
  BY <1>1, <1>2
<1>3. CASE Tick \/ Answer \/ Take \/ ResolveCheck \/ DropRoute \/ UNCHANGED vars
  BY <1>2, <1>3 DEF Tick, Answer, Take, ResolveCheck, DropRoute, history, vars
<1>4. CASE SendRoute \/ Fallback
  BY <1>2, <1>4 DEF SendRoute, Fallback, Unregister
<1>5. ASSUME NEW c \in Conn, Register(c) \/ Leave(c)
      PROVE  /\ now' = now /\ requests' = requests
             /\ \A d \in Conn : session[d] # "new" =>
                  /\ session'[d] # "new"
                  /\ d \in connections' => d \in connections
                  /\ session'[d] = "open" => session[d] = "open"
  BY <1>5 DEF Register, Leave, history, TypeOK
<1>6. ASSUME NEW c \in Conn, UnregisterSelf(c) \/ Evict(c)
      PROVE  UNCHANGED <<session, requests, now>> /\ connections' \subseteq connections
  BY <1>6 DEF UnregisterSelf, Evict, Unregister, history
<1>7. ASSUME NEW c \in Conn, Bind(c)
      PROVE  /\ UNCHANGED <<session, connections, now>>
             /\ DOMAIN requests \subseteq DOMAIN requests'
             /\ \A n \in DOMAIN requests : requests'[n] = requests[n]
  <2>1. UNCHANGED <<session, connections, now>>
    BY <1>7 DEF Bind
  <2> QED
    BY <1>7, <2>1, BindEffect
<1>8. ASSUME NEW t \in Task,
             \/ \E c \in Conn : t = c /\ PruneRoutes(c)
             \/ CollectRoutes(t) \/ RemoveRoute(t)
      PROVE  UNCHANGED <<session, connections, now, requests>>
  BY <1>8 DEF PruneRoutes, CollectRoutes, RemoveRoute, history
<1>9. CASE \E c \in Conn : Register(c) \/ Leave(c)
  BY <1>1, <1>5, <1>9
<1>10. CASE \E c \in Conn : UnregisterSelf(c) \/ Evict(c)
  BY <1>2, <1>6, <1>10
<1>11. CASE \E c \in Conn : Bind(c)
  BY <1>1, <1>7, <1>11
<1>12. CASE \E t \in Task : \/ \E c \in Conn : t = c /\ PruneRoutes(c)
                            \/ CollectRoutes(t) \/ RemoveRoute(t)
  BY <1>2, <1>8, <1>12
<1> QED
  BY <1>3, <1>4, <1>9, <1>10, <1>11, <1>12 DEF Next

LEMMA GoneStays ==
  ASSUME TypeOK, Control, SessionsSeen, [Next]_vars, NEW n \in DOMAIN requests, Gone(n)
  PROVE  n \in DOMAIN requests' /\ Gone(n)'
<1>1. /\ requests[n].by \in Conn /\ requests[n].at \in Nat /\ RouteTTL \in Nat
      /\ session[requests[n].by] # "new"
  BY RequestFacts, RoutesAssumption DEF SessionsSeen
<1>2. requests'[n] = requests[n] /\ n \in DOMAIN requests'
  BY Forward
<1>3. /\ now' \in Nat /\ now \in Nat /\ now' >= now
      /\ requests[n].by \in connections' => requests[n].by \in connections
      /\ session'[requests[n].by] = "open" => session[requests[n].by] = "open"
  BY <1>1, Forward
<1> QED
  BY <1>1, <1>2, <1>3 DEF Gone

LEMMA SeenStep ==
  TypeOK /\ Control /\ SessionsSeen /\ [Next]_vars => SessionsSeen'
<1> SUFFICES ASSUME TypeOK, Control, SessionsSeen, [Next]_vars
             PROVE  SessionsSeen'
  OBVIOUS
<1> USE RoutesAssumption, TaskParts
<1>1. \A c \in Conn : session[c] # "new" =>
        session'[c] # "new" /\ (c \in connections' => c \in connections)
  BY Forward
<1>2. \A n \in DOMAIN requests : requests'[n] = requests[n] /\ requests[n].by \in Conn
  BY Forward, RequestFacts
<1>3. \A t \in Task : target[t] \subseteq Conn
  BY DEF TypeOK
<1>4. CASE /\ DOMAIN requests' = DOMAIN requests
           /\ \A c \in connections' : c \in connections \/ session'[c] # "new"
           /\ \A t \in Task : target'[t] \subseteq target[t]
  <2>1. connections \subseteq Conn
    BY DEF TypeOK
  <2> QED
    BY <1>1, <1>2, <1>3, <1>4, <2>1 DEF SessionsSeen
<1>5. ASSUME NEW u \in Task, NEW D, D \subseteq connections, Unregister(u, D),
             DOMAIN requests' = DOMAIN requests, session' = session
      PROVE  SessionsSeen'
  <2>1. \A t \in Task : \A c \in target'[t] :
          c \in target[t] \/ (c \in connections /\ c \notin connections')
    BY <1>5 DEF Unregister, TypeOK
  <2>2. connections' \subseteq connections
    BY <1>5 DEF Unregister
  <2> QED
    BY <1>2, <1>5, <2>1, <2>2 DEF SessionsSeen
<1>6. CASE Tick \/ Answer \/ Take \/ ResolveCheck \/ DropRoute \/ UNCHANGED vars
  BY <1>4, <1>6 DEF Tick, Answer, Take, ResolveCheck, DropRoute, history, tasks, vars, SessionsSeen
<1>7. CASE SendRoute
  <2>1. CASE UNCHANGED <<connections, target>>
    BY <1>4, <1>7, <2>1 DEF SendRoute
  <2>2. CASE Unregister(Outbox, {found.conn}) /\ found.conn \in connections
    BY <1>5, <1>7, <2>2 DEF SendRoute
  <2> QED
    BY <1>7, <2>1, <2>2 DEF SendRoute
<1>8. CASE Fallback
  <2>1. CASE UNCHANGED <<connections, target>>
    BY <1>4, <1>8, <2>1 DEF Fallback
  <2> DEFINE D == {c \in connections : UserOf[c] = User(answer)}
                    \ {c \in {d \in connections : UserOf[d] = User(answer)} : session[c] = "open"}
  <2>2. CASE Unregister(Outbox, D)
    <3>1. D \subseteq connections
      OBVIOUS
    <3> QED
      BY <1>5, <1>8, <2>2, <3>1 DEF Fallback
  <2> QED
    BY <1>8, <2>1, <2>2 DEF Fallback
<1>9. ASSUME NEW c \in Conn, Register(c) \/ Leave(c)
      PROVE  SessionsSeen'
  BY <1>4, <1>9 DEF Register, Leave, history, tasks, TypeOK
<1>10. ASSUME NEW c \in Conn, UnregisterSelf(c) \/ Evict(c)
       PROVE  SessionsSeen'
  BY <1>5, <1>10 DEF UnregisterSelf, Evict, history
<1>11. ASSUME NEW c \in Conn, Bind(c)
       PROVE  SessionsSeen'
  <2>1. PICK r \in RequestId :
          /\ DOMAIN requests' = DOMAIN requests \cup {Len(requests) + 1}
          /\ requests'[Len(requests) + 1] = [id |-> r, by |-> c, at |-> now]
    BY <1>11, BindEffect
  <2>2. session[c] = "open" /\ UNCHANGED <<session, connections, target>>
    BY <1>11 DEF Bind
  <2> QED
    BY <1>2, <2>1, <2>2 DEF SessionsSeen
<1>12. ASSUME NEW t \in Task,
              \/ \E c \in Conn : t = c /\ PruneRoutes(c)
              \/ CollectRoutes(t) \/ RemoveRoute(t)
       PROVE  SessionsSeen'
  <2>1. UNCHANGED <<session, connections, requests>>
    BY <1>12 DEF PruneRoutes, CollectRoutes, RemoveRoute, history
  <2>2. \A u \in Task : target'[u] \subseteq target[u]
    BY <1>12 DEF PruneRoutes, CollectRoutes, RemoveRoute, TypeOK
  <2> QED
    BY <1>4, <2>1, <2>2
<1> QED
  BY <1>6, <1>7, <1>8, <1>9, <1>10, <1>11, <1>12 DEF Next

LEMMA BoundStep ==
  TypeOK /\ Control /\ SessionsSeen /\ RoutesBound /\ [Next]_vars => RoutesBound'
<1> SUFFICES ASSUME TypeOK, Control, SessionsSeen, RoutesBound, [Next]_vars
             PROVE  RoutesBound'
  OBVIOUS
<1> USE RoutesAssumption, TaskParts
<1>1. \A n \in DOMAIN requests :
        n \in DOMAIN requests' /\ requests'[n] = requests[n] /\ RouteFor(n)' = RouteFor(n)
  BY Forward DEF RouteFor
<1>2. \A n \in DOMAIN requests : Gone(n) => n \in DOMAIN requests' /\ Gone(n)'
  BY GoneStays
<1>3. ASSUME \A r \in RequestId : routes'[r] # NoRoute => routes'[r] = routes[r],
             \A t \in Task : \A r \in todo'[t] :
               r \in todo[t] \/ \E n \in DOMAIN requests : requests[n].id = r /\ Gone(n)
      PROVE  RoutesBound'
  <2>1. ASSUME NEW r \in RequestId, routes'[r] # NoRoute
        PROVE  \E n \in DOMAIN requests' : requests'[n].id = r /\ routes'[r] = RouteFor(n)'
    <3>1. PICK n \in DOMAIN requests : requests[n].id = r /\ routes[r] = RouteFor(n)
      BY <1>3, <2>1 DEF RoutesBound
    <3> QED
      BY <1>1, <1>3, <2>1, <3>1
  <2>2. ASSUME NEW t \in Task, NEW r \in todo'[t]
        PROVE  \E n \in DOMAIN requests' : requests'[n].id = r /\ Gone(n)'
    <3>1. PICK n \in DOMAIN requests : requests[n].id = r /\ Gone(n)
      BY <1>3, <2>2 DEF RoutesBound
    <3> QED
      BY <1>1, <1>2, <3>1
  <2> QED
    BY <2>1, <2>2 DEF RoutesBound
<1>4. ASSUME UNCHANGED <<routes, todo>>
      PROVE  RoutesBound'
  BY <1>3, <1>4
<1>5. CASE \/ Tick \/ Answer \/ Take \/ ResolveCheck \/ SendRoute \/ Fallback \/ UNCHANGED vars
           \/ \E c \in Conn : Register(c) \/ Leave(c) \/ UnregisterSelf(c) \/ Evict(c)
  BY <1>4, <1>5 DEF Tick, Answer, Take, ResolveCheck, SendRoute, Fallback, Register, Leave,
                    UnregisterSelf, Evict, tasks, vars
<1>6. CASE DropRoute
  <2>1. \A r \in RequestId : routes'[r] # NoRoute => routes'[r] = routes[r]
    BY <1>6 DEF DropRoute, TypeOK
  <2> QED
    BY <1>3, <1>6, <2>1 DEF DropRoute
<1>7. ASSUME NEW c \in Conn, Bind(c)
      PROVE  RoutesBound'
  <2>1. PICK r \in RequestId :
          /\ routes' = [routes EXCEPT ![r] = [conn |-> c, at |-> now]]
          /\ DOMAIN requests' = DOMAIN requests \cup {Len(requests) + 1}
          /\ requests'[Len(requests) + 1] = [id |-> r, by |-> c, at |-> now]
    BY <1>7, BindEffect
  <2>2. todo' = todo
    BY <1>7 DEF Bind
  <2>3. ASSUME NEW q \in RequestId, routes'[q] # NoRoute
        PROVE  \E n \in DOMAIN requests' : requests'[n].id = q /\ routes'[q] = RouteFor(n)'
    <3>1. CASE q = r
      <4>1. routes'[r] = [conn |-> c, at |-> now]
        BY <2>1 DEF TypeOK
      <4>2. PICK k : k = Len(requests) + 1
        OBVIOUS
      <4>3. k \in DOMAIN requests' /\ requests'[k] = [id |-> r, by |-> c, at |-> now]
        BY <2>1, <4>2
      <4>4. RouteFor(k)' = [conn |-> c, at |-> now]
        BY <4>3 DEF RouteFor
      <4> QED
        BY <3>1, <4>1, <4>3, <4>4
    <3>2. CASE q # r
      <4>1. routes'[q] = routes[q]
        BY <2>1, <3>2 DEF TypeOK
      <4>2. PICK n \in DOMAIN requests : requests[n].id = q /\ routes[q] = RouteFor(n)
        BY <2>3, <4>1 DEF RoutesBound
      <4> QED
        BY <1>1, <4>1, <4>2
    <3> QED
      BY <3>1, <3>2
  <2>4. ASSUME NEW t \in Task, NEW q \in todo'[t]
        PROVE  \E n \in DOMAIN requests' : requests'[n].id = q /\ Gone(n)'
    <3>1. PICK n \in DOMAIN requests : requests[n].id = q /\ Gone(n)
      BY <2>2, <2>4 DEF RoutesBound
    <3> QED
      BY <1>1, <1>2, <3>1
  <2> QED
    BY <2>3, <2>4 DEF RoutesBound
<1>8. ASSUME NEW t \in Task, NEW R \in SUBSET RequestId, Removing(t, R),
             \A r \in RequestId : routes'[r] # NoRoute => routes'[r] = routes[r],
             \A r \in R :
               r \in todo[t] \/ \E n \in DOMAIN requests : requests[n].id = r /\ Gone(n)
      PROVE  RoutesBound'
  <2>1. todo' = [todo EXCEPT ![t] = R]
    BY <1>8 DEF Removing
  <2>2. \A u \in Task : \A r \in todo'[u] :
          r \in todo[u] \/ \E n \in DOMAIN requests : requests[n].id = r /\ Gone(n)
    BY <1>8, <2>1 DEF TypeOK
  <2> QED
    BY <1>3, <1>8, <2>2
<1>9. ASSUME NEW r \in RequestId, routes[r] # NoRoute,
             \/ routes[r].conn \notin connections
             \/ now - routes[r].at > RouteTTL
      PROVE  \E n \in DOMAIN requests : requests[n].id = r /\ Gone(n)
  <2>1. PICK n \in DOMAIN requests : requests[n].id = r /\ routes[r] = RouteFor(n)
    BY <1>9 DEF RoutesBound
  <2>2. routes[r].conn = requests[n].by /\ routes[r].at = requests[n].at
    BY <2>1 DEF RouteFor
  <2> QED
    BY <1>9, <2>1, <2>2 DEF Gone
<1>10. ASSUME NEW c \in Conn, PruneRoutes(c)
       PROVE  RoutesBound'
  <2>1. PICK R \in SUBSET RequestId : Removing(c, R) /\ \A r \in R : Stale(r)
    BY <1>10 DEF PruneRoutes
  <2>2. routes' = routes
    BY <1>10 DEF PruneRoutes
  <2>3. \A r \in R : \E n \in DOMAIN requests : requests[n].id = r /\ Gone(n)
    BY <1>9, <2>1 DEF Stale
  <2> QED
    BY <1>8, <2>1, <2>2, <2>3
<1>11. ASSUME NEW t \in Task, CollectRoutes(t)
       PROVE  RoutesBound'
  <2>1. RoutesOf(target[t]) \in SUBSET RequestId /\ Removing(t, RoutesOf(target[t]))
    BY <1>11 DEF CollectRoutes, RoutesOf
  <2>2. routes' = routes
    BY <1>11 DEF CollectRoutes
  <2>3. \A r \in RoutesOf(target[t]) :
          \E n \in DOMAIN requests : requests[n].id = r /\ Gone(n)
    BY <1>9 DEF RoutesOf, SessionsSeen
  <2> QED
    BY <1>8, <2>1, <2>2, <2>3
<1>12. ASSUME NEW t \in Task, RemoveRoute(t)
       PROVE  RoutesBound'
  <2>1. PICK r \in todo[t] :
          routes' = [routes EXCEPT ![r] = NoRoute] /\ Removing(t, todo[t] \ {r})
    BY <1>12 DEF RemoveRoute
  <2>2. \A q \in RequestId : routes'[q] # NoRoute => routes'[q] = routes[q]
    BY <2>1 DEF TypeOK
  <2>3. todo[t] \ {r} \in SUBSET RequestId
    BY DEF TypeOK
  <2> QED
    BY <1>8, <2>1, <2>2, <2>3
<1> QED
  BY <1>5, <1>6, <1>7, <1>10, <1>11, <1>12 DEF Next

LEMMA OneAnswerStep ==
  TypeOK /\ Control /\ OneAnswer /\ [Next]_vars => OneAnswer'
<1> SUFFICES ASSUME TypeOK, Control, OneAnswer, [Next]_vars
             PROVE  OneAnswer'
  OBVIOUS
<1> USE RoutesAssumption, TaskParts
<1>1. /\ DOMAIN requests = 1..Len(requests) /\ Len(requests) \in Nat
      /\ DOMAIN requests \subseteq Number /\ 0 \notin DOMAIN requests
      /\ inbox \subseteq DOMAIN requests /\ answer \in {0} \cup DOMAIN requests
      /\ \A c \in Conn : command[c] # 0 => command[c] \in DOMAIN requests
      /\ outbox \in Seq(DOMAIN requests)
  <2>1. \A c \in Conn : command[c] \in 0..Len(requests)
    BY DEF TypeOK
  <2> QED
    BY <2>1, RequestFacts DEF TypeOK
<1>2. \A i \in DOMAIN outbox : outbox[i] \in DOMAIN requests
  BY <1>1
<1>3. CASE /\ UNCHANGED <<command, inbox, outbox, received, requests>>
           /\ answer' \in {answer, 0}
           /\ step'[Outbox] \in {"check", "send"} => step[Outbox] \in {"check", "send"} /\ answer' = answer
  <2>1. InSession'
    BY <1>1, <1>2, <1>3 DEF OneAnswer, InSession
  <2>2. InInbox'
    BY <1>1, <1>2, <1>3 DEF OneAnswer, InInbox
  <2>3. InOutbox'
    BY <1>1, <1>2, <1>3 DEF OneAnswer, InOutbox
  <2>4. InHand'
    BY <1>1, <1>2, <1>3 DEF OneAnswer, InHand
  <2>5. NotYetSent'
    BY <1>1, <1>2, <1>3 DEF OneAnswer, NotYetSent
  <2> QED
    BY <2>1, <2>2, <2>3, <2>4, <2>5 DEF OneAnswer
<1>4. CASE Tick \/ UNCHANGED vars
  BY <1>3, <1>4 DEF Tick, vars, tasks, consumer, backend, history
<1>5. CASE Answer
  <2>1. PICK n \in inbox : inbox' = inbox \ {n} /\ outbox' = Append(outbox, n)
    BY <1>5 DEF Answer
  <2>2. UNCHANGED <<command, answer, received, requests, step>>
    BY <1>5 DEF Answer, tasks, consumer, history
  <2>3. /\ DOMAIN outbox' = DOMAIN outbox \cup {Len(outbox) + 1} /\ Len(outbox) + 1 \notin DOMAIN outbox
        /\ outbox'[Len(outbox) + 1] = n /\ \A i \in DOMAIN outbox : outbox'[i] = outbox[i]
    BY <1>1, <2>1
  <2>4. InSession'
    BY <1>1, <2>1, <2>2, <2>3 DEF OneAnswer, InSession
  <2>5. InInbox'
    BY <1>1, <2>1, <2>2, <2>3 DEF OneAnswer, InInbox
  <2>6. InOutbox'
    <3>1. received[n] = {} /\ n # answer /\ \A i \in DOMAIN outbox : outbox[i] # n
      BY <2>1 DEF OneAnswer, InInbox
    <3>2. \A i \in DOMAIN outbox' :
            \/ i = Len(outbox) + 1 /\ outbox'[i] = n
            \/ i \in DOMAIN outbox /\ outbox'[i] = outbox[i]
      BY <2>3
    <3>3. \A i \in DOMAIN outbox' : received[outbox'[i]] = {} /\ outbox'[i] # answer
      BY <3>1, <3>2 DEF OneAnswer, InOutbox
    <3>4. \A i, j \in DOMAIN outbox' : outbox'[j] = outbox'[i] => j = i
      BY <3>1, <3>2 DEF OneAnswer, InOutbox
    <3> QED
      BY <2>2, <3>3, <3>4 DEF InOutbox
  <2>7. InHand'
    BY <1>1, <2>1, <2>2, <2>3 DEF OneAnswer, InHand
  <2>8. NotYetSent'
    BY <1>1, <2>1, <2>2, <2>3 DEF OneAnswer, NotYetSent
  <2> QED
    BY <2>4, <2>5, <2>6, <2>7, <2>8 DEF OneAnswer
<1>6. CASE Take
  <2>1. /\ step[Outbox] = "rest" /\ outbox # <<>> /\ answer' = Head(outbox) /\ outbox' = Tail(outbox)
        /\ UNCHANGED <<command, inbox, received, requests>>
    BY <1>6 DEF Take, history
  <2>2. answer = 0
    BY <2>1 DEF TypeOK
  <2>3. /\ 1 \in DOMAIN outbox /\ answer' = outbox[1]
        /\ \A i \in DOMAIN outbox' : i + 1 \in DOMAIN outbox /\ i + 1 # 1 /\ outbox'[i] = outbox[i + 1]
        /\ \A i, j \in DOMAIN outbox' : i + 1 = j + 1 => i = j
    BY <1>1, <2>1
  <2>4. received[answer'] = {}
    BY <2>3 DEF OneAnswer, InSession, InInbox, InOutbox, InHand, NotYetSent
  <2>5. \A c \in Conn : command[c] # 0 => command[c] # answer' /\ \A i \in DOMAIN outbox' : outbox'[i] # command[c]
    BY <2>3 DEF OneAnswer, InSession, InInbox, InOutbox, InHand, NotYetSent
  <2>6. \A n \in inbox : n # answer' /\ \A i \in DOMAIN outbox' : outbox'[i] # n
    BY <2>3 DEF OneAnswer, InSession, InInbox, InOutbox, InHand, NotYetSent
  <2>7. \A i \in DOMAIN outbox' :
          /\ received[outbox'[i]] = {} /\ outbox'[i] # answer'
          /\ \A j \in DOMAIN outbox' : outbox'[j] = outbox'[i] => j = i
    BY <2>3 DEF OneAnswer, InSession, InInbox, InOutbox, InHand, NotYetSent
  <2> QED
    BY <2>1, <2>4, <2>5, <2>6, <2>7 DEF OneAnswer, InSession, InInbox, InOutbox, InHand, NotYetSent
<1>7. CASE ResolveCheck \/ DropRoute
  <2>1. UNCHANGED <<command, inbox, outbox, received, requests, answer>>
    BY <1>7 DEF ResolveCheck, DropRoute, consumer, backend, history
  <2>2. step'[Outbox] \in {"check", "send"} => step[Outbox] \in {"check", "send"}
    BY <1>7 DEF ResolveCheck, DropRoute, Go, TypeOK
  <2> QED
    BY <1>3, <2>1, <2>2
<1>8. ASSUME NEW R, received' = [received EXCEPT ![answer] = @ \cup R], answer \in DOMAIN requests,
             UNCHANGED <<command, inbox, outbox, requests>>, answer' \in {answer, 0},
             step'[Outbox] \notin {"check", "send"}
      PROVE  OneAnswer'
  <2>1. \A n \in Number : n # answer => received'[n] = received[n]
    BY <1>8 DEF TypeOK
  <2>2. InSession'
    BY <1>1, <1>2, <1>8, <2>1 DEF OneAnswer, InSession
  <2>3. InInbox'
    BY <1>1, <1>2, <1>8, <2>1 DEF OneAnswer, InInbox
  <2>4. InOutbox'
    BY <1>1, <1>2, <1>8, <2>1 DEF OneAnswer, InOutbox
  <2>5. InHand'
    BY <1>1, <1>2, <1>8, <2>1 DEF OneAnswer, InHand
  <2>6. NotYetSent'
    BY <1>1, <1>2, <1>8, <2>1 DEF OneAnswer, NotYetSent
  <2> QED
    BY <2>2, <2>3, <2>4, <2>5, <2>6 DEF OneAnswer
<1>9. CASE SendRoute
  <2>1. answer \in DOMAIN requests /\ UNCHANGED <<command, inbox, outbox, requests>>
    BY <1>1, <1>9 DEF SendRoute, Finish, TypeOK
  <2>2. answer' \in {answer, 0} /\ step'[Outbox] \notin {"check", "send"}
    BY <1>9 DEF SendRoute, Finish, Unregister, Go, consumer, TypeOK
  <2>3. received' = received \/ received' = [received EXCEPT ![answer] = @ \cup {found.conn}]
    BY <1>9 DEF SendRoute
  <2>4. CASE received' = received
    BY <1>3, <2>1, <2>2, <2>4
  <2>5. CASE received' = [received EXCEPT ![answer] = @ \cup {found.conn}]
    BY <1>8, <2>1, <2>2, <2>5
  <2> QED
    BY <2>3, <2>4, <2>5
<1>10. CASE Fallback
  <2>1. answer \in DOMAIN requests /\ UNCHANGED <<command, inbox, outbox, requests>>
    BY <1>1, <1>10 DEF Fallback, Finish, TypeOK
  <2>2. answer' \in {answer, 0} /\ step'[Outbox] \notin {"check", "send"}
    BY <1>10 DEF Fallback, Finish, Unregister, Go, TypeOK
  <2>3. PICK R : received' = [received EXCEPT ![answer] = @ \cup R]
    BY <1>10 DEF Fallback
  <2> QED
    BY <1>8, <2>1, <2>2, <2>3
<1>11. ASSUME NEW c \in Conn, Register(c) \/ Leave(c) \/ UnregisterSelf(c) \/ Evict(c)
       PROVE  OneAnswer'
  <2>1. UNCHANGED <<command, inbox, outbox, received, requests, answer>> /\ step'[Outbox] = step[Outbox]
    BY <1>11 DEF Register, Leave, UnregisterSelf, Evict, Unregister, Go, tasks, consumer, backend,
                 history, TypeOK
  <2> QED
    BY <1>3, <2>1
<1>12. ASSUME NEW c \in Conn, Bind(c)
       PROVE  OneAnswer'
  <2>1. /\ DOMAIN requests' = DOMAIN requests \cup {Len(requests) + 1}
        /\ Len(requests) + 1 \in Number \ DOMAIN requests
    BY <1>12, BindEffect
  <2>2. /\ command' = [command EXCEPT ![c] = Len(requests) + 1]
        /\ UNCHANGED <<inbox, outbox, answer, received>> /\ step'[Outbox] = step[Outbox]
    BY <1>12 DEF Bind, Go, consumer, backend, TypeOK
  <2>3. /\ command'[c] = Len(requests) + 1
        /\ \A d \in Conn : d # c => command'[d] = command[d]
    BY <2>2 DEF TypeOK
  <2>4. /\ received[Len(requests) + 1] = {} /\ Len(requests) + 1 # answer
        /\ Len(requests) + 1 \notin inbox /\ \A i \in DOMAIN outbox : outbox[i] # Len(requests) + 1
        /\ \A d \in Conn : command[d] # Len(requests) + 1
    BY <1>1, <1>2, <2>1 DEF OneAnswer, InSession, InInbox, InOutbox, InHand, NotYetSent
  <2>5. \A d \in Conn : command'[d] # 0 =>
          /\ received[command'[d]] = {} /\ command'[d] \notin inbox /\ command'[d] # answer
          /\ \A e \in Conn : command'[e] = command'[d] => e = d
          /\ \A i \in DOMAIN outbox : outbox[i] # command'[d]
    <3> SUFFICES ASSUME NEW d \in Conn, command'[d] # 0
                 PROVE  /\ received[command'[d]] = {} /\ command'[d] \notin inbox /\ command'[d] # answer
                        /\ \A e \in Conn : command'[e] = command'[d] => e = d
                        /\ \A i \in DOMAIN outbox : outbox[i] # command'[d]
      OBVIOUS
    <3>1. CASE d = c
      BY <2>3, <2>4, <3>1
    <3>2. CASE d # c
      BY <2>3, <2>4, <3>2 DEF OneAnswer, InSession, InInbox, InOutbox, InHand, NotYetSent
    <3> QED
      BY <3>1, <3>2
  <2> QED
    BY <2>1, <2>2, <2>5, SMTT(20) DEF OneAnswer, InSession, InInbox, InOutbox, InHand, NotYetSent
<1>13. ASSUME NEW t \in Task,
              \/ \E c \in Conn : t = c /\ PruneRoutes(c)
              \/ CollectRoutes(t) \/ RemoveRoute(t)
       PROVE  OneAnswer'
  <2>1. PICK R \in SUBSET RequestId : Removing(t, R)
    BY <1>13 DEF PruneRoutes, CollectRoutes, RemoveRoute, RoutesOf, TypeOK
  <2>2. step[t] # "rest" /\ UNCHANGED <<received, requests, outbox>>
    BY <1>13 DEF PruneRoutes, CollectRoutes, RemoveRoute, history
  <2>3. /\ answer' \in {answer, 0}
        /\ step'[Outbox] \in {"check", "send"} => t # Outbox /\ step[Outbox] \in {"check", "send"}
        /\ t # Outbox => answer' = answer
    <3>1. PICK s \in {"rest", "remove", "drop"} :
            /\ step' = [step EXCEPT ![t] = s]
            /\ IF t = Outbox /\ s = "rest" THEN answer' = 0 /\ found' = NoRoute
                                           ELSE UNCHANGED <<answer, found>>
      BY <2>1, <2>2, RemovingEffect
    <3> QED
      BY <3>1 DEF TypeOK
  <2>4. CASE UNCHANGED <<command, inbox>>
    BY <1>3, <2>2, <2>3, <2>4
  <2>5. CASE /\ t \in Conn /\ command[t] # 0
             /\ inbox' = inbox \cup {command[t]}
             /\ command' = [command EXCEPT ![t] = 0]
             /\ UNCHANGED answer
    <3>1. /\ command'[t] = 0 /\ \A d \in Conn : d # t => command'[d] = command[d]
      BY <2>5 DEF TypeOK
    <3>2. \A d \in Conn : command'[d] # 0 => d # t /\ command'[d] = command[d] /\ command[d] # command[t]
      BY <2>5, <3>1 DEF OneAnswer, InSession, InInbox, InOutbox, InHand, NotYetSent
    <3>3. \A d \in Conn : command'[d] # 0 =>
            /\ received[command'[d]] = {} /\ command'[d] \notin inbox' /\ command'[d] # answer
            /\ \A e \in Conn : command'[e] = command'[d] => e = d
            /\ \A i \in DOMAIN outbox : outbox[i] # command'[d]
      BY <2>5, <3>1, <3>2 DEF OneAnswer, InSession, InInbox, InOutbox, InHand, NotYetSent
    <3>4. \A n \in inbox' : received[n] = {} /\ n # answer /\ \A i \in DOMAIN outbox : outbox[i] # n
      BY <2>5 DEF OneAnswer, InSession, InInbox, InOutbox, InHand, NotYetSent
    <3> QED
      BY <2>2, <2>3, <2>5, <3>3, <3>4
        DEF OneAnswer, InSession, InInbox, InOutbox, InHand, NotYetSent
  <2> QED
    BY <2>1, <2>4, <2>5, RemovingCommand
<1> QED
  BY <1>4, <1>5, <1>6, <1>7, <1>9, <1>10, <1>11, <1>12, <1>13 DEF Next

LEMMA RouteIsOne == \A n : RouteFor(n) # NoRoute
<1> TAKE n
<1>1. DOMAIN RouteFor(n) = {"conn", "at"} /\ DOMAIN NoRoute = {"conn"}
  BY DEF RouteFor, NoRoute
<1> QED
  BY <1>1

LEMMA InPlaceStep ==
  TypeOK /\ Control /\ SessionsSeen /\ RoutesBound /\ RouteInPlace /\ [Next]_vars => RouteInPlace'
<1> SUFFICES ASSUME TypeOK, Control, SessionsSeen, RoutesBound, RouteInPlace, [Next]_vars,
                    NEW n \in DOMAIN requests', FreshId(n)', ~Gone(n)'
             PROVE  /\ routes'[Id(n)'] = RouteFor(n)'
                    /\ answer' = n => step'[Outbox] \in {"check", "send"} /\ found' = RouteFor(n)'
  BY DEF RouteInPlace
<1> USE RoutesAssumption, TaskParts
<1>t. step \in [Task -> Steps] /\ 0 \notin DOMAIN requests /\ answer \in {0} \cup DOMAIN requests
  BY RequestFacts DEF TypeOK
<1>n. CASE n \notin DOMAIN requests
  <2>1. DOMAIN requests' # DOMAIN requests
    BY <1>n
  <2>2. PICK c \in Conn : Bind(c)
    <3>1. requests' # requests
      BY <2>1
    <3>2. ~Take /\ ~ResolveCheck /\ ~SendRoute /\ ~DropRoute /\ ~Fallback /\ ~Tick /\ ~Answer
      BY <3>1 DEF Take, ResolveCheck, SendRoute, DropRoute, Fallback, Tick, Answer, history
    <3>3. \A c \in Conn : ~Register(c) /\ ~Leave(c) /\ ~UnregisterSelf(c) /\ ~Evict(c) /\ ~PruneRoutes(c)
      BY <3>1 DEF Register, Leave, UnregisterSelf, Evict, PruneRoutes, history
    <3>4. \A t \in Task : ~CollectRoutes(t) /\ ~RemoveRoute(t)
      BY <3>1 DEF CollectRoutes, RemoveRoute, history
    <3>5. ~UNCHANGED vars
      BY <3>1 DEF vars, history
    <3> QED
      BY <3>2, <3>3, <3>4, <3>5 DEF Next
  <2>3. PICK r \in RequestId :
          /\ routes' = [routes EXCEPT ![r] = [conn |-> c, at |-> now]]
          /\ DOMAIN requests' = DOMAIN requests \cup {Len(requests) + 1}
          /\ requests'[Len(requests) + 1] = [id |-> r, by |-> c, at |-> now]
    BY <2>2, BindEffect
  <2>4. n = Len(requests) + 1 /\ answer' = answer
    BY <1>n, <2>2, <2>3 DEF Bind, consumer
  <2>5. answer' # n
    BY <1>t, <1>n, <2>4, RequestFacts
  <2>6. routes'[r] = [conn |-> c, at |-> now]
    BY <2>3 DEF TypeOK
  <2>7. Id(n)' = r /\ RouteFor(n)' = [conn |-> c, at |-> now]
    BY <2>3, <2>4 DEF Id, RouteFor
  <2> QED
    BY <2>5, <2>6, <2>7
<1>o. CASE n \in DOMAIN requests
  <2>1. /\ DOMAIN requests \subseteq DOMAIN requests'
        /\ \A m \in DOMAIN requests : requests'[m] = requests[m]
    BY Forward
  <2>2. FreshId(n) /\ ~Gone(n)
    <3>1. FreshId(n)
      BY <1>o, <2>1 DEF FreshId
    <3>2. ~Gone(n)
      BY <1>o, GoneStays
    <3> QED
      BY <3>1, <3>2
  <2>3. /\ routes[Id(n)] = RouteFor(n)
        /\ answer = n => step[Outbox] \in {"check", "send"} /\ found = RouteFor(n)
    BY <1>o, <2>2 DEF RouteInPlace
  <2>4. Id(n)' = Id(n) /\ RouteFor(n)' = RouteFor(n)
    BY <1>o, <2>1 DEF Id, RouteFor
  <2>5. /\ requests[n].by \in connections /\ session[requests[n].by] = "open"
        /\ ~(now - requests[n].at > RouteTTL)
    BY <2>2 DEF Gone
  <2>6. /\ RouteFor(n).conn = requests[n].by /\ RouteFor(n).at = requests[n].at
        /\ RouteFor(n) # NoRoute
    BY RouteIsOne DEF RouteFor
  <2>7. Id(n) \in RequestId
    BY <1>o, RequestFacts DEF Id
  <2> SUFFICES /\ routes'[Id(n)] = RouteFor(n)
               /\ answer' = n => step'[Outbox] \in {"check", "send"} /\ found' = RouteFor(n)
    BY <2>4
  <2>8. CASE /\ routes'[Id(n)] = routes[Id(n)]
             /\ UNCHANGED <<answer, found>> /\ step'[Outbox] = step[Outbox]
    BY <2>3, <2>8
  <2>9. CASE routes'[Id(n)] = routes[Id(n)] /\ answer # n /\ answer' \in {answer, 0}
    BY <1>o, <1>t, <2>3, <2>9
  <2>10. CASE Tick \/ Answer \/ UNCHANGED vars
    BY <2>8, <2>10 DEF Tick, Answer, tasks, consumer, vars
  <2>11. CASE Take
    <3>1. routes' = routes /\ answer' = Head(outbox) /\ ResolveGet(Head(outbox))
      BY <2>11 DEF Take
    <3>2. CASE answer' = n
      BY <1>t, <2>3, <2>5, <2>6, <3>1, <3>2 DEF ResolveGet, Go
    <3> QED
      BY <2>3, <3>1, <3>2
  <2>12. CASE ResolveCheck
    <3>1. UNCHANGED <<routes, answer, found>>
      BY <2>12 DEF ResolveCheck, consumer
    <3>2. CASE answer = n
      <4>1. found.conn \in connections /\ MatchesSubject(found.conn)
        BY <2>3, <2>5, <2>6, <3>2 DEF MatchesSubject, User
      <4>2. step'[Outbox] = "send"
        BY <1>t, <2>12, <4>1 DEF ResolveCheck, Go
      <4> QED
        BY <2>3, <3>1, <3>2, <4>2
    <3> QED
      BY <2>3, <3>1, <3>2
  <2>13. CASE SendRoute
    <3>1. routes' = routes
      BY <2>13 DEF SendRoute
    <3>2. CASE answer = n
      <4>1. found.conn \in connections /\ session[found.conn] = "open"
        BY <2>3, <2>5, <2>6, <3>2
      <4>2. answer' = 0
        BY <2>13, <4>1 DEF SendRoute, Finish
      <4> QED
        BY <1>o, <1>t, <2>3, <3>1, <4>2
    <3>3. CASE answer # n
      <4>1. answer' \in {answer, 0}
        BY <2>13 DEF SendRoute, Finish, consumer
      <4> QED
        BY <2>9, <3>1, <3>3, <4>1
    <3> QED
      BY <3>2, <3>3
  <2>14. CASE DropRoute
    <3>1. step[Outbox] = "drop" /\ routes' = [routes EXCEPT ![Id(answer)] = NoRoute] /\ answer' = answer
      BY <2>14 DEF DropRoute, consumer
    <3>2. answer # n /\ answer \in DOMAIN requests
      BY <2>3, <3>1 DEF TypeOK
    <3>3. Id(answer) # Id(n)
      BY <2>2, <3>2 DEF FreshId, Id
    <3>4. routes'[Id(n)] = routes[Id(n)]
      BY <2>7, <3>1, <3>3 DEF TypeOK
    <3> QED
      BY <2>9, <3>1, <3>2, <3>4
  <2>15. CASE Fallback
    <3>1. step[Outbox] = "fallback" /\ routes' = routes /\ answer' \in {answer, 0}
      BY <2>15 DEF Fallback, Finish
    <3> QED
      BY <2>3, <2>9, <3>1
  <2>16. ASSUME NEW c \in Conn, Register(c) \/ Leave(c) \/ UnregisterSelf(c) \/ Evict(c)
         PROVE  UNCHANGED <<routes, answer, found>> /\ step'[Outbox] = step[Outbox]
    BY <1>t, <2>16 DEF Register, Leave, UnregisterSelf, Evict, Unregister, Go, tasks, consumer
  <2>17. ASSUME NEW c \in Conn, Bind(c)
         PROVE  /\ routes'[Id(n)] = routes[Id(n)]
                /\ UNCHANGED <<answer, found>> /\ step'[Outbox] = step[Outbox]
    <3>1. PICK r \in RequestId :
            /\ routes' = [routes EXCEPT ![r] = [conn |-> c, at |-> now]]
            /\ DOMAIN requests' = DOMAIN requests \cup {Len(requests) + 1}
            /\ Len(requests) + 1 \in Number \ DOMAIN requests
            /\ requests'[Len(requests) + 1] = [id |-> r, by |-> c, at |-> now]
      BY <2>17, BindEffect
    <3>2. r # Id(n)
      BY <1>o, <2>1, <3>1 DEF FreshId, Id
    <3>3. UNCHANGED <<answer, found>> /\ step'[Outbox] = step[Outbox]
      BY <1>t, <2>17 DEF Bind, Go, consumer
    <3> QED
      BY <2>7, <3>1, <3>2, <3>3 DEF TypeOK
  <2>18. ASSUME NEW t \in Task,
                \/ \E c \in Conn : t = c /\ PruneRoutes(c)
                \/ CollectRoutes(t) \/ RemoveRoute(t)
         PROVE  /\ routes'[Id(n)] = routes[Id(n)]
                /\ \/ UNCHANGED <<answer, found>> /\ step'[Outbox] = step[Outbox]
                   \/ answer # n /\ answer' \in {answer, 0}
    <3>1. PICK R \in SUBSET RequestId : Removing(t, R)
      BY <2>18 DEF PruneRoutes, CollectRoutes, RemoveRoute, RoutesOf, TypeOK
    <3>2. step[t] \in {"prune", "collect", "remove"}
      BY <2>18 DEF PruneRoutes, CollectRoutes, RemoveRoute
    <3>3. PICK s \in {"rest", "remove", "drop"} :
            /\ step' = [step EXCEPT ![t] = s]
            /\ IF t = Outbox /\ s = "rest" THEN answer' = 0 /\ found' = NoRoute
                                           ELSE UNCHANGED <<answer, found>>
      BY <3>1, <3>2, RemovingEffect
    <3>4. \/ UNCHANGED <<answer, found>> /\ step'[Outbox] = step[Outbox]
          \/ answer # n /\ answer' \in {answer, 0}
      <4>1. CASE t = Outbox
        BY <2>3, <3>2, <3>3, <4>1
      <4>2. CASE t # Outbox
        BY <1>t, <3>3, <4>2
      <4> QED
        BY <4>1, <4>2
    <3>5. Id(n) \notin todo[t]
      <4> SUFFICES ASSUME Id(n) \in todo[t]
                   PROVE  FALSE
        OBVIOUS
      <4>1. PICK m \in DOMAIN requests : requests[m].id = Id(n) /\ Gone(m)
        BY DEF RoutesBound
      <4> QED
        BY <2>2, <4>1 DEF FreshId, Id
    <3>6. routes' = routes \/ \E r \in todo[t] : routes' = [routes EXCEPT ![r] = NoRoute]
      BY <2>18 DEF PruneRoutes, CollectRoutes, RemoveRoute
    <3> QED
      BY <2>7, <3>4, <3>5, <3>6 DEF TypeOK
  <2>19. CASE \E c \in Conn : Register(c) \/ Leave(c) \/ UnregisterSelf(c) \/ Evict(c)
    BY <2>8, <2>16, <2>19
  <2>20. CASE \E c \in Conn : Bind(c)
    BY <2>8, <2>17, <2>20
  <2>21. CASE \E t \in Task : \/ \E c \in Conn : t = c /\ PruneRoutes(c)
                              \/ CollectRoutes(t) \/ RemoveRoute(t)
    BY <2>8, <2>9, <2>18, <2>21
  <2> QED
    BY <2>10, <2>11, <2>12, <2>13, <2>14, <2>15, <2>19, <2>20, <2>21 DEF Next
<1> QED
  BY <1>n, <1>o

LEMMA ToSenderOnly ==
  ASSUME TypeOK, Control, OneAnswer, RouteInPlace, Next,
         NEW n \in DOMAIN requests, received'[n] # received[n], FreshId(n), ~Gone(n)
  PROVE  received'[n] = {requests[n].by}
<1> USE RoutesAssumption, TaskParts
<1>1. received' # received
  OBVIOUS
<1>2. ~Take /\ ~ResolveCheck /\ ~DropRoute /\ ~Tick /\ ~Answer
  BY <1>1 DEF Take, ResolveCheck, DropRoute, Tick, Answer, history
<1>3. \A c \in Conn : ~Register(c) /\ ~Leave(c) /\ ~UnregisterSelf(c) /\ ~Evict(c) /\ ~Bind(c) /\ ~PruneRoutes(c)
  BY <1>1 DEF Register, Leave, UnregisterSelf, Evict, Bind, PruneRoutes, history
<1>4. \A t \in Task : ~CollectRoutes(t) /\ ~RemoveRoute(t)
  BY <1>1 DEF CollectRoutes, RemoveRoute, history
<1>5. n \in Number /\ received \in [Number -> SUBSET Conn]
  BY RequestFacts DEF TypeOK
<1>6. answer = n => step[Outbox] \in {"check", "send"} /\ found = RouteFor(n)
  BY DEF RouteInPlace
<1>7. CASE SendRoute
  <2>1. received' = [received EXCEPT ![answer] = @ \cup {found.conn}] /\ step[Outbox] = "send"
    BY <1>1, <1>7 DEF SendRoute
  <2>2. answer = n
    BY <1>5, <2>1
  <2>3. received[n] = {}
    BY <2>1, <2>2 DEF OneAnswer, InSession, InInbox, InOutbox, InHand, NotYetSent
  <2>4. found.conn = requests[n].by
    BY <1>6, <2>2 DEF RouteFor
  <2> QED
    BY <1>5, <2>1, <2>2, <2>3, <2>4
<1>8. CASE Fallback
  <2>1. step[Outbox] = "fallback" /\ \E R : received' = [received EXCEPT ![answer] = @ \cup R]
    BY <1>8 DEF Fallback
  <2>2. answer = n
    BY <1>5, <2>1
  <2> QED
    BY <1>6, <2>1, <2>2
<1> QED
  BY <1>2, <1>3, <1>4, <1>7, <1>8 DEF Next

(* The response to a request with an id of its own, whose session is still  *)
(* connected and in time, goes to this session alone, on any number of      *)
(* worker threads.                                                          *)
THEOREM ResponseToSender == Spec => RoutedToSender
<1> DEFINE IInv == /\ TypeOK /\ Control /\ SessionsSeen /\ RoutesBound
                   /\ OneAnswer /\ RouteInPlace
<1>1. Init => IInv
  <2> SUFFICES ASSUME Init
               PROVE  IInv
    OBVIOUS
  <2>1. DOMAIN requests = {} /\ DOMAIN outbox = {}
    BY DEF Init
  <2>2. SessionsSeen /\ RoutesBound /\ RouteInPlace
    BY <2>1 DEF Init, SessionsSeen, RoutesBound, RouteInPlace
  <2>3. OneAnswer
    BY <2>1, TaskParts
      DEF Init, OneAnswer, InSession, InInbox, InOutbox, InHand, NotYetSent
  <2> QED
    BY <2>2, <2>3, InitType
<1>2. IInv /\ [Next]_vars => IInv'
  <2> SUFFICES ASSUME IInv, [Next]_vars
               PROVE  IInv'
    OBVIOUS
  <2>1. TypeOK' /\ Control'
    BY TypeStep
  <2>2. SessionsSeen'
    BY SeenStep
  <2>3. RoutesBound'
    BY BoundStep
  <2>4. OneAnswer'
    BY OneAnswerStep
  <2>5. RouteInPlace'
    BY InPlaceStep
  <2> QED
    BY <2>1, <2>2, <2>3, <2>4, <2>5
<1>3. IInv /\ [Next]_vars
        => [\A n \in DOMAIN requests :
              received'[n] # received[n] /\ FreshId(n)
                => LET c == requests[n].by
                   IN (c \in connections /\ session[c] = "open" /\ now - requests[n].at <= RouteTTL)
                        => received'[n] = {c}]_vars
  <2> SUFFICES ASSUME IInv, Next, NEW n \in DOMAIN requests,
                      received'[n] # received[n], FreshId(n),
                      requests[n].by \in connections, session[requests[n].by] = "open",
                      now - requests[n].at <= RouteTTL
               PROVE  received'[n] = {requests[n].by}
    OBVIOUS
  <2>1. now \in Nat /\ requests[n].at \in Nat /\ RouteTTL \in Nat
    BY RequestFacts, RoutesAssumption DEF TypeOK
  <2>2. ~Gone(n)
    BY <2>1 DEF Gone
  <2> QED
    BY <2>2, ToSenderOnly
<1> QED
  BY <1>1, <1>2, <1>3, PTL DEF Spec, RoutedToSender
===============================================================================
