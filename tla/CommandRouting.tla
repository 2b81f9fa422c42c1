--------------------------- MODULE CommandRouting ---------------------------
(***************************************************************************)
(* What becomes of a message a client sends (handle_client_message,        *)
(* src/src/gateway_core.rs), with the registry it is looked up in and the  *)
(* startup that validates it (src/src/routes.rs, src/src/main.rs).         *)
(*                                                                         *)
(* The handler runs inside a branch of the session's select loop, so a     *)
(* session takes no other message, and does not end, before it has         *)
(* returned.  It awaits only the answer to its XADD, but on several worker *)
(* threads whatever else the gateway does comes between its steps, in      *)
(* particular the removal of its connection.  The message itself is what   *)
(* the handler looks at: its type, its request id, whether it names        *)
(* targets and the operation key; a blank one is dropped at once and left  *)
(* out.                                                                    *)
(*                                                                         *)
(* Elsewhere: the bookkeeping of last_seen and whom a ready session evicts *)
(* (ConnectionRegistry), on what a relay is authorized and what may come   *)
(* between that and the dispatch (RelayAuthorization), the age of routes   *)
(* (RequestRoutes), whom a dispatch reaches (MessageDelivery).  Replies to *)
(* the client carry nothing but the error.                                 *)
(***************************************************************************)
EXTENDS CommandRegistry

CONSTANTS
  Conn,          \* client sessions, by their connection
  RequestId,     \* request ids clients choose
  Type,          \* the types of messages
  Message,       \* the messages clients send
  Build,         \* programs a gateway may be
  RegistryOf,    \* the registry a program is built with
  MaxTaken,      \* bound: messages of a session
  None           \* no request id, no connection, no message

Messages ==
  [type : Type, request : RequestId \cup {None}, targets : BOOLEAN, key : BOOLEAN]

ASSUME RoutingAssumption ==
  /\ Message \subseteq Messages
  /\ RegistryOf \in [Build -> Registry(Type)]
  /\ MaxTaken \in [Conn -> Nat]
  /\ None \notin RequestId /\ None \notin Conn /\ None \notin Messages

VARIABLES
  build,         \* the program that runs
  redis,         \* a Redis client and an inbox stream are configured
  gateway,       \* "starting", "running" or "exited"
  at,            \* where a session is in the handler
  command,       \* the message it handles
  taken,         \* how many messages it has taken
  registered,    \* the keys of GatewayState.connections
  ready,         \* the keys of GatewayState.ready_connections
  routes,        \* the connection a request id is bound to
  relayed,       \* commands dispatched to peers, <<session, number>>
  inbox,         \* commands in the inbox stream
  answered,      \* positions of the inbox the backend has answered
  refused,       \* history: the last command of a session got an error
  binders        \* history: the commands a request id was bound for

static  == <<build, redis, gateway>>
handler == <<at, command, taken>>
state   == <<registered, ready, routes>>
streams == <<relayed, inbox, answered>>
history == <<refused, binders>>
vars    == <<static, handler, state, streams, history>>

Handling == {"bind", "ready", "relay", "publish", "answer"}

registry == RegistryOf[build]

Command == Conn \X Nat

Published == [of : Command, type : Type, request : RequestId \cup {None}]

TypeOK ==
  /\ build \in Build /\ redis \in BOOLEAN
  /\ gateway \in {"starting", "running", "exited"}
  /\ at \in [Conn -> {"new", "idle", "over"} \cup Handling]
  /\ command \in [Conn -> Messages \cup {None}]
  /\ \A c \in Conn : at[c] \in Handling <=> command[c] # None
  /\ taken \in [Conn -> Nat]
  /\ registered \subseteq Conn /\ ready \subseteq Conn
  /\ routes \in [RequestId -> Conn \cup {None}]
  /\ relayed \in Seq(Command)
  /\ inbox \in Seq(Published)
  /\ answered \subseteq DOMAIN inbox
  /\ refused \in [Conn -> BOOLEAN]
  /\ binders \in [RequestId -> SUBSET Command]

Init ==
  /\ build \in Build /\ redis \in BOOLEAN
  /\ gateway = "starting"
  /\ at = [c \in Conn |-> "new"]
  /\ command = [c \in Conn |-> None]
  /\ taken = [c \in Conn |-> 0]
  /\ registered = {} /\ ready = {}
  /\ routes = [r \in RequestId |-> None]
  /\ relayed = <<>> /\ inbox = <<>> /\ answered = {}
  /\ refused = [c \in Conn |-> FALSE]
  /\ binders = [r \in RequestId |-> {}]

-----------------------------------------------------------------------------
(* main, and the sessions *)

(* A registry that is not valid, or a transport that does not come up, is *)
(* the end of the program.                                                *)
Start ==
  /\ gateway = "starting"
  /\ gateway' \in {"exited"} \cup (IF Valid(registry) THEN {"running"} ELSE {})
  /\ UNCHANGED <<build, redis, handler, state, streams, history>>

Connect(c) ==
  /\ gateway = "running" /\ at[c] = "new"
  /\ at' = [at EXCEPT ![c] = "idle"]
  /\ registered' = registered \cup {c}
  /\ UNCHANGED <<static, command, taken, ready, routes, streams, history>>

(* unregister_connection of the connections in S. *)
Removed(S) ==
  /\ registered' = registered \ S
  /\ routes' = [r \in RequestId |-> IF routes[r] \in S THEN None ELSE routes[r]]

(* By the pruner, another session or a dispatch, at any moment. *)
Evict(c) ==
  /\ c \in registered
  /\ Removed({c})
  /\ ready' = ready \ {c}
  /\ UNCHANGED <<static, handler, streams, history>>

(* The loop of the session breaks, and the session unregisters. *)
End(c) ==
  /\ at[c] = "idle"
  /\ at' = [at EXCEPT ![c] = "over"]
  /\ Removed({c} \cap registered)
  /\ ready' = ready \ ({c} \cap registered)
  /\ UNCHANGED <<static, command, taken, streams, history>>

-----------------------------------------------------------------------------
(* handle_client_message: what the registry says of a message *)

Known(m) == Named(registry.commands, m.type) # {}

SpecOf(m) == Resolve(registry.commands, m.type)

Relays(m) == SpecOf(m).class = "relay_hotpath"

(* has_symfony_step *)
ToBackend(m) ==
  SpecOf(m).class = "backend_control" \/ (Relays(m) /\ SpecOf(m).mirror)

(* Unknown, for before the authentication, or local and not a ping. *)
Unroutable(m) ==
  \/ ~Known(m)
  \/ SpecOf(m).class = "no_auth"
  \/ (SpecOf(m).class = "gateway_local" /\ m.type # "ping")

Ignored(m) == ~Unroutable(m) /\ SpecOf(m).class = "gateway_local"

-----------------------------------------------------------------------------
(* handle_client_message: its steps *)

GoKeeping(c, step) ==  \* mutant: the message outlives its handling
  /\ at' = [at EXCEPT ![c] = step]
  /\ UNCHANGED command

Go(c, step) ==
  /\ at' = [at EXCEPT ![c] = step]
  /\ command' = IF step = "idle" THEN [command EXCEPT ![c] = None] ELSE command

(* An error reply, and an early return. *)
Refuse(c) ==
  /\ refused' = [refused EXCEPT ![c] = TRUE]
  /\ Go(c, "idle")

Take(c) ==
  /\ at[c] = "idle" /\ taken[c] < MaxTaken[c]
  /\ taken' = [taken EXCEPT ![c] = @ + 1]
  /\ \E m \in Message :
       /\ refused' = [refused EXCEPT ![c] = Unroutable(m)]
       /\ IF Unroutable(m) \/ Ignored(m)
            THEN UNCHANGED <<at, command>>
            ELSE /\ at' = [at EXCEPT ![c] = "bind"]
                 /\ command' = [command EXCEPT ![c] = m]
  /\ UNCHANGED <<static, state, streams, binders>>

BindsControlOnly(m) ==  \* mutant: a mirrored command is taken for a relay only
  SpecOf(m).class = "backend_control" /\ m.request # None

Binds(m) == ToBackend(m) /\ m.request # None

Bind(c) ==
  /\ at[c] = "bind"
  /\ IF Binds(command[c])
       THEN LET r == command[c].request
            IN  /\ routes' = [routes EXCEPT ![r] = c]
                /\ binders' = [binders EXCEPT ![r] = @ \cup {<<c, taken[c]>>}]
       ELSE UNCHANGED <<routes, binders>>
  /\ Go(c, "ready")
  /\ UNCHANGED <<static, taken, registered, ready, streams, refused>>

(* mark_session_ready, also of a connection that has been removed. *)
MarkReady(c) ==
  /\ at[c] = "ready"
  /\ IF command[c].type = "session_ready"
       THEN \E evicted \in SUBSET ((ready \cap registered) \ {c}) :
              /\ Removed(evicted)
              /\ ready' = (ready \ evicted) \cup {c}
       ELSE UNCHANGED state
  /\ Go(c, "relay")
  /\ UNCHANGED <<static, taken, streams, history>>

(* What keeps a relay command from being dispatched; whether a context is  *)
(* granted is decided by authorize_relay_hotpath.                          *)
Inadmissible(m, granted) ==
  \/ Named(registry.relay, m.type) = {}
  \/ ~m.key
  \/ (Resolve(registry.relay, m.type).context /\ ~granted)

RelayFallingThrough(c) ==  \* mutant: a refused command is mirrored all the same
  /\ at[c] = "relay"
  /\ LET m == command[c]
     IN  \/ /\ ~Relays(m) \/ ~m.targets
            /\ Go(c, "publish")
            /\ UNCHANGED <<relayed, refused>>
         \/ /\ Relays(m) /\ m.targets
            /\ \E granted \in BOOLEAN :
                 IF Inadmissible(m, granted)
                   THEN /\ refused' = [refused EXCEPT ![c] = TRUE]
                        /\ UNCHANGED relayed
                   ELSE /\ relayed' = Append(relayed, <<c, taken[c]>>)
                        /\ UNCHANGED refused
            /\ Go(c, "publish")
  /\ UNCHANGED <<static, taken, state, inbox, answered, binders>>

(* The relay block: a command without targets is skipped when it is also *)
(* for the backend; otherwise checked, dispatched and mirrored.          *)
Relay(c) ==
  /\ at[c] = "relay"
  /\ LET m == command[c]
         next == IF ToBackend(m) THEN "publish" ELSE "idle"
     IN  \/ /\ ~Relays(m) \/ (~m.targets /\ ToBackend(m))
            /\ Go(c, "publish")
            /\ UNCHANGED <<relayed, refused>>
         \/ /\ Relays(m) /\ ~m.targets /\ ~ToBackend(m)
            /\ Refuse(c)
            /\ UNCHANGED relayed
         \/ /\ Relays(m) /\ m.targets
            /\ \E granted \in BOOLEAN :
                 IF Inadmissible(m, granted)
                   THEN Refuse(c) /\ UNCHANGED relayed
                   ELSE /\ relayed' = Append(relayed, <<c, taken[c]>>)
                        /\ Go(c, next)
                        /\ UNCHANGED refused
  /\ UNCHANGED <<static, taken, state, inbox, answered, binders>>

(* publish_event: Redis adds the command to the inbox, or the call fails *)
(* before it does.                                                       *)
Publish(c) ==
  /\ at[c] = "publish"
  /\ \/ /\ redis
        /\ inbox' = Append(inbox, [of      |-> <<c, taken[c]>>,
                                   type    |-> command[c].type,
                                   request |-> command[c].request])
        /\ Go(c, "answer")
     \/ Go(c, "idle") /\ UNCHANGED inbox
  /\ UNCHANGED <<static, taken, state, relayed, answered, history>>

ReturnRetrying(c) ==  \* mutant: an XADD whose answer is lost is repeated
  /\ at[c] = "answer"
  /\ Go(c, "idle") \/ Go(c, "publish")
  /\ UNCHANGED <<static, taken, state, streams, history>>

(* The answer of Redis, or its loss, of which there is only a warning. *)
Return(c) ==
  /\ at[c] = "answer"
  /\ Go(c, "idle")
  /\ UNCHANGED <<static, taken, state, streams, history>>

(* The backend (external) answers a request, and the outbox consumer       *)
(* clears the route if it could go by it.                                  *)
Answer(i) ==
  /\ i \in (DOMAIN inbox) \ answered /\ inbox[i].request # None
  /\ answered' = answered \cup {i}
  /\ routes' \in {routes, [routes EXCEPT ![inbox[i].request] = None]}
  /\ UNCHANGED <<static, handler, registered, ready, relayed, inbox, history>>

-----------------------------------------------------------------------------
Next ==
  \/ Start
  \/ \E c \in Conn :
       \/ Connect(c) \/ Evict(c) \/ End(c)
       \/ Take(c) \/ Bind(c) \/ MarkReady(c) \/ Relay(c) \/ Publish(c) \/ Return(c)
  \/ \E i \in DOMAIN inbox : Answer(i)

Spec == Init /\ [][Next]_vars

-----------------------------------------------------------------------------
(***************************************************************************)
(* The handling of commands, however the steps of several sessions and the *)
(* failures of Redis mix, is what CommandContract says: each way gets the  *)
(* commands of a session in order and at most once, peers before backend,  *)
(* and an error reply means that nobody got it                             *)
(* (src/src/gateway_core.rs:176-316).                                      *)
(***************************************************************************)
Contract == INSTANCE CommandContract WITH inbox <- [i \in DOMAIN inbox |-> inbox[i].of]

ContractSpec == Contract!Spec

(***************************************************************************)
(* What the backend finds in the inbox the gateway is prepared for: the    *)
(* answer to a request is routable from the moment it can be given, unless *)
(* the connection is gone, the id was used twice or the route is too old;  *)
(* and a session that says it is ready is one of the ready connections as  *)
(* long as it is connected (src/src/gateway_core.rs:98-127).               *)
(***************************************************************************)
Unshared(i) == binders[inbox[i].request] \subseteq {inbox[i].of}

AnswerRoutable ==
  \A i \in (DOMAIN inbox) \ answered :
    inbox[i].request # None /\ Unshared(i) /\ inbox[i].of[1] \in registered
      => routes[inbox[i].request] = inbox[i].of[1]

ReadyKnown ==
  \A i \in DOMAIN inbox :
    inbox[i].type = "session_ready" /\ inbox[i].of[1] \in registered
      => inbox[i].of[1] \in ready

BackendSeesEffects == AnswerRoutable /\ ReadyKnown
=============================================================================
