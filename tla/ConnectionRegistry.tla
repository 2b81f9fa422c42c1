------------------------- MODULE ConnectionRegistry -------------------------
(***************************************************************************)
(* The connection registry of GatewayState (src/src/state.rs): which       *)
(* connections are registered, under which subjects they can be found and  *)
(* which of them have announced session_ready.                             *)
(*                                                                         *)
(* The registry is a handful of DashMaps shared by every task of a         *)
(* multi-threaded tokio runtime.  A method of GatewayState contains no     *)
(* await, so it keeps its worker thread from its first statement to its    *)
(* return, and at most Workers methods run at a time; but it takes and     *)
(* releases the lock of a map shard at each map access, so two methods     *)
(* interleave between any two accesses.  One step here is one such access: *)
(* a get, an insert, a remove, or one entry visited by an iterator (the    *)
(* iterator locks shard after shard, so a scan is no snapshot).            *)
(*                                                                         *)
(* unregister_connection is a subroutine (steps "drop_ready", "drop_index" *)
(* and "drop_key") that register_connection, mark_session_ready,           *)
(* prune_stale_connections, send_to_subjects and the end of a session all  *)
(* call; op[t] is the method task t is in and says where it returns to.    *)
(*                                                                         *)
(* Not here: the request_routes the same subroutine clears and the texts   *)
(* register_connection and send_to_subjects put on a connection's channel. *)
(***************************************************************************)
EXTENDS Integers, FiniteSets

CONSTANTS
  Conn,          \* connection ids; the task of a session has its connection's id
  Sweeper,       \* the pruning task of main.rs: a singleton, or {} when disabled
  Dispatcher,    \* tasks that call send_to_subjects
  Subject,       \* the strings a connection is indexed under ("user:...")
  UserOf,        \* user_id of a connection
  InstanceOf,    \* client_instance_id of a connection
  NoInstance,    \* the empty client_instance_id
  SubjectsOf,    \* info.subjects of a connection
  MaxPerUser,    \* max_connections_per_user, 0 when unlimited
  Workers,       \* worker threads of the runtime
  None           \* no value

Task == Conn \cup Sweeper \cup Dispatcher

ASSUME RegistryAssumption ==
  /\ IsFiniteSet(Task)
  /\ Conn \cap Sweeper = {} /\ Conn \cap Dispatcher = {} /\ Sweeper \cap Dispatcher = {}
  /\ SubjectsOf \in [Conn -> SUBSET Subject]
  /\ \A c \in Conn : SubjectsOf[c] # {}
  /\ MaxPerUser \in Nat
  /\ Workers \in Nat \ {0}
  /\ None \notin Conn \cup Subject

(* The strings that connections and callers of send_to_subjects name: the  *)
(* lists of both are finite, as are the connections.                       *)
ASSUME SubjectAssumption == IsFiniteSet(Subject)

VARIABLES
  connections,   \* ids with a ConnectionHandle
  connectedAt,   \* connected_at of a handle (ranks of the second it was read in)
  idle,          \* handles whose last_seen_at is older than the stale timeout
  subjects,      \* subjects[s]: the DashSet of subject s, {} when s is no key
  subjectKeys,   \* keys of the subjects map
  ready,         \* keys of ready_connections
  session,       \* what the task of a connection is doing
  op,            \* the GatewayState method a task is in
  step,          \* the next access of that method
  scan,          \* ids an iterator has still to visit
  ids,           \* ids collected and not yet handled (same_instance_connections, ...)
  target,        \* the connection unregister_connection has removed
  todo,          \* subjects a loop has still to visit
  key,           \* the subject whose set was found empty
  quota          \* connections mark_session_ready has still to evict

registry == <<connections, connectedAt, idle, subjects, subjectKeys, ready>>
frame    == <<op, step, scan, ids, target, todo, key, quota>>
vars     == <<registry, session, frame>>

Sessions == {"new", "open", "closing", "closed"}
Ops      == {"none", "register", "session_ready", "exit", "prune", "send"}
Steps    == {"rest", "scan", "lookup", "deliver", "evict", "index",
             "drop_ready", "drop_index", "drop_key"}

(***************************************************************************)
(* Type invariant: the shape of the maps and of the frames of the methods  *)
(* in flight (src/src/state.rs:188).                                       *)
(***************************************************************************)
TypeOK ==
  /\ connections \in SUBSET Conn
  /\ connectedAt \in [Conn -> Nat]
  /\ idle \in SUBSET Conn
  /\ subjects \in [Subject -> SUBSET Conn]
  /\ subjectKeys \in SUBSET Subject
  /\ ready \in SUBSET Conn
  /\ session \in [Conn -> Sessions]
  /\ op \in [Task -> Ops]
  /\ step \in [Task -> Steps]
  /\ scan \in [Task -> SUBSET Conn]
  /\ ids \in [Task -> SUBSET Conn]
  /\ target \in [Task -> Conn \cup {None}]
  /\ todo \in [Task -> SUBSET Subject]
  /\ key \in [Task -> Subject \cup {None}]
  /\ quota \in [Task -> Nat]

Init ==
  /\ connections = {}
  /\ connectedAt = [c \in Conn |-> 0]
  /\ idle = {}
  /\ subjects = [s \in Subject |-> {}]
  /\ subjectKeys = {}
  /\ ready = {}
  /\ session = [c \in Conn |-> "new"]
  /\ op = [t \in Task |-> "none"]
  /\ step = [t \in Task |-> "rest"]
  /\ scan = [t \in Task |-> {}]
  /\ ids = [t \in Task |-> {}]
  /\ target = [t \in Task |-> None]
  /\ todo = [t \in Task |-> {}]
  /\ key = [t \in Task |-> None]
  /\ quota = [t \in Task |-> 0]

-----------------------------------------------------------------------------
(* Calling and returning. *)

Busy == {t \in Task : op[t] # "none"}

WorkerFreeAsync == Cardinality(Busy) <= Workers  \* mutant: a method awaits midway

WorkerFree == Cardinality(Busy) < Workers

Call(t, method, first) ==
  /\ op[t] = "none"
  /\ WorkerFree
  /\ op' = [op EXCEPT ![t] = method]
  /\ step' = [step EXCEPT ![t] = first]

Return(t) ==
  /\ op' = [op EXCEPT ![t] = "none"]
  /\ step' = [step EXCEPT ![t] = "rest"]

(* An iterator is through: the loop over what it collected begins. *)
ScanDone(t) ==
  /\ op[t] # "session_ready"
  /\ step[t] \in {"scan", "deliver"}
  /\ scan[t] = {}
  /\ step' = [step EXCEPT ![t] = "evict"]
  /\ UNCHANGED <<registry, session, op, scan, ids, target, todo, key, quota>>

-----------------------------------------------------------------------------
(* unregister_connection *)

(* connections.remove(v): the handle, and with it the sender, goes. *)
Remove(t, v) ==
  /\ IF v \in connections
       THEN /\ connections' = connections \ {v}
            /\ idle' = idle \ {v}
            /\ target' = [target EXCEPT ![t] = v]
            /\ step' = [step EXCEPT ![t] = "drop_ready"]
       ELSE UNCHANGED <<connections, idle, target, step>>
  /\ UNCHANGED <<connectedAt, subjects, subjectKeys, ready>>

(* ready_connections.remove *)
DropReady(t) ==
  /\ step[t] = "drop_ready"
  /\ ready' = ready \ {target[t]}
  /\ todo' = [todo EXCEPT ![t] = SubjectsOf[target[t]]]
  /\ step' = [step EXCEPT ![t] = "drop_index"]
  /\ UNCHANGED <<connections, connectedAt, idle, subjects, subjectKeys,
                 session, op, scan, ids, target, key, quota>>

(* entry.remove(id), then entry.is_empty(). *)
EmptiedStale(t, s) == s \in subjectKeys /\ subjects[s] = {}  \* mutant: looks before it removes

Emptied(t, s) == s \in subjectKeys /\ subjects[s] \ {target[t]} = {}

(* subjects.get_mut(subject): remove the id, look whether the set is empty. *)
DropIndex(t) ==
  /\ step[t] = "drop_index"
  /\ \E s \in todo[t] :
       /\ todo' = [todo EXCEPT ![t] = @ \ {s}]
       /\ subjects' = [subjects EXCEPT ![s] = @ \ {target[t]}]
       /\ IF Emptied(t, s)
            THEN /\ step' = [step EXCEPT ![t] = "drop_key"]
                 /\ key' = [key EXCEPT ![t] = s]
            ELSE UNCHANGED <<step, key>>
  /\ UNCHANGED <<connections, connectedAt, idle, subjectKeys, ready,
                 session, op, scan, ids, target, quota>>

(* drop(entry) has released the lock; subjects.remove(subject) takes it again. *)
DropKey(t) ==
  /\ step[t] = "drop_key"
  /\ subjects' = [subjects EXCEPT ![key[t]] = {}]
  /\ subjectKeys' = subjectKeys \ {key[t]}
  /\ key' = [key EXCEPT ![t] = None]
  /\ step' = [step EXCEPT ![t] = "drop_index"]
  /\ UNCHANGED <<connections, connectedAt, idle, ready,
                 session, op, scan, ids, target, todo, quota>>

Unregistered(t) ==
  /\ step[t] = "drop_index"
  /\ todo[t] = {}
  /\ target' = [target EXCEPT ![t] = None]
  /\ step' = [step EXCEPT ![t] = "evict"]
  /\ UNCHANGED <<registry, session, op, scan, ids, todo, key, quota>>

(* The loop over the collected ids, each passed to unregister_connection. *)
EvictNext(t) ==
  /\ step[t] = "evict"
  /\ op[t] # "session_ready"
  /\ \E v \in ids[t] :
       /\ ids' = [ids EXCEPT ![t] = @ \ {v}]
       /\ Remove(t, v)
  /\ UNCHANGED <<session, op, scan, todo, key, quota>>

-----------------------------------------------------------------------------
(* register_connection *)

SameInstanceUnlessNamed(c, d) ==                  \* mutant: the emptiness test negated
  /\ InstanceOf[c] = NoInstance
  /\ UserOf[d] = UserOf[c]
  /\ InstanceOf[d] = InstanceOf[c]
  /\ d # c

SameInstance(c, d) ==
  /\ InstanceOf[c] # NoInstance
  /\ UserOf[d] = UserOf[c]
  /\ InstanceOf[d] = InstanceOf[c]
  /\ d # c

(* The transport reads the clock, in seconds, and calls the method. *)
Register(c) ==
  /\ session[c] = "new"
  /\ Call(c, "register", "scan")
  /\ scan' = [scan EXCEPT ![c] = IF InstanceOf[c] = NoInstance THEN {} ELSE Conn]
  /\ \E d \in Conn, later \in {0, 1} :
       /\ \A other \in Conn : connectedAt[other] <= connectedAt[d] + later
       /\ connectedAt' = [connectedAt EXCEPT ![c] = connectedAt[d] + later]
  /\ UNCHANGED <<connections, idle, subjects, subjectKeys, ready, session,
                 ids, target, todo, key, quota>>

RegisterScan(c) ==
  /\ op[c] = "register"
  /\ step[c] = "scan"
  /\ \E d \in scan[c] :
       /\ scan' = [scan EXCEPT ![c] = @ \ {d}]
       /\ ids' = [ids EXCEPT ![c] =
                    IF d \in connections /\ SameInstance(c, d) THEN @ \cup {d} ELSE @]
  /\ UNCHANGED <<registry, session, op, step, target, todo, key, quota>>

RegisterIndexedFirst(c) ==  \* mutant: the handle is inserted after the ids
  /\ op[c] = "register"
  /\ step[c] = "evict"
  /\ ids[c] = {}
  /\ subjects' = [s \in Subject |-> IF s \in SubjectsOf[c] THEN subjects[s] \cup {c} ELSE subjects[s]]
  /\ subjectKeys' = subjectKeys \cup SubjectsOf[c]
  /\ IF \A s \in SubjectsOf[c] : c \in subjects[s]
       THEN /\ connections' = connections \cup {c}
            /\ step' = [step EXCEPT ![c] = "index"]
       ELSE UNCHANGED <<connections, step>>
  /\ UNCHANGED <<connectedAt, idle, ready, session, op, scan, ids, target, todo, key, quota>>

(* connections.insert *)
RegisterInsert(c) ==
  /\ op[c] = "register"
  /\ step[c] = "evict"
  /\ ids[c] = {}
  /\ connections' = connections \cup {c}
  /\ todo' = [todo EXCEPT ![c] = SubjectsOf[c]]
  /\ step' = [step EXCEPT ![c] = "index"]
  /\ UNCHANGED <<connectedAt, idle, subjects, subjectKeys, ready,
                 session, op, scan, ids, target, key, quota>>

(* subjects.entry(subject).or_insert_with(DashSet::new).insert(id) *)
RegisterIndex(c) ==
  /\ step[c] = "index"
  /\ \E s \in todo[c] :
       /\ todo' = [todo EXCEPT ![c] = @ \ {s}]
       /\ subjects' = [subjects EXCEPT ![s] = @ \cup {c}]
       /\ subjectKeys' = subjectKeys \cup {s}
  /\ UNCHANGED <<connections, connectedAt, idle, ready,
                 session, op, step, scan, ids, target, key, quota>>

Registered(c) ==
  /\ step[c] = "index"
  /\ todo[c] = {}
  /\ session' = [session EXCEPT ![c] = "open"]
  /\ Return(c)
  /\ UNCHANGED <<registry, scan, ids, target, todo, key, quota>>

-----------------------------------------------------------------------------
(* mark_session_ready *)

(* handle_client_message on session_ready: mark_connection_alive, then        *)
(* ready_connections.insert, also by a session that was evicted meanwhile.    *)
SessionReady(c) ==
  /\ session[c] = "open"
  /\ op[c] = "none"
  /\ WorkerFree
  /\ idle' = idle \ {c}
  /\ ready' = ready \cup {c}
  /\ IF MaxPerUser = 0
       THEN UNCHANGED <<op, step, scan>>
       ELSE /\ Call(c, "session_ready", "scan")
            /\ scan' = [scan EXCEPT ![c] = Conn]
  /\ UNCHANGED <<connections, connectedAt, subjects, subjectKeys,
                 session, ids, target, todo, key, quota>>

ReadyScan(c) ==
  /\ op[c] = "session_ready"
  /\ step[c] = "scan"
  /\ \E d \in scan[c] :
       /\ scan' = [scan EXCEPT ![c] = @ \ {d}]
       /\ ids' = [ids EXCEPT ![c] =
                    IF d \in ready \cap connections /\ UserOf[d] = UserOf[c]
                      THEN @ \cup {d} ELSE @]
  /\ UNCHANGED <<registry, session, op, step, target, todo, key, quota>>

WithinLimitInverted(S) == Cardinality(S) >= MaxPerUser      \* mutant
WithinLimitOffByOne(S) == Cardinality(S) <= MaxPerUser + 1  \* mutant

WithinLimit(S) == Cardinality(S) <= MaxPerUser

(* The limit check after the iterator. *)
ReadyDecide(c) ==
  /\ op[c] = "session_ready"
  /\ step[c] = "scan"
  /\ scan[c] = {}
  /\ IF WithinLimit(ids[c])
       THEN /\ Return(c)
            /\ ids' = [ids EXCEPT ![c] = {}]
            /\ UNCHANGED quota
       ELSE /\ step' = [step EXCEPT ![c] = "evict"]
            /\ quota' = [quota EXCEPT ![c] = Cardinality(ids[c]) - MaxPerUser]
            /\ UNCHANGED <<op, ids>>
  /\ UNCHANGED <<registry, session, scan, target, todo, key>>

Newest(v, S) == \A d \in S : connectedAt[d] <= connectedAt[v]  \* mutant: sorted the other way

(* An id that sort_by_key can have put first; ties are in iterator order. *)
Oldest(v, S) == \A d \in S : connectedAt[v] <= connectedAt[d]

(* The eviction loop: the caller is skipped, a vanished id does not count. *)
ReadyEvict(c) ==
  /\ op[c] = "session_ready"
  /\ step[c] = "evict"
  /\ quota[c] > 0
  /\ \E v \in ids[c] :
       /\ Oldest(v, ids[c])
       /\ ids' = [ids EXCEPT ![c] = @ \ {v}]
       /\ IF v = c
            THEN UNCHANGED <<registry, step, target, quota>>
            ELSE /\ Remove(c, v)
                 /\ quota' = [quota EXCEPT ![c] = IF v \in connections THEN @ - 1 ELSE @]
  /\ UNCHANGED <<session, op, scan, todo, key>>

EvictedEnough(c) == quota[c] = 0  \* mutant: loops until enough were evicted

EvictionOver(c) == quota[c] = 0 \/ ids[c] = {}

ReadyDone(c) ==
  /\ op[c] = "session_ready"
  /\ step[c] = "evict"
  /\ EvictionOver(c)
  /\ Return(c)
  /\ ids' = [ids EXCEPT ![c] = {}]
  /\ quota' = [quota EXCEPT ![c] = 0]
  /\ UNCHANGED <<registry, session, scan, target, todo, key>>

-----------------------------------------------------------------------------
(* End of a session: the loop of the transport breaks (the client leaves,  *)
(* a write fails, or the channel yields a Close or None, see               *)
(* MessageDelivery), which drops the receiver, and handle_socket           *)
(* unregisters the connection.                                             *)

Exit(c) ==
  /\ session[c] = "open"
  /\ Call(c, "exit", "evict")
  /\ session' = [session EXCEPT ![c] = "closing"]
  /\ ids' = [ids EXCEPT ![c] = {c}]
  /\ UNCHANGED <<registry, scan, target, todo, key, quota>>

Closed(c) ==
  /\ op[c] = "exit"
  /\ step[c] = "evict"
  /\ ids[c] = {}
  /\ session' = [session EXCEPT ![c] = "closed"]
  /\ Return(c)
  /\ UNCHANGED <<registry, scan, ids, target, todo, key, quota>>

(* mark_connection_alive: a client message arrived. *)
Alive(c) ==
  /\ session[c] = "open"
  /\ op[c] = "none"
  /\ WorkerFree
  /\ c \in idle
  /\ idle' = idle \ {c}
  /\ UNCHANGED <<connections, connectedAt, subjects, subjectKeys, ready, session, frame>>

(* Time: nothing was heard from c for longer than the stale timeout. *)
GoIdle(c) ==
  /\ Sweeper # {}
  /\ c \in connections \ idle
  /\ idle' = idle \cup {c}
  /\ UNCHANGED <<connections, connectedAt, subjects, subjectKeys, ready, session, frame>>

-----------------------------------------------------------------------------
(* prune_stale_connections *)

Prune(t) ==
  /\ Call(t, "prune", "scan")
  /\ scan' = [scan EXCEPT ![t] = Conn]
  /\ UNCHANGED <<registry, session, ids, target, todo, key, quota>>

(* now - last_seen_at > stale_after_seconds *)
Stale(d) == d \in connections \cap idle

PruneScan(t) ==
  /\ op[t] = "prune"
  /\ step[t] = "scan"
  /\ \E d \in scan[t] :
       /\ scan' = [scan EXCEPT ![t] = @ \ {d}]
       /\ ids' = [ids EXCEPT ![t] = IF Stale(d) THEN @ \cup {d} ELSE @]
  /\ UNCHANGED <<registry, session, op, step, target, todo, key, quota>>

-----------------------------------------------------------------------------
(* send_to_subjects: the ids found under the subjects whose handle is gone *)
(* or whose receiver was dropped are unregistered.                         *)

Send(t) ==
  /\ Call(t, "send", "lookup")
  /\ \E S \in (SUBSET Subject) \ {{}} : todo' = [todo EXCEPT ![t] = S]
  /\ UNCHANGED <<registry, session, scan, ids, target, key, quota>>

(* send_to_connection: one id, from a request route bound by its session. *)
SendToConnection(t) ==
  /\ Call(t, "send", "deliver")
  /\ \E d \in Conn : /\ session[d] # "new"
                    /\ scan' = [scan EXCEPT ![t] = {d}]
  /\ UNCHANGED <<registry, session, ids, target, todo, key, quota>>

SendLookup(t) ==
  /\ step[t] = "lookup"
  /\ \E s \in todo[t] :
       /\ todo' = [todo EXCEPT ![t] = @ \ {s}]
       /\ scan' = [scan EXCEPT ![t] = @ \cup subjects[s]]
       /\ step' = [step EXCEPT ![t] = IF todo[t] = {s} THEN "deliver" ELSE @]
  /\ UNCHANGED <<registry, session, op, ids, target, key, quota>>

(* connections.get(id), then sender.send(...). *)
Reachable(d) == d \in connections /\ session[d] \in {"new", "open"}

SendDeliver(t) ==
  /\ step[t] = "deliver"
  /\ \E d \in scan[t] :
       /\ scan' = [scan EXCEPT ![t] = @ \ {d}]
       /\ ids' = [ids EXCEPT ![t] = IF Reachable(d) THEN @ ELSE @ \cup {d}]
  /\ UNCHANGED <<registry, session, op, step, target, todo, key, quota>>

(* The loop over stale_ids (of prune or send) is through. *)
LoopDone(t) ==
  /\ op[t] \in {"prune", "send"}
  /\ step[t] = "evict"
  /\ ids[t] = {}
  /\ Return(t)
  /\ UNCHANGED <<registry, session, scan, ids, target, todo, key, quota>>

-----------------------------------------------------------------------------
(* One access of the method task t is in. *)
Unregister(t) == DropReady(t) \/ DropIndex(t) \/ DropKey(t) \/ Unregistered(t)

SessionStep(c) ==
  \/ RegisterScan(c) \/ RegisterInsert(c) \/ RegisterIndex(c) \/ Registered(c)
  \/ ReadyScan(c) \/ ReadyDecide(c) \/ ReadyEvict(c) \/ ReadyDone(c)
  \/ Closed(c)

MethodStep(t) ==
  \/ ScanDone(t) \/ EvictNext(t) \/ Unregister(t) \/ LoopDone(t)
  \/ t \in Conn /\ SessionStep(t)
  \/ PruneScan(t) \/ SendLookup(t) \/ SendDeliver(t)

Next ==
  \/ \E c \in Conn : Register(c) \/ SessionReady(c) \/ Exit(c)
                     \/ Alive(c) \/ GoIdle(c)
  \/ \E t \in Sweeper : Prune(t)
  \/ \E t \in Dispatcher : Send(t) \/ SendToConnection(t)
  \/ \E t \in Task : MethodStep(t)

Spec == Init /\ [][Next]_vars

(***************************************************************************)
(* Fairness: a thread that is in a method keeps running it.  Nothing makes *)
(* a client leave, send or become idle, and nothing a session end: that    *)
(* waits for a write to the client, which over a WebSocket may take any    *)
(* time.                                                                   *)
(***************************************************************************)
FairSpec == Spec /\ \A t \in Task : WF_vars(MethodStep(t))

-----------------------------------------------------------------------------
(* Properties of every interleaving (any number of Workers). *)

ReadyOf(u) == {d \in ready \cap connections : UserOf[d] = u}

(* A mark_session_ready for u is in flight, or owes an eviction it is in the middle of. *)
MarkingReady(u) == \E c \in Conn : op[c] = "session_ready" /\ UserOf[c] = u

(***************************************************************************)
(* The per-user limit of mark_session_ready: whatever registrations,       *)
(* evictions, prunes and concurrent session_ready calls overlap with it,   *)
(* once no session_ready of a user is in flight at most MaxPerUser of its  *)
(* registered connections are ready, and entries left in ready_connections *)
(* by evicted sessions do not count (src/src/state.rs:840-870).            *)
(***************************************************************************)
ReadyLimit ==
  MaxPerUser # 0 =>
    \A u \in {UserOf[c] : c \in Conn} :
      MarkingReady(u) \/ Cardinality(ReadyOf(u)) <= MaxPerUser

(***************************************************************************)
(* The subjects map does not accumulate keys without a member: an empty    *)
(* set is always about to be removed by the task that emptied it           *)
(* (src/src/state.rs:797-804).                                             *)
(***************************************************************************)
EmptyKeysDropped ==
  \A s \in subjectKeys :
    subjects[s] = {} => \E t \in Task : step[t] = "drop_key" /\ key[t] = s

(***************************************************************************)
(* Ids are collected first and unregistered later, while others register,  *)
(* leave and are evicted.  What was found out about a connection still     *)
(* holds when it is unregistered: a dispatch takes none away that can be   *)
(* reached, and session_ready only ready ones of its user                  *)
(* (src/src/state.rs:840-868, 936-951).  Of the pruner this is not true:   *)
(* the client of a connection it has collected may have spoken since.      *)
(***************************************************************************)
JudgementsHold ==
  [][\A t \in Task : \A v \in connections \ connections' :
       target'[t] = v =>
         /\ op[t] = "send" => ~Reachable(v)
         /\ op[t] = "session_ready" => v \in ReadyOf(UserOf[t]) \ {t}]_vars

-----------------------------------------------------------------------------
(* Properties of whole methods (they hold for Workers = 1). *)

(***************************************************************************)
(* The index is the inverse of the registered connections' subject lists:  *)
(* a message to a subject reaches every registered connection that has it, *)
(* a connection that left by any of the six ways is found no more, and no  *)
(* key stays behind (src/src/state.rs:783, 797, 925).                      *)
(***************************************************************************)
IndexExact ==
  Busy = {} =>
    \A s \in Subject :
      /\ subjects[s] = {c \in connections : s \in SubjectsOf[c]}
      /\ s \in subjectKeys <=> subjects[s] # {}

(* "Keep one active connection per browser client instance" (state.rs:740). *)
OneActivePerInstance ==
  Busy = {} =>
    \A c, d \in connections :
      c # d /\ UserOf[c] = UserOf[d] /\ InstanceOf[c] = InstanceOf[d]
        => InstanceOf[c] = NoInstance

(* "sent to each subject" (README:70): a registered connection is found    *)
(* under all its subjects.                                                 *)
SubjectsReachable ==
  Busy = {} => \A c \in connections : \A s \in SubjectsOf[c] : c \in subjects[s]

(***************************************************************************)
(* session_ready evicts the oldest: no ready connection of the user that   *)
(* stays, other than the caller, connected before one that had to go       *)
(* (src/src/state.rs:856-870).                                             *)
(***************************************************************************)
EvictsOldest ==
  [][\A c \in Conn : op[c] = "session_ready" =>
       \A v \in connections \ connections' :
         \A d \in ReadyOf(UserOf[c])' \ {c} : connectedAt[v] <= connectedAt[d]]_vars

(***************************************************************************)
(* A session is replaced only by another one: session_ready never takes a  *)
(* user's last ready connection away (src/src/state.rs:864-866).           *)
(***************************************************************************)
ReplacedNotLost ==
  [][\A c \in Conn : op[c] = "session_ready" /\ connections' # connections
       => ReadyOf(UserOf[c])' # {}]_vars

-----------------------------------------------------------------------------
(* Liveness, under FairSpec. *)

(* Every method returns: its loops over ids and subjects end even while    *)
(* other threads change the maps (src/src/state.rs:797, 860, 1007).        *)
MethodsReturn == \A t \in Task : []<>(op[t] = "none")
=====================================================================================================================================================
