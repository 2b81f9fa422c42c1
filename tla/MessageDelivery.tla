--------------------------- MODULE MessageDelivery ---------------------------
(***************************************************************************)
(* What becomes of a message addressed to subjects: send_to_subjects puts  *)
(* it on the channels of the connections registered under a subject, or,   *)
(* if it reached none, into the pending queue of each subject; a           *)
(* connection that registers takes the pending queues of its subjects; the *)
(* task of a session takes the messages off its channel and writes them to *)
(* the client; a WebTransport session puts a push it could not write back  *)
(* into the pending queues (src/src/state.rs, src/src/transport/*.rs).     *)
(*                                                                         *)
(* A write to the client awaits, so anything can happen between taking a   *)
(* message off the channel and the outcome of the write.  The methods of   *)
(* GatewayState do not await: as many as there are workers run at a time,  *)
(* and their steps are the accesses to the queues and to the connections.  *)
(* Finding, adding or removing a connection is one step here, whose inner  *)
(* interleavings are the subject of ConnectionRegistry.                    *)
(*                                                                         *)
(* A message is its text, numbered in the order of dispatch: the queues    *)
(* cannot tell two messages of one text apart, so each is dispatched once. *)
(* Every caller of send_to_subjects asks for buffering; no caller passes a *)
(* sticky key, so that queue discipline never runs.                        *)
(***************************************************************************)
EXTENDS Integers, Sequences, FiniteSets, FiniteSetsExt, SequencesExt

CONSTANTS
  Conn,          \* connection ids, each used by one session
  WebTransport,  \* the connections over WebTransport; the others are WebSockets
  Dispatcher,    \* tasks that call send_to_subjects
  Subject,
  SubjectsOf,    \* info.subjects of a connection, in its order
  InstanceOf,    \* user and client_instance_id of a connection
  Message,       \* the texts: numbers, in the order of their dispatch
  Push,          \* those without a request_id
  Audience,      \* sets of subjects messages are dispatched to
  MaxPending,    \* PENDING_MAX_PER_SUBJECT
  PendingTTL,    \* PENDING_TTL_SECONDS
  MaxTime,       \* bound: the clock, in seconds
  MaxWorkers,    \* bound: worker threads of the runtime
  Close          \* the close order on a channel, and no message

Task == Conn \cup Dispatcher

ASSUME DeliveryAssumption ==
  /\ Conn \cap Dispatcher = {}
  /\ IsFiniteSet(Task) /\ IsFiniteSet(Subject)
  /\ WebTransport \subseteq Conn
  /\ Push \subseteq Message
  /\ Message \subseteq Nat /\ Close \notin Message
  /\ SubjectsOf \in [Conn -> Seq(Subject)]
  /\ Audience \subseteq SUBSET Subject /\ {} \notin Audience
  /\ MaxPending \in Nat \ {0} /\ PendingTTL \in Nat /\ MaxTime \in Nat
  /\ MaxWorkers \in Nat \ {0}

(* A connection has the subject of its user id and, behind it, that of the *)
(* normalized id, which those of other spellings share: who has a subject  *)
(* of another has what the other lists behind it                           *)
(* (src/src/transport/websocket.rs:123-127).                               *)
ASSUME SubjectsAssumption ==
  \A c, d \in Conn : \A i, j \in DOMAIN SubjectsOf[c] :
    i < j /\ SubjectsOf[c][i] \in Range(SubjectsOf[d])
      => SubjectsOf[c][j] \in Range(SubjectsOf[d])

VARIABLES
  workers,       \* worker threads, which #[tokio::main] fixes at startup
  now,           \* the clock
  handles,       \* registered connections
  pending,       \* pending_by_subject, <<>> when there is no entry
  channel,       \* the unbounded channel of a connection
  session,       \* what the task of a connection is doing
  writing,       \* the message a session is writing, Close when none
  step,          \* the next access of the method a task is in
  message,       \* the message send_to_subjects or requeue_for_subjects has
  todo,          \* subjects a loop has still to visit
  ids,           \* target_ids still to be served
  stale,         \* stale_ids
  enqueued,      \* whether send_to_subjects reached a channel
  now_ts,        \* the second a method read before its loop over the queues
  snapshot,      \* what a registration has taken from the pending queues
  addressed,     \* history: subjects a message was dispatched to, {} before
  accepted,      \* history: connections whose channel got a message
  failed,        \* history: messages put back after a write that failed
  pruned,        \* history: <<s, m>> that expired or overflowed
  sent           \* history: what a client received

frame   == <<step, message, todo, ids, stale, enqueued, now_ts, snapshot>>
history == <<addressed, accepted, failed, pruned, sent>>
vars    == <<workers, now, handles, pending, channel, session, writing, frame, history>>

Item == [text : Message, at : 0..MaxTime]

TypeOK ==
  /\ workers \in 1..MaxWorkers
  /\ now \in 0..MaxTime
  /\ handles \in SUBSET Conn
  /\ pending \in [Subject -> Seq(Item)]
  /\ channel \in [Conn -> Seq(Message \cup {Close})]
  /\ session \in [Conn -> {"new", "open", "closing", "closed"}]
  /\ writing \in [Conn -> Message \cup {Close}]
  /\ step \in [Task -> {"rest", "drain", "deliver", "requeue"}]
  /\ message \in [Task -> Message \cup {Close}]
  /\ todo \in [Task -> Seq(Subject)]
  /\ ids \in [Task -> SUBSET Conn] /\ stale \in [Task -> SUBSET Conn]
  /\ enqueued \in [Task -> BOOLEAN]
  /\ now_ts \in [Task -> 0..MaxTime]
  /\ snapshot \in [Conn -> Seq(Message)]
  /\ sent \in [Conn -> Seq(Message)]
  /\ addressed \in [Message -> SUBSET Subject]
  /\ accepted \in [Message -> SUBSET Conn]
  /\ \A t \in Task : step[t] \in {"deliver", "requeue"} => message[t] \in Message

Init ==
  /\ workers \in 1..MaxWorkers
  /\ now = 0
  /\ handles = {}
  /\ pending = [s \in Subject |-> <<>>]
  /\ channel = [c \in Conn |-> <<>>]
  /\ session = [c \in Conn |-> "new"]
  /\ writing = [c \in Conn |-> Close]
  /\ step = [t \in Task |-> "rest"]
  /\ message = [t \in Task |-> Close]
  /\ todo = [t \in Task |-> <<>>]
  /\ ids = [t \in Task |-> {}]
  /\ stale = [t \in Task |-> {}]
  /\ enqueued = [t \in Task |-> FALSE]
  /\ now_ts = [t \in Task |-> 0]
  /\ snapshot = [c \in Conn |-> <<>>]
  /\ addressed = [m \in Message |-> {}]
  /\ accepted = [m \in Message |-> {}]
  /\ failed = {}
  /\ pruned = {}
  /\ sent = [c \in Conn |-> <<>>]

Busy == {t \in Task : step[t] # "rest"}

Idle(t) == step[t] = "rest" /\ Cardinality(Busy) < workers

Tick ==
  /\ now < MaxTime
  /\ now' = now + 1
  /\ UNCHANGED <<workers, handles, pending, channel, session, writing, frame, history>>

-----------------------------------------------------------------------------
(* The pending queues *)

Texts(q) == {q[i].text : i \in DOMAIN q}

FirstKeptEarly(q, at) ==  \* mutant: >= for >
  LET fresh == {i \in DOMAIN q : at - q[i].at < PendingTTL}
  IN  Max({Len(q) - MaxPending + 1, Min(fresh \cup {Len(q) + 1})})

(* The first item prune_pending_queue keeps: it takes expired ones off the *)
(* front until one is fresh, then as many as exceed the maximum.           *)
FirstKept(q, at) ==
  LET fresh == {i \in DOMAIN q : at - q[i].at <= PendingTTL}
  IN  Max({Len(q) - MaxPending + 1, Min(fresh \cup {Len(q) + 1})})

Pruned(q, at) == SubSeq(q, FirstKept(q, at), Len(q))

(* The loop of a session breaks: its receiver goes, with what is on it. *)
Break(c) ==
  /\ session' = [session EXCEPT ![c] = "closing"]
  /\ channel' = [channel EXCEPT ![c] = <<>>]
  /\ writing' = [writing EXCEPT ![c] = Close]

EnqueuedFirst(q, item) == <<item>> \o q  \* mutant: push_front

Enqueued(q, item) == Append(q, item)

(* requeue_for_subjects: one entry of the map, under its lock. *)
Requeue(t) ==
  /\ step[t] = "requeue"
  /\ todo[t] # <<>>
  /\ LET s == Head(todo[t])
         q == Enqueued(pending[s], [text |-> message[t], at |-> now_ts[t]])
         kept == Pruned(q, now_ts[t])
     IN  /\ pending' = [pending EXCEPT ![s] = kept]
         /\ pruned' = pruned \cup {<<s, m>> : m \in Texts(q) \ Texts(kept)}
  /\ todo' = [todo EXCEPT ![t] = Tail(@)]
  /\ UNCHANGED <<workers, now, handles, channel, session, writing, step, message, ids, stale,
                 enqueued, now_ts, snapshot, addressed, accepted, failed, sent>>

Requeued(t) ==
  /\ step[t] = "requeue"
  /\ todo[t] = <<>>
  /\ step' = [step EXCEPT ![t] = "rest"]
  /\ message' = [message EXCEPT ![t] = Close]
  /\ enqueued' = [enqueued EXCEPT ![t] = FALSE]
  /\ IF t \in Conn THEN Break(t) ELSE UNCHANGED <<session, channel, writing>>
  /\ now_ts' = [now_ts EXCEPT ![t] = 0]
  /\ UNCHANGED <<workers, now, handles, pending, todo, ids, stale, snapshot, history>>

-----------------------------------------------------------------------------
(* send_to_subjects *)

Orders(S) == Injection(1..Cardinality(S), S)

Registered(S) == {c \in handles : \E i \in DOMAIN SubjectsOf[c] : SubjectsOf[c][i] \in S}

Send(t) ==
  /\ Idle(t)
  /\ \E m \in Message, S \in Audience :
       /\ addressed[m] = {} /\ \A n \in Message : n < m => addressed[n] # {}
       /\ addressed' = [addressed EXCEPT ![m] = S]
       /\ message' = [message EXCEPT ![t] = m]
       /\ \E q \in Orders(S) : todo' = [todo EXCEPT ![t] = q]
       /\ ids' = [ids EXCEPT ![t] = Registered(S)]
  /\ step' = [step EXCEPT ![t] = "deliver"]
  /\ UNCHANGED <<workers, now, handles, pending, channel, session, writing, stale, enqueued, now_ts, snapshot,
                 accepted, failed, pruned, sent>>

(* The receiver lives until the loop of the session breaks. *)
Receiving(c) == session[c] \in {"new", "open"}

(* connections.get(id), and sender.send. *)
Deliver(t) ==
  /\ step[t] = "deliver"
  /\ \E c \in ids[t] :
       /\ ids' = [ids EXCEPT ![t] = @ \ {c}]
       /\ IF c \in handles /\ Receiving(c)
            THEN /\ channel' = [channel EXCEPT ![c] = Append(@, message[t])]
                 /\ accepted' = [accepted EXCEPT ![message[t]] = @ \cup {c}]
                 /\ enqueued' = [enqueued EXCEPT ![t] = TRUE]
                 /\ UNCHANGED stale
            ELSE /\ stale' = [stale EXCEPT ![t] = @ \cup {c}]
                 /\ UNCHANGED <<channel, accepted, enqueued>>
  /\ UNCHANGED <<workers, now, handles, pending, session, writing, step, message, todo, now_ts, snapshot,
                 addressed, failed, pruned, sent>>

BuffersNever(t) == FALSE  \* mutant

BuffersAlways(t) == TRUE  \* mutant

(* enqueued == 0 && buffer_if_undelivered *)
Buffers(t) == ~enqueued[t]

(* The stale ids are unregistered; what reached no channel is buffered. *)
Delivered(t) ==
  /\ step[t] = "deliver"
  /\ ids[t] = {}
  /\ handles' = handles \ stale[t]
  /\ stale' = [stale EXCEPT ![t] = {}]
  /\ step' = [step EXCEPT ![t] = "requeue"]
  /\ todo' = [todo EXCEPT ![t] = IF Buffers(t) THEN @ ELSE <<>>]
  /\ now_ts' = [now_ts EXCEPT ![t] = now]
  /\ UNCHANGED <<workers, now, pending, channel, session, writing, message, ids, enqueued, snapshot,
                 history>>

-----------------------------------------------------------------------------
(* register_connection *)

SameInstance(c) == {d \in handles : InstanceOf[d] = InstanceOf[c]}

(* Predecessors of the same tab are evicted, each with a Close on its channel. *)
Register(c) ==
  /\ session[c] = "new"
  /\ c \notin handles
  /\ Idle(c)
  /\ handles' = (handles \ SameInstance(c)) \cup {c}
  /\ channel' = [d \in Conn |-> IF d \in SameInstance(c) /\ Receiving(d)
                                  THEN Append(channel[d], Close) ELSE channel[d]]
  /\ todo' = [todo EXCEPT ![c] = SubjectsOf[c]]
  /\ step' = [step EXCEPT ![c] = "drain"]
  /\ now_ts' = [now_ts EXCEPT ![c] = now]
  /\ UNCHANGED <<workers, now, pending, session, writing, message, ids, stale, enqueued, snapshot,
                 history>>

FreshAny(taken, q) == DOMAIN q  \* mutant: without the seen set

(* The items of a queue whose text has not been taken before. *)
Fresh(taken, q) ==
  {i \in DOMAIN q :
     ~Contains(taken, q[i].text) /\ \A j \in 1..(i - 1) : q[j].text # q[i].text}

InQueueOrder(o) == \A i, j \in DOMAIN o : i < j => o[i] < o[j]

(* Their texts join those taken, in the order of the queue: there is one way. *)
Taken(taken, q) ==
  {taken \o [i \in DOMAIN o |-> q[o[i]].text] :
     o \in {x \in Orders(Fresh(taken, q)) : InQueueOrder(x)}}

(* take_pending_for_subjects: one queue leaves the map. *)
Drain(c) ==
  /\ step[c] = "drain"
  /\ todo[c] # <<>>
  /\ LET s == Head(todo[c])
         q == Pruned(pending[s], now_ts[c])
     IN  /\ \E texts \in Taken(snapshot[c], q) : snapshot' = [snapshot EXCEPT ![c] = texts]
         /\ pending' = [pending EXCEPT ![s] = <<>>]
         /\ pruned' = pruned \cup {<<s, m>> : m \in Texts(pending[s]) \ Texts(q)}
  /\ todo' = [todo EXCEPT ![c] = Tail(@)]
  /\ UNCHANGED <<workers, now, handles, channel, session, writing, step, message, ids, stale,
                 enqueued, now_ts, addressed, accepted, failed, sent>>

Drained(c) ==
  /\ step[c] = "drain"
  /\ todo[c] = <<>>
  /\ channel' = [channel EXCEPT ![c] = @ \o snapshot[c]]
  /\ accepted' = [m \in Message |-> IF Contains(snapshot[c], m)
                                      THEN accepted[m] \cup {c} ELSE accepted[m]]
  /\ snapshot' = [snapshot EXCEPT ![c] = <<>>]
  /\ session' = [session EXCEPT ![c] = "open"]
  /\ step' = [step EXCEPT ![c] = "rest"]
  /\ now_ts' = [now_ts EXCEPT ![c] = 0]
  /\ UNCHANGED <<workers, now, handles, pending, writing, message, todo, ids, stale, enqueued,
                 addressed, failed, pruned, sent>>

-----------------------------------------------------------------------------
(* The loop of a session *)

AtSelect(c) == session[c] = "open" /\ step[c] = "rest" /\ writing[c] = Close

(* outbound_rx.recv(): a text is written, a Close breaks the loop, and so does *)
(* None, from a channel that is empty and has no sender left.                  *)
Receive(c) ==
  /\ AtSelect(c)
  /\ \/ /\ channel[c] # <<>>
        /\ Head(channel[c]) # Close
        /\ writing' = [writing EXCEPT ![c] = Head(channel[c])]
        /\ channel' = [channel EXCEPT ![c] = Tail(@)]
        /\ UNCHANGED session
     \/ /\ channel[c] # <<>>
        /\ Head(channel[c]) = Close
        /\ Break(c)
     \/ /\ channel[c] = <<>>
        /\ c \notin handles
        /\ Break(c)
  /\ UNCHANGED <<workers, now, handles, pending, frame, history>>

WritingAny(c) == session[c] = "open" /\ step[c] = "rest"  \* mutant: without a message

Writing(c) == writing[c] # Close /\ step[c] = "rest"

Written(c) ==
  /\ Writing(c)
  /\ sent' = [sent EXCEPT ![c] = Append(@, writing[c])]
  /\ writing' = [writing EXCEPT ![c] = Close]
  /\ UNCHANGED <<workers, now, handles, pending, channel, session, frame, addressed, accepted, failed, pruned>>

(* A write fails or times out: WebTransport buffers a push again. *)
Failed(c) ==
  /\ Writing(c)
  /\ IF c \in WebTransport /\ writing[c] \in Push
       THEN /\ Idle(c)
            /\ step' = [step EXCEPT ![c] = "requeue"]
            /\ message' = [message EXCEPT ![c] = writing[c]]
            /\ todo' = [todo EXCEPT ![c] = SubjectsOf[c]]
            /\ now_ts' = [now_ts EXCEPT ![c] = now]
            /\ failed' = failed \cup {writing[c]}
            /\ UNCHANGED <<session, channel, writing>>
       ELSE Break(c) /\ UNCHANGED <<step, message, todo, now_ts, failed>>
  /\ UNCHANGED <<workers, now, handles, pending, ids, stale, enqueued, snapshot,
                 addressed, accepted, pruned, sent>>

(* The client closes, or a read from it fails. *)
Leave(c) ==
  /\ AtSelect(c)
  /\ Break(c)
  /\ UNCHANGED <<workers, now, handles, pending, frame, history>>

Unregister(c) ==
  /\ session[c] = "closing"
  /\ Idle(c)
  /\ handles' = handles \ {c}
  /\ session' = [session EXCEPT ![c] = "closed"]
  /\ UNCHANGED <<workers, now, pending, channel, writing, frame, history>>

(* The pruner takes a handle away, mark_session_ready with a Close. *)
Evict(c) ==
  /\ c \in handles
  /\ Cardinality(Busy) < workers
  /\ handles' = handles \ {c}
  /\ \E order \in {<<>>, <<Close>>} :
       channel' = [channel EXCEPT ![c] = IF Receiving(c) THEN @ \o order ELSE @]
  /\ UNCHANGED <<workers, now, pending, session, writing, frame, history>>

-----------------------------------------------------------------------------
Next ==
  \/ Tick
  \/ \E t \in Task : Requeue(t) \/ Requeued(t)
  \/ \E t \in Dispatcher : Send(t) \/ Deliver(t) \/ Delivered(t)
  \/ \E c \in Conn : \/ Register(c) \/ Drain(c) \/ Drained(c)
                      \/ Receive(c) \/ Written(c) \/ Failed(c)
                      \/ Leave(c) \/ Unregister(c) \/ Evict(c)

Spec == Init /\ [][Next]_vars

-----------------------------------------------------------------------------
(* Every copy of a message a client has, is being sent and will be sent; *)
(* with a Close for each order, and where nothing is being sent.         *)
Copies(c) == sent[c] \o <<writing[c]>> \o channel[c]

(***************************************************************************)
(* No client gets a message twice: the queues of its two subjects can both *)
(* hold it, and so can one queue when two sessions failed to write it, but *)
(* a registration takes each text once and nothing is taken later.  With   *)
(* more than one worker a message that another session put back can come   *)
(* again, to a connection a dispatch found before it had emptied its       *)
(* queues; no other can (src/src/state.rs:366-382, 783-789, 936-955).      *)
(***************************************************************************)
NoDuplicates ==
  \A c \in Conn : \A i, j \in DOMAIN Copies(c) :
    Copies(c)[i] = Copies(c)[j] =>
      i = j \/ Copies(c)[i] = Close \/ (workers > 1 /\ Copies(c)[i] \in failed)

(* Messages that were put back, or are no longer in one of their queues. *)
Displaced == failed \cup {p[2] : p \in pruned}

(***************************************************************************)
(* A client gets the messages to the same subjects in the order of their   *)
(* dispatch, the buffered ones before the live ones, except for those that *)
(* another session failed to write and put back, or that one queue of its  *)
(* subjects dropped and another kept (one worker; subjects as in           *)
(* SubjectsAssumption; src/src/state.rs:783-789).                          *)
(***************************************************************************)
InOrder ==
  workers = 1 => \A c \in Conn : \A i, j \in DOMAIN Copies(c) :
    LET m == Copies(c)[i]
        n == Copies(c)[j]
    IN  i < j /\ {m, n} \cap (Displaced \cup {Close}) = {} /\ addressed[m] = addressed[n] => m < n

(***************************************************************************)
(* A message whose dispatch is over is on its way to somebody, or waits    *)
(* under every subject it was addressed to, unless it expired or made room *)
(* there (src/src/state.rs:953-955).                                       *)
(***************************************************************************)
Accounted ==
  \A m \in Message :
    \/ addressed[m] = {}
    \/ accepted[m] # {}
    \/ \E t \in Task : message[t] = m \/ (t \in Conn /\ step[t] = "drain" /\ Contains(snapshot[t], m))
    \/ \A s \in addressed[m] : m \in Texts(pending[s]) \/ <<s, m>> \in pruned

(***************************************************************************)
(* What waits under a subject was dispatched while no connection of that   *)
(* subject could take it, and is taken by the first one that registers: as *)
(* long as one is open nothing waits, but what a session failed to write   *)
(* (one worker; src/src/state.rs:366-382, 936-955).                        *)
(***************************************************************************)
NoneStranded ==
  workers = 1 =>
    \A c \in handles : session[c] = "open" =>
      \A i \in DOMAIN SubjectsOf[c] : Texts(pending[SubjectsOf[c][i]]) \subseteq failed

(* An item of a queue stays, or is taken by a registration, is too old, or *)
(* is the oldest of a full queue.                                          *)
KeptUntilDue ==
  \A s \in Subject : \A i \in DOMAIN pending[s] :
    LET m == pending[s][i].text
        old == \E t \in Task : now_ts[t] - pending[s][i].at > PendingTTL
        taken == \E c \in Conn : step[c] = "drain" /\ todo[c] # todo'[c] /\ Head(todo[c]) = s
    IN  \/ m \in Texts(pending'[s])
        \/ old
        \/ taken /\ \E c \in Conn : Contains(snapshot'[c], m)
        \/ Len(pending[s]) = MaxPending /\ i = 1

(* What a registration takes has not waited for longer than PendingTTL. *)
TakenInTime ==
  \A c \in Conn : \A m \in Message :
    step[c] = "drain" /\ Contains(snapshot'[c], m) /\ ~Contains(snapshot[c], m)
      => \E i \in DOMAIN pending[Head(todo[c])] :
           /\ pending[Head(todo[c])][i].text = m
           /\ now_ts[c] - pending[Head(todo[c])][i].at <= PendingTTL

(***************************************************************************)
(* What waits under a subject leaves the queue only for a connection of    *)
(* that subject that registers, or because it is too old or one of too     *)
(* many.  A client that reconnects gets nothing that is too old: to look   *)
(* at the front of a queue is enough on one worker, because items join it  *)
(* in the order of their time (src/src/state.rs:228-239, 366-382).         *)
(***************************************************************************)
QueueKept == [][KeptUntilDue /\ (workers = 1 => TakenInTime)]_vars
=============================================================================
