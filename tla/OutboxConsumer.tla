---------------------------- MODULE OutboxConsumer ----------------------------
(***************************************************************************)
(* The outbox consumer (start_outbox_consumer, src/src/broker.rs:240-437): *)
(* one task that reads the Redis stream of the backend from the last id it *)
(* has seen, which it keeps in memory only, and handles each entry: a      *)
(* relay context snapshot is applied, anything else with subjects is       *)
(* dispatched and, if so configured, deleted.  What these two do is in     *)
(* RelayAuthorization, MessageDelivery and RequestRoutes; here they are    *)
(* the entry's number in handled.                                          *)
(*                                                                         *)
(* Redis (external) keeps the stream, evaluates the id "$" when an XREAD   *)
(* arrives, and answers it with up to Count later entries, or, as soon as  *)
(* one is added, with that one, or with Nil after five seconds.  A         *)
(* connection can fail at any time, with a reply on the way or not.        *)
(***************************************************************************)
EXTENDS Integers, Sequences, FiniteSets, Functions

CONSTANTS
  Push,             \* an entry that is dispatched to its subjects
  Snapshot,         \* an entry with a relay context snapshot
  Undecodable,      \* an entry that is no JSON, or has no subjects
  Latest,           \* the id "$"
  Count,            \* COUNT of XREAD
  DeleteOnConsume,  \* OUTBOX_DELETE_ON_CONSUME
  MaxEntries,       \* bound: entries of the stream
  MaxFailures,      \* bound: failed commands and connections
  MaxRestarts       \* bound: restarts of the gateway

Kinds == {Push, Snapshot, Undecodable}

ASSUME OutboxAssumption ==
  /\ Push # Snapshot /\ Push # Undecodable /\ Snapshot # Undecodable
  /\ Count \in Nat \ {0}
  /\ DeleteOnConsume \in BOOLEAN
  /\ {MaxEntries, MaxFailures, MaxRestarts} \subseteq Nat
  /\ Latest \notin Nat

VARIABLES
  stream,        \* the kinds of the entries added; an id is a position
  deleted,       \* the ids XDEL has removed
  consumer,      \* what the task does
  lastId,        \* last_id
  batch,         \* the ids read and not handled
  handled,       \* history: the ids handled, by any incarnation, in order
  listening,     \* history: this incarnation has sent its first XREAD
  heard,         \* history: the ids added since then
  failures, restarts

bounds == <<failures, restarts>>
vars   == <<stream, deleted, consumer, lastId, batch, handled, heard, listening, bounds>>

Ids == 1..MaxEntries

TypeOK ==
  /\ stream \in Seq(Kinds) /\ Len(stream) <= MaxEntries
  /\ deleted \subseteq DOMAIN stream
  /\ consumer \in {"down", "connect", "idle", "blocked", "answered", "handle", "delete"}
  /\ lastId \in DOMAIN stream \cup {Latest}
  /\ batch \in Seq(DOMAIN stream) /\ Len(batch) <= Count
  /\ batch # <<>> => consumer \in {"answered", "handle", "delete"}
  /\ consumer \in {"answered", "handle"} => batch # <<>>
  /\ consumer = "delete" => lastId # Latest
  /\ handled \in Seq(DOMAIN stream)
  /\ listening \in BOOLEAN
  /\ heard \subseteq DOMAIN stream
  /\ failures \in 0..MaxFailures /\ restarts \in 0..MaxRestarts

Init ==
  /\ stream = <<>>
  /\ deleted = {}
  /\ consumer = "connect"
  /\ lastId = Latest
  /\ batch = <<>>
  /\ handled = <<>>
  /\ listening = FALSE
  /\ heard = {}
  /\ failures = 0 /\ restarts = 0

-----------------------------------------------------------------------------
(* External: the backend and Redis *)

(* XADD of the backend.  It ends the wait of a blocked XREAD. *)
Add(k) ==
  /\ Len(stream) < MaxEntries
  /\ stream' = Append(stream, k)
  /\ IF consumer = "blocked"
       THEN consumer' = "answered" /\ batch' = <<Len(stream) + 1>>
       ELSE UNCHANGED <<consumer, batch>>
  /\ heard' = IF listening THEN heard \cup {Len(stream) + 1} ELSE heard
  /\ UNCHANGED <<deleted, lastId, handled, listening, bounds>>

(* The ids in S in order, no more than a number of them. *)
Firsts(S, most) ==
  {b \in [1..(IF Cardinality(S) < most THEN Cardinality(S) ELSE most) -> S] :
     \A i \in DOMAIN b : Cardinality({n \in S : n < b[i]}) = i - 1}

Later(id) == {n \in DOMAIN stream : n > id /\ n \notin deleted}

AfterUncounted(id) == Firsts(Later(id), Len(stream))  \* mutant: XREAD without COUNT

(* The entries after an id, as many as one XREAD returns. *)
After(id) == Firsts(Later(id), Count)

-----------------------------------------------------------------------------
(* start_outbox_consumer *)

Connect ==
  /\ consumer = "connect"
  /\ consumer' = "idle"
  /\ UNCHANGED <<stream, deleted, lastId, batch, handled, listening, heard, bounds>>

FromStart == IF lastId = Latest THEN 0 ELSE lastId  \* mutant: 0 for $

From == IF lastId = Latest THEN Len(stream) ELSE lastId

(* XREAD BLOCK, as Redis receives it *)
Read ==
  /\ consumer = "idle"
  /\ listening' = TRUE
  /\ batch' \in After(From)
  /\ consumer' = IF batch' = <<>> THEN "blocked" ELSE "answered"
  /\ UNCHANGED <<stream, deleted, lastId, handled, heard, bounds>>

(* The answer arrives, and the loop over its entries begins. *)
Receive ==
  /\ consumer = "answered"
  /\ consumer' = "handle"
  /\ UNCHANGED <<stream, deleted, lastId, batch, handled, listening, heard, bounds>>

(* Nothing came for five seconds: the loop connects anew. *)
Timeout ==
  /\ consumer = "blocked"
  /\ consumer' = "connect"
  /\ UNCHANGED <<stream, deleted, lastId, batch, handled, listening, heard, bounds>>

ResumesAtLatest == Latest  \* mutant: an error sets last_id back

Resumes == lastId

(* The connection fails, or the XREAD does, be the answer on its way: the  *)
(* loop sleeps a second and connects anew.                                 *)
Fail ==
  /\ consumer \in {"connect", "idle", "blocked", "answered"}
  /\ failures < MaxFailures
  /\ failures' = failures + 1
  /\ consumer' = "connect"
  /\ batch' = <<>>
  /\ lastId' = Resumes
  /\ UNCHANGED <<stream, deleted, handled, listening, heard, restarts>>

Current == Head(batch)

Dispatched == {Push, Snapshot}

DeletesSeen(n) == DeleteOnConsume  \* mutant: XDEL before the kind is looked at

Deletes(n) == DeleteOnConsume /\ stream[n] = Push

Rest == Tail(batch)

(* One entry.  Nothing is awaited between last_id and the dispatch. *)
Handle ==
  /\ consumer = "handle"
  /\ lastId' = Current
  /\ batch' = Rest
  /\ handled' = IF stream[Current] \in Dispatched THEN Append(handled, Current) ELSE handled
  /\ consumer' = IF Deletes(Current) THEN "delete" ELSE IF Rest = <<>> THEN "connect" ELSE "handle"
  /\ UNCHANGED <<stream, deleted, listening, heard, bounds>>

(* XDEL, whose failure is logged; it may have been done even then. *)
Delete ==
  /\ consumer = "delete"
  /\ consumer' = IF batch = <<>> THEN "connect" ELSE "handle"
  /\ \/ deleted' = deleted \cup {lastId} /\ UNCHANGED failures
     \/ /\ failures < MaxFailures
        /\ failures' = failures + 1
        /\ deleted' \in {deleted, deleted \cup {lastId}}
  /\ UNCHANGED <<stream, lastId, batch, handled, listening, heard, restarts>>

(* The gateway stops, at any point, with last_id and the batch. *)
Stop ==
  /\ consumer # "down"
  /\ restarts < MaxRestarts
  /\ restarts' = restarts + 1
  /\ consumer' = "down"
  /\ batch' = <<>>
  /\ lastId' = Latest
  /\ listening' = FALSE
  /\ UNCHANGED <<stream, deleted, handled, heard, failures>>

Start ==
  /\ consumer = "down"
  /\ consumer' = "connect"
  /\ UNCHANGED <<stream, deleted, lastId, batch, handled, listening, heard, bounds>>

Consume == Connect \/ Read \/ Receive \/ Handle \/ Delete \/ Start

Next ==
  \/ Consume \/ Timeout \/ Fail \/ Stop
  \/ \E k \in Kinds : Add(k)

Spec == Init /\ [][Next]_vars

(* The runtime runs a task that is ready, and Redis answers a command that *)
(* has not failed, an XREAD after five seconds at the latest.              *)
FairSpec == Spec /\ WF_vars(Consume) /\ WF_vars(Timeout)

-----------------------------------------------------------------------------
(***************************************************************************)
(* The consumer implements OutboxFeed: over all incarnations an entry is   *)
(* handled at most once and in the order of the stream, however batches,   *)
(* failed reads, failed deletions and restarts fall; and after the first   *)
(* entry an incarnation has seen, it passes over none                      *)
(* (src/src/broker.rs:250-296).                                            *)
(***************************************************************************)
Feed == INSTANCE OutboxFeed WITH
  Kind <- Kinds, Bad <- {Undecodable}, Loose <- Latest, cursor <- lastId

FeedSpec == Feed!Spec

(***************************************************************************)
(* XDEL never removes an entry whose content has not reached the dispatch: *)
(* what a crash leaves unhandled, and what is no event for a client, stays *)
(* in the stream (src/src/broker.rs:307-318, 424-432).                     *)
(***************************************************************************)
DeletedDispatched ==
  \A n \in deleted : n \in Range(handled) /\ stream[n] = Push

(***************************************************************************)
(* Once an incarnation has a position, an entry after it is handled sooner *)
(* or later, through timeouts, failed reads and failed deletions, unless   *)
(* the gateway stops (src/src/broker.rs:251-286).                          *)
(***************************************************************************)
Waiting(n) ==
  /\ n \in DOMAIN stream /\ stream[n] # Undecodable
  /\ lastId # Latest /\ lastId < n

PositionFollowed ==
  \A n \in Ids : Waiting(n) ~> (n \in Range(handled) \/ consumer = "down")

(***************************************************************************)
(* README.md:4 and 62-70: the gateway "pushes outbound events back to      *)
(* connected clients".  So an event added while the consumer listens,      *)
(* with nothing failing, is handled.                                       *)
(***************************************************************************)
EventsPushed ==
  \A n \in Ids :
    (n \in heard /\ stream[n] = Push) ~> (n \in Range(handled))
===============================================================================
