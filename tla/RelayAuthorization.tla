------------------------- MODULE RelayAuthorization -------------------------
(***************************************************************************)
(* Relay authorization: the relay contexts the backend grants through the  *)
(* outbox stream (apply_relay_context_snapshot), and the check of a        *)
(* relayed command against them (authorize_relay_hotpath) with its replay  *)
(* cache and rate counters (src/src/state.rs), followed by the dispatch    *)
(* (src/src/gateway_core.rs).                                              *)
(*                                                                         *)
(* One task per client session and one outbox consumer, which alone writes *)
(* contexts.  No await separates a check from its dispatch, so a session   *)
(* keeps its worker thread until the command is dispatched or refused; on  *)
(* two threads the steps of two sessions, and of the consumer, interleave  *)
(* at each map access.  The check holds a read lock on the sender's entry  *)
(* from the lookup to its return, which blocks the consumer's insert.      *)
(*                                                                         *)
(* There is one context type and one audience mode in the registry, so the *)
(* comparisons of those cannot fail and are left out; a refusal before the *)
(* replay cache has no effect on the state and is no step here.            *)
(***************************************************************************)
EXTENDS Integers, FiniteSets

CONSTANTS
  User,          \* normalized e-mails of senders
  Subject,       \* what authorized_subject of a context can name
  Session,       \* tasks of client sessions
  UserOf,        \* the user a session is authenticated as
  Operation,     \* operation keys (transfer_id)
  ContextId,     \* context_id of a context
  Peer,          \* e-mails a command can be relayed to
  Command,       \* relay commands that need a context
  Nonce,         \* replay nonces
  NoNonce,       \* a command without a nonce
  Grantable,     \* contexts the backend can put into a snapshot
  MaxVersion,    \* bound: policy versions of snapshots
  MaxTime,       \* bound: the clock, in seconds
  ReplayTTL,     \* RELAY_REPLAY_TTL_SECONDS
  ReplayMax,     \* RELAY_REPLAY_CACHE_MAX
  RateLimit,     \* RELAY_RATE_LIMIT_DEFAULT
  MaxWorkers     \* bound: worker threads of the runtime

Time == 0..MaxTime

Context == [owner : Subject, op : Operation, id : ContextId, active : BOOLEAN,
            peers : SUBSET Peer, version : Nat, grantVersion : Nat, expires : Nat]

ReplayKey == User \X Command \X ContextId \X Nonce
RateKey   == User \X Command \X ContextId \X Time

ASSUME RelayAssumption ==
  /\ IsFiniteSet(Session)
  /\ UserOf \in [Session -> User]
  /\ Grantable \subseteq Context
  /\ NoNonce \notin Nonce
  /\ MaxVersion \in Nat /\ MaxTime \in Nat
  /\ ReplayTTL \in Nat /\ ReplayMax \in Nat /\ RateLimit \in Nat /\ MaxWorkers \in Nat \ {0}

Absent == -1  \* no entry in the replay cache

VARIABLES
  workers,       \* worker threads, which #[tokio::main] fixes at startup
  now,           \* the clock
  policy,        \* policy_version of a user's entry, Absent when there is none
  contexts,      \* contexts of a user's entry
  replay,        \* seen_at of a replay key, Absent when it is not cached
  rate,          \* count of a rate key
  step,          \* where a session is in authorize_relay_hotpath
  request,       \* the command it handles, at the second read before the check
  context,       \* the context that admits it
  outbox,        \* the entry the consumer is about to insert, with the policy
                 \* version of its snapshot, or Idle
  lastPassed,    \* history: when a replay key last passed
  passes         \* history: how often a rate key passed

sessionVars == <<step, request, context>>
history     == <<lastPassed, passes>>
vars        == <<workers, now, policy, contexts, replay, rate, sessionVars, outbox, history>>

Request == [op : Operation, targets : (SUBSET Peer) \ {{}}, command : Command,
            nonce : Nonce \cup {NoNonce}, at : Time]

Idle == [user |-> "none"]

Entry == [user : User, version : Nat, policy : Nat, contexts : SUBSET Grantable]

Checking == {"replay", "record", "rate"}  \* steps under the lock on the sender's entry

(***************************************************************************)
(* Type invariant: the three maps, and what the tasks have in hand.        *)
(***************************************************************************)
TypeOK ==
  /\ workers \in 1..MaxWorkers
  /\ now \in Time
  /\ policy \in [User -> Nat \cup {Absent}]
  /\ contexts \in [User -> SUBSET Grantable]
  /\ replay \in [ReplayKey -> Time \cup {Absent}]
  /\ rate \in [RateKey -> Nat]
  /\ step \in [Session -> {"rest", "dispatch"} \cup Checking]
  /\ request \in [Session -> Request \cup {Idle}]
  /\ context \in [Session -> Grantable \cup {Idle}]
  /\ \A t \in Session : step[t] # "rest" => request[t] \in Request /\ context[t] \in Grantable
  /\ outbox \in Entry \cup {Idle}
  /\ lastPassed \in [ReplayKey -> Time \cup {Absent}]
  /\ passes \in [RateKey -> Nat]

Init ==
  /\ workers \in 1..MaxWorkers
  /\ now = 0
  /\ policy = [u \in User |-> Absent]
  /\ contexts = [u \in User |-> {}]
  /\ replay = [k \in ReplayKey |-> Absent]
  /\ rate = [k \in RateKey |-> 0]
  /\ step = [t \in Session |-> "rest"]
  /\ request = [t \in Session |-> Idle]
  /\ context = [t \in Session |-> Idle]
  /\ outbox = Idle
  /\ lastPassed = [k \in ReplayKey |-> Absent]
  /\ passes = [k \in RateKey |-> 0]

Busy == {t \in Session : step[t] # "rest"}

WorkerFree == Cardinality(Busy) + (IF outbox = Idle THEN 0 ELSE 1) < workers

Tick ==
  /\ now < MaxTime
  /\ now' = now + 1
  /\ UNCHANGED <<workers, policy, contexts, replay, rate, sessionVars, outbox, history>>

-----------------------------------------------------------------------------
(* apply_relay_context_snapshot *)

(* A context of another subject, or without a peer, is not taken over. *)
Acceptable(c, u) == c.owner = u /\ c.peers # {}

(* Of several contexts of one operation the last of the snapshot stays. *)
LastOf(S) ==
  {L \in SUBSET S : /\ \A c \in S : \E d \in L : d.op = c.op
                    /\ \A c, d \in L : c.op = d.op => c = d}

MergedById(old, L) ==  \* mutant: an update replaces the context of its id only
  {c \in old : now <= c.expires /\ \A d \in L : d.id # c.id} \cup L

(* Unexpired contexts of other operations are kept. *)
Merged(old, L) ==
  {c \in old : now <= c.expires /\ \A d \in L : d.op # c.op} \cup L

OutdatedNever(v, u) == FALSE  \* mutant: the version of the stored entry is not looked at

Outdated(v, u) == v < policy[u]

(* The consumer reads the stored entry and computes the next one. *)
ApplyRead ==
  /\ outbox = Idle
  /\ WorkerFree
  /\ \E u \in User, v \in 0..MaxVersion, S \in SUBSET Grantable :
       /\ ~Outdated(v, u)
       /\ \E L \in LastOf({c \in S : Acceptable(c, u)}) :
            outbox' = [user     |-> u,
                       version  |-> v,
                       policy   |-> IF policy[u] > v THEN policy[u] ELSE v,
                       contexts |-> Merged(contexts[u], L)]
  /\ UNCHANGED <<workers, now, policy, contexts, replay, rate, sessionVars, history>>

UnlockedIgnored(u) == TRUE  \* mutant: the check works on a copy of the entry

(* No check of u is between its lookup and its return. *)
Unlocked(u) == \A t \in Session : UserOf[t] = u => step[t] \notin Checking

(* relay_contexts_by_subject.insert, which waits for the lock. *)
ApplyInsert ==
  /\ outbox # Idle
  /\ Unlocked(outbox.user)
  /\ policy' = [policy EXCEPT ![outbox.user] = outbox.policy]
  /\ contexts' = [contexts EXCEPT ![outbox.user] = outbox.contexts]
  /\ outbox' = Idle
  /\ UNCHANGED <<workers, now, replay, rate, sessionVars, history>>

-----------------------------------------------------------------------------
(* authorize_relay_hotpath *)

(* What a context must satisfy to admit a request, all of it read at one   *)
(* moment; the first that fails names the error code of the refusal.       *)
Admits(c, r) ==
  /\ c.op = r.op
  /\ c.version > 0 /\ c.grantVersion = c.version
  /\ r.at <= c.expires
  /\ r.targets \subseteq c.peers
  /\ c.active

Check(t) ==
  /\ step[t] = "rest"
  /\ WorkerFree
  /\ \E r \in [op : Operation, targets : (SUBSET Peer) \ {{}}, command : Command,
               nonce : Nonce \cup {NoNonce}, at : {now}], c \in contexts[UserOf[t]] :
       /\ Admits(c, r)
       /\ request' = [request EXCEPT ![t] = r]
       /\ context' = [context EXCEPT ![t] = c]
       /\ step' = [step EXCEPT ![t] = IF r.nonce = NoNonce THEN "rate" ELSE "replay"]
  /\ UNCHANGED <<workers, now, policy, contexts, replay, rate, outbox, history>>

ReplayKeyOf(t) == <<UserOf[t], request[t].command, context[t].id, request[t].nonce>>

(* seen_at is recent enough to refuse the command (or to keep the entry). *)
Recent(seen, at) == seen # Absent /\ at - seen <= ReplayTTL

(* The command is refused, with an error reply, or through. *)
Finish(t) ==
  /\ step' = [step EXCEPT ![t] = "rest"]
  /\ request' = [request EXCEPT ![t] = Idle]
  /\ context' = [context EXCEPT ![t] = Idle]

CheckReplayUnfinished(t) ==  \* mutant: a refusal does not return
  /\ step[t] = "replay"
  /\ step' = [step EXCEPT ![t] = "record"]
  /\ request' = IF Recent(replay[ReplayKeyOf(t)], request[t].at)
                  THEN [request EXCEPT ![t] = Idle] ELSE request
  /\ UNCHANGED <<workers, now, policy, contexts, replay, rate, context, outbox, history>>

(* relay_replay_cache.get *)
CheckReplay(t) ==
  /\ step[t] = "replay"
  /\ IF Recent(replay[ReplayKeyOf(t)], request[t].at)
       THEN Finish(t)
       ELSE /\ step' = [step EXCEPT ![t] = "record"]
            /\ UNCHANGED <<request, context>>
  /\ UNCHANGED <<workers, now, policy, contexts, replay, rate, outbox, history>>

PrunedEarly(cache, at) ==  \* mutant: >= for >
  IF Cardinality({k \in ReplayKey : cache[k] # Absent}) <= ReplayMax
    THEN cache
    ELSE [k \in ReplayKey |-> IF at - cache[k] >= ReplayTTL THEN Absent ELSE cache[k]]

(* prune_relay_replay_cache, whose iteration is taken as one access. *)
Pruned(cache, at) ==
  IF Cardinality({k \in ReplayKey : cache[k] # Absent}) <= ReplayMax
    THEN cache
    ELSE [k \in ReplayKey |-> IF Recent(cache[k], at) THEN cache[k] ELSE Absent]

(* relay_replay_cache.insert: the nonce is used up, whatever follows. *)
RecordReplay(t) ==
  /\ step[t] = "record"
  /\ replay' = Pruned([replay EXCEPT ![ReplayKeyOf(t)] = request[t].at], request[t].at)
  /\ step' = [step EXCEPT ![t] = "rate"]
  /\ UNCHANGED <<workers, now, policy, contexts, rate, request, context, outbox, history>>

(* The window is one second: the second of the request. *)
RateKeyOf(t) == <<UserOf[t], request[t].command, context[t].id, request[t].at>>

WithinRateOffByOne(n) == n <= RateLimit  \* mutant

WithinRate(n) == n < RateLimit

(* ensure_relay_rate_limit: entry() holds the counter over check and increment. *)
CountRate(t) ==
  /\ step[t] = "rate"
  /\ IF WithinRate(rate[RateKeyOf(t)])
       THEN /\ rate' = [rate EXCEPT ![RateKeyOf(t)] = @ + 1]
            /\ step' = [step EXCEPT ![t] = "dispatch"]
            /\ passes' = [passes EXCEPT ![RateKeyOf(t)] = @ + 1]
            /\ lastPassed' = IF request[t].nonce = NoNonce THEN lastPassed
                             ELSE [lastPassed EXCEPT ![ReplayKeyOf(t)] = request[t].at]
            /\ UNCHANGED <<request, context>>
       ELSE /\ Finish(t)
            /\ UNCHANGED <<rate, history>>
  /\ UNCHANGED <<workers, now, policy, contexts, replay, outbox>>

(* send_to_subjects, after the lock is released. *)
Dispatch(t) ==
  /\ step[t] = "dispatch"
  /\ Finish(t)
  /\ UNCHANGED <<workers, now, policy, contexts, replay, rate, outbox, history>>

-----------------------------------------------------------------------------
Next ==
  \/ Tick \/ ApplyRead \/ ApplyInsert
  \/ \E t \in Session :
       Check(t) \/ CheckReplay(t) \/ RecordReplay(t) \/ CountRate(t) \/ Dispatch(t)

Spec == Init /\ [][Next]_vars

-----------------------------------------------------------------------------
(***************************************************************************)
(* A command with the nonce of one that passed is refused for ReplayTTL    *)
(* seconds: two that pass are further apart, also when the cache was       *)
(* pruned in between (src/src/state.rs:296-331).                           *)
(***************************************************************************)
PassesOnce ==
  \A t \in Session :
    step[t] = "rate" /\ step'[t] = "dispatch" /\ request[t].nonce # NoNonce
      => ~Recent(lastPassed[ReplayKeyOf(t)], request[t].at)

NoReplay == [][PassesOnce]_vars

(* The same of a gateway with one worker thread, where nothing comes between *)
(* the lookup of the nonce and its insert (src/src/state.rs:319-328).        *)
NoReplayAlone == [][workers = 1 => PassesOnce]_vars

(* No more than RateLimit commands of a sender, name and context pass in one *)
(* window, however many of the sender's sessions send them at once           *)
(* (src/src/state.rs:333-364).                                               *)
RateBounded == \A k \in RateKey : passes[k] <= RateLimit

(***************************************************************************)
(* While a command is checked, the context that admits it is the stored    *)
(* one: a revocation waits for the check or is seen by it                  *)
(* (src/src/state.rs:627-700).  Not so of the dispatch that follows: the   *)
(* lock is released, and another worker may revoke the context first.      *)
(***************************************************************************)
CheckedContextStored ==
  \A t \in Session : step[t] \in Checking => context[t] \in contexts[UserOf[t]]

(***************************************************************************)
(* A subject has one context per operation, so that the first match of the *)
(* check is the only one and a revoked context cannot be passed over for   *)
(* an older active one (src/src/state.rs:570-573).                         *)
(***************************************************************************)
OneContextPerOperation ==
  \A u \in User : \A c, d \in contexts[u] : c.op = d.op => c = d

(***************************************************************************)
(* Snapshots cannot take a subject back to an older policy, in whatever    *)
(* order the backend publishes them: the version of an entry does not      *)
(* decrease, and an older snapshot leaves its contexts alone               *)
(* (src/src/state.rs:551-556).                                             *)
(***************************************************************************)
PolicyNeverBack ==
  [][\A u \in User :
       /\ policy'[u] >= policy[u]
       /\ contexts'[u] # contexts[u] => outbox.version >= policy[u]]_vars
=============================================================================
