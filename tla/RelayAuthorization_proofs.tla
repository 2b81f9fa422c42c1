----------------------- MODULE RelayAuthorization_proofs -----------------------
(***************************************************************************)
(* Proofs about RelayAuthorization, for every set of users, sessions,      *)
(* contexts and nonces and all limits.  For any number of worker threads:  *)
(*                                                                         *)
(*   TypeCorrect         Spec => []TypeOK                                  *)
(*   RateHolds           Spec => []RateBounded                             *)
(*   CheckedStored       Spec => []CheckedContextStored                    *)
(*   OneContext          Spec => []OneContextPerOperation                  *)
(*   PolicyMonotone      Spec => PolicyNeverBack                           *)
(*                                                                         *)
(* and, of the states with one worker thread, where no step of another     *)
(* task comes between the steps of a check:                                *)
(*                                                                         *)
(*   ReplayRefused       Spec => NoReplayAlone                             *)
(***************************************************************************)
EXTENDS RelayAuthorization, FiniteSetTheorems, TLAPS

-----------------------------------------------------------------------------
(* Types *)

(* A session is at the replay cache only with a nonce. *)
NonceOK ==
  \A t \in Session : step[t] \in {"replay", "record"} => request[t].nonce # NoNonce

LEMMA InitType == Init => TypeOK /\ NonceOK
BY RelayAssumption DEF Init, TypeOK, NonceOK, Time, Checking

(* The keys under which a request is looked up are keys of the maps. *)
LEMMA KeyType ==
  ASSUME TypeOK, NEW t \in Session, step[t] # "rest"
  PROVE  /\ RateKeyOf(t) \in RateKey
         /\ request[t].nonce # NoNonce => ReplayKeyOf(t) \in ReplayKey
<1>1. request[t] \in Request /\ context[t] \in Context /\ UserOf[t] \in User
  BY RelayAssumption DEF TypeOK
<1> QED
  BY <1>1 DEF Request, Context, RateKey, ReplayKey, RateKeyOf, ReplayKeyOf

LEMMA PrunedType ==
  ASSUME NEW cache \in [ReplayKey -> Time \cup {Absent}], NEW at
  PROVE  Pruned(cache, at) \in [ReplayKey -> Time \cup {Absent}]
BY DEF Pruned, Absent

LEMMA ApplyReadType ==
  ASSUME TypeOK, ApplyRead
  PROVE  outbox' \in Entry
<1>1. PICK u \in User, v \in 0..MaxVersion, S \in SUBSET Grantable :
        \E L \in LastOf({c \in S : Acceptable(c, u)}) :
          outbox' = [user     |-> u,
                     version  |-> v,
                     policy   |-> IF policy[u] > v THEN policy[u] ELSE v,
                     contexts |-> Merged(contexts[u], L)]
  BY DEF ApplyRead
<1>2. PICK L \in LastOf({c \in S : Acceptable(c, u)}) :
          outbox' = [user     |-> u,
                     version  |-> v,
                     policy   |-> IF policy[u] > v THEN policy[u] ELSE v,
                     contexts |-> Merged(contexts[u], L)]
  BY <1>1
<1>3. v \in Nat /\ policy[u] \in Nat \cup {Absent}
  BY RelayAssumption DEF TypeOK
<1>4. (IF policy[u] > v THEN policy[u] ELSE v) \in Nat
  BY <1>3 DEF Absent
<1>5. Merged(contexts[u], L) \in SUBSET Grantable
  BY DEF Merged, LastOf, TypeOK
<1> QED
  BY <1>2, <1>3, <1>4, <1>5 DEF Entry

(* Every step keeps the types (state.rs:296-364, 473-703). *)
LEMMA TypeStep ==
  ASSUME TypeOK, NonceOK, [Next]_vars
  PROVE  TypeOK' /\ NonceOK'
<1> USE RelayAssumption DEF sessionVars, history
<1>1. CASE Tick
  BY <1>1 DEF Tick, TypeOK, NonceOK, Time
<1>2. CASE ApplyRead
  BY <1>2, ApplyReadType DEF ApplyRead, TypeOK, NonceOK
<1>3. CASE ApplyInsert
  <2>1. outbox \in Entry
    BY <1>3 DEF ApplyInsert, TypeOK
  <2> QED
    BY <1>3, <2>1 DEF ApplyInsert, TypeOK, NonceOK, Entry
<1>4. ASSUME NEW t \in Session, Check(t)
      PROVE  TypeOK' /\ NonceOK'
  <2>1. PICK r \in [op : Operation, targets : (SUBSET Peer) \ {{}}, command : Command,
                    nonce : Nonce \cup {NoNonce}, at : {now}], c \in contexts[UserOf[t]] :
          /\ request' = [request EXCEPT ![t] = r]
          /\ context' = [context EXCEPT ![t] = c]
          /\ step' = [step EXCEPT ![t] = IF r.nonce = NoNonce THEN "rate" ELSE "replay"]
    BY <1>4 DEF Check
  <2>2. r \in Request /\ c \in Grantable
    BY DEF Request, TypeOK
  <2> QED
    BY <1>4, <2>1, <2>2 DEF Check, TypeOK, NonceOK, Checking
<1>5. ASSUME NEW t \in Session, CheckReplay(t)
      PROVE  TypeOK' /\ NonceOK'
  <2>1. CASE Finish(t)
    BY <1>5, <2>1 DEF CheckReplay, Finish, TypeOK, NonceOK, Checking
  <2>2. CASE step' = [step EXCEPT ![t] = "record"] /\ UNCHANGED <<request, context>>
    BY <1>5, <2>2 DEF CheckReplay, TypeOK, NonceOK, Checking
  <2> QED
    BY <1>5, <2>1, <2>2 DEF CheckReplay
<1>6. ASSUME NEW t \in Session, RecordReplay(t)
      PROVE  TypeOK' /\ NonceOK'
  <2>1. ReplayKeyOf(t) \in ReplayKey /\ request[t].at \in Time
    BY <1>6, KeyType DEF RecordReplay, TypeOK, NonceOK, Request
  <2>2. replay' \in [ReplayKey -> Time \cup {Absent}]
    BY <1>6, <2>1, PrunedType DEF RecordReplay, TypeOK
  <2> QED
    BY <1>6, <2>2 DEF RecordReplay, TypeOK, NonceOK, Checking
<1>7. ASSUME NEW t \in Session, CountRate(t)
      PROVE  TypeOK' /\ NonceOK'
  <2>1. request[t].at \in Time
    BY <1>7 DEF CountRate, TypeOK, Request
  <2>2. rate' \in [RateKey -> Nat] /\ passes' \in [RateKey -> Nat]
    BY <1>7 DEF CountRate, TypeOK
  <2>3. lastPassed' \in [ReplayKey -> Time \cup {Absent}]
    BY <1>7, <2>1 DEF CountRate, TypeOK
  <2>4. CASE Finish(t)
    BY <1>7, <2>2, <2>3, <2>4 DEF CountRate, Finish, TypeOK, NonceOK, Checking
  <2>5. CASE step' = [step EXCEPT ![t] = "dispatch"] /\ UNCHANGED <<request, context>>
    BY <1>7, <2>2, <2>3, <2>5 DEF CountRate, TypeOK, NonceOK, Checking
  <2> QED
    BY <1>7, <2>4, <2>5 DEF CountRate
<1>8. ASSUME NEW t \in Session, Dispatch(t)
      PROVE  TypeOK' /\ NonceOK'
  BY <1>8 DEF Dispatch, Finish, TypeOK, NonceOK, Checking
<1>9. CASE UNCHANGED vars
  BY <1>9 DEF vars, TypeOK, NonceOK
<1> QED
  BY <1>1, <1>2, <1>3, <1>4, <1>5, <1>6, <1>7, <1>8, <1>9 DEF Next

(***************************************************************************)
(* The maps and the requests in hand keep their shape under every          *)
(* interleaving of the sessions and the consumer (state.rs:188).           *)
(***************************************************************************)
THEOREM TypeCorrect == Spec => []TypeOK
<1>1. Spec => [](TypeOK /\ NonceOK)
  BY InitType, TypeStep, PTL DEF Spec
<1> QED
  BY <1>1, PTL

-----------------------------------------------------------------------------
(* Properties of every interleaving *)

(* The counter of a key has counted every pass, and stops at the limit. *)
RateInv == passes = rate /\ \A k \in RateKey : rate[k] <= RateLimit

LEMMA RateStep ==
  ASSUME TypeOK, RateInv, [Next]_vars
  PROVE  RateInv'
<1>1. ASSUME NEW t \in Session, CountRate(t)
      PROVE  RateInv'
  <2>1. CASE WithinRate(rate[RateKeyOf(t)])
    <3>1. /\ rate' = [rate EXCEPT ![RateKeyOf(t)] = @ + 1]
          /\ passes' = [passes EXCEPT ![RateKeyOf(t)] = @ + 1]
      BY <1>1, <2>1 DEF CountRate
    <3>2. rate[RateKeyOf(t)] < RateLimit
      BY <2>1 DEF WithinRate
    <3> QED
      BY <3>1, <3>2, RelayAssumption DEF RateInv, TypeOK
  <2>2. CASE ~WithinRate(rate[RateKeyOf(t)])
    BY <1>1, <2>2 DEF CountRate, RateInv, history
  <2> QED
    BY <2>1, <2>2
<1>2. CASE UNCHANGED <<rate, passes>>
  BY <1>2 DEF RateInv
<1> QED
  BY <1>1, <1>2 DEF Next, Tick, ApplyRead, ApplyInsert, Check, CheckReplay, RecordReplay,
                    Dispatch, vars, history

(***************************************************************************)
(* However many sessions of a sender relay at once, and on however many    *)
(* threads, no window sees more than RateLimit passes (state.rs:333-364).  *)
(***************************************************************************)
THEOREM RateHolds == Spec => []RateBounded
<1>1. Init => RateInv
  BY RelayAssumption DEF Init, RateInv
<1>2. RateInv => RateBounded
  BY DEF RateInv, RateBounded
<1> QED
  BY InitType, TypeStep, RateStep, <1>1, <1>2, PTL DEF Spec

LEMMA CheckedStep ==
  ASSUME TypeOK, CheckedContextStored, [Next]_vars
  PROVE  CheckedContextStored'
<1> USE DEF CheckedContextStored
<1>1. CASE ApplyInsert
  <2> SUFFICES ASSUME NEW t \in Session, step[t] \in Checking
               PROVE  context[t] \in contexts'[UserOf[t]]
    BY <1>1 DEF ApplyInsert, sessionVars
  <2>1. UserOf[t] # outbox.user
    BY <1>1 DEF ApplyInsert, Unlocked
  <2>2. contexts'[UserOf[t]] = contexts[UserOf[t]]
    BY <1>1, <2>1 DEF ApplyInsert, TypeOK
  <2> QED
    BY <2>2
<1>2. ASSUME NEW t \in Session, Check(t)
      PROVE  CheckedContextStored'
  BY <1>2 DEF Check, Admits, TypeOK
<1>3. ASSUME NEW t \in Session, CheckReplay(t)
      PROVE  CheckedContextStored'
  <2>1. CASE Finish(t)
    BY <1>3, <2>1 DEF CheckReplay, Finish, TypeOK, Checking
  <2>2. CASE step' = [step EXCEPT ![t] = "record"] /\ UNCHANGED <<request, context>>
    BY <1>3, <2>2 DEF CheckReplay, TypeOK, Checking
  <2> QED
    BY <1>3, <2>1, <2>2 DEF CheckReplay
<1>4. ASSUME NEW t \in Session, RecordReplay(t)
      PROVE  CheckedContextStored'
  BY <1>4 DEF RecordReplay, TypeOK, Checking
<1>5. ASSUME NEW t \in Session, CountRate(t)
      PROVE  CheckedContextStored'
  <2>1. CASE Finish(t)
    BY <1>5, <2>1 DEF CountRate, Finish, TypeOK, Checking
  <2>2. CASE step' = [step EXCEPT ![t] = "dispatch"] /\ UNCHANGED <<request, context>>
    BY <1>5, <2>2 DEF CountRate, TypeOK, Checking
  <2> QED
    BY <1>5, <2>1, <2>2 DEF CountRate
<1>6. ASSUME NEW t \in Session, Dispatch(t)
      PROVE  CheckedContextStored'
  BY <1>6 DEF Dispatch, Finish, TypeOK, Checking
<1>7. CASE Tick \/ ApplyRead \/ UNCHANGED vars
  BY <1>7 DEF Tick, ApplyRead, vars, sessionVars
<1> QED
  BY <1>1, <1>2, <1>3, <1>4, <1>5, <1>6, <1>7 DEF Next

(***************************************************************************)
(* The lock a check holds on the sender's entry keeps the context that     *)
(* admits the command in place until the check returns                     *)
(* (state.rs:627-700).                                                     *)
(***************************************************************************)
THEOREM CheckedStored == Spec => []CheckedContextStored
<1>1. Init => CheckedContextStored
  BY DEF Init, CheckedContextStored, Checking
<1> QED
  BY InitType, TypeStep, CheckedStep, <1>1, PTL DEF Spec

(***************************************************************************)
(* What the consumer has in hand: contexts that are unique per operation,  *)
(* for an entry that has not become newer since it was read, because the   *)
(* consumer is the only writer.                                            *)
(***************************************************************************)
Unique(C) == \A c, d \in C : c.op = d.op => c = d

OutboxOK ==
  outbox # Idle =>
    /\ Unique(outbox.contexts)
    /\ outbox.policy >= policy[outbox.user]
    /\ outbox.version >= policy[outbox.user]

(* Merging a snapshot keeps one context per operation (state.rs:571-574). *)
LEMMA MergedUnique ==
  ASSUME NEW old, Unique(old), NEW S, NEW L \in LastOf(S)
  PROVE  Unique(Merged(old, L))
<1>1. Unique(L)
  BY DEF LastOf, Unique
<1> QED
  BY <1>1 DEF Unique, Merged

LEMMA OutboxStep ==
  ASSUME TypeOK, OneContextPerOperation, OutboxOK, [Next]_vars
  PROVE  OneContextPerOperation' /\ OutboxOK'
<1>1. CASE ApplyRead
  <2>1. PICK u \in User, v \in 0..MaxVersion, S \in SUBSET Grantable :
          /\ ~Outdated(v, u)
          /\ \E L \in LastOf({c \in S : Acceptable(c, u)}) :
               outbox' = [user     |-> u,
                          version  |-> v,
                          policy   |-> IF policy[u] > v THEN policy[u] ELSE v,
                          contexts |-> Merged(contexts[u], L)]
    BY <1>1 DEF ApplyRead
  <2>2. PICK L \in LastOf({c \in S : Acceptable(c, u)}) :
               outbox' = [user     |-> u,
                          version  |-> v,
                          policy   |-> IF policy[u] > v THEN policy[u] ELSE v,
                          contexts |-> Merged(contexts[u], L)]
    BY <2>1
  <2>3. Unique(contexts[u])
    BY DEF OneContextPerOperation, Unique
  <2>4. Unique(Merged(contexts[u], L))
    BY <2>3, MergedUnique
  <2>5. policy[u] \in Int /\ v \in Int /\ v >= policy[u]
    BY <2>1, RelayAssumption DEF TypeOK, Absent, Outdated
  <2>6. outbox'.policy >= policy[u] /\ outbox'.version >= policy[u]
    BY <2>2, <2>5
  <2> QED
    BY <1>1, <2>2, <2>4, <2>6 DEF ApplyRead, OutboxOK, OneContextPerOperation
<1>2. CASE ApplyInsert
  BY <1>2 DEF ApplyInsert, TypeOK, OutboxOK, OneContextPerOperation, Unique
<1>3. CASE UNCHANGED <<policy, contexts, outbox>>
  BY <1>3 DEF OutboxOK, OneContextPerOperation
<1> QED
  BY <1>1, <1>2, <1>3 DEF Next, Tick, Check, CheckReplay, RecordReplay, CountRate, Dispatch,
                          vars

LEMMA InitOutbox == Init => OneContextPerOperation /\ OutboxOK
BY DEF Init, OneContextPerOperation, OutboxOK

(***************************************************************************)
(* Whatever snapshots arrive, a subject never has two contexts of one      *)
(* operation, so a revocation leaves no older context to be found          *)
(* (state.rs:571-574).                                                     *)
(***************************************************************************)
THEOREM OneContext == Spec => []OneContextPerOperation
BY InitType, TypeStep, InitOutbox, OutboxStep, PTL DEF Spec

(***************************************************************************)
(* Whatever order snapshots arrive in, the policy version of a subject     *)
(* does not decrease and only a snapshot that is not older changes the     *)
(* subject's contexts (state.rs:552-569).                                  *)
(***************************************************************************)
THEOREM PolicyMonotone == Spec => PolicyNeverBack
<1> DEFINE Forward ==
      \A u \in User :
        /\ policy'[u] >= policy[u]
        /\ contexts'[u] # contexts[u] => outbox.version >= policy[u]
<1>1. ASSUME TypeOK, OutboxOK, [Next]_vars
      PROVE  [Forward]_vars
  <2>1. \A u \in User : policy[u] \in Int
    BY <1>1 DEF TypeOK, Absent
  <2>2. CASE ApplyInsert
    <3>1. outbox \in Entry /\ outbox # Idle
      BY <1>1, <2>2 DEF ApplyInsert, TypeOK
    <3>2. outbox.policy \in Nat /\ outbox.version \in Nat
      BY <3>1 DEF Entry
    <3> QED
      BY <1>1, <2>1, <2>2, <3>1, <3>2 DEF ApplyInsert, OutboxOK, TypeOK
  <2>3. CASE UNCHANGED <<policy, contexts>>
    BY <2>1, <2>3
  <2> QED
    BY <1>1, <2>2, <2>3 DEF Next, Tick, ApplyRead, Check, CheckReplay, RecordReplay,
                            CountRate, Dispatch, vars
<1>2. Spec => [](TypeOK /\ OutboxOK)
  BY InitType, TypeStep, InitOutbox, OutboxStep, PTL DEF Spec
<1> QED
  BY <1>1, <1>2, PTL DEF Spec, PolicyNeverBack

-----------------------------------------------------------------------------
(* One worker thread: no task runs between a check and its dispatch *)

Exclusive ==
  \A t \in Session : step[t] # "rest" =>
    /\ outbox = Idle
    /\ \A s \in Session : step[s] # "rest" => s = t

(* The only worker is free when no task is between two of its steps. *)
LEMMA FreeIsIdle ==
  ASSUME TypeOK, workers = 1, WorkerFree
  PROVE  outbox = Idle /\ \A t \in Session : step[t] = "rest"
<1>1. IsFiniteSet(Busy) /\ Cardinality(Busy) \in Nat
  <2>1. Busy \subseteq Session
    BY DEF Busy
  <2> QED
    BY <2>1, RelayAssumption, FS_Subset, FS_CardinalityType
<1>2. Cardinality(Busy) = 0 /\ outbox = Idle
  BY <1>1 DEF WorkerFree
<1>3. Busy = {}
  BY <1>1, <1>2, FS_EmptySet
<1> QED
  BY <1>2, <1>3 DEF Busy

LEMMA WorkersFixed == [Next]_vars => workers' = workers
BY DEF Next, Tick, ApplyRead, ApplyInsert, Check, CheckReplay, RecordReplay, CountRate,
       Dispatch, vars

LEMMA ExclusiveStep ==
  ASSUME workers = 1, TypeOK, Exclusive, [Next]_vars
  PROVE  Exclusive'
<1> USE DEF Exclusive, sessionVars
<1>1. CASE ApplyRead
  BY <1>1, FreeIsIdle DEF ApplyRead
<1>2. CASE ApplyInsert
  BY <1>2 DEF ApplyInsert
<1>3. ASSUME NEW t \in Session, Check(t)
      PROVE  Exclusive'
  <2>1. outbox = Idle /\ outbox' = outbox /\ \A s \in Session : s # t => step'[s] = "rest"
    BY <1>3, FreeIsIdle DEF Check, TypeOK
  <2> QED
    BY <2>1
<1>4. ASSUME NEW t \in Session,
             CheckReplay(t) \/ RecordReplay(t) \/ CountRate(t) \/ Dispatch(t)
      PROVE  Exclusive'
  <2>1. step[t] # "rest" /\ outbox' = outbox
    BY <1>4 DEF CheckReplay, RecordReplay, CountRate, Dispatch
  <2>2. \A s \in Session : s # t => step'[s] = step[s]
    BY <1>4 DEF CheckReplay, RecordReplay, CountRate, Dispatch, Finish, TypeOK
  <2> QED
    BY <2>1, <2>2
<1>5. CASE Tick \/ UNCHANGED vars
  BY <1>5 DEF Tick, vars
<1> QED
  BY <1>1, <1>2, <1>3, <1>4, <1>5 DEF Next

LEMMA ExclusiveInit == Init => Exclusive
BY DEF Init, Exclusive

-----------------------------------------------------------------------------
(* The replay cache, on one worker thread *)

(* A pass that is recent enough to matter is still cached. *)
Remembered(k, at) == Recent(lastPassed[k], at) => replay[k] >= lastPassed[k]

ReplayInv ==
  /\ \A k \in ReplayKey : Remembered(k, now)
  /\ \A t \in Session :
       /\ step[t] # "rest" => request[t].at <= now
       /\ step[t] = "replay" => Remembered(ReplayKeyOf(t), request[t].at)
       /\ step[t] \in {"record", "rate"} /\ request[t].nonce # NoNonce
            => ~Recent(lastPassed[ReplayKeyOf(t)], request[t].at)
       /\ step[t] = "rate" /\ request[t].nonce # NoNonce
            => replay[ReplayKeyOf(t)] = request[t].at

(* Pruning drops what no longer matters (state.rs:296-312). *)
LEMMA PrunedKeeps ==
  ASSUME NEW cache \in [ReplayKey -> Time \cup {Absent}], NEW at,
         NEW k \in ReplayKey, Recent(cache[k], at)
  PROVE  Pruned(cache, at)[k] = cache[k]
BY DEF Pruned

(* A nonce is recorded when no recent pass of its key is known. *)
LEMMA ReplayRecord ==
  ASSUME TypeOK, NonceOK, ReplayInv, Exclusive, NEW t \in Session, RecordReplay(t)
  PROVE  ReplayInv'
<1> DEFINE k == ReplayKeyOf(t)
           at == request[t].at
           cache == [replay EXCEPT ![k] = at]
<1>1. k \in ReplayKey /\ at \in Time /\ request[t].nonce # NoNonce
  BY KeyType DEF RecordReplay, TypeOK, NonceOK, Request
<1>2. /\ replay' = Pruned(cache, at)
      /\ step' = [step EXCEPT ![t] = "rate"]
      /\ UNCHANGED <<now, request, context, lastPassed>>
  BY DEF RecordReplay, history
<1>3. cache \in [ReplayKey -> Time \cup {Absent}]
  BY <1>1 DEF TypeOK
<1>4. at <= now /\ ~Recent(lastPassed[k], at)
  BY <1>1 DEF ReplayInv, RecordReplay
<1>5. now \in Int /\ at \in Int /\ ReplayTTL \in Nat
  BY <1>1, RelayAssumption DEF TypeOK, Time
<1>6. replay'[k] = at
  <2>1. cache[k] = at
    BY <1>1 DEF TypeOK
  <2>2. at # Absent /\ at - at <= ReplayTTL
    BY <1>1, <1>5 DEF Time, Absent
  <2>3. Recent(cache[k], at)
    BY <2>1, <2>2 DEF Recent
  <2> QED
    BY <1>1, <1>2, <1>3, <2>1, <2>3, PrunedKeeps
<1>7. ASSUME NEW j \in ReplayKey PROVE Remembered(j, now)'
  <2>1. SUFFICES ASSUME Recent(lastPassed[j], now)
                 PROVE  replay'[j] >= lastPassed[j]
    BY <1>2 DEF Remembered
  <2>2. lastPassed[j] \in Int /\ lastPassed[j] # Absent /\ replay[j] \in Int
    BY <2>1, RelayAssumption DEF TypeOK, Recent, Time, Absent
  <2>3. now - lastPassed[j] <= ReplayTTL
    BY <2>1 DEF Recent
  <2>4. CASE j = k
    <3>1. Recent(lastPassed[k], at)
      BY <1>4, <1>5, <2>2, <2>3, <2>4 DEF Recent
    <3> QED
      BY <3>1, <1>4
  <2>5. CASE j # k
    <3>1. replay[j] >= lastPassed[j] /\ cache[j] = replay[j]
      BY <1>1, <2>1, <2>5 DEF ReplayInv, Remembered, TypeOK
    <3>2. replay[j] # Absent
      BY <3>1, <2>2, RelayAssumption DEF TypeOK, Time, Absent
    <3>3. Recent(cache[j], at)
      BY <1>4, <1>5, <2>2, <2>3, <3>1, <3>2 DEF Recent
    <3> QED
      BY <1>2, <1>3, <3>1, <3>3, PrunedKeeps
  <2> QED
    BY <2>4, <2>5
<1>8. ASSUME NEW s \in Session, s # t PROVE step'[s] = "rest"
  BY <1>2, <1>8 DEF Exclusive, RecordReplay, TypeOK
<1>9. /\ step'[t] = "rate" /\ ReplayKeyOf(t)' = k /\ request'[t] = request[t]
      /\ lastPassed' = lastPassed /\ now' = now
  BY <1>2 DEF ReplayKeyOf, TypeOK
<1> QED
  BY <1>4, <1>6, <1>7, <1>8, <1>9 DEF ReplayInv

(* What passes is what the cache holds. *)
LEMMA ReplayCount ==
  ASSUME TypeOK, NonceOK, ReplayInv, Exclusive, NEW t \in Session, CountRate(t)
  PROVE  ReplayInv'
<1> DEFINE k == ReplayKeyOf(t)
           at == request[t].at
<1>1. at \in Time /\ (request[t].nonce # NoNonce => k \in ReplayKey)
  BY KeyType DEF CountRate, TypeOK, Request
<1>2. now' = now /\ replay' = replay
  BY DEF CountRate
<1>3. ASSUME NEW j \in ReplayKey PROVE Remembered(j, now)'
  <2>1. CASE lastPassed'[j] = lastPassed[j]
    BY <1>2, <2>1 DEF ReplayInv, Remembered
  <2>2. CASE lastPassed'[j] # lastPassed[j]
    <3>1. /\ request[t].nonce # NoNonce
          /\ lastPassed' = [lastPassed EXCEPT ![k] = at]
      BY <2>2 DEF CountRate, history
    <3>2. j = k /\ lastPassed'[j] = at
      BY <2>2, <3>1 DEF TypeOK
    <3>3. replay[k] = at
      BY <3>1 DEF ReplayInv, CountRate
    <3> QED
      BY <1>1, <1>2, <3>2, <3>3 DEF Remembered, Time
  <2> QED
    BY <2>1, <2>2
<1>4. \A s \in Session : step'[s] \in {"rest", "dispatch"}
  BY DEF Exclusive, CountRate, Finish, TypeOK
<1>5. \A s \in Session : step'[s] # "rest" => request'[s].at <= now
  BY DEF ReplayInv, CountRate, Finish, TypeOK
<1> QED
  BY <1>2, <1>3, <1>4, <1>5 DEF ReplayInv

LEMMA ReplayStep ==
  ASSUME workers = 1, TypeOK, NonceOK, ReplayInv, Exclusive, [Next]_vars
  PROVE  ReplayInv'
<1> USE RelayAssumption DEF sessionVars, history
<1>1. CASE Tick
  <2>1. \A k \in ReplayKey : lastPassed[k] \in Int
    BY DEF TypeOK, Time, Absent
  <2>2. now \in Int /\ now' = now + 1
    BY <1>1 DEF Tick, TypeOK, Time
  <2>3. \A k \in ReplayKey : Remembered(k, now)'
    BY <1>1, <2>1, <2>2 DEF Tick, ReplayInv, Remembered, Recent
  <2>4. \A t \in Session : step[t] # "rest" => request[t].at \in Int
    BY DEF TypeOK, Request, Time
  <2>5. \A t \in Session : step[t] # "rest" => request[t].at <= now'
    BY <2>2, <2>4 DEF ReplayInv
  <2> QED
    BY <1>1, <2>3, <2>5 DEF Tick, ReplayInv, Remembered, ReplayKeyOf
<1>2. CASE ApplyRead \/ ApplyInsert \/ UNCHANGED vars
  BY <1>2 DEF ApplyRead, ApplyInsert, vars, ReplayInv, Remembered, ReplayKeyOf
<1>3. ASSUME NEW t \in Session, Check(t)
      PROVE  ReplayInv'
  <2>1. PICK r \in [op : Operation, targets : (SUBSET Peer) \ {{}}, command : Command,
                    nonce : Nonce \cup {NoNonce}, at : {now}], c \in contexts[UserOf[t]] :
          /\ request' = [request EXCEPT ![t] = r]
          /\ context' = [context EXCEPT ![t] = c]
          /\ step' = [step EXCEPT ![t] = IF r.nonce = NoNonce THEN "rate" ELSE "replay"]
    BY <1>3 DEF Check
  <2>2. \A s \in Session : s # t => step'[s] = "rest"
    BY <1>3, <2>1, FreeIsIdle DEF Check, TypeOK
  <2>3. request'[t] = r /\ r.at = now /\ now \in Int
    BY <2>1 DEF TypeOK, Time
  <2>4. /\ step'[t] \in {"replay", "rate"}
        /\ step'[t] = "replay" => ReplayKeyOf(t)' \in ReplayKey
        /\ step'[t] = "rate" => request'[t].nonce = NoNonce
    <3>1. TypeOK' /\ NonceOK'
      BY <1>3, TypeStep DEF Next
    <3> QED
      BY <2>1, <2>3, <3>1, RelayAssumption
         DEF TypeOK, NonceOK, ReplayKeyOf, ReplayKey, Request, Context
  <2>5. /\ UNCHANGED <<now, replay, lastPassed>>
        /\ \A k \in ReplayKey : Remembered(k, now)
    BY <1>3 DEF Check, ReplayInv
  <2> QED
    BY <2>2, <2>3, <2>4, <2>5 DEF ReplayInv, Remembered
<1>4. ASSUME NEW t \in Session, CheckReplay(t)
      PROVE  ReplayInv'
  <2>1. UNCHANGED <<now, replay, lastPassed>>
    BY <1>4 DEF CheckReplay
  <2>2. \A s \in Session : s # t => step'[s] = "rest"
    BY <1>4 DEF CheckReplay, Exclusive, Finish, TypeOK
  <2>3. CASE Finish(t)
    <3>1. step'[t] = "rest"
      BY <2>3 DEF Finish, TypeOK
    <3> QED
      BY <2>1, <2>2, <3>1 DEF ReplayInv, Remembered
  <2>4. CASE /\ ~Recent(replay[ReplayKeyOf(t)], request[t].at)
             /\ step' = [step EXCEPT ![t] = "record"]
             /\ UNCHANGED <<request, context>>
    <3>1. ReplayKeyOf(t) \in ReplayKey /\ request[t].at \in Int
      BY <1>4, KeyType DEF CheckReplay, TypeOK, NonceOK, Request, Time
    <3>2. /\ lastPassed[ReplayKeyOf(t)] \in Nat \cup {-1}
          /\ replay[ReplayKeyOf(t)] \in Nat \cup {-1}
      BY <3>1 DEF TypeOK, Time, Absent
    <3>3. ~Recent(lastPassed[ReplayKeyOf(t)], request[t].at)
      <4>1. Remembered(ReplayKeyOf(t), request[t].at)
        BY <1>4 DEF CheckReplay, ReplayInv
      <4> QED
        BY <2>4, <3>1, <3>2, <4>1 DEF Remembered, Recent, Absent
    <3>4. step'[t] = "record" /\ ReplayKeyOf(t)' = ReplayKeyOf(t) /\ request' = request
      BY <2>4 DEF TypeOK, ReplayKeyOf
    <3>5. request[t].at <= now
      BY <1>4 DEF CheckReplay, ReplayInv
    <3> QED
      BY <2>1, <2>2, <3>3, <3>4, <3>5 DEF ReplayInv, Remembered
  <2> QED
    BY <1>4, <2>3, <2>4 DEF CheckReplay
<1>5. ASSUME NEW t \in Session, Dispatch(t)
      PROVE  ReplayInv'
  <2>1. UNCHANGED <<now, replay, lastPassed>>
    BY <1>5 DEF Dispatch
  <2>2. \A s \in Session : step'[s] = "rest"
    BY <1>5 DEF Dispatch, Exclusive, Finish, TypeOK
  <2> QED
    BY <2>1, <2>2 DEF ReplayInv, Remembered
<1> QED
  BY <1>1, <1>2, <1>3, <1>4, <1>5, ReplayRecord, ReplayCount DEF Next

(***************************************************************************)
(* On one worker thread a replay nonce that passed is refused for          *)
(* ReplayTTL seconds, whatever the size of the cache and whenever it is    *)
(* pruned (state.rs:296-331).  On two threads the run relay_replay shows   *)
(* that it is not.                                                         *)
(***************************************************************************)
THEOREM ReplayRefused == Spec => NoReplayAlone
<1> DEFINE Alone == workers = 1 => Exclusive /\ ReplayInv
<1>1. Init => Alone
  BY ExclusiveInit DEF Init, ReplayInv, Remembered, Recent
<1>2. TypeOK /\ NonceOK /\ Alone /\ [Next]_vars => Alone'
  BY ExclusiveStep, ReplayStep, WorkersFixed
<1>3. Alone => (workers = 1 => PassesOnce)
  BY DEF ReplayInv, PassesOnce
<1>4. Spec => []Alone
  BY InitType, TypeStep, <1>1, <1>2, PTL DEF Spec
<1> QED
  BY <1>3, <1>4, PTL DEF Spec, NoReplayAlone
=============================================================================
