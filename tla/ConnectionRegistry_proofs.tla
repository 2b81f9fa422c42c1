---------------------- MODULE ConnectionRegistry_proofs ----------------------
(***************************************************************************)
(* Proofs about ConnectionRegistry, for every set of connections, subjects *)
(* and tasks, every limit and every number of worker threads.              *)
(*                                                                         *)
(*   TypeCorrect   Spec => []TypeOK                                        *)
(*   LimitHolds    Spec => []ReadyLimit                                    *)
(*   KeysDropped   Spec => []EmptyKeysDropped                              *)
(*   JudgedRight   Spec => JudgementsHold                                  *)
(*   MethodsEnd    Spec => []LeftBounded /\ ReturnsNearer                  *)
(*                                                                         *)
(* and, for Workers = 1,                                                   *)
(*                                                                         *)
(*   IndexMatches    Spec => []IndexExact                                  *)
(*   OneActive       Spec => []OneActivePerInstance                        *)
(*   OldestEvicted   Spec => EvictsOldest                                  *)
(*   OneStays        Spec => ReplacedNotLost                               *)
(***************************************************************************)
EXTENDS ConnectionRegistry, FiniteSetTheorems, TLAPS

Dropping == {"drop_ready", "drop_index", "drop_key"}

(***************************************************************************)
(* What TypeOK needs of the frames: unregister_connection is past          *)
(* connections.remove only with a connection it removed, and removes a key *)
(* only after it has seen that key.                                        *)
(***************************************************************************)
FrameOK ==
  \A t \in Task :
    /\ step[t] \in Dropping => target[t] \in Conn
    /\ step[t] = "drop_key" => key[t] \in Subject

(* The collected ids are a finite set: the limit arithmetic is on naturals. *)
LEMMA ConnFinite ==
  ASSUME NEW S \in SUBSET Conn
  PROVE  IsFiniteSet(S) /\ Cardinality(S) \in Nat
<1>1. IsFiniteSet(Conn)
  BY RegistryAssumption, FS_Subset DEF Task
<1> QED
  BY <1>1, FS_Subset, FS_CardinalityType

LEMMA InitType == Init => TypeOK /\ FrameOK
<1>1. None \notin Conn /\ 0 \in Nat
  BY RegistryAssumption
<1> QED
  BY <1>1 DEF Init, TypeOK, FrameOK, Task, Sessions, Ops, Steps, Dropping

(* Every step keeps the shape of the state (state.rs:728-1013). *)
LEMMA TypeStep ==
  ASSUME TypeOK, FrameOK, [Next]_vars
  PROVE  TypeOK' /\ FrameOK'
<1> USE RegistryAssumption DEF TypeOK, FrameOK, Task, Sessions, Ops, Steps, Dropping,
      registry, frame
<1>1. ASSUME NEW c \in Conn, Register(c)
      PROVE  TypeOK' /\ FrameOK'
  BY <1>1 DEF Register, Call
<1>2. ASSUME NEW c \in Conn, SessionReady(c)
      PROVE  TypeOK' /\ FrameOK'
  BY <1>2 DEF SessionReady, Call
<1>3. ASSUME NEW c \in Conn, Exit(c)
      PROVE  TypeOK' /\ FrameOK'
  BY <1>3 DEF Exit, Call
<1>5. ASSUME NEW c \in Conn, Alive(c) \/ GoIdle(c)
      PROVE  TypeOK' /\ FrameOK'
  BY <1>5 DEF Alive, GoIdle
<1>6. ASSUME NEW t \in Task, Prune(t)
      PROVE  TypeOK' /\ FrameOK'
  BY <1>6 DEF Prune, Call
<1>7. ASSUME NEW t \in Task, Send(t) \/ SendToConnection(t)
      PROVE  TypeOK' /\ FrameOK'
  <2>1. CASE Send(t)
    BY <2>1 DEF Send, Call
  <2>2. CASE SendToConnection(t)
    BY <2>2 DEF SendToConnection, Call
  <2> QED
    BY <1>7, <2>1, <2>2
<1>8. ASSUME NEW t \in Task, ScanDone(t)
      PROVE  TypeOK' /\ FrameOK'
  BY <1>8 DEF ScanDone
<1>9. ASSUME NEW t \in Task, EvictNext(t)
      PROVE  TypeOK' /\ FrameOK'
  BY <1>9 DEF EvictNext, Remove
<1>10. ASSUME NEW t \in Task, Unregister(t)
       PROVE  TypeOK' /\ FrameOK'
  <2>1. CASE DropReady(t)
    BY <2>1 DEF DropReady
  <2>2. CASE DropIndex(t)
    BY <2>2 DEF DropIndex
  <2>3. CASE DropKey(t)
    BY <2>3 DEF DropKey
  <2>4. CASE Unregistered(t)
    BY <2>4 DEF Unregistered
  <2> QED
    BY <1>10, <2>1, <2>2, <2>3, <2>4 DEF Unregister
<1>11. ASSUME NEW t \in Task, LoopDone(t)
       PROVE  TypeOK' /\ FrameOK'
  BY <1>11 DEF LoopDone, Return
<1>12. ASSUME NEW c \in Conn, SessionStep(c)
       PROVE  TypeOK' /\ FrameOK'
  <2>1. CASE RegisterScan(c) \/ RegisterInsert(c)
    <3>1. CASE RegisterScan(c)
      BY <3>1 DEF RegisterScan
    <3>2. CASE RegisterInsert(c)
      BY <3>2 DEF RegisterInsert
    <3> QED
      BY <2>1, <3>1, <3>2
  <2>2. CASE RegisterIndex(c)
    BY <2>2 DEF RegisterIndex
  <2>7. CASE Registered(c)
    BY <2>7 DEF Registered, Return
  <2>3. CASE ReadyScan(c)
    BY <2>3 DEF ReadyScan
  <2>4. CASE ReadyDecide(c)
    <3>1. Cardinality(ids[c]) \in Nat
      BY ConnFinite
    <3>2. quota' \in [Task -> Nat]
      BY <2>4, <3>1 DEF ReadyDecide, WithinLimit
    <3>3. ids' \in [Task -> SUBSET Conn]
      BY <2>4 DEF ReadyDecide
    <3>4. op' \in [Task -> Ops] /\ step' \in [Task -> Steps]
      <4>1. CASE WithinLimit(ids[c])
        BY <2>4, <4>1 DEF ReadyDecide, Return
      <4>2. CASE ~WithinLimit(ids[c])
        BY <2>4, <4>2 DEF ReadyDecide
      <4> QED
        BY <4>1, <4>2
    <3>5. TypeOK'
      BY <2>4, <3>2, <3>3, <3>4 DEF ReadyDecide
    <3>6. /\ target' = target /\ key' = key
          /\ \A u \in Task : step'[u] = step[u] \/ step'[u] \in {"rest", "evict"}
      BY <2>4 DEF ReadyDecide, Return
    <3>7. FrameOK'
      BY <3>4, <3>6
    <3> QED
      BY <3>5, <3>7
  <2>5. CASE ReadyEvict(c)
    <3>1. PICK v \in ids[c] :
            /\ ids' = [ids EXCEPT ![c] = @ \ {v}]
            /\ \/ UNCHANGED <<registry, step, target, quota>>
               \/ /\ Remove(c, v)
                  /\ quota' = [quota EXCEPT ![c] = IF v \in connections THEN @ - 1 ELSE @]
      BY <2>5 DEF ReadyEvict
    <3>2. /\ op[c] = "session_ready" /\ step[c] = "evict" /\ quota[c] > 0
          /\ UNCHANGED <<session, op, scan, todo, key>>
      BY <2>5 DEF ReadyEvict
    <3>3. CASE UNCHANGED <<registry, step, target, quota>>
      BY <3>1, <3>2, <3>3
    <3>4. CASE Remove(c, v) /\ quota' = [quota EXCEPT ![c] = IF v \in connections THEN @ - 1 ELSE @]
      <4>1. quota[c] - 1 \in Nat
        BY <3>2
      <4>2. quota' \in [Conn \cup Sweeper \cup Dispatcher -> Nat]
        BY <3>4, <4>1
      <4>3. /\ connections' \in SUBSET Conn /\ idle' \in SUBSET Conn
            /\ target' \in [Conn \cup Sweeper \cup Dispatcher -> Conn \cup {None}]
            /\ step' \in [Conn \cup Sweeper \cup Dispatcher -> Steps]
            /\ UNCHANGED <<connectedAt, subjects, subjectKeys, ready>>
        BY <3>1, <3>4 DEF Remove
      <4>4. ids' \in [Conn \cup Sweeper \cup Dispatcher -> SUBSET Conn]
        BY <3>1
      <4>5. TypeOK'
        BY <3>2, <4>2, <4>3, <4>4
      <4>6. FrameOK'
        BY <3>2, <3>4 DEF Remove
      <4> QED
        BY <4>5, <4>6
    <3> QED
      BY <3>1, <3>3, <3>4
  <2>6. CASE ReadyDone(c)
    BY <2>6 DEF ReadyDone, Return
  <2>8. CASE Closed(c)
    BY <2>8 DEF Closed, Return
  <2> QED
    BY <1>12, <2>1, <2>2, <2>3, <2>4, <2>5, <2>6, <2>7, <2>8 DEF SessionStep
<1>13. ASSUME NEW t \in Task, PruneScan(t) \/ SendLookup(t) \/ SendDeliver(t)
       PROVE  TypeOK' /\ FrameOK'
  <2>1. CASE PruneScan(t)
    BY <2>1 DEF PruneScan
  <2>2. CASE SendLookup(t)
    BY <2>2 DEF SendLookup
  <2>3. CASE SendDeliver(t)
    BY <2>3 DEF SendDeliver
  <2> QED
    BY <1>13, <2>1, <2>2, <2>3
<1>14. CASE UNCHANGED vars
  BY <1>14 DEF vars
<1>15. \A t \in Conn \cup Sweeper \cup Dispatcher : t \in Task
  BY DEF Task
<1> QED
  BY <1>1, <1>2, <1>3, <1>5, <1>6, <1>7, <1>8, <1>9, <1>10, <1>11, <1>12,
     <1>13, <1>14, <1>15 DEF Next, MethodStep

(***************************************************************************)
(* The maps of GatewayState and the frames of the methods in flight keep   *)
(* their shape (state.rs:188), whatever overlaps: in particular the number *)
(* of connections session_ready has still to evict never goes below zero.  *)
(***************************************************************************)
THEOREM TypeCorrect == Spec => []TypeOK
<1>1. TypeOK /\ FrameOK /\ [Next]_vars => (TypeOK /\ FrameOK)'
  BY TypeStep
<1> QED
  BY InitType, <1>1, PTL DEF Spec

-----------------------------------------------------------------------------
(***************************************************************************)
(* The per-user limit.  ReadyLimit is not inductive: what bounds the ready *)
(* connections of a user between the return of one session_ready and the   *)
(* next is what the last one collected and evicted.                        *)
(***************************************************************************)

(* The session has not reached connections.insert; each reaches it once. *)
Fresh(d) == session[d] = "new" /\ step[d] # "index"

(***************************************************************************)
(* Control: which steps go with which methods, and that what a frame holds *)
(* is empty while no method uses it.                                       *)
(***************************************************************************)
PhaseOK ==
  /\ \A t \in Task : op[t] = "none" => step[t] = "rest" /\ ids[t] = {}
  /\ \A c \in Conn :
       /\ step[c] = "index" => op[c] = "register" /\ ids[c] = {}
       /\ op[c] = "register" => session[c] = "new"
       /\ op[c] = "session_ready" => step[c] \in {"scan", "evict"} \cup Dropping

(***************************************************************************)
(* A connection that left the map never comes back: whatever is or was     *)
(* registered, ready, or being unregistered is past its only insert.       *)
(***************************************************************************)
NeverBack ==
  /\ \A d \in connections \cup ready : ~Fresh(d)
  /\ \A t \in Task : step[t] \in Dropping =>
                      target[t] \notin connections /\ ~Fresh(target[t])

(***************************************************************************)
(* What a session_ready has collected stays accurate: an id of its list    *)
(* that is still registered is still ready.                                *)
(***************************************************************************)
CollectedReady ==
  \A c \in Conn : op[c] = "session_ready" =>
    \A d \in ids[c] : /\ UserOf[d] = UserOf[c]
                      /\ ~Fresh(d)
                      /\ d \in connections => d \in ready

(***************************************************************************)
(* The session_ready of c accounts for all ready connections of its user:  *)
(* while it scans, each is collected or still to be visited; while it      *)
(* evicts, each is on the list or c itself, and no more exceed the limit   *)
(* than it has still to evict.                                             *)
(***************************************************************************)
Covers(c) ==
  IF step[c] = "scan"
    THEN ReadyOf(UserOf[c]) \subseteq ids[c] \cup scan[c]
    ELSE /\ ReadyOf(UserOf[c]) \subseteq ids[c] \cup {c}
         /\ Cardinality(ReadyOf(UserOf[c])) <= MaxPerUser + quota[c]

Covered(u) ==
  \/ Cardinality(ReadyOf(u)) <= MaxPerUser
  \/ \E c \in Conn : op[c] = "session_ready" /\ UserOf[c] = u /\ Covers(c)

LimitCovered == MaxPerUser # 0 => \A c \in Conn : Covered(UserOf[c])

LimitInv == PhaseOK /\ NeverBack /\ CollectedReady /\ LimitCovered

LEMMA InitLimit == Init => LimitInv
<1> SUFFICES ASSUME Init PROVE LimitInv
  OBVIOUS
<1>1. PhaseOK /\ NeverBack /\ CollectedReady
  BY DEF Init, PhaseOK, NeverBack, CollectedReady, Fresh, Dropping, Task
<1>2. ASSUME NEW c \in Conn
      PROVE  Cardinality(ReadyOf(UserOf[c])) <= MaxPerUser
  <2>1. ReadyOf(UserOf[c]) = {}
    BY DEF Init, ReadyOf
  <2> QED
    BY <2>1, FS_EmptySet, RegistryAssumption
<1> QED
  BY <1>1, <1>2 DEF LimitInv, LimitCovered, Covered

(***************************************************************************)
(* Control is kept by every step.  The one action that could bring a       *)
(* connection back, connections.insert, is taken by a fresh session.       *)
(***************************************************************************)
LEMMA ControlStep ==
  ASSUME TypeOK, FrameOK, PhaseOK, NeverBack, CollectedReady, [Next]_vars
  PROVE  PhaseOK' /\ NeverBack' /\ CollectedReady'
<1> DEFINE Goal == PhaseOK' /\ NeverBack' /\ CollectedReady'
<1> SUFFICES Goal
  OBVIOUS
<1> USE RegistryAssumption DEF TypeOK, FrameOK, PhaseOK, NeverBack, CollectedReady, Fresh,
      Task, Sessions, Ops, Steps, Dropping, registry, frame
<1>1. ASSUME NEW c \in Conn, Register(c)
      PROVE  Goal
  BY <1>1 DEF Register, Call
<1>2. ASSUME NEW c \in Conn, SessionReady(c)
      PROVE  Goal
  <2>1. session[c] = "open" /\ op[c] = "none" /\ ready' = ready \cup {c}
    BY <1>2 DEF SessionReady
  <2>2. /\ UNCHANGED <<connections, session, ids, target, key>>
        /\ \/ UNCHANGED <<op, step>>
           \/ /\ op' = [op EXCEPT ![c] = "session_ready"]
              /\ step' = [step EXCEPT ![c] = "scan"]
    BY <1>2 DEF SessionReady, Call
  <2> QED
    BY <2>1, <2>2
<1>3. ASSUME NEW c \in Conn, Exit(c)
      PROVE  Goal
  BY <1>3 DEF Exit, Call
<1>5. ASSUME NEW c \in Conn, Alive(c) \/ GoIdle(c)
      PROVE  Goal
  BY <1>5 DEF Alive, GoIdle
<1>6. ASSUME NEW t \in Sweeper, Prune(t)
      PROVE  Goal
  BY <1>6 DEF Prune, Call
<1>7. ASSUME NEW t \in Dispatcher, Send(t) \/ SendToConnection(t)
      PROVE  Goal
  <2>1. CASE Send(t)
    BY <2>1 DEF Send, Call
  <2>2. CASE SendToConnection(t)
    BY <2>2 DEF SendToConnection, Call
  <2> QED
    BY <1>7, <2>1, <2>2
<1>8. ASSUME NEW t \in Task, ScanDone(t)
      PROVE  Goal
  BY <1>8 DEF ScanDone
<1>9. ASSUME NEW t \in Task, EvictNext(t)
      PROVE  Goal
  BY <1>9 DEF EvictNext, Remove
<1>10. ASSUME NEW t \in Task, DropReady(t)
       PROVE  Goal
  BY <1>10 DEF DropReady
<1>11. ASSUME NEW t \in Task, DropIndex(t)
       PROVE  Goal
  BY <1>11 DEF DropIndex
<1>12. ASSUME NEW t \in Task, DropKey(t)
       PROVE  Goal
  BY <1>12 DEF DropKey
<1>13. ASSUME NEW t \in Task, Unregistered(t)
       PROVE  Goal
  BY <1>13 DEF Unregistered
<1>14. ASSUME NEW t \in Task, LoopDone(t)
       PROVE  Goal
  BY <1>14 DEF LoopDone, Return
<1>15. ASSUME NEW c \in Conn, RegisterScan(c)
       PROVE  Goal
  BY <1>15 DEF RegisterScan
<1>16. ASSUME NEW c \in Conn, RegisterInsert(c)
       PROVE  Goal
  BY <1>16 DEF RegisterInsert
<1>17. ASSUME NEW c \in Conn, RegisterIndex(c)
       PROVE  Goal
  BY <1>17 DEF RegisterIndex
<1>18. ASSUME NEW c \in Conn, Registered(c)
       PROVE  Goal
  BY <1>18 DEF Registered, Return
<1>19. ASSUME NEW c \in Conn, ReadyScan(c)
       PROVE  Goal
  BY <1>19 DEF ReadyScan
<1>20. ASSUME NEW c \in Conn, ReadyDecide(c)
       PROVE  Goal
  <2>1. CASE WithinLimit(ids[c])
    BY <1>20, <2>1, SMTT(20) DEF ReadyDecide, Return
  <2>2. CASE ~WithinLimit(ids[c])
    BY <1>20, <2>2 DEF ReadyDecide
  <2> QED
    BY <2>1, <2>2
<1>21. ASSUME NEW c \in Conn, ReadyEvict(c)
       PROVE  Goal
  BY <1>21 DEF ReadyEvict, Remove
<1>22. ASSUME NEW c \in Conn, ReadyDone(c) \/ Closed(c)
       PROVE  Goal
  <2>1. CASE ReadyDone(c)
    BY <2>1 DEF ReadyDone, Return
  <2>2. CASE Closed(c)
    BY <2>2 DEF Closed, Return
  <2> QED
    BY <1>22, <2>1, <2>2
<1>23. ASSUME NEW t \in Task, PruneScan(t) \/ SendLookup(t) \/ SendDeliver(t)
       PROVE  Goal
  <2>1. CASE PruneScan(t)
    BY <2>1 DEF PruneScan
  <2>2. CASE SendLookup(t)
    BY <2>2 DEF SendLookup
  <2>3. CASE SendDeliver(t)
    BY <2>3 DEF SendDeliver
  <2> QED
    BY <1>23, <2>1, <2>2, <2>3
<1>24. CASE UNCHANGED vars
  BY <1>24 DEF vars
<1> HIDE RegistryAssumption DEF Goal, TypeOK, FrameOK, PhaseOK, NeverBack, CollectedReady,
      Fresh, Task, Sessions, Ops, Steps, Dropping, registry, frame
<1>25. ASSUME NEW c \in Conn, SessionStep(c)
       PROVE  Goal
  BY <1>15, <1>16, <1>17, <1>18, <1>19, <1>20, <1>21, <1>22, <1>25 DEF SessionStep
<1>26. ASSUME NEW t \in Task, MethodStep(t)
       PROVE  Goal
  BY <1>8, <1>9, <1>10, <1>11, <1>12, <1>13, <1>14, <1>23, <1>25, <1>26
  DEF MethodStep, Unregister
<1> QED
  BY <1>1, <1>2, <1>3, <1>5, <1>6, <1>7, <1>24, <1>26 DEF Next

(* The ready connections of a user are finitely many, and a subset has no more. *)
LEMMA ReadyCount ==
  ASSUME TypeOK, NEW u, NEW S \in SUBSET ReadyOf(u)
  PROVE  /\ ReadyOf(u) \in SUBSET Conn
         /\ IsFiniteSet(ReadyOf(u)) /\ Cardinality(ReadyOf(u)) \in Nat
         /\ IsFiniteSet(S) /\ Cardinality(S) \in Nat
         /\ Cardinality(S) <= Cardinality(ReadyOf(u))
<1>1. ReadyOf(u) \in SUBSET Conn
  BY DEF TypeOK, ReadyOf
<1>2. IsFiniteSet(ReadyOf(u)) /\ Cardinality(ReadyOf(u)) \in Nat
  BY <1>1, ConnFinite
<1>3. IsFiniteSet(S) /\ Cardinality(S) <= Cardinality(ReadyOf(u))
  BY <1>2, FS_Subset
<1> QED
  BY <1>1, <1>2, <1>3, FS_CardinalityType

(* No connection becomes ready or registered for a ready session. *)
Shrinks == (connections \cap ready)' \subseteq connections \cap ready

(* The session_ready of b, if it is in one, is where it was. *)
Untouched(b) ==
  op[b] = "session_ready" =>
    /\ op'[b] = op[b]
    /\ ids'[b] = ids[b] /\ scan'[b] = scan[b] /\ quota'[b] = quota[b]
    /\ step'[b] = "scan" <=> step[b] = "scan"

(* A session_ready the step does not touch still covers its user. *)
LEMMA UntouchedCovers ==
  ASSUME TypeOK, TypeOK', NEW b \in Conn, Untouched(b), op[b] = "session_ready", Covers(b),
         ReadyOf(UserOf[b])' \subseteq ReadyOf(UserOf[b])
  PROVE  Covers(b)'
<1> DEFINE u == UserOf[b]
<1>1. ReadyOf(u)' \in SUBSET ReadyOf(u)
  OBVIOUS
<1>2. /\ Cardinality(ReadyOf(u)) \in Nat /\ Cardinality(ReadyOf(u)') \in Nat
      /\ Cardinality(ReadyOf(u)') <= Cardinality(ReadyOf(u))
  BY <1>1, ReadyCount
<1>3. CASE step[b] = "scan"
  BY <1>1, <1>3 DEF Covers, Untouched
<1>4. CASE step[b] # "scan"
  <2>1. /\ step'[b] # "scan" /\ ids'[b] = ids[b] /\ quota'[b] = quota[b]
        /\ quota[b] \in Nat
    BY <1>4 DEF Untouched, TypeOK, Task
  <2>2. /\ ReadyOf(u) \subseteq ids[b] \cup {b}
        /\ Cardinality(ReadyOf(u)) <= MaxPerUser + quota[b]
    BY <1>4 DEF Covers
  <2>3. /\ ReadyOf(u)' \subseteq ids'[b] \cup {b}
        /\ Cardinality(ReadyOf(u)') <= MaxPerUser + quota'[b]
    BY <1>1, <1>2, <2>1, <2>2, RegistryAssumption
  <2> QED
    BY <2>1, <2>3 DEF Covers
<1> QED
  BY <1>3, <1>4

(***************************************************************************)
(* What is left to show for one action: that a user stays covered if it    *)
(* was covered by a session_ready the action advances.                     *)
(***************************************************************************)
LEMMA StillCovered ==
  ASSUME TypeOK, TypeOK', NEW c \in Conn, Covered(UserOf[c]), Shrinks,
         \A b \in Conn : op[b] = "session_ready" /\ UserOf[b] = UserOf[c] /\ Covers(b)
                           => Untouched(b) \/ Covered(UserOf[c])'
  PROVE  Covered(UserOf[c])'
<1> DEFINE u == UserOf[c]
<1>1. ReadyOf(u)' \in SUBSET ReadyOf(u)
  BY DEF Shrinks, ReadyOf
<1>2. CASE Cardinality(ReadyOf(u)) <= MaxPerUser
  <2>1. /\ Cardinality(ReadyOf(u)) \in Nat /\ Cardinality(ReadyOf(u)') \in Nat
        /\ Cardinality(ReadyOf(u)') <= Cardinality(ReadyOf(u))
    BY <1>1, ReadyCount
  <2>2. Cardinality(ReadyOf(u)') <= MaxPerUser
    BY <1>2, <2>1, RegistryAssumption
  <2> QED
    BY <2>2 DEF Covered
<1>3. ASSUME NEW b \in Conn, op[b] = "session_ready", UserOf[b] = u, Covers(b)
      PROVE  Covered(u)'
  <2>1. CASE Untouched(b)
    <3>1. Covers(b)'
      BY <1>1, <1>3, <2>1, UntouchedCovers
    <3>2. op'[b] = "session_ready"
      BY <1>3, <2>1 DEF Untouched
    <3> QED
      BY <1>3, <3>1, <3>2 DEF Covered
  <2> QED
    BY <1>3, <2>1
<1> QED
  BY <1>2, <1>3 DEF Covered

(* Every action but those of mark_session_ready leaves each session_ready where it was. *)
LEMMA QuietStep ==
  ASSUME TypeOK, PhaseOK, NeverBack, [Next]_vars,
         \A c \in Conn : ~SessionReady(c) /\ ~ReadyScan(c) /\ ~ReadyDecide(c)
                         /\ ~ReadyEvict(c) /\ ~ReadyDone(c)
  PROVE  Shrinks /\ \A b \in Conn : Untouched(b)
<1> DEFINE Goal == Shrinks /\ \A b \in Conn : Untouched(b)
<1> SUFFICES Goal
  OBVIOUS
<1> USE RegistryAssumption DEF TypeOK, PhaseOK, Task, Dropping, registry, frame,
      Shrinks, Untouched
<1>1. ASSUME NEW c \in Conn, Register(c) \/ Exit(c)
      PROVE  Goal
  BY <1>1 DEF Register, Exit, Call
<1>2. ASSUME NEW c \in Conn, Alive(c) \/ GoIdle(c)
      PROVE  Goal
  BY <1>2 DEF Alive, GoIdle
<1>3. ASSUME NEW t \in Task, Prune(t) \/ Send(t) \/ SendToConnection(t)
      PROVE  Goal
  BY <1>3 DEF Prune, Send, SendToConnection, Call
<1>4. ASSUME NEW t \in Task, ScanDone(t) \/ LoopDone(t)
      PROVE  Goal
  BY <1>4 DEF ScanDone, LoopDone, Return
<1>5. ASSUME NEW t \in Task, EvictNext(t)
      PROVE  Goal
  BY <1>5 DEF EvictNext, Remove
<1>6. ASSUME NEW t \in Task, Unregister(t)
      PROVE  Goal
  BY <1>6 DEF Unregister, DropReady, DropIndex, DropKey, Unregistered
<1>7. ASSUME NEW c \in Conn, RegisterScan(c) \/ RegisterIndex(c)
      PROVE  Goal
  BY <1>7 DEF RegisterScan, RegisterIndex
<1>8. ASSUME NEW c \in Conn, RegisterInsert(c)
      PROVE  Goal
  BY <1>8 DEF RegisterInsert, NeverBack, Fresh
<1>9. ASSUME NEW c \in Conn, Registered(c) \/ Closed(c)
      PROVE  Goal
  BY <1>9 DEF Registered, Closed, Return
<1>10. ASSUME NEW t \in Task, PruneScan(t) \/ SendLookup(t) \/ SendDeliver(t)
       PROVE  Goal
  BY <1>10 DEF PruneScan, SendLookup, SendDeliver
<1>11. CASE UNCHANGED vars
  BY <1>11 DEF vars
<1>12. Sweeper \subseteq Task /\ Dispatcher \subseteq Task /\ Conn \subseteq Task
  OBVIOUS
<1> HIDE RegistryAssumption DEF Goal, TypeOK, PhaseOK, Task, Dropping, registry, frame,
      Shrinks, Untouched
<1>13. ASSUME NEW c \in Conn, SessionStep(c)
       PROVE  Goal
  BY <1>7, <1>8, <1>9, <1>13 DEF SessionStep
<1>14. ASSUME NEW t \in Task, MethodStep(t)
       PROVE  Goal
  BY <1>4, <1>5, <1>6, <1>10, <1>13, <1>14 DEF MethodStep
<1> QED
  BY <1>1, <1>2, <1>3, <1>11, <1>12, <1>14 DEF Next

(***************************************************************************)
(* Every user stays covered.  Marking a session ready starts a scan that   *)
(* has everything still to visit; an accurate list within the limit, or an *)
(* eviction loop that reaches its quota, leaves at most MaxPerUser.        *)
(***************************************************************************)
LEMMA CoverStep ==
  ASSUME TypeOK, TypeOK', LimitInv, MaxPerUser # 0, [Next]_vars, NEW u0 \in Conn
  PROVE  Covered(UserOf[u0])'
<1> DEFINE u == UserOf[u0]
<1>1. Covered(u) /\ PhaseOK /\ NeverBack /\ CollectedReady
  BY DEF LimitInv, LimitCovered
<1>2. MaxPerUser \in Nat /\ MaxPerUser >= 1
  BY RegistryAssumption
<1>3. ASSUME NEW c \in Conn, SessionReady(c)
      PROVE  Covered(u)'
  <2>1. /\ ready' = ready \cup {c} /\ connections' = connections
        /\ op[c] = "none" /\ op' = [op EXCEPT ![c] = "session_ready"]
        /\ step' = [step EXCEPT ![c] = "scan"] /\ scan' = [scan EXCEPT ![c] = Conn]
        /\ ids' = ids /\ quota' = quota
    BY <1>3 DEF SessionReady, Call
  <2>2. CASE UserOf[c] = u
    <3>1. ReadyOf(u)' \subseteq Conn
      BY DEF TypeOK, ReadyOf
    <3>2. op'[c] = "session_ready" /\ step'[c] = "scan" /\ scan'[c] = Conn
      BY <2>1 DEF TypeOK, Task
    <3> QED
      BY <2>2, <3>1, <3>2 DEF Covered, Covers
  <2>3. CASE UserOf[c] # u
    <3>1. ReadyOf(u)' = ReadyOf(u)
      BY <2>1, <2>3 DEF ReadyOf
    <3>2. \A b \in Conn : op[b] = "session_ready" => op'[b] = op[b] /\ (Covers(b) /\ UserOf[b] = u => Covers(b)')
      BY <2>1, <2>3, <3>1 DEF TypeOK, Task, Covers
    <3> QED
      BY <1>1, <3>1, <3>2 DEF Covered
  <2> QED
    BY <2>2, <2>3
<1>4. ASSUME NEW c \in Conn, ReadyScan(c)
      PROVE  Covered(u)'
  <2>1. Shrinks /\ \A b \in Conn \ {c} : Untouched(b)
    BY <1>4 DEF ReadyScan, Shrinks, Untouched, TypeOK, Task, registry
  <2>2. ASSUME op[c] = "session_ready", UserOf[c] = u, Covers(c)
        PROVE  Covered(u)'
    <3>1. PICK d \in scan[c] :
            /\ scan' = [scan EXCEPT ![c] = @ \ {d}]
            /\ ids' = [ids EXCEPT ![c] =
                         IF d \in ready \cap connections /\ UserOf[d] = UserOf[c]
                           THEN @ \cup {d} ELSE @]
      BY <1>4 DEF ReadyScan
    <3>2. ReadyOf(u) \subseteq ids[c] \cup scan[c]
      BY <1>4, <2>2 DEF ReadyScan, Covers
    <3>3. ReadyOf(u) \subseteq ids'[c] \cup scan'[c]
      BY <2>2, <3>1, <3>2 DEF ReadyOf, TypeOK, Task
    <3>4. ReadyOf(u)' = ReadyOf(u) /\ op'[c] = "session_ready" /\ step'[c] = "scan"
      BY <1>4 DEF ReadyScan, ReadyOf, registry
    <3> QED
      BY <2>2, <3>3, <3>4 DEF Covered, Covers
  <2> QED
    BY <1>1, <2>1, <2>2, StillCovered
<1>5. ASSUME NEW c \in Conn, ReadyDecide(c)
      PROVE  Covered(u)'
  <2>1. Shrinks /\ \A b \in Conn \ {c} : Untouched(b)
    BY <1>5 DEF ReadyDecide, Return, Shrinks, Untouched, TypeOK, Task, registry
  <2>2. ASSUME op[c] = "session_ready", UserOf[c] = u, Covers(c)
        PROVE  Covered(u)'
    <3>1. ReadyOf(u) \subseteq ids[c]
      BY <1>5, <2>2 DEF ReadyDecide, Covers
    <3>2. /\ Cardinality(ids[c]) \in Nat
          /\ Cardinality(ReadyOf(u)) \in Nat
          /\ Cardinality(ReadyOf(u)) <= Cardinality(ids[c])
      <4>1. ids[c] \in SUBSET Conn
        BY DEF TypeOK, Task
      <4> QED
        BY <3>1, <4>1, ConnFinite, FS_Subset, FS_CardinalityType
    <3>3. ReadyOf(u)' = ReadyOf(u)
      BY <1>5 DEF ReadyDecide, ReadyOf, registry
    <3>4. CASE WithinLimit(ids[c])
      BY <1>2, <3>2, <3>3, <3>4 DEF WithinLimit, Covered
    <3>5. CASE ~WithinLimit(ids[c])
      <4>1. /\ op'[c] = "session_ready" /\ step'[c] = "evict" /\ ids'[c] = ids[c]
            /\ quota'[c] = Cardinality(ids[c]) - MaxPerUser
        BY <1>5, <2>2, <3>5 DEF ReadyDecide, TypeOK, Task
      <4>2. Cardinality(ReadyOf(u)) <= MaxPerUser + quota'[c]
        BY <1>2, <3>2, <4>1
      <4> QED
        BY <2>2, <3>1, <3>3, <4>1, <4>2 DEF Covered, Covers
    <3> QED
      BY <3>4, <3>5
  <2> QED
    BY <1>1, <2>1, <2>2, StillCovered
<1>6. ASSUME NEW c \in Conn, ReadyEvict(c)
      PROVE  Covered(u)'
  <2>1. PICK v \in ids[c] :
          /\ ids' = [ids EXCEPT ![c] = @ \ {v}]
          /\ IF v = c
               THEN UNCHANGED <<registry, step, target, quota>>
               ELSE /\ Remove(c, v)
                    /\ quota' = [quota EXCEPT ![c] = IF v \in connections THEN @ - 1 ELSE @]
    BY <1>6 DEF ReadyEvict
  <2>2. op[c] = "session_ready" /\ step[c] = "evict" /\ quota[c] > 0 /\ quota[c] \in Nat
        /\ op' = op /\ scan' = scan /\ ready' = ready
        /\ connections' = connections \ (IF v = c THEN {} ELSE {v})
    BY <1>6, <2>1 DEF ReadyEvict, Remove, TypeOK, Task, registry
  <2>3. /\ step'[c] \in {"evict", "drop_ready"} /\ ids'[c] = ids[c] \ {v}
        /\ quota'[c] = IF v # c /\ v \in connections THEN quota[c] - 1 ELSE quota[c]
    BY <2>1, <2>2 DEF Remove, TypeOK, Task
  <2>4. Shrinks /\ \A b \in Conn \ {c} : Untouched(b)
    BY <2>1, <2>2 DEF Remove, Shrinks, Untouched, TypeOK, Task
  <2>5. ASSUME UserOf[c] = u, Covers(c)
        PROVE  Covered(u)'
    <3>1. /\ ReadyOf(u) \subseteq ids[c] \cup {c}
          /\ Cardinality(ReadyOf(u)) <= MaxPerUser + quota[c]
      BY <2>2, <2>5 DEF Covers
    <3>2. IsFiniteSet(ReadyOf(u)) /\ Cardinality(ReadyOf(u)) \in Nat
      <4>1. {} \in SUBSET ReadyOf(u)
        OBVIOUS
      <4> QED
        BY <4>1, ReadyCount
    <3>3. CASE v # c /\ v \in connections
      <4>1. v \in ReadyOf(u) /\ ReadyOf(u)' = ReadyOf(u) \ {v}
        BY <1>1, <2>2, <2>5, <3>3 DEF CollectedReady, ReadyOf
      <4>2. Cardinality(ReadyOf(u)') = Cardinality(ReadyOf(u)) - 1
        BY <3>2, <4>1, FS_RemoveElement, ZenonT(40)
      <4>3. Cardinality(ReadyOf(u)') <= MaxPerUser + quota'[c]
        BY <1>2, <2>2, <2>3, <3>1, <3>2, <3>3, <4>2
      <4>4. ReadyOf(u)' \subseteq ids'[c] \cup {c}
        BY <2>3, <3>1, <4>1
      <4> QED
        BY <2>2, <2>3, <2>5, <4>3, <4>4 DEF Covered, Covers
    <3>4. CASE ~(v # c /\ v \in connections)
      <4>1. ReadyOf(u)' = ReadyOf(u) /\ quota'[c] = quota[c]
        BY <2>2, <2>3, <3>4 DEF ReadyOf
      <4>2. ReadyOf(u)' \subseteq ids'[c] \cup {c}
        BY <2>3, <3>1, <3>4, <4>1 DEF ReadyOf
      <4>3. Cardinality(ReadyOf(u)') <= MaxPerUser + quota'[c]
        BY <3>1, <4>1
      <4> QED
        BY <2>2, <2>3, <2>5, <4>2, <4>3 DEF Covered, Covers
    <3> QED
      BY <3>3, <3>4
  <2> QED
    BY <1>1, <2>4, <2>5, StillCovered
<1>7. ASSUME NEW c \in Conn, ReadyDone(c)
      PROVE  Covered(u)'
  <2>1. Shrinks /\ \A b \in Conn \ {c} : Untouched(b)
    BY <1>7 DEF ReadyDone, Return, Shrinks, Untouched, TypeOK, Task, registry
  <2>2. ASSUME UserOf[c] = u, Covers(c)
        PROVE  Covered(u)'
    <3>1. /\ ReadyOf(u) \subseteq ids[c] \cup {c}
          /\ Cardinality(ReadyOf(u)) <= MaxPerUser + quota[c]
          /\ quota[c] = 0 \/ ids[c] = {}
          /\ ReadyOf(u)' = ReadyOf(u)
      BY <1>7, <2>2 DEF ReadyDone, EvictionOver, Covers, ReadyOf, registry
    <3>2. CASE quota[c] = 0
      BY <1>2, <3>1, <3>2 DEF Covered
    <3>3. CASE ids[c] = {}
      <4>1. IsFiniteSet({c}) /\ Cardinality({c}) = 1 /\ ReadyOf(u) \subseteq {c}
        BY <3>1, <3>3, FS_Singleton
      <4>2. /\ Cardinality(ReadyOf(u)) <= 1 /\ Cardinality(ReadyOf(u)) \in Nat
        BY <4>1, FS_Subset, FS_CardinalityType
      <4> QED
        BY <1>2, <3>1, <4>2 DEF Covered
    <3> QED
      BY <3>1, <3>2, <3>3
  <2> QED
    BY <1>1, <2>1, <2>2, StillCovered
<1>8. CASE \A c \in Conn : ~SessionReady(c) /\ ~ReadyScan(c) /\ ~ReadyDecide(c)
                          /\ ~ReadyEvict(c) /\ ~ReadyDone(c)
  <2>1. Shrinks /\ \A b \in Conn : Untouched(b)
    BY <1>1, <1>8, QuietStep
  <2> QED
    BY <1>1, <2>1, StillCovered
<1> QED
  BY <1>3, <1>4, <1>5, <1>6, <1>7, <1>8

LEMMA InvStep ==
  ASSUME TypeOK, FrameOK, LimitInv, [Next]_vars
  PROVE  (TypeOK /\ FrameOK)' /\ LimitInv'
<1>1. TypeOK' /\ FrameOK'
  BY TypeStep
<1>2. PhaseOK' /\ NeverBack' /\ CollectedReady'
  BY ControlStep DEF LimitInv
<1>3. LimitCovered'
  BY <1>1, CoverStep DEF LimitCovered
<1> QED
  BY <1>1, <1>2, <1>3 DEF LimitInv

(***************************************************************************)
(* Whatever overlaps a session_ready, at most MaxPerUser connections of a  *)
(* user are ready and registered once none is in flight (state.rs:840-870).*)
(***************************************************************************)
THEOREM LimitHolds == Spec => []ReadyLimit
<1> DEFINE IInv == TypeOK /\ FrameOK /\ LimitInv
<1>1. Init => IInv
  BY InitType, InitLimit
<1>2. IInv /\ [Next]_vars => IInv'
  BY InvStep
<1>3. IInv => ReadyLimit
  BY DEF LimitInv, LimitCovered, Covered, ReadyLimit, MarkingReady
<1> QED
  BY <1>1, <1>2, <1>3, PTL DEF Spec

-----------------------------------------------------------------------------
(***************************************************************************)
(* The subject keys.                                                       *)
(***************************************************************************)

(* The id set of a subject that is no key is empty. *)
KeysOK == \A s \in Subject \ subjectKeys : subjects[s] = {}

(* A task on its way to subjects.remove stays there until it takes that step. *)
KeepsDropping == \A t \in Task : step[t] = "drop_key" => step'[t] = "drop_key" /\ key'[t] = key[t]

(* Steps that leave the subjects map alone take no other task off its way to a removal. *)
LEMMA IndexUntouched ==
  ASSUME TypeOK, PhaseOK, [Next]_vars,
         \A t \in Task : ~DropIndex(t) /\ ~DropKey(t),
         \A c \in Conn : ~RegisterIndex(c)
  PROVE  UNCHANGED <<subjects, subjectKeys>> /\ KeepsDropping
<1> DEFINE Goal == UNCHANGED <<subjects, subjectKeys>> /\ KeepsDropping
<1> SUFFICES Goal
  OBVIOUS
<1> USE RegistryAssumption DEF TypeOK, PhaseOK, Task, registry, frame, KeepsDropping
<1>1. ASSUME NEW c \in Conn, Register(c) \/ Exit(c) \/ SessionReady(c)
      PROVE  Goal
  BY <1>1 DEF Register, Exit, SessionReady, Call
<1>2. ASSUME NEW c \in Conn, Alive(c) \/ GoIdle(c)
      PROVE  Goal
  BY <1>2 DEF Alive, GoIdle
<1>3. ASSUME NEW t \in Task, Prune(t) \/ Send(t) \/ SendToConnection(t)
      PROVE  Goal
  BY <1>3 DEF Prune, Send, SendToConnection, Call
<1>4. ASSUME NEW t \in Task, ScanDone(t) \/ LoopDone(t)
      PROVE  Goal
  BY <1>4 DEF ScanDone, LoopDone, Return
<1>5. ASSUME NEW t \in Task, EvictNext(t)
      PROVE  Goal
  BY <1>5 DEF EvictNext, Remove
<1>6. ASSUME NEW t \in Task, DropReady(t) \/ Unregistered(t)
      PROVE  Goal
  BY <1>6 DEF DropReady, Unregistered
<1>7. ASSUME NEW c \in Conn, RegisterScan(c) \/ RegisterInsert(c) \/ ReadyScan(c)
      PROVE  Goal
  BY <1>7 DEF RegisterScan, RegisterInsert, ReadyScan
<1>8. ASSUME NEW c \in Conn, Registered(c) \/ ReadyDone(c) \/ Closed(c)
      PROVE  Goal
  BY <1>8 DEF Registered, ReadyDone, Closed, Return
<1>9. ASSUME NEW c \in Conn, ReadyDecide(c)
      PROVE  Goal
  BY <1>9 DEF ReadyDecide, Return
<1>10. ASSUME NEW c \in Conn, ReadyEvict(c)
       PROVE  Goal
  BY <1>10 DEF ReadyEvict, Remove
<1>11. ASSUME NEW t \in Task, PruneScan(t) \/ SendLookup(t) \/ SendDeliver(t)
       PROVE  Goal
  BY <1>11 DEF PruneScan, SendLookup, SendDeliver
<1>12. CASE UNCHANGED vars
  BY <1>12 DEF vars
<1>13. Sweeper \subseteq Task /\ Dispatcher \subseteq Task /\ Conn \subseteq Task
  OBVIOUS
<1> HIDE RegistryAssumption DEF Goal, TypeOK, PhaseOK, Task, registry, frame, KeepsDropping
<1>14. ASSUME NEW c \in Conn, SessionStep(c)
       PROVE  Goal
  BY <1>7, <1>8, <1>9, <1>10, <1>14 DEF SessionStep
<1>15. ASSUME NEW t \in Task, MethodStep(t)
       PROVE  Goal
  BY <1>4, <1>5, <1>6, <1>11, <1>14, <1>15 DEF MethodStep, Unregister
<1> QED
  BY <1>1, <1>2, <1>3, <1>12, <1>13, <1>15 DEF Next

LEMMA KeysStep ==
  ASSUME TypeOK, FrameOK, PhaseOK, KeysOK, EmptyKeysDropped, [Next]_vars
  PROVE  KeysOK' /\ EmptyKeysDropped'
<1>1. ASSUME NEW t \in Task, DropIndex(t)
      PROVE  KeysOK' /\ EmptyKeysDropped'
  <2>1. PICK s \in todo[t] :
          /\ subjects' = [subjects EXCEPT ![s] = @ \ {target[t]}]
          /\ IF Emptied(t, s)
               THEN /\ step' = [step EXCEPT ![t] = "drop_key"]
                    /\ key' = [key EXCEPT ![t] = s]
               ELSE UNCHANGED <<step, key>>
    BY <1>1 DEF DropIndex
  <2>2. subjectKeys' = subjectKeys /\ step[t] = "drop_index" /\ s \in Subject
    BY <1>1 DEF DropIndex, TypeOK
  <2>3. KeysOK'
    BY <2>1, <2>2 DEF KeysOK, TypeOK
  <2>4. KeepsDropping
    BY <2>1, <2>2 DEF KeepsDropping, TypeOK
  <2>5. ASSUME NEW r \in subjectKeys, subjects'[r] = {}
        PROVE  \E u \in Task : step'[u] = "drop_key" /\ key'[u] = r
    <3>1. CASE r = s /\ Emptied(t, s)
      BY <2>1, <3>1 DEF TypeOK
    <3>2. CASE r # s \/ ~Emptied(t, s)
      <4>1. subjects[r] = {}
        BY <2>1, <2>2, <2>5, <3>2 DEF Emptied, TypeOK
      <4> QED
        BY <2>4, <4>1 DEF EmptyKeysDropped, KeepsDropping
    <3> QED
      BY <3>1, <3>2
  <2> QED
    BY <2>2, <2>3, <2>5 DEF EmptyKeysDropped
<1>2. ASSUME NEW t \in Task, DropKey(t)
      PROVE  KeysOK' /\ EmptyKeysDropped'
  <2>1. /\ key[t] \in Subject /\ subjectKeys' = subjectKeys \ {key[t]}
        /\ subjects' = [subjects EXCEPT ![key[t]] = {}]
        /\ step' = [step EXCEPT ![t] = "drop_index"] /\ key' = [key EXCEPT ![t] = None]
    BY <1>2 DEF DropKey, FrameOK
  <2>2. KeysOK'
    BY <2>1 DEF KeysOK, TypeOK
  <2>3. ASSUME NEW r \in subjectKeys', subjects'[r] = {}
        PROVE  \E u \in Task : step'[u] = "drop_key" /\ key'[u] = r
    <3>1. r \in subjectKeys /\ r # key[t] /\ subjects[r] = {}
      BY <2>1, <2>3 DEF TypeOK
    <3>2. PICK u \in Task : step[u] = "drop_key" /\ key[u] = r
      BY <3>1 DEF EmptyKeysDropped
    <3>3. u # t
      BY <3>1, <3>2
    <3> QED
      BY <2>1, <3>2, <3>3 DEF TypeOK
  <2> QED
    BY <2>2, <2>3 DEF EmptyKeysDropped
<1>3. ASSUME NEW c \in Conn, RegisterIndex(c)
      PROVE  KeysOK' /\ EmptyKeysDropped'
  <2>1. PICK s \in todo[c] : /\ subjects' = [subjects EXCEPT ![s] = @ \cup {c}]
                             /\ subjectKeys' = subjectKeys \cup {s}
    BY <1>3 DEF RegisterIndex
  <2>2. step' = step /\ key' = key /\ s \in Subject
    BY <1>3 DEF RegisterIndex, TypeOK, Task
  <2>3. KeysOK'
    BY <2>1, <2>2 DEF KeysOK, TypeOK
  <2>4. ASSUME NEW r \in subjectKeys', subjects'[r] = {}
        PROVE  r \in subjectKeys /\ subjects[r] = {}
    BY <2>1, <2>2, <2>4 DEF TypeOK
  <2> QED
    BY <2>2, <2>3, <2>4 DEF EmptyKeysDropped
<1>4. CASE /\ \A t \in Task : ~DropIndex(t) /\ ~DropKey(t)
           /\ \A c \in Conn : ~RegisterIndex(c)
  <2>1. UNCHANGED <<subjects, subjectKeys>> /\ KeepsDropping
    BY <1>4, IndexUntouched
  <2> QED
    BY <2>1 DEF KeysOK, EmptyKeysDropped, KeepsDropping
<1> QED
  BY <1>1, <1>2, <1>3, <1>4

(***************************************************************************)
(* The subjects map does not leak keys, on any number of worker threads:   *)
(* an empty set is always about to be removed (state.rs:797-804).          *)
(***************************************************************************)
THEOREM KeysDropped == Spec => []EmptyKeysDropped
<1> DEFINE IInv == TypeOK /\ FrameOK /\ LimitInv /\ KeysOK /\ EmptyKeysDropped
<1>1. Init => IInv
  <2>1. Init => KeysOK /\ EmptyKeysDropped
    BY DEF Init, KeysOK, EmptyKeysDropped
  <2> QED
    BY <2>1, InitType, InitLimit
<1>2. IInv /\ [Next]_vars => IInv'
  <2> SUFFICES ASSUME IInv, [Next]_vars PROVE IInv'
    OBVIOUS
  <2>1. (TypeOK /\ FrameOK)' /\ LimitInv'
    BY InvStep
  <2>2. KeysOK' /\ EmptyKeysDropped'
    BY KeysStep DEF LimitInv
  <2> QED
    BY <2>1, <2>2
<1> QED
  BY <1>1, <1>2, PTL DEF Spec

-----------------------------------------------------------------------------
(***************************************************************************)
(* Judgements.  Between the moment a dispatch finds that a connection      *)
(* cannot be reached and the moment it unregisters it, other methods run.  *)
(* JudgementsHold is about the second moment; what carries over from the   *)
(* first is that the reason is for good.                                   *)
(***************************************************************************)

(* The steps that change who is registered. *)
LEMMA WhoChanges ==
  ASSUME [Next]_vars, connections' # connections
  PROVE  \/ \E t \in Task : EvictNext(t)
         \/ \E c \in Conn : ReadyEvict(c) \/ RegisterInsert(c)
<1>1. ASSUME NEW c, Register(c) \/ SessionReady(c) \/ Exit(c) \/ Alive(c) \/ GoIdle(c)
      PROVE  FALSE
  BY <1>1 DEF Register, SessionReady, Exit, Alive, GoIdle, registry
<1>2. ASSUME NEW t, Prune(t) \/ Send(t) \/ SendToConnection(t)
      PROVE  FALSE
  BY <1>2 DEF Prune, Send, SendToConnection, registry
<1>3. ASSUME NEW t, ScanDone(t) \/ LoopDone(t) \/ PruneScan(t) \/ SendLookup(t) \/ SendDeliver(t)
      PROVE  FALSE
  BY <1>3 DEF ScanDone, LoopDone, PruneScan, SendLookup, SendDeliver, registry
<1>4. ASSUME NEW c, RegisterScan(c) \/ ReadyScan(c) \/ ReadyDecide(c) \/ ReadyDone(c) \/ Closed(c)
      PROVE  FALSE
  BY <1>4 DEF RegisterScan, ReadyScan, ReadyDecide, ReadyDone, Closed, registry
<1>5. ASSUME NEW c, RegisterIndex(c) \/ Registered(c)
      PROVE  FALSE
  BY <1>5 DEF RegisterIndex, Registered, registry
<1>6. ASSUME NEW t, Unregister(t)
      PROVE  FALSE
  BY <1>6 DEF Unregister, DropReady, DropIndex, DropKey, Unregistered, registry
<1>7. ~UNCHANGED vars
  BY DEF vars, registry
<1>8. PICK t \in Task : MethodStep(t)
  BY <1>1, <1>2, <1>7 DEF Next
<1>9. EvictNext(t) \/ (t \in Conn /\ SessionStep(t))
  BY <1>3, <1>6, <1>8 DEF MethodStep
<1>10. t \in Conn /\ SessionStep(t) => ReadyEvict(t) \/ RegisterInsert(t)
  BY <1>4, <1>5 DEF SessionStep
<1> QED
  BY <1>9, <1>10

(* Nobody will reach d any more: it left the map, or dropped its receiver. *)
Gone(d) ==
  \/ session[d] \in {"closing", "closed"}
  \/ d \notin connections /\ ~Fresh(d)

(***************************************************************************)
(* A dispatch finds ids of sessions that are past connections.insert, in   *)
(* the index (which comes after it) or in the routes of sessions it        *)
(* serves, so an id without a handle has lost it.                          *)
(***************************************************************************)
JudgedGone ==
  /\ \A s \in Subject : \A d \in subjects[s] : ~Fresh(d)
  /\ \A t \in Task : op[t] = "send" => t \in Dispatcher /\ \A d \in ids[t] : Gone(d)
  /\ \A t \in Dispatcher : op[t] \in {"none", "send"} /\ \A d \in scan[t] : ~Fresh(d)
  /\ \A t \in Task : step[t] \notin Dropping => target[t] = None

(* A session reaches connections.insert once. *)
LEMMA InsertedOnce ==
  ASSUME TypeOK, FrameOK, PhaseOK, [Next]_vars, NEW d \in Conn
  PROVE  /\ ~Fresh(d) => ~Fresh(d)'
         /\ Gone(d) => Gone(d)'
<1> DEFINE Goal == (~Fresh(d) => ~Fresh(d)') /\ (Gone(d) => Gone(d)')
<1> SUFFICES Goal
  OBVIOUS
<1>0. Conn \subseteq Task /\ Sweeper \subseteq Task /\ Dispatcher \subseteq Task
  BY DEF Task
<1>q. ASSUME session'[d] = session[d], step[d] = "index" => step'[d] = "index",
             d \in connections' => d \in connections
      PROVE  Goal
  BY <1>q DEF Fresh, Gone
<1> USE <1>0 DEF TypeOK, PhaseOK, registry, frame
<1>1. ASSUME NEW c \in Conn, Register(c) \/ SessionReady(c) \/ Alive(c) \/ GoIdle(c)
      PROVE  Goal
  <2>1. CASE Register(c)
    BY <2>1, <1>q DEF Register, Call
  <2>2. CASE SessionReady(c)
    BY <2>2, <1>q DEF SessionReady, Call
  <2>3. CASE Alive(c) \/ GoIdle(c)
    BY <2>3, <1>q DEF Alive, GoIdle
  <2> QED
    BY <1>1, <2>1, <2>2, <2>3
<1>2. ASSUME NEW c \in Conn, Exit(c) \/ Closed(c) \/ Registered(c)
      PROVE  Goal
  BY <1>2 DEF Exit, Closed, Registered, Call, Return, Fresh, Gone
<1>3. ASSUME NEW t \in Task, Prune(t) \/ Send(t) \/ SendToConnection(t)
      PROVE  Goal
  BY <1>3, <1>q DEF Prune, Send, SendToConnection, Call
<1>4. ASSUME NEW t \in Task, ScanDone(t) \/ LoopDone(t) \/ PruneScan(t) \/ SendDeliver(t)
      PROVE  Goal
  BY <1>4, <1>q DEF ScanDone, LoopDone, PruneScan, SendDeliver, Return
<1>5. ASSUME NEW t \in Task, SendLookup(t)
      PROVE  Goal
  BY <1>5, <1>q DEF SendLookup
<1>6. ASSUME NEW t \in Task, EvictNext(t) \/ Unregister(t)
      PROVE  Goal
  <2>1. CASE EvictNext(t)
    BY <2>1, <1>q DEF EvictNext, Remove
  <2>2. CASE Unregister(t)
    BY <2>2, <1>q DEF Unregister, DropReady, DropIndex, DropKey, Unregistered
  <2> QED
    BY <1>6, <2>1, <2>2
<1>7. ASSUME NEW c \in Conn, RegisterScan(c) \/ RegisterIndex(c) \/ ReadyScan(c)
      PROVE  Goal
  BY <1>7, <1>q DEF RegisterScan, RegisterIndex, ReadyScan
<1>8. ASSUME NEW c \in Conn, RegisterInsert(c)
      PROVE  Goal
  BY <1>8 DEF RegisterInsert, Fresh, Gone
<1>9. ASSUME NEW c \in Conn, ReadyDecide(c) \/ ReadyDone(c) \/ ReadyEvict(c)
      PROVE  Goal
  <2>1. CASE ReadyDecide(c)
    BY <2>1, <1>q DEF ReadyDecide, Return
  <2>2. CASE ReadyDone(c)
    BY <2>2, <1>q DEF ReadyDone, Return
  <2>3. CASE ReadyEvict(c)
    BY <2>3, <1>q DEF ReadyEvict, Remove
  <2> QED
    BY <1>9, <2>1, <2>2, <2>3
<1>10. CASE UNCHANGED vars
  BY <1>10, <1>q DEF vars
<1> HIDE DEF Goal
<1> QED
  BY <1>1, <1>2, <1>3, <1>4, <1>5, <1>6, <1>7, <1>8, <1>9, <1>10
     DEF Next, MethodStep, SessionStep

(* What a dispatch has found out about a connection stays true. *)
LEMMA JudgedStep ==
  ASSUME TypeOK, FrameOK, PhaseOK, NeverBack, JudgedGone, [Next]_vars
  PROVE  JudgedGone'
<1>1. \A d \in Conn : (~Fresh(d) => ~Fresh(d)') /\ (Gone(d) => Gone(d)')
  BY InsertedOnce
<1> DEFINE Found  == \A s \in Subject : \A d \in subjects[s] : ~Fresh(d)
           Judged == \A t \in Task : op[t] = "send" => t \in Dispatcher /\ \A d \in ids[t] : Gone(d)
           Seen   == \A t \in Dispatcher : op[t] \in {"none", "send"} /\ \A d \in scan[t] : ~Fresh(d)
           Aimed  == \A t \in Task : step[t] \notin Dropping => target[t] = None
           Goal   == Found' /\ Judged' /\ Seen' /\ Aimed'
<1>2. Found /\ Judged /\ Seen /\ Aimed
  BY DEF JudgedGone
<1>d. /\ Conn \subseteq Task /\ Sweeper \subseteq Task /\ Dispatcher \subseteq Task
      /\ Conn \cap Dispatcher = {} /\ Sweeper \cap Dispatcher = {}
  BY RegistryAssumption DEF Task
<1> SUFFICES Goal
  BY DEF JudgedGone
<1> USE <1>1, <1>2, <1>d DEF TypeOK, registry, frame, Dropping
<1>3. ASSUME NEW c \in Conn, Register(c) \/ Exit(c)
      PROVE  Goal
  <2>1. CASE Register(c)
    BY <2>1 DEF Register, Call, PhaseOK
  <2>2. CASE Exit(c)
    BY <2>2 DEF Exit, Call, PhaseOK
  <2> QED
    BY <1>3, <2>1, <2>2
<1>4. ASSUME NEW c \in Conn, SessionReady(c)
      PROVE  Goal
  BY <1>4 DEF SessionReady, Call, PhaseOK
<1>5. ASSUME NEW c \in Conn, Alive(c) \/ GoIdle(c)
      PROVE  Goal
  BY <1>5 DEF Alive, GoIdle
<1>6. ASSUME NEW t \in Sweeper, Prune(t)
      PROVE  Goal
  BY <1>6 DEF Prune, Call, PhaseOK
<1>7. ASSUME NEW t \in Dispatcher, Send(t)
      PROVE  Goal
  BY <1>7 DEF Send, Call, PhaseOK
<1>8. ASSUME NEW t \in Dispatcher, SendToConnection(t)
      PROVE  Goal
  <2>1. PICK d \in Conn : session[d] # "new" /\ scan' = [scan EXCEPT ![t] = {d}]
    BY <1>8 DEF SendToConnection
  <2>2. ~Fresh(d)
    BY <2>1 DEF Fresh
  <2> QED
    BY <1>8, <2>1, <2>2 DEF SendToConnection, Call, PhaseOK, Fresh
<1>9. ASSUME NEW t \in Task, ScanDone(t) \/ LoopDone(t)
      PROVE  Goal
  BY <1>9 DEF ScanDone, LoopDone, Return
<1>10. ASSUME NEW t \in Task, PruneScan(t)
       PROVE  Goal
  BY <1>10 DEF PruneScan
<1>11. ASSUME NEW t \in Task, SendLookup(t)
       PROVE  Goal
  BY <1>11 DEF SendLookup
<1>12. ASSUME NEW t \in Task, SendDeliver(t)
       PROVE  Goal
  <2>1. PICK d \in scan[t] :
          /\ scan' = [scan EXCEPT ![t] = @ \ {d}]
          /\ ids' = [ids EXCEPT ![t] = IF Reachable(d) THEN @ ELSE @ \cup {d}]
          /\ UNCHANGED <<registry, session, op, step, target, todo, key, quota>>
    BY <1>12 DEF SendDeliver
  <2>2. op[t] = "send" => Reachable(d) \/ Gone(d)
    BY <2>1 DEF Reachable, Gone, Sessions
  <2> QED
    BY <2>1, <2>2
<1>13. ASSUME NEW t \in Task, EvictNext(t)
       PROVE  Goal
  BY <1>13 DEF EvictNext, Remove
<1>14. ASSUME NEW t \in Task, DropReady(t) \/ DropIndex(t)
       PROVE  Goal
  <2>1. CASE DropReady(t)
    BY <2>1 DEF DropReady
  <2>2. CASE DropIndex(t)
    BY <2>2 DEF DropIndex
  <2> QED
    BY <1>14, <2>1, <2>2
<1>15. ASSUME NEW t \in Task, DropKey(t) \/ Unregistered(t)
       PROVE  Goal
  BY <1>15 DEF DropKey, Unregistered
<1>16. ASSUME NEW c \in Conn, RegisterScan(c) \/ RegisterInsert(c)
       PROVE  Goal
  <2>1. CASE RegisterScan(c)
    BY <2>1 DEF RegisterScan
  <2>2. CASE RegisterInsert(c)
    BY <2>2 DEF RegisterInsert
  <2> QED
    BY <1>16, <2>1, <2>2
<1>17. ASSUME NEW c \in Conn, RegisterIndex(c)
       PROVE  Goal
  BY <1>17 DEF RegisterIndex, Fresh
<1>18. ASSUME NEW c \in Conn, Registered(c) \/ Closed(c) \/ ReadyDone(c)
       PROVE  Goal
  BY <1>18 DEF Registered, Closed, ReadyDone, Return
<1>19. ASSUME NEW c \in Conn, ReadyScan(c)
       PROVE  Goal
  BY <1>19 DEF ReadyScan
<1>20. ASSUME NEW c \in Conn, ReadyDecide(c)
       PROVE  Goal
  <2>1. CASE WithinLimit(ids[c])
    BY <1>20, <2>1 DEF ReadyDecide, Return
  <2>2. CASE ~WithinLimit(ids[c])
    BY <1>20, <2>2 DEF ReadyDecide
  <2> QED
    BY <2>1, <2>2
<1>21. ASSUME NEW c \in Conn, ReadyEvict(c)
       PROVE  Goal
  BY <1>21 DEF ReadyEvict, Remove
<1>22. CASE UNCHANGED vars
  BY <1>22 DEF vars
<1> HIDE DEF Goal
<1> QED
  BY <1>3, <1>4, <1>5, <1>6, <1>7, <1>8, <1>9, <1>10, <1>11, <1>12, <1>13, <1>14, <1>15,
     <1>16, <1>17, <1>18, <1>19, <1>20, <1>21, <1>22
     DEF Next, MethodStep, SessionStep, Unregister

(* Only the task that takes a connection away holds it as its target. *)
LEMMA RemovedByOne ==
  ASSUME TypeOK, NeverBack, JudgedGone, NEW u \in Task, NEW v \in connections, Remove(u, v),
         NEW t \in Task, target'[t] = v
  PROVE  t = u
<1>1. target[t] # v
  BY RegistryAssumption DEF TypeOK, NeverBack, JudgedGone
<1> QED
  BY <1>1 DEF Remove, TypeOK

(***************************************************************************)
(* A dispatch and a session_ready act on what they read some accesses ago, *)
(* with any number of threads changing the maps in between; they still     *)
(* unregister nobody who could be reached, and nobody who is not, at that  *)
(* moment, another ready connection of the user (state.rs:840-868,         *)
(* 936-951).                                                               *)
(***************************************************************************)
THEOREM JudgedRight == Spec => JudgementsHold
<1> DEFINE IInv == TypeOK /\ FrameOK /\ LimitInv /\ JudgedGone
           Right == \A t \in Task : \A v \in connections \ connections' :
                      target'[t] = v =>
                        /\ op[t] = "send" => ~Reachable(v)
                        /\ op[t] = "session_ready" => v \in ReadyOf(UserOf[t]) \ {t}
<1>1. Init => IInv
  <2>1. Init => JudgedGone
    BY RegistryAssumption DEF Init, JudgedGone, Dropping, Task
  <2> QED
    BY <2>1, InitType, InitLimit
<1>2. IInv /\ [Next]_vars => IInv'
  BY InvStep, JudgedStep DEF LimitInv
<1>3. IInv /\ [Next]_vars => Right
  <2> SUFFICES ASSUME IInv, [Next]_vars, NEW t \in Task, NEW v \in connections \ connections',
                      target'[t] = v
               PROVE  /\ op[t] = "send" => ~Reachable(v)
                      /\ op[t] = "session_ready" => v \in ReadyOf(UserOf[t]) \ {t}
    OBVIOUS
  <2>1. TypeOK /\ PhaseOK /\ NeverBack /\ CollectedReady /\ JudgedGone
    BY DEF LimitInv
  <2>2. CASE \E u \in Task : EvictNext(u)
    <3>1. PICK u \in Task : EvictNext(u)
      BY <2>2
    <3>2. PICK d \in ids[u] : Remove(u, d)
      BY <3>1 DEF EvictNext
    <3>3. d = v
      BY <3>2 DEF Remove
    <3>4. t = u
      BY <2>1, <3>2, <3>3, RemovedByOne
    <3>5. op[t] # "session_ready" /\ v \in ids[t]
      BY <3>1, <3>2, <3>3, <3>4 DEF EvictNext
    <3>6. op[t] = "send" => Gone(v)
      BY <2>1, <3>5 DEF JudgedGone
    <3> QED
      BY <3>5, <3>6 DEF Gone, Reachable
  <2>3. CASE \E c \in Conn : ReadyEvict(c)
    <3>1. PICK c \in Conn : ReadyEvict(c)
      BY <2>3
    <3>2. PICK d \in ids[c] : IF d = c THEN UNCHANGED registry ELSE Remove(c, d)
      BY <3>1 DEF ReadyEvict
    <3>3. d # c /\ Remove(c, d)
      BY <3>2 DEF registry
    <3>4. d = v
      BY <3>3 DEF Remove
    <3>5. t = c
      BY <2>1, <3>3, <3>4, RemovedByOne DEF Task
    <3>6. op[c] = "session_ready"
      BY <3>1 DEF ReadyEvict
    <3>7. UserOf[v] = UserOf[c] /\ v \in ready
      BY <2>1, <3>2, <3>4, <3>6 DEF CollectedReady
    <3> QED
      BY <2>1, <3>3, <3>4, <3>5, <3>6, <3>7 DEF ReadyOf, TypeOK
  <2>4. CASE \E c \in Conn : RegisterInsert(c)
    BY <2>4 DEF RegisterInsert
  <2> QED
    BY <2>2, <2>3, <2>4, WhoChanges
<1>4. [Right]_vars => [\A t \in Task : \A v \in connections \ connections' :
                         target'[t] = v =>
                           /\ op[t] = "send" => ~Reachable(v)
                           /\ op[t] = "session_ready" => v \in ReadyOf(UserOf[t]) \ {t}]_vars
  OBVIOUS
<1> HIDE DEF Right, IInv
<1> QED
  BY <1>1, <1>2, <1>3, <1>4, PTL DEF Spec, JudgementsHold

-----------------------------------------------------------------------------
(***************************************************************************)
(* One worker thread: no method overlaps another.  The index is not exact  *)
(* while a method is under way; what it lacks then are the subjects        *)
(* register_connection has still to add, and what it has too much those    *)
(* unregister_connection has still to leave.                               *)
(***************************************************************************)
OneAtWork == \A t, u \in Task : op[t] # "none" /\ op[u] # "none" => t = u

(* The subjects a connection is indexed under, when it is registered. *)
Indexed(c) == IF step[c] = "index" THEN SubjectsOf[c] \ todo[c] ELSE SubjectsOf[c]

(* The subjects the connection a task has removed is still indexed under. *)
Leaving(t) ==
  CASE step[t] = "drop_ready" -> SubjectsOf[target[t]]
    [] step[t] \in {"drop_index", "drop_key"} -> todo[t]
    [] OTHER -> {}

IndexOK ==
  \A c \in Conn : \A s \in Subject :
    c \in subjects[s] <=> \/ c \in connections /\ s \in Indexed(c)
                          \/ \E t \in Task : target[t] = c /\ s \in Leaving(t)

InsertedFirst ==
  \A c \in Conn : step[c] = "index" => c \in connections /\ todo[c] \subseteq SubjectsOf[c]

KeyEmpty == \A t \in Task : step[t] = "drop_key" => subjects[key[t]] = {}

(* What a registration has still to evict it has collected, or will yet see. *)
TabCollected ==
  \A c \in Conn : op[c] = "register" /\ step[c] # "index" =>
    \A d \in connections :
      SameInstance(c, d) => d \in ids[c] \/ (step[c] = "scan" /\ d \in scan[c])

OneTab == \A c, d \in connections : ~SameInstance(c, d)

Alone == OneAtWork /\ IndexOK /\ InsertedFirst /\ KeyEmpty /\ TabCollected /\ OneTab

(* Then a call finds no method under way. *)
LEMMA NobodyAtWork ==
  ASSUME Workers = 1, WorkerFree
  PROVE  \A t \in Task : op[t] = "none"
<1>1. Busy \subseteq Task /\ IsFiniteSet(Task)
  BY RegistryAssumption DEF Busy
<1>2. IsFiniteSet(Busy) /\ Cardinality(Busy) \in Nat /\ Cardinality(Busy) < 1
  BY <1>1, FS_Subset, FS_CardinalityType DEF WorkerFree
<1>3. Busy = {}
  BY <1>2, FS_EmptySet
<1> QED
  BY <1>3 DEF Busy

LEMMA InitAlone == Init => Alone
<1> SUFFICES ASSUME Init
             PROVE  Alone
  OBVIOUS
<1>1. \A t \in Task : op[t] = "none" /\ step[t] = "rest"
  BY DEF Init
<1>2. connections = {} /\ \A s \in Subject : subjects[s] = {}
  BY DEF Init
<1>3. \A t \in Task : Leaving(t) = {}
  BY <1>1 DEF Leaving
<1> QED
  BY <1>1, <1>2, <1>3
     DEF Alone, OneAtWork, IndexOK, InsertedFirst, KeyEmpty, TabCollected, OneTab, Task

(* The task of a step that is in a method is the only one. *)
LEMMA OthersRest ==
  ASSUME PhaseOK, OneAtWork, NEW t \in Task, step[t] # "rest"
  PROVE  \A u \in Task \ {t} : op[u] = "none" /\ step[u] = "rest" /\ Leaving(u) = {}
<1>1. op[t] # "none"
  BY DEF PhaseOK
<1>2. \A u \in Task \ {t} : op[u] = "none"
  BY <1>1 DEF OneAtWork
<1>3. \A u \in Task \ {t} : step[u] = "rest"
  BY <1>2 DEF PhaseOK
<1> QED
  BY <1>2, <1>3 DEF Leaving

(* A step away from the handles and the index *)
Elsewhere ==
  /\ UNCHANGED <<connections, subjects>>
  /\ \A t \in Task :
       IF step[t] \in Dropping \cup {"index"}
         THEN step'[t] = step[t] /\ target'[t] = target[t] /\ todo'[t] = todo[t] /\ key'[t] = key[t]
         ELSE step'[t] \notin Dropping \cup {"index"}

LEMMA ElsewhereKeeps ==
  ASSUME Alone, Elsewhere
  PROVE  IndexOK' /\ InsertedFirst' /\ KeyEmpty' /\ OneTab'
<1>1. \A c \in Conn : c \in Task
  BY DEF Task
<1>2. \A c \in Conn : Indexed(c)' = Indexed(c)
  BY <1>1 DEF Elsewhere, Indexed
<1>3. ASSUME NEW t \in Task
      PROVE  Leaving(t)' = Leaving(t) /\ (Leaving(t) # {} => target'[t] = target[t])
  <2>1. CASE step[t] \in Dropping \cup {"index"}
    BY <2>1 DEF Elsewhere, Leaving
  <2>2. CASE step[t] \notin Dropping \cup {"index"}
    BY <2>2 DEF Elsewhere, Leaving, Dropping
  <2> QED
    BY <2>1, <2>2
<1>4. IndexOK'
  <2> SUFFICES ASSUME NEW c \in Conn, NEW s \in Subject
               PROVE  c \in subjects'[s] <=> \/ c \in connections' /\ s \in Indexed(c)'
                                             \/ \E t \in Task : target'[t] = c /\ s \in Leaving(t)'
    BY DEF IndexOK
  <2>1. (\E t \in Task : target'[t] = c /\ s \in Leaving(t)')
          <=> (\E t \in Task : target[t] = c /\ s \in Leaving(t))
    BY <1>3
  <2>2. c \in subjects[s] <=> \/ c \in connections /\ s \in Indexed(c)
                              \/ \E t \in Task : target[t] = c /\ s \in Leaving(t)
    BY DEF Alone, IndexOK
  <2> QED
    BY <1>2, <2>1, <2>2 DEF Elsewhere
<1>5. InsertedFirst' /\ KeyEmpty'
  BY <1>1 DEF Alone, InsertedFirst, KeyEmpty, Elsewhere, Dropping
<1>6. OneTab'
  BY DEF Alone, OneTab, Elsewhere, SameInstance
<1> QED
  BY <1>4, <1>5, <1>6
(* The steps that enter, leave or go on with the handles and the index *)
AtIndex ==
  \/ \E t \in Task : DropReady(t) \/ DropIndex(t) \/ DropKey(t) \/ Unregistered(t)
  \/ \E c \in Conn : RegisterInsert(c) \/ RegisterIndex(c) \/ Registered(c)

(* A call begins when no method is under way; other steps call none. *)
LEMMA OneAtWorkStep ==
  ASSUME Workers = 1, TypeOK, PhaseOK, OneAtWork, [Next]_vars
  PROVE  OneAtWork'
<1> DEFINE Goal == OneAtWork'
           Quiet == \A u \in Task : op'[u] # "none" => op[u] # "none"
<1> SUFFICES Goal
  OBVIOUS
<1>1. Quiet => Goal
  BY DEF OneAtWork
<1>2. ASSUME NEW t \in Task, NEW method, NEW first, Call(t, method, first)
      PROVE  Goal
  <2>1. \A u \in Task : op[u] = "none"
    BY <1>2, NobodyAtWork DEF Call
  <2>2. op' = [op EXCEPT ![t] = method]
    BY <1>2 DEF Call
  <2> QED
    BY <2>1, <2>2 DEF OneAtWork, TypeOK
<1>3. Conn \subseteq Task /\ Sweeper \subseteq Task /\ Dispatcher \subseteq Task
  BY DEF Task
<1> USE <1>3 DEF frame, TypeOK
<1>4. ASSUME NEW c \in Conn, Register(c) \/ Exit(c) \/ SessionReady(c)
      PROVE  Goal
  <2>1. CASE Register(c) \/ Exit(c)
    BY <1>2, <2>1 DEF Register, Exit
  <2>2. CASE SessionReady(c)
    <3>1. UNCHANGED op \/ Call(c, "session_ready", "scan")
      BY <2>2 DEF SessionReady
    <3> QED
      BY <1>1, <1>2, <3>1
  <2> QED
    BY <1>4, <2>1, <2>2
<1>5. ASSUME NEW c \in Conn, Alive(c) \/ GoIdle(c)
      PROVE  Goal
  BY <1>1, <1>5 DEF Alive, GoIdle
<1>6. ASSUME NEW t \in Task, Prune(t) \/ Send(t) \/ SendToConnection(t)
      PROVE  Goal
  BY <1>2, <1>6 DEF Prune, Send, SendToConnection
<1>7. ASSUME NEW t \in Task, ScanDone(t) \/ LoopDone(t)
      PROVE  Quiet
  BY <1>7 DEF ScanDone, LoopDone, Return
<1>8. ASSUME NEW t \in Task, EvictNext(t)
      PROVE  Quiet
  BY <1>8 DEF EvictNext
<1>9. ASSUME NEW t \in Task, Unregister(t)
      PROVE  Quiet
  BY <1>9 DEF Unregister, DropReady, DropIndex, DropKey, Unregistered
<1>10. ASSUME NEW c \in Conn, RegisterScan(c) \/ RegisterInsert(c) \/ RegisterIndex(c) \/ Registered(c)
       PROVE  Quiet
  BY <1>10 DEF RegisterScan, RegisterInsert, RegisterIndex, Registered, Return
<1>11. ASSUME NEW c \in Conn, ReadyScan(c) \/ ReadyDecide(c) \/ ReadyEvict(c) \/ ReadyDone(c) \/ Closed(c)
       PROVE  Quiet
  BY <1>11 DEF ReadyScan, ReadyDecide, ReadyEvict, ReadyDone, Closed, Return
<1>12. ASSUME NEW t \in Task, PruneScan(t) \/ SendLookup(t) \/ SendDeliver(t)
       PROVE  Quiet
  BY <1>12 DEF PruneScan, SendLookup, SendDeliver
<1>13. CASE UNCHANGED vars
  BY <1>1, <1>13 DEF vars
<1>14. ASSUME NEW t \in Task, MethodStep(t)
       PROVE  Goal
  BY <1>1, <1>7, <1>8, <1>9, <1>10, <1>11, <1>12, <1>14 DEF MethodStep, SessionStep
<1> QED
  BY <1>3, <1>4, <1>5, <1>6, <1>13, <1>14 DEF Next

(* All other steps that remove no handle are elsewhere. *)
LEMMA ElsewhereStep ==
  ASSUME TypeOK, PhaseOK, [Next]_vars, ~AtIndex, UNCHANGED connections
  PROVE  Elsewhere
<1> DEFINE Goal == Elsewhere
<1> SUFFICES Goal
  OBVIOUS
<1>0. Conn \subseteq Task /\ Sweeper \subseteq Task /\ Dispatcher \subseteq Task
  BY DEF Task
<1> USE <1>0 DEF TypeOK, PhaseOK, registry, frame, Elsewhere, Dropping
<1>1. ASSUME NEW c \in Conn, Register(c) \/ Exit(c) \/ SessionReady(c)
      PROVE  Goal
  BY <1>1 DEF Register, Exit, SessionReady, Call
<1>2. ASSUME NEW c \in Conn, Alive(c) \/ GoIdle(c)
      PROVE  Goal
  BY <1>2 DEF Alive, GoIdle
<1>3. ASSUME NEW t \in Task, Prune(t) \/ Send(t) \/ SendToConnection(t)
      PROVE  Goal
  BY <1>3 DEF Prune, Send, SendToConnection, Call
<1>4. ASSUME NEW t \in Task, ScanDone(t) \/ LoopDone(t)
      PROVE  Goal
  BY <1>4 DEF ScanDone, LoopDone, Return
<1>5. ASSUME NEW t \in Task, EvictNext(t)
      PROVE  Goal
  BY <1>5 DEF EvictNext, Remove
<1>6. ASSUME NEW c \in Conn, RegisterScan(c) \/ ReadyScan(c)
      PROVE  Goal
  BY <1>6 DEF RegisterScan, ReadyScan
<1>7. ASSUME NEW c \in Conn, ReadyDone(c) \/ Closed(c)
      PROVE  Goal
  BY <1>7 DEF ReadyDone, Closed, Return
<1>8. ASSUME NEW c \in Conn, ReadyDecide(c)
      PROVE  Goal
  BY <1>8 DEF ReadyDecide, Return
<1>9. ASSUME NEW c \in Conn, ReadyEvict(c)
      PROVE  Goal
  BY <1>9 DEF ReadyEvict, Remove
<1>10. ASSUME NEW t \in Task, PruneScan(t) \/ SendDeliver(t)
       PROVE  Goal
  BY <1>10 DEF PruneScan, SendDeliver
<1>11. ASSUME NEW t \in Task, SendLookup(t)
       PROVE  Goal
  BY <1>11 DEF SendLookup
<1>12. CASE UNCHANGED vars
  BY <1>12 DEF vars
<1> HIDE DEF Goal, TypeOK, PhaseOK, registry, frame, Elsewhere, Dropping
<1>13. ASSUME NEW c \in Conn, SessionStep(c)
       PROVE  Goal
  BY <1>6, <1>7, <1>8, <1>9, <1>13 DEF SessionStep, AtIndex
<1>14. ASSUME NEW t \in Task, MethodStep(t)
       PROVE  Goal
  BY <1>4, <1>5, <1>10, <1>11, <1>13, <1>14 DEF MethodStep, Unregister, AtIndex
<1> QED
  BY <1>1, <1>2, <1>3, <1>12, <1>14 DEF Next
(* With one task at work, the index is exact but for what that task does. *)
LEMMA IndexOfOne ==
  ASSUME NEW t \in Task, \A u \in Task \ {t} : Leaving(u) = {}
  PROVE  IndexOK <=> \A c \in Conn : \A s \in Subject :
                       c \in subjects[s] <=> \/ c \in connections /\ s \in Indexed(c)
                                             \/ target[t] = c /\ s \in Leaving(t)
BY DEF IndexOK

(* connections.remove takes the handle away, and leaves the index. *)
LEMMA HandleGoes ==
  ASSUME TypeOK, PhaseOK, NeverBack, Alone, NEW t \in Task, NEW v \in connections,
         step[t] = "evict", connections' = connections \ {v},
         target' = [target EXCEPT ![t] = v], step' = [step EXCEPT ![t] = "drop_ready"],
         UNCHANGED <<subjects, todo, key>>
  PROVE  IndexOK' /\ InsertedFirst' /\ KeyEmpty' /\ OneTab'
<1>1. Conn \subseteq Task /\ v \in Conn
  BY DEF Task, TypeOK
<1>2. \A u \in Task \ {t} : step[u] = "rest" /\ Leaving(u) = {}
  BY OthersRest DEF Alone
<1>3. /\ step'[t] = "drop_ready" /\ target'[t] = v
      /\ \A u \in Task \ {t} : step'[u] = "rest"
  BY <1>2 DEF TypeOK
<1>4. \A u \in Task \ {t} : Leaving(u)' = {}
  BY <1>3 DEF Leaving
<1>5. Leaving(t) = {} /\ Leaving(t)' = SubjectsOf[v]
  BY <1>3 DEF Leaving
<1>6. \A c \in Conn : Indexed(c) = SubjectsOf[c] /\ Indexed(c)' = SubjectsOf[c]
  BY <1>1, <1>2, <1>3 DEF Indexed
<1>7. \A c \in Conn : \A s \in Subject : c \in subjects[s] <=> c \in connections /\ s \in SubjectsOf[c]
  BY <1>2, <1>5, <1>6, IndexOfOne DEF Alone
<1>8. \A c \in Conn : \A s \in Subject :
        c \in subjects'[s] <=> \/ c \in connections' /\ s \in Indexed(c)'
                               \/ target'[t] = c /\ s \in Leaving(t)'
  BY <1>1, <1>3, <1>5, <1>6, <1>7
<1>9. IndexOK'
  BY <1>4, <1>8 DEF IndexOK
<1>10. InsertedFirst' /\ KeyEmpty'
  BY <1>1, <1>3 DEF InsertedFirst, KeyEmpty
<1>11. OneTab'
  BY DEF Alone, OneTab, SameInstance
<1> QED
  BY <1>9, <1>10, <1>11

(* connections.insert, after which the session indexes its connection. *)
LEMMA HandleComes ==
  ASSUME TypeOK, PhaseOK, NeverBack, Alone, NEW c \in Conn, RegisterInsert(c)
  PROVE  IndexOK' /\ InsertedFirst' /\ KeyEmpty' /\ OneTab'
<1>1. /\ Conn \subseteq Task /\ step[c] = "evict" /\ op[c] = "register" /\ ids[c] = {}
      /\ connections' = connections \cup {c}
      /\ step' = [step EXCEPT ![c] = "index"] /\ todo' = [todo EXCEPT ![c] = SubjectsOf[c]]
      /\ UNCHANGED <<subjects, target, key>>
  BY DEF RegisterInsert, Task
<1>2. \A u \in Task \ {c} : step[u] = "rest" /\ Leaving(u) = {}
  BY <1>1, OthersRest DEF Alone
<1>3. /\ step'[c] = "index" /\ todo'[c] = SubjectsOf[c]
      /\ \A u \in Task \ {c} : step'[u] = "rest"
  BY <1>1, <1>2 DEF TypeOK
<1>4. \A u \in Task : Leaving(u) = {} /\ Leaving(u)' = {}
  BY <1>1, <1>2, <1>3 DEF Leaving
<1>5. c \notin connections
  BY <1>1 DEF NeverBack, Fresh, PhaseOK
<1>6. /\ \A d \in Conn : Indexed(d) = SubjectsOf[d]
      /\ \A d \in Conn \ {c} : Indexed(d)' = SubjectsOf[d]
      /\ Indexed(c)' = {}
  BY <1>1, <1>2, <1>3 DEF Indexed
<1>7. \A d \in Conn : \A s \in Subject : d \in subjects[s] <=> d \in connections /\ s \in SubjectsOf[d]
  BY <1>4, <1>6 DEF Alone, IndexOK
<1>8. IndexOK'
  BY <1>1, <1>4, <1>5, <1>6, <1>7 DEF IndexOK
<1>9. InsertedFirst' /\ KeyEmpty'
  BY <1>1, <1>3 DEF InsertedFirst, KeyEmpty
<1>10. \A d \in connections : ~SameInstance(c, d)
  BY <1>1 DEF Alone, TabCollected
<1>11. \A d \in connections : ~SameInstance(d, c)
  BY <1>10 DEF SameInstance
<1>12. ~SameInstance(c, c)
  BY DEF SameInstance
<1>13. OneTab'
  BY <1>1, <1>10, <1>11, <1>12 DEF Alone, OneTab, SameInstance
<1> QED
  BY <1>8, <1>9, <1>13

LEMMA IndexGrows ==
  ASSUME TypeOK, PhaseOK, NeverBack, Alone, NEW c \in Conn, RegisterIndex(c) \/ Registered(c)
  PROVE  IndexOK' /\ InsertedFirst' /\ KeyEmpty' /\ OneTab'
<1>1. Conn \subseteq Task /\ step[c] = "index" /\ UNCHANGED <<connections, target, key>>
  BY DEF RegisterIndex, Registered, registry, Task
<1>2. \A u \in Task \ {c} : step[u] = "rest" /\ Leaving(u) = {}
  BY <1>1, OthersRest DEF Alone
<1>3. \A u \in Task : Leaving(u) = {}
  BY <1>1, <1>2 DEF Leaving
<1>4. c \in connections
  BY <1>1 DEF Alone, InsertedFirst
<1>5. \A d \in Conn : \A s \in Subject : d \in subjects[s] <=> d \in connections /\ s \in Indexed(d)
  BY <1>3 DEF Alone, IndexOK
<1>6. OneTab'
  BY <1>1 DEF Alone, OneTab, SameInstance
<1>7. CASE RegisterIndex(c)
  <2>1. PICK s \in todo[c] : /\ todo' = [todo EXCEPT ![c] = @ \ {s}]
                             /\ subjects' = [subjects EXCEPT ![s] = @ \cup {c}]
    BY <1>7 DEF RegisterIndex
  <2>2. step' = step
    BY <1>7 DEF RegisterIndex
  <2>3. s \in Subject /\ todo[c] \subseteq Subject
    BY <1>1, <2>1 DEF TypeOK
  <2>4. \A u \in Task : Leaving(u)' = {}
    BY <1>1, <1>2, <2>2 DEF Leaving
  <2>5. Indexed(c)' = SubjectsOf[c] \ (todo[c] \ {s}) /\ Indexed(c) = SubjectsOf[c] \ todo[c]
    BY <1>1, <2>1, <2>2 DEF Indexed, TypeOK
  <2>6. \A d \in Conn \ {c} : Indexed(d)' = Indexed(d)
    BY <1>1, <1>2, <2>2 DEF Indexed
  <2>7. s \in SubjectsOf[c]
    BY <1>1, <2>1 DEF Alone, InsertedFirst
  <2>8. ASSUME NEW d \in Conn, NEW r \in Subject
        PROVE  d \in subjects'[r] <=> d \in connections /\ r \in Indexed(d)'
    <3>1. subjects'[r] = IF r = s THEN subjects[r] \cup {c} ELSE subjects[r]
      BY <2>1, <2>3 DEF TypeOK
    <3> QED
      BY <1>4, <1>5, <2>5, <2>6, <2>7, <3>1
  <2>9. IndexOK'
    BY <1>1, <2>4, <2>8 DEF IndexOK
  <2>10. todo'[c] \subseteq SubjectsOf[c]
    BY <1>1, <2>1 DEF Alone, InsertedFirst, TypeOK
  <2>11. InsertedFirst' /\ KeyEmpty'
    BY <1>1, <1>2, <1>4, <2>2, <2>10 DEF InsertedFirst, KeyEmpty
  <2> QED
    BY <1>6, <2>9, <2>11
<1>8. CASE Registered(c)
  <2>1. todo[c] = {} /\ step' = [step EXCEPT ![c] = "rest"] /\ UNCHANGED <<subjects, todo>>
    BY <1>8 DEF Registered, Return, registry
  <2>2. \A u \in Task : step'[u] = "rest"
    BY <1>2, <2>1 DEF TypeOK
  <2>3. \A u \in Task : Leaving(u)' = {}
    BY <2>2 DEF Leaving
  <2>4. \A d \in Conn : Indexed(d)' = Indexed(d)
    BY <1>1, <1>2, <2>1, <2>2 DEF Indexed
  <2>5. IndexOK'
    BY <1>1, <1>5, <2>1, <2>3, <2>4 DEF IndexOK
  <2>6. InsertedFirst' /\ KeyEmpty'
    BY <1>1, <2>2 DEF InsertedFirst, KeyEmpty
  <2> QED
    BY <1>6, <2>5, <2>6
<1> QED
  BY <1>7, <1>8

(* unregister_connection takes the connection out of the index. *)
LEMMA IndexShrinks ==
  ASSUME TypeOK, FrameOK, PhaseOK, NeverBack, Alone, KeysOK, NEW t \in Task, Unregister(t)
  PROVE  IndexOK' /\ InsertedFirst' /\ KeyEmpty' /\ OneTab'
<1>1. Conn \subseteq Task /\ step[t] \in Dropping /\ UNCHANGED connections
  BY DEF Unregister, DropReady, DropIndex, DropKey, Unregistered, registry, Dropping, Task
<1>2. target[t] \in Conn /\ target[t] \notin connections
  BY <1>1 DEF FrameOK, NeverBack
<1>3. step[t] # "rest" /\ step[t] # "index"
  BY <1>1 DEF Dropping
<1>4. \A u \in Task \ {t} : step[u] = "rest" /\ Leaving(u) = {}
  BY <1>3, OthersRest DEF Alone
<1>5. \A d \in Conn : \A s \in Subject :
        d \in subjects[s] <=> \/ d \in connections /\ s \in Indexed(d)
                              \/ target[t] = d /\ s \in Leaving(t)
  BY <1>4, IndexOfOne DEF Alone
<1>6. \A d \in Conn : Indexed(d) = SubjectsOf[d]
  BY <1>1, <1>3, <1>4 DEF Indexed
<1>7. OneTab'
  BY <1>1 DEF Alone, OneTab, SameInstance
<1>8. ASSUME NEW next \in Steps \ {"index", "rest"}, step' = [step EXCEPT ![t] = next]
      PROVE  /\ \A u \in Task \ {t} : step'[u] = "rest" /\ Leaving(u)' = {}
             /\ step'[t] = next /\ InsertedFirst'
             /\ \A d \in Conn : Indexed(d)' = SubjectsOf[d]
  <2>1. step'[t] = next /\ \A u \in Task \ {t} : step'[u] = "rest"
    BY <1>4, <1>8 DEF TypeOK
  <2>2. \A u \in Task : step'[u] # "index"
    BY <2>1
  <2> QED
    BY <1>1, <2>1, <2>2 DEF InsertedFirst, Indexed, Leaving
<1>9. CASE DropReady(t)
  <2>1. /\ step[t] = "drop_ready" /\ todo' = [todo EXCEPT ![t] = SubjectsOf[target[t]]]
        /\ step' = [step EXCEPT ![t] = "drop_index"] /\ UNCHANGED <<subjects, target, key>>
    BY <1>9 DEF DropReady
  <2>2. /\ \A u \in Task \ {t} : step'[u] = "rest" /\ Leaving(u)' = {}
        /\ step'[t] = "drop_index" /\ InsertedFirst'
        /\ \A d \in Conn : Indexed(d)' = SubjectsOf[d]
    BY <1>8, <2>1 DEF Steps
  <2>3. Leaving(t) = SubjectsOf[target[t]] /\ Leaving(t)' = SubjectsOf[target[t]]
    BY <2>1, <2>2 DEF Leaving, TypeOK
  <2>4. IndexOK'
    BY <1>1, <1>5, <1>6, <2>1, <2>2, <2>3 DEF IndexOK
  <2>5. KeyEmpty'
    BY <2>2 DEF KeyEmpty
  <2> QED
    BY <1>7, <2>2, <2>4, <2>5
<1>10. CASE DropIndex(t)
  <2>1. PICK s \in todo[t] :
          /\ todo' = [todo EXCEPT ![t] = @ \ {s}]
          /\ subjects' = [subjects EXCEPT ![s] = @ \ {target[t]}]
          /\ IF Emptied(t, s)
               THEN /\ step' = [step EXCEPT ![t] = "drop_key"]
                    /\ key' = [key EXCEPT ![t] = s]
               ELSE UNCHANGED <<step, key>>
    BY <1>10 DEF DropIndex
  <2>2. step[t] = "drop_index" /\ UNCHANGED target /\ s \in Subject
    BY <1>10, <2>1 DEF DropIndex, TypeOK
  <2>3. PICK next \in {"drop_index", "drop_key"} :
          step' = [step EXCEPT ![t] = next] /\ (next = "drop_key" => Emptied(t, s) /\ key'[t] = s)
    BY <2>1, <2>2 DEF TypeOK
  <2>4. /\ \A u \in Task \ {t} : step'[u] = "rest" /\ Leaving(u)' = {}
        /\ step'[t] = next /\ InsertedFirst'
        /\ \A d \in Conn : Indexed(d)' = SubjectsOf[d]
    BY <1>8, <2>3 DEF Steps
  <2>5. Leaving(t) = todo[t] /\ Leaving(t)' = todo[t] \ {s}
    BY <2>1, <2>2, <2>4 DEF Leaving, TypeOK
  <2>6. ASSUME NEW d \in Conn, NEW r \in Subject
        PROVE  d \in subjects'[r] <=> \/ d \in connections' /\ r \in Indexed(d)'
                                      \/ target'[t] = d /\ r \in Leaving(t)'
    <3>1. subjects'[r] = IF r = s THEN subjects[r] \ {target[t]} ELSE subjects[r]
      BY <2>1, <2>2 DEF TypeOK
    <3> QED
      BY <1>1, <1>2, <1>5, <1>6, <2>2, <2>4, <2>5, <3>1
  <2>7. IndexOK'
    BY <2>4, <2>6 DEF IndexOK
  <2>8. KeyEmpty'
    <3>1. next = "drop_key" => subjects'[s] = {}
      BY <2>1, <2>2, <2>3 DEF Emptied, TypeOK
    <3> QED
      BY <2>3, <2>4, <3>1 DEF KeyEmpty
  <2> QED
    BY <1>7, <2>4, <2>7, <2>8
<1>11. CASE DropKey(t)
  <2>1. /\ step[t] = "drop_key" /\ subjects' = [subjects EXCEPT ![key[t]] = {}]
        /\ step' = [step EXCEPT ![t] = "drop_index"] /\ UNCHANGED <<todo, target>>
    BY <1>11 DEF DropKey
  <2>2. subjects' = subjects
    <3>1. key[t] \in Subject /\ subjects[key[t]] = {}
      BY <2>1 DEF Alone, KeyEmpty, FrameOK
    <3> QED
      BY <2>1, <3>1 DEF TypeOK
  <2>3. /\ \A u \in Task \ {t} : step'[u] = "rest" /\ Leaving(u)' = {}
        /\ step'[t] = "drop_index" /\ InsertedFirst'
        /\ \A d \in Conn : Indexed(d)' = SubjectsOf[d]
    BY <1>8, <2>1 DEF Steps
  <2>4. Leaving(t) = todo[t] /\ Leaving(t)' = todo[t]
    BY <2>1, <2>3 DEF Leaving
  <2>5. IndexOK'
    BY <1>1, <1>5, <1>6, <2>1, <2>2, <2>3, <2>4 DEF IndexOK
  <2>6. KeyEmpty'
    BY <2>3 DEF KeyEmpty
  <2> QED
    BY <1>7, <2>3, <2>5, <2>6
<1>12. CASE Unregistered(t)
  <2>1. /\ step[t] = "drop_index" /\ todo[t] = {} /\ UNCHANGED subjects
        /\ step' = [step EXCEPT ![t] = "evict"]
    BY <1>12 DEF Unregistered, registry
  <2>2. /\ \A u \in Task \ {t} : step'[u] = "rest" /\ Leaving(u)' = {}
        /\ step'[t] = "evict" /\ InsertedFirst'
        /\ \A d \in Conn : Indexed(d)' = SubjectsOf[d]
    BY <1>8, <2>1 DEF Steps
  <2>3. Leaving(t) = {} /\ Leaving(t)' = {}
    BY <2>1, <2>2 DEF Leaving
  <2>4. IndexOK'
    BY <1>1, <1>5, <1>6, <2>1, <2>2, <2>3 DEF IndexOK
  <2>5. KeyEmpty'
    BY <2>2 DEF KeyEmpty
  <2> QED
    BY <1>7, <2>2, <2>4, <2>5
<1> QED
  BY <1>9, <1>10, <1>11, <1>12 DEF Unregister

(* A registration goes on with what it has collected of its tab. *)
Collecting ==
  /\ connections' \subseteq connections
  /\ \A c \in Conn : op'[c] = "register" /\ step'[c] # "index" =>
       /\ op[c] = "register" /\ step[c] # "index"
       /\ ids'[c] = ids[c]
       /\ step[c] = "scan" => step'[c] = "scan" /\ scan'[c] = scan[c]

LEMMA TabStep ==
  ASSUME Workers = 1, TypeOK, FrameOK, PhaseOK, OneAtWork, TabCollected, [Next]_vars
  PROVE  TabCollected'
<1> DEFINE Goal == TabCollected'
<1> SUFFICES Goal
  OBVIOUS
<1>0. Conn \subseteq Task /\ Sweeper \subseteq Task /\ Dispatcher \subseteq Task
  BY DEF Task
<1>1. Collecting => Goal
  BY DEF Collecting, TabCollected, SameInstance
<1> USE <1>0, RegistryAssumption DEF TypeOK, PhaseOK, registry, frame
<1>2. ASSUME NEW c \in Conn, Register(c)
      PROVE  Goal
  <2>1. \A t \in Task : op[t] = "none"
    BY <1>2, NobodyAtWork DEF Register, Call
  <2>2. /\ op' = [op EXCEPT ![c] = "register"] /\ step' = [step EXCEPT ![c] = "scan"]
        /\ scan' = [scan EXCEPT ![c] = IF InstanceOf[c] = NoInstance THEN {} ELSE Conn]
        /\ UNCHANGED connections
    BY <1>2 DEF Register, Call
  <2> QED
    BY <2>1, <2>2 DEF TabCollected, SameInstance
<1>3. ASSUME NEW c \in Conn, Exit(c)
      PROVE  Collecting
  BY <1>3 DEF Exit, Call, Collecting
<1>4. ASSUME NEW c \in Conn, SessionReady(c)
      PROVE  Collecting
  BY <1>4 DEF SessionReady, Call, Collecting
<1>5. ASSUME NEW c \in Conn, Alive(c) \/ GoIdle(c)
      PROVE  Collecting
  BY <1>5 DEF Alive, GoIdle, Collecting
<1>6. ASSUME NEW t \in Sweeper \cup Dispatcher, Prune(t) \/ Send(t) \/ SendToConnection(t)
      PROVE  Collecting
  BY <1>6 DEF Prune, Send, SendToConnection, Call, Collecting
<1>7. ASSUME NEW t \in Task, ScanDone(t)
      PROVE  Goal
  <2>1. /\ scan[t] = {} /\ step[t] # "index" /\ step' = [step EXCEPT ![t] = "evict"]
        /\ UNCHANGED <<connections, op, ids, scan>>
    BY <1>7 DEF ScanDone
  <2> QED
    BY <2>1 DEF TabCollected, SameInstance
<1>8. ASSUME NEW t \in Task, EvictNext(t)
      PROVE  Goal
  <2>1. step[t] = "evict" /\ UNCHANGED <<op, scan>>
    BY <1>8 DEF EvictNext
  <2>2. PICK v \in ids[t] : ids' = [ids EXCEPT ![t] = @ \ {v}] /\ Remove(t, v)
    BY <1>8 DEF EvictNext
  <2>3. /\ connections' = connections \ {v}
        /\ \A u \in Task \ {t} : step'[u] = step[u] /\ ids'[u] = ids[u]
        /\ step'[t] \in {"evict", "drop_ready"} /\ ids'[t] = ids[t] \ {v}
    BY <2>1, <2>2 DEF Remove
  <2> QED
    BY <2>1, <2>3 DEF TabCollected, SameInstance
<1>9. ASSUME NEW t \in Task, Unregister(t)
      PROVE  Collecting
  <2>1. CASE DropReady(t)
    BY <2>1 DEF DropReady, Collecting
  <2>2. CASE DropIndex(t)
    BY <2>2 DEF DropIndex, Collecting
  <2>3. CASE DropKey(t)
    BY <2>3 DEF DropKey, Collecting
  <2>4. CASE Unregistered(t)
    BY <2>4 DEF Unregistered, Collecting
  <2> QED
    BY <1>9, <2>1, <2>2, <2>3, <2>4 DEF Unregister
<1>10. ASSUME NEW c \in Conn, RegisterScan(c)
       PROVE  Goal
  <2>1. PICK d \in scan[c] :
          /\ scan' = [scan EXCEPT ![c] = @ \ {d}]
          /\ ids' = [ids EXCEPT ![c] = IF d \in connections /\ SameInstance(c, d)
                                         THEN @ \cup {d} ELSE @]
    BY <1>10 DEF RegisterScan
  <2>2. step[c] = "scan" /\ UNCHANGED <<connections, op, step>>
    BY <1>10 DEF RegisterScan
  <2>3. /\ scan'[c] = scan[c] \ {d} /\ ids[c] \subseteq ids'[c]
        /\ d \in connections /\ SameInstance(c, d) => d \in ids'[c]
        /\ \A u \in Task \ {c} : scan'[u] = scan[u] /\ ids'[u] = ids[u]
    BY <2>1
  <2>4. \A b, e \in Conn : SameInstance(b, e)' = SameInstance(b, e)
    BY DEF SameInstance
  <2> HIDE DEF SameInstance
  <2> QED
    BY <2>2, <2>3, <2>4 DEF TabCollected
<1>11. ASSUME NEW c \in Conn, RegisterInsert(c)
       PROVE  Goal
  <2>1. step[c] = "evict" /\ step' = [step EXCEPT ![c] = "index"] /\ UNCHANGED op
    BY <1>11 DEF RegisterInsert
  <2>2. \A u \in Task \ {c} : op[u] = "none"
    BY <2>1, OthersRest
  <2>3. \A u \in Conn : op'[u] = "register" => step'[u] = "index"
    BY <2>1, <2>2
  <2> QED
    BY <2>3 DEF TabCollected
<1>12. ASSUME NEW c \in Conn, RegisterIndex(c) \/ Registered(c)
       PROVE  Collecting
  BY <1>12 DEF RegisterIndex, Registered, Return, Collecting
<1>13. ASSUME NEW c \in Conn, ReadyScan(c)
       PROVE  Collecting
  BY <1>13 DEF ReadyScan, Collecting
<1>14. ASSUME NEW c \in Conn, ReadyDecide(c)
       PROVE  Collecting
  BY <1>14 DEF ReadyDecide, Return, Collecting
<1>15. ASSUME NEW c \in Conn, ReadyEvict(c)
       PROVE  Collecting
  BY <1>15 DEF ReadyEvict, Remove, Collecting
<1>16. ASSUME NEW c \in Conn, ReadyDone(c) \/ Closed(c)
       PROVE  Collecting
  BY <1>16 DEF ReadyDone, Closed, Return, Collecting
<1>17. ASSUME NEW t \in Task, LoopDone(t)
       PROVE  Collecting
  BY <1>17 DEF LoopDone, Return, Collecting
<1>18. ASSUME NEW t \in Task, PruneScan(t)
       PROVE  Collecting
  BY <1>18 DEF PruneScan, Collecting
<1>19. ASSUME NEW t \in Task, SendLookup(t)
       PROVE  Collecting
  BY <1>19 DEF SendLookup, Collecting
<1>20. ASSUME NEW t \in Task, SendDeliver(t)
       PROVE  Goal
  BY <1>20 DEF SendDeliver, TabCollected, SameInstance
<1>21. CASE UNCHANGED vars
  <2>1. UNCHANGED <<connections, op, step, scan, ids>>
    BY <1>21 DEF vars
  <2> QED
    BY <1>1, <2>1 DEF Collecting
<1> HIDE RegistryAssumption DEF Goal, TypeOK, PhaseOK, registry, frame
<1>22. ASSUME NEW c \in Conn, SessionStep(c)
       PROVE  Goal
  BY <1>1, <1>10, <1>11, <1>12, <1>13, <1>14, <1>15, <1>16, <1>22 DEF SessionStep
<1>23. ASSUME NEW t \in Task, MethodStep(t)
       PROVE  Goal
  BY <1>1, <1>7, <1>8, <1>9, <1>17, <1>18, <1>19, <1>20, <1>22, <1>23 DEF MethodStep
<1> QED
  BY <1>1, <1>2, <1>3, <1>4, <1>5, <1>6, <1>21, <1>23 DEF Next

LEMMA AloneStep ==
  ASSUME Workers = 1, TypeOK, FrameOK, PhaseOK, NeverBack, KeysOK, Alone, [Next]_vars
  PROVE  Alone'
<1> DEFINE Goal == IndexOK' /\ InsertedFirst' /\ KeyEmpty' /\ OneTab'
<1>1. OneAtWork' /\ TabCollected'
  BY OneAtWorkStep, TabStep DEF Alone
<1>2. Goal
  <2>1. CASE AtIndex
    <3>1. ASSUME NEW t \in Task, DropReady(t) \/ DropIndex(t) \/ DropKey(t) \/ Unregistered(t)
          PROVE  Goal
      BY <3>1, IndexShrinks DEF Unregister
    <3>2. ASSUME NEW c \in Conn, RegisterInsert(c) \/ RegisterIndex(c) \/ Registered(c)
          PROVE  Goal
      BY <3>2, HandleComes, IndexGrows
    <3> QED
      BY <2>1, <3>1, <3>2 DEF AtIndex
  <2>2. CASE ~AtIndex /\ UNCHANGED connections
    BY <2>2, ElsewhereStep, ElsewhereKeeps
  <2>3. CASE ~AtIndex /\ connections' # connections
    <3>1. ASSUME NEW t \in Task, NEW v \in Conn, Remove(t, v), step[t] = "evict",
                 UNCHANGED <<todo, key>>
          PROVE  Goal
      <4>1. /\ v \in connections /\ connections' = connections \ {v}
            /\ target' = [target EXCEPT ![t] = v] /\ step' = [step EXCEPT ![t] = "drop_ready"]
            /\ UNCHANGED subjects
        BY <2>3, <3>1 DEF Remove
      <4> QED
        BY <3>1, <4>1, HandleGoes
    <3>2. ASSUME NEW t \in Task, EvictNext(t)
          PROVE  Goal
      <4>1. PICK v \in ids[t] : Remove(t, v)
        BY <3>2 DEF EvictNext
      <4>2. step[t] = "evict" /\ UNCHANGED <<todo, key>>
        BY <3>2 DEF EvictNext
      <4>3. v \in Conn
        BY <4>1 DEF TypeOK
      <4> QED
        BY <3>1, <4>1, <4>2, <4>3
    <3>3. ASSUME NEW c \in Conn, ReadyEvict(c)
          PROVE  Goal
      <4>1. PICK v \in ids[c] : IF v = c THEN UNCHANGED connections ELSE Remove(c, v)
        BY <3>3 DEF ReadyEvict, registry
      <4>2. step[c] = "evict" /\ UNCHANGED <<todo, key>> /\ c \in Task
        BY <3>3 DEF ReadyEvict, Task
      <4>3. v \in Conn
        BY <4>1, <4>2 DEF TypeOK
      <4> QED
        BY <2>3, <3>1, <4>1, <4>2, <4>3
    <3>4. \/ \E t \in Task : EvictNext(t)
          \/ \E c \in Conn : ReadyEvict(c)
      <4>1. ASSUME NEW c \in Conn, Register(c) \/ SessionReady(c) \/ Exit(c)
                                     \/ Alive(c) \/ GoIdle(c)
            PROVE  FALSE
        BY <2>3, <4>1 DEF Register, SessionReady, Exit, Alive, GoIdle, registry
      <4>2. ASSUME NEW t, Prune(t) \/ Send(t) \/ SendToConnection(t)
            PROVE  FALSE
        BY <2>3, <4>2 DEF Prune, Send, SendToConnection, registry
      <4>3. ASSUME NEW t, ScanDone(t) \/ LoopDone(t) \/ PruneScan(t) \/ SendLookup(t) \/ SendDeliver(t)
            PROVE  FALSE
        BY <2>3, <4>3 DEF ScanDone, LoopDone, PruneScan, SendLookup, SendDeliver, registry
      <4>4. ASSUME NEW c, RegisterScan(c) \/ ReadyScan(c) \/ ReadyDecide(c) \/ ReadyDone(c) \/ Closed(c)
            PROVE  FALSE
        BY <2>3, <4>4 DEF RegisterScan, ReadyScan, ReadyDecide, ReadyDone, Closed, registry
      <4>5. ~UNCHANGED vars
        BY <2>3 DEF vars, registry
      <4>6. PICK t \in Task : MethodStep(t)
        BY <4>1, <4>2, <4>5 DEF Next
      <4>7. EvictNext(t) \/ Unregister(t) \/ (t \in Conn /\ SessionStep(t))
        BY <4>3, <4>6 DEF MethodStep
      <4>8. ~Unregister(t)
        BY <2>3 DEF AtIndex, Unregister
      <4>9. t \in Conn /\ SessionStep(t) => ReadyEvict(t)
        BY <2>3, <4>4 DEF SessionStep, AtIndex
      <4> QED
        BY <4>7, <4>8, <4>9
    <3> QED
      BY <3>2, <3>3, <3>4
  <2> QED
    BY <2>1, <2>2, <2>3
<1> QED
  BY <1>1, <1>2 DEF Alone

LEMMA AloneInvariant ==
  ASSUME Workers = 1
  PROVE  Spec => [](TypeOK /\ PhaseOK /\ KeysOK /\ EmptyKeysDropped /\ Alone)
<1> DEFINE IInv == TypeOK /\ FrameOK /\ LimitInv /\ KeysOK /\ EmptyKeysDropped /\ Alone
<1>1. Init => IInv
  <2>1. Init => KeysOK /\ EmptyKeysDropped
    BY DEF Init, KeysOK, EmptyKeysDropped
  <2> QED
    BY <2>1, InitType, InitLimit, InitAlone
<1>2. IInv /\ [Next]_vars => IInv'
  <2> SUFFICES ASSUME IInv, [Next]_vars
               PROVE  IInv'
    OBVIOUS
  <2>1. (TypeOK /\ FrameOK)' /\ LimitInv'
    BY InvStep
  <2>2. KeysOK' /\ EmptyKeysDropped'
    BY KeysStep DEF LimitInv
  <2>3. Alone'
    BY AloneStep DEF LimitInv
  <2> QED
    BY <2>1, <2>2, <2>3
<1>3. IInv => TypeOK /\ PhaseOK /\ KeysOK /\ EmptyKeysDropped /\ Alone
  BY DEF LimitInv
<1> QED
  BY <1>1, <1>2, <1>3, PTL DEF Spec

(* The same, when no method is under way. *)
LEMMA NobodyBusy ==
  ASSUME PhaseOK, Busy = {}
  PROVE  \A t \in Task : step[t] = "rest" /\ Leaving(t) = {}
BY DEF PhaseOK, Busy, Leaving

(***************************************************************************)
(* On one worker thread, whenever no method is under way, a connection is  *)
(* found under exactly its subjects from its registration to its removal,  *)
(* and a subject nobody has is no key (state.rs:783, 797, 925).            *)
(***************************************************************************)
THEOREM IndexMatches ==
  ASSUME Workers = 1
  PROVE  Spec => []IndexExact
<1>1. TypeOK /\ PhaseOK /\ KeysOK /\ EmptyKeysDropped /\ Alone => IndexExact
  <2> SUFFICES ASSUME TypeOK, PhaseOK, KeysOK, EmptyKeysDropped, Alone, Busy = {},
                      NEW s \in Subject
               PROVE  /\ subjects[s] = {c \in connections : s \in SubjectsOf[c]}
                      /\ s \in subjectKeys <=> subjects[s] # {}
    BY DEF IndexExact
  <2>1. \A t \in Task : step[t] = "rest" /\ Leaving(t) = {}
    BY NobodyBusy
  <2>2. \A c \in Conn : Indexed(c) = SubjectsOf[c]
    BY <2>1 DEF Indexed, Task
  <2>3. \A c \in Conn : c \in subjects[s] <=> c \in connections /\ s \in SubjectsOf[c]
    BY <2>1, <2>2 DEF Alone, IndexOK
  <2>4. subjects[s] \subseteq Conn /\ connections \subseteq Conn
    BY DEF TypeOK
  <2>5. s \in subjectKeys => subjects[s] # {}
    BY <2>1 DEF EmptyKeysDropped
  <2> QED
    BY <2>3, <2>4, <2>5 DEF KeysOK
<1> QED
  BY <1>1, AloneInvariant, PTL

(***************************************************************************)
(* On one worker thread a browser tab has one connection, whenever no      *)
(* method is under way (state.rs:740-776).                                 *)
(***************************************************************************)
THEOREM OneActive ==
  ASSUME Workers = 1
  PROVE  Spec => []OneActivePerInstance
<1>1. Alone => OneActivePerInstance
  BY DEF Alone, OneTab, SameInstance, OneActivePerInstance
<1>2. Spec => []Alone
  BY AloneInvariant, PTL
<1> QED
  BY <1>1, <1>2, PTL

-----------------------------------------------------------------------------
(***************************************************************************)
(* What one worker thread makes of the lists the methods collect: nothing  *)
(* they are about changes before the method is through with them.          *)
(***************************************************************************)

(* While it scans, session_ready has collected ready connections of its    *)
(* user and will see the others; while it evicts, all but its own are on   *)
(* the list, and more than the limit stay by what it has still to evict.   *)
ListOfUser(c) ==
  /\ MaxPerUser # 0
  /\ IF step[c] = "scan"
       THEN /\ ids[c] \subseteq ReadyOf(UserOf[c])
            /\ ReadyOf(UserOf[c]) \subseteq ids[c] \cup scan[c]
       ELSE /\ ReadyOf(UserOf[c]) \subseteq ids[c] \cup {c}
            /\ Cardinality(ReadyOf(UserOf[c])) >= MaxPerUser + quota[c]

ListsExact == \A c \in Conn : op[c] = "session_ready" => ListOfUser(c)

(* The ready connections of a user and the list of one task, unchanged *)
LEMMA SameList ==
  ASSUME NEW c \in Conn, op'[c] = op[c], ReadyOf(UserOf[c])' = ReadyOf(UserOf[c]),
         UNCHANGED <<ids, scan, quota>>, step'[c] = "scan" <=> step[c] = "scan", ListOfUser(c)
  PROVE  ListOfUser(c)'
BY DEF ListOfUser

(* The ready connections of a user without one of them *)
LEMMA OneLess ==
  ASSUME TypeOK, NEW u, NEW v
  PROVE  /\ Cardinality(ReadyOf(u) \ {v}) >= Cardinality(ReadyOf(u)) - 1
         /\ Cardinality(ReadyOf(u)) \in Nat /\ Cardinality(ReadyOf(u) \ {v}) \in Nat
<1>1. ReadyOf(u) \in SUBSET Conn /\ ReadyOf(u) \ {v} \in SUBSET Conn
  BY DEF TypeOK, ReadyOf
<1>2. /\ IsFiniteSet(ReadyOf(u)) /\ Cardinality(ReadyOf(u)) \in Nat
      /\ Cardinality(ReadyOf(u) \ {v}) \in Nat
  BY <1>1, ConnFinite
<1>3. Cardinality(ReadyOf(u) \ {v})
        = IF v \in ReadyOf(u) THEN Cardinality(ReadyOf(u)) - 1 ELSE Cardinality(ReadyOf(u))
  BY <1>2, FS_RemoveElement
<1> QED
  BY <1>2, <1>3

LEMMA ListsStep ==
  ASSUME Workers = 1, TypeOK, TypeOK', FrameOK, PhaseOK, NeverBack, OneAtWork, ListsExact, [Next]_vars
  PROVE  ListsExact'
<1> DEFINE Mine(t) == t \in Conn /\ op'[t] = "session_ready" => ListOfUser(t)'
           Goal == ListsExact'
<1> SUFFICES Goal
  OBVIOUS
<1>0. Conn \subseteq Task /\ Sweeper \subseteq Task /\ Dispatcher \subseteq Task
  BY DEF Task
<1>1. ASSUME NEW t \in Task, \A u \in Task \ {t} : op'[u] = "none", Mine(t)
      PROVE  Goal
  BY <1>0, <1>1 DEF ListsExact
<1>2. ASSUME NEW t \in Task, step[t] # "rest", \A u \in Task \ {t} : op'[u] = op[u], Mine(t)
      PROVE  Goal
  BY <1>1, <1>2, OthersRest
<1>3. ASSUME NEW t \in Task, NEW method, NEW first, Call(t, method, first), Mine(t)
      PROVE  Goal
  <2>1. \A u \in Task : op[u] = "none"
    BY <1>3, NobodyAtWork DEF Call
  <2>2. op' = [op EXCEPT ![t] = method]
    BY <1>3 DEF Call
  <2> QED
    BY <1>1, <1>3, <2>1, <2>2 DEF TypeOK
<1>4. ASSUME NEW t \in Task, NEW method, NEW first, Call(t, method, first),
             method # "session_ready"
      PROVE  Goal
  <2>1. op'[t] = method
    BY <1>4 DEF Call, TypeOK
  <2> QED
    BY <1>3, <1>4, <2>1
<1>5. ASSUME NEW c \in Conn, Register(c) \/ Exit(c)
      PROVE  Goal
  BY <1>0, <1>4, <1>5 DEF Register, Exit
<1>6. ASSUME NEW t \in Task, Send(t) \/ SendToConnection(t) \/ Prune(t)
      PROVE  Goal
  BY <1>4, <1>6 DEF Send, SendToConnection, Prune
<1>8. ASSUME NEW c \in Conn, SessionReady(c)
      PROVE  Goal
  <2>1. \A u \in Task : op[u] = "none"
    BY <1>8, NobodyAtWork DEF SessionReady
  <2>2. CASE UNCHANGED op
    BY <1>0, <1>1, <2>1, <2>2
  <2>3. CASE MaxPerUser # 0 /\ Call(c, "session_ready", "scan") /\ scan' = [scan EXCEPT ![c] = Conn]
    <3>1. op'[c] = "session_ready" /\ step'[c] = "scan" /\ scan'[c] = Conn /\ ids' = ids
      BY <1>0, <1>8, <2>3 DEF Call, SessionReady, TypeOK
    <3>2. ids'[c] = {}
      BY <1>0, <2>1, <3>1 DEF PhaseOK
    <3>3. ReadyOf(UserOf[c])' \subseteq Conn
      BY DEF ReadyOf, TypeOK
    <3> QED
      BY <1>0, <1>3, <2>3, <3>1, <3>2, <3>3 DEF ListOfUser
  <2> QED
    BY <1>8, <2>2, <2>3 DEF SessionReady
<1>9. ASSUME NEW c \in Conn, Alive(c)
      PROVE  Goal
  <2>1. \A u \in Task : op[u] = "none"
    BY <1>9, NobodyAtWork DEF Alive
  <2> QED
    BY <1>0, <1>1, <1>9, <2>1 DEF Alive, frame
<1>10. ASSUME UNCHANGED <<connections, ready, frame>>
       PROVE  Goal
  <2>1. \A c \in Conn : ReadyOf(UserOf[c])' = ReadyOf(UserOf[c])
    BY <1>10 DEF ReadyOf
  <2> QED
    BY <1>10, <2>1, SameList DEF ListsExact, frame
<1>11. ASSUME NEW c \in Conn, GoIdle(c)
       PROVE  Goal
  BY <1>10, <1>11 DEF GoIdle
<1>12. CASE UNCHANGED vars
  BY <1>10, <1>12 DEF vars, registry
<1>13. ASSUME NEW t \in Task, Return(t), step[t] # "rest"
       PROVE  Goal
  BY <1>2, <1>13 DEF Return, TypeOK
<1>14. ASSUME NEW t \in Task, step[t] # "rest", UNCHANGED op, op[t] # "session_ready"
       PROVE  Goal
  BY <1>2, <1>14
<1>15. ASSUME NEW t \in Task, ScanDone(t) \/ EvictNext(t) \/ PruneScan(t)
       PROVE  Goal
  <2>1. step[t] # "rest" /\ op[t] # "session_ready" /\ UNCHANGED op
    BY <1>15 DEF ScanDone, EvictNext, PruneScan
  <2> QED
    BY <1>14, <2>1
<1>17. ASSUME NEW t \in Task, Unregister(t)
       PROVE  Goal
  <2>1. /\ step[t] \in Dropping /\ step'[t] \in {"evict"} \cup Dropping
        /\ UNCHANGED <<op, ids, scan, quota, connections, idle>>
        /\ ready' = ready \/ ready' = ready \ {target[t]}
    BY <1>17 DEF Unregister, DropReady, DropIndex, DropKey, Unregistered, Dropping, registry, TypeOK
  <2>2. target[t] \notin connections
    BY <2>1 DEF NeverBack
  <2>3. \A c \in Conn : ReadyOf(UserOf[c])' = ReadyOf(UserOf[c])
    BY <2>1, <2>2 DEF ReadyOf
  <2>4. t \in Conn /\ op'[t] = "session_ready" => ListOfUser(t)'
    BY <2>1, <2>3, SameList DEF ListsExact, Dropping
  <2> QED
    BY <1>2, <2>1, <2>4 DEF Dropping
<1>18. ASSUME NEW c \in Conn, RegisterScan(c) \/ RegisterInsert(c) \/ RegisterIndex(c) \/ Registered(c)
       PROVE  Goal
  <2>1. op[c] = "register" /\ step[c] # "rest" /\ (UNCHANGED op \/ Return(c))
    BY <1>18 DEF RegisterScan, RegisterInsert, RegisterIndex, Registered, PhaseOK
  <2> QED
    BY <1>0, <1>13, <1>14, <2>1
<1>19. ASSUME NEW c \in Conn, ReadyDone(c) \/ Closed(c)
       PROVE  Goal
  BY <1>0, <1>13, <1>19 DEF ReadyDone, Closed
<1>20. ASSUME NEW t \in Task, LoopDone(t)
       PROVE  Goal
  BY <1>13, <1>20 DEF LoopDone
<1>22. ASSUME NEW t \in Task, SendLookup(t) \/ SendDeliver(t)
       PROVE  Goal
  <2>1. step[t] \in {"lookup", "deliver"} /\ UNCHANGED op
    BY <1>22 DEF SendLookup, SendDeliver
  <2>2. t \in Conn => op[t] # "session_ready"
    BY <2>1 DEF PhaseOK, Dropping
  <2> QED
    BY <1>2, <2>1, <2>2
<1>23. ASSUME NEW c \in Conn, ReadyScan(c)
       PROVE  Goal
  <2>1. PICK d \in scan[c] :
          /\ scan' = [scan EXCEPT ![c] = @ \ {d}]
          /\ ids' = [ids EXCEPT ![c] =
                       IF d \in ready \cap connections /\ UserOf[d] = UserOf[c]
                         THEN @ \cup {d} ELSE @]
    BY <1>23 DEF ReadyScan
  <2>2. op[c] = "session_ready" /\ step[c] = "scan" /\ UNCHANGED <<op, step, connections, ready>>
    BY <1>23 DEF ReadyScan, registry
  <2>3. ReadyOf(UserOf[c])' = ReadyOf(UserOf[c]) /\ (d \in ReadyOf(UserOf[c]) <=>
          d \in ready \cap connections /\ UserOf[d] = UserOf[c])
    BY <2>2 DEF ReadyOf
  <2>4. /\ scan'[c] = scan[c] \ {d}
        /\ ids'[c] = IF d \in ReadyOf(UserOf[c]) THEN ids[c] \cup {d} ELSE ids[c]
    BY <1>0, <2>1, <2>3 DEF TypeOK
  <2> QED
    BY <1>0, <1>2, <2>2, <2>3, <2>4 DEF ListsExact, ListOfUser
<1>24. ASSUME NEW c \in Conn, ReadyDecide(c)
       PROVE  Goal
  <2>1. op[c] = "session_ready" /\ step[c] = "scan" /\ scan[c] = {} /\ UNCHANGED registry
    BY <1>24 DEF ReadyDecide
  <2>2. CASE Return(c)
    BY <1>0, <1>13, <2>1, <2>2
  <2>3. CASE /\ ~WithinLimit(ids[c]) /\ step' = [step EXCEPT ![c] = "evict"]
             /\ quota' = [quota EXCEPT ![c] = Cardinality(ids[c]) - MaxPerUser]
             /\ UNCHANGED <<op, ids>>
    <3>1. step'[c] = "evict" /\ quota'[c] = Cardinality(ids[c]) - MaxPerUser
      BY <1>0, <2>3 DEF TypeOK
    <3>2. ReadyOf(UserOf[c])' = ReadyOf(UserOf[c])
      BY <2>1 DEF ReadyOf, registry
    <3>3. ids[c] = ReadyOf(UserOf[c]) /\ MaxPerUser # 0
      BY <2>1 DEF ListsExact, ListOfUser
    <3>4. Cardinality(ids[c]) \in Nat /\ MaxPerUser \in Nat
      BY <1>0, ConnFinite, RegistryAssumption DEF TypeOK
    <3>5. Cardinality(ReadyOf(UserOf[c]))' >= MaxPerUser + quota'[c]
      BY <3>1, <3>2, <3>3, <3>4
    <3>6. ListOfUser(c)'
      BY <2>3, <3>1, <3>2, <3>3, <3>5 DEF ListOfUser
    <3> QED
      BY <1>0, <1>2, <2>1, <2>3, <3>6
  <2> QED
    BY <1>24, <2>2, <2>3 DEF ReadyDecide
<1>25. ASSUME NEW c \in Conn, ReadyEvict(c)
       PROVE  Goal
  <2>1. PICK v \in ids[c] :
          /\ ids' = [ids EXCEPT ![c] = @ \ {v}]
          /\ IF v = c
               THEN UNCHANGED <<registry, step, target, quota>>
               ELSE /\ Remove(c, v)
                    /\ quota' = [quota EXCEPT ![c] = IF v \in connections THEN @ - 1 ELSE @]
    BY <1>25 DEF ReadyEvict
  <2>2. op[c] = "session_ready" /\ step[c] = "evict" /\ UNCHANGED op /\ v \in Conn
    BY <1>0, <1>25 DEF ReadyEvict, TypeOK
  <2>3. /\ ReadyOf(UserOf[c]) \subseteq ids[c] \cup {c} /\ ids'[c] = ids[c] \ {v}
        /\ Cardinality(ReadyOf(UserOf[c])) >= MaxPerUser + quota[c] /\ MaxPerUser # 0
    BY <1>0, <2>1, <2>2 DEF ListsExact, ListOfUser, TypeOK
  <2>4. CASE v = c \/ v \notin connections
    <3>1. UNCHANGED <<connections, ready, step>> /\ quota'[c] = quota[c]
      BY <1>0, <2>1, <2>4 DEF Remove, registry, TypeOK
    <3>2. ReadyOf(UserOf[c])' = ReadyOf(UserOf[c]) /\ (v \in ReadyOf(UserOf[c]) => v = c)
      BY <2>4, <3>1 DEF ReadyOf
    <3>3. ListOfUser(c)'
      BY <2>2, <2>3, <3>1, <3>2 DEF ListOfUser
    <3> QED
      BY <1>0, <1>2, <2>2, <3>3
  <2>5. CASE v # c /\ v \in connections
    <3>1. /\ connections' = connections \ {v} /\ ready' = ready /\ step'[c] = "drop_ready"
          /\ quota'[c] = quota[c] - 1
      BY <1>0, <2>1, <2>5 DEF Remove, TypeOK
    <3>2. ReadyOf(UserOf[c])' = ReadyOf(UserOf[c]) \ {v}
      BY <3>1 DEF ReadyOf
    <3>3. /\ Cardinality(ReadyOf(UserOf[c]) \ {v}) >= Cardinality(ReadyOf(UserOf[c])) - 1
          /\ Cardinality(ReadyOf(UserOf[c])) \in Nat /\ Cardinality(ReadyOf(UserOf[c]) \ {v}) \in Nat
      BY OneLess
    <3>4. quota[c] \in Nat /\ MaxPerUser \in Nat
      BY <1>0, RegistryAssumption DEF TypeOK
    <3>5. Cardinality(ReadyOf(UserOf[c]))' >= MaxPerUser + quota'[c]
      BY <2>3, <3>1, <3>2, <3>3, <3>4
    <3>6. ListOfUser(c)'
      BY <2>3, <3>1, <3>2, <3>5 DEF ListOfUser
    <3> QED
      BY <1>0, <1>2, <2>2, <3>6
  <2> QED
    BY <2>4, <2>5
<1> HIDE DEF Goal
<1>26. ASSUME NEW c \in Conn, SessionStep(c)
       PROVE  Goal
  BY <1>18, <1>19, <1>23, <1>24, <1>25, <1>26 DEF SessionStep
<1>27. ASSUME NEW t \in Task, MethodStep(t)
       PROVE  Goal
  BY <1>15, <1>17, <1>20, <1>22, <1>26, <1>27 DEF MethodStep
<1> QED
  BY <1>0, <1>5, <1>6, <1>8, <1>9, <1>11, <1>12, <1>27 DEF Next

LEMMA ListsInvariant ==
  ASSUME Workers = 1
  PROVE  Spec => [](TypeOK /\ PhaseOK /\ OneAtWork /\ ListsExact)
<1> DEFINE IInv == TypeOK /\ FrameOK /\ LimitInv /\ OneAtWork /\ ListsExact
<1>1. Init => IInv
  <2>1. Init => OneAtWork /\ ListsExact
    BY DEF Init, OneAtWork, ListsExact, Task
  <2> QED
    BY <2>1, InitType, InitLimit
<1>2. IInv /\ [Next]_vars => IInv'
  <2> SUFFICES ASSUME IInv, [Next]_vars
               PROVE  IInv'
    OBVIOUS
  <2>1. (TypeOK /\ FrameOK)' /\ LimitInv'
    BY InvStep
  <2>2. OneAtWork'
    BY OneAtWorkStep DEF LimitInv
  <2>3. ListsExact'
    BY <2>1, ListsStep DEF LimitInv
  <2> QED
    BY <2>1, <2>2, <2>3
<1>3. IInv => TypeOK /\ PhaseOK /\ OneAtWork /\ ListsExact
  BY DEF LimitInv
<1> QED
  BY <1>1, <1>2, <1>3, PTL DEF Spec

(* The eviction session_ready is at, of a connection that is registered *)
LEMMA EvictionStep ==
  ASSUME TypeOK, PhaseOK, OneAtWork, ListsExact, [Next]_vars, connections' # connections,
         NEW c \in Conn, op[c] = "session_ready"
  PROVE  \E v \in ids[c] \cap connections :
           /\ Oldest(v, ids[c]) /\ quota[c] > 0
           /\ connections' = connections \ {v} /\ ready' = ready
           /\ ListOfUser(c) /\ step[c] = "evict"
<1>0. Conn \subseteq Task
  BY DEF Task
<1>1. ASSUME NEW b \in Conn, RegisterInsert(b)
      PROVE  FALSE
  BY <1>0, <1>1 DEF RegisterInsert, OneAtWork
<1>2. ASSUME NEW t \in Task, EvictNext(t)
      PROVE  FALSE
  BY <1>0, <1>2 DEF EvictNext, PhaseOK, OneAtWork
<1>3. PICK b \in Conn : ReadyEvict(b)
  BY <1>1, <1>2, WhoChanges
<1>4. b = c
  BY <1>0, <1>3 DEF ReadyEvict, OneAtWork
<1>5. PICK v \in ids[c] :
        /\ Oldest(v, ids[c])
        /\ IF v = c THEN UNCHANGED <<registry, step, target, quota>> ELSE Remove(c, v)
  BY <1>3, <1>4 DEF ReadyEvict
<1>6. v \in connections /\ connections' = connections \ {v} /\ ready' = ready
  BY <1>5 DEF Remove, registry
<1>7. quota[c] > 0 /\ step[c] = "evict" /\ ListOfUser(c)
  BY <1>3, <1>4 DEF ReadyEvict, ListsExact
<1> QED
  BY <1>5, <1>6, <1>7

(***************************************************************************)
(* On one worker thread session_ready evicts the oldest connections of the *)
(* user first (state.rs:856-870).                                          *)
(***************************************************************************)
THEOREM OldestEvicted ==
  ASSUME Workers = 1
  PROVE  Spec => EvictsOldest
<1>1. TypeOK /\ PhaseOK /\ OneAtWork /\ ListsExact /\ [Next]_vars =>
        [\A c \in Conn : op[c] = "session_ready" =>
           \A v \in connections \ connections' :
             \A d \in ReadyOf(UserOf[c])' \ {c} : connectedAt[v] <= connectedAt[d]]_vars
  <2> SUFFICES ASSUME TypeOK, PhaseOK, OneAtWork, ListsExact, [Next]_vars,
                      NEW c \in Conn, op[c] = "session_ready",
                      NEW v \in connections \ connections',
                      NEW d \in ReadyOf(UserOf[c])' \ {c}
               PROVE  connectedAt[v] <= connectedAt[d]
    OBVIOUS
  <2>1. PICK w \in ids[c] \cap connections :
          /\ Oldest(w, ids[c]) /\ connections' = connections \ {w} /\ ready' = ready
          /\ ListOfUser(c) /\ step[c] = "evict"
    BY EvictionStep
  <2>2. v = w
    BY <2>1
  <2>3. d \in ReadyOf(UserOf[c])
    BY <2>1 DEF ReadyOf
  <2>4. d \in ids[c]
    BY <2>1, <2>3 DEF ListOfUser
  <2> QED
    BY <2>1, <2>2, <2>4 DEF Oldest
<1> QED
  BY <1>1, ListsInvariant, PTL DEF Spec, EvictsOldest

(***************************************************************************)
(* On one worker thread an eviction by session_ready leaves the user with  *)
(* another ready connection (state.rs:864-866).                            *)
(***************************************************************************)
THEOREM OneStays ==
  ASSUME Workers = 1
  PROVE  Spec => ReplacedNotLost
<1>1. TypeOK /\ PhaseOK /\ OneAtWork /\ ListsExact /\ [Next]_vars =>
        [\A c \in Conn : op[c] = "session_ready" /\ connections' # connections
           => ReadyOf(UserOf[c])' # {}]_vars
  <2> SUFFICES ASSUME TypeOK, PhaseOK, OneAtWork, ListsExact, [Next]_vars,
                      NEW c \in Conn, op[c] = "session_ready", connections' # connections
               PROVE  ReadyOf(UserOf[c])' # {}
    OBVIOUS
  <2>1. PICK w \in ids[c] \cap connections :
          /\ quota[c] > 0 /\ connections' = connections \ {w} /\ ready' = ready
          /\ ListOfUser(c) /\ step[c] = "evict"
    BY EvictionStep
  <2>2. ReadyOf(UserOf[c])' = ReadyOf(UserOf[c]) \ {w}
    BY <2>1 DEF ReadyOf
  <2>3. /\ MaxPerUser # 0 /\ Cardinality(ReadyOf(UserOf[c])) >= MaxPerUser + quota[c]
        /\ MaxPerUser \in Nat /\ quota[c] \in Nat
    BY <2>1, RegistryAssumption DEF ListOfUser, TypeOK, Task
  <2>4. /\ Cardinality(ReadyOf(UserOf[c]) \ {w}) >= Cardinality(ReadyOf(UserOf[c])) - 1
        /\ Cardinality(ReadyOf(UserOf[c])) \in Nat /\ Cardinality(ReadyOf(UserOf[c]) \ {w}) \in Nat
    BY OneLess
  <2>5. Cardinality(ReadyOf(UserOf[c]) \ {w}) # 0
    BY <2>1, <2>3, <2>4
  <2>6. ReadyOf(UserOf[c]) \ {w} # {}
    BY <2>5, FS_EmptySet
  <2> QED
    BY <2>2, <2>6
<1> QED
  BY <1>1, ListsInvariant, PTL DEF Spec, ReplacedNotLost

-----------------------------------------------------------------------------
(***************************************************************************)
(* How long a method runs.                                                 *)
(*                                                                         *)
(* No method waits for another, and no loop over ids or subjects grows:    *)
(* each access brings the return of its method closer, whatever the        *)
(* accesses of other threads in between do to the maps.                    *)
(***************************************************************************)
Connections == Cardinality(Conn)
Keys        == Cardinality(Subject)

(* Ids an iterator has still to come to, each of which may be collected, and *)
(* ids collected; a lookup may find every connection.                        *)
ToVisit(t) ==
  IF step[t] = "lookup" THEN 3 * Connections + 1
  ELSE 2 * Cardinality(scan[t]) + Cardinality(ids[t])

(* The accesses of unregister_connection for one id: connections.remove,    *)
(* ready_connections.remove, and two for each subject.                       *)
PerVisit == 3 * Keys + 5

(* How far the method is with the id in hand *)
Within(t) ==
  CASE step[t] = "drop_ready"          -> 3 * Keys + 4
    [] step[t] = "drop_key"            -> Keys + 4 + 2 * Cardinality(todo[t])
    [] step[t] = "drop_index"          -> Keys + 3 + 2 * Cardinality(todo[t])
    [] step[t] \in {"scan", "deliver"} -> Keys + 3
    [] step[t] = "evict"               -> Keys + 2
    [] step[t] = "index"               -> Cardinality(todo[t]) + 1
    [] step[t] = "lookup"              -> Cardinality(todo[t])
    [] step[t] = "rest"                -> 0

(* At most so many accesses are left of the method t is in. *)
Left(t) == IF op[t] = "none" THEN 0 ELSE PerVisit * ToVisit(t) + Within(t) + 1

LEMMA SetsFinite ==
  /\ IsFiniteSet(Conn) /\ IsFiniteSet(Subject)
  /\ Connections \in Nat /\ Keys \in Nat /\ PerVisit \in Nat
<1>1. IsFiniteSet(Conn) /\ IsFiniteSet(Subject)
  BY ConnFinite, SubjectAssumption
<1>2. Connections \in Nat /\ Keys \in Nat
  BY <1>1, FS_CardinalityType DEF Connections, Keys
<1> QED
  BY <1>1, <1>2 DEF PerVisit

LEMMA IdsCounted ==
  ASSUME NEW S \in SUBSET Conn
  PROVE  /\ Cardinality(S) \in 0..Connections
         /\ \A d \in S : Cardinality(S \ {d}) = Cardinality(S) - 1
         /\ \A d : Cardinality(S \cup {d}) \in Cardinality(S)..(Cardinality(S) + 1)
<1>1. IsFiniteSet(S) /\ Cardinality(S) \in 0..Connections
  <2>1. IsFiniteSet(S) /\ Cardinality(S) \in Nat /\ Cardinality(S) <= Connections
    BY SetsFinite, ConnFinite, FS_Subset DEF Connections
  <2> QED
    BY <2>1, SetsFinite
<1>2. \A d \in S : Cardinality(S \ {d}) = Cardinality(S) - 1
  BY <1>1, FS_RemoveElement
<1>3. \A d : Cardinality(S \cup {d}) \in Cardinality(S)..(Cardinality(S) + 1)
  <2> TAKE d
  <2>1. Cardinality(S \cup {d}) = IF d \in S THEN Cardinality(S) ELSE Cardinality(S) + 1
    BY <1>1, FS_AddElement
  <2> QED
    BY <1>1, <2>1, SetsFinite
<1> QED
  BY <1>1, <1>2, <1>3

LEMMA SubjectsCounted ==
  ASSUME NEW S \in SUBSET Subject
  PROVE  /\ Cardinality(S) \in 0..Keys
         /\ \A s \in S : Cardinality(S \ {s}) = Cardinality(S) - 1
<1>1. IsFiniteSet(S) /\ Cardinality(S) \in Nat /\ Cardinality(S) <= Keys
  BY SetsFinite, FS_Subset, FS_CardinalityType DEF Keys
<1> QED
  BY <1>1, SetsFinite, FS_RemoveElement

Measured ==
  \A t \in Task : /\ ToVisit(t) \in 0..(3 * Connections + 1)
                  /\ Within(t) \in 0..(PerVisit - 1)

LEMMA MeasureTypes == TypeOK => Measured
<1> SUFFICES ASSUME TypeOK, NEW t \in Task
             PROVE  /\ ToVisit(t) \in 0..(3 * Connections + 1)
                    /\ Within(t) \in 0..(PerVisit - 1)
  BY DEF Measured
<1>1. /\ Cardinality(scan[t]) \in 0..Connections /\ Cardinality(ids[t]) \in 0..Connections
      /\ Cardinality(todo[t]) \in 0..Keys
  BY IdsCounted, SubjectsCounted DEF TypeOK
<1>2. step[t] \in Steps
  BY DEF TypeOK
<1>3. ToVisit(t) \in 0..(3 * Connections + 1)
  BY <1>1, SetsFinite DEF ToVisit
<1>4. Within(t) \in 0..(PerVisit - 1)
  BY <1>1, <1>2, SetsFinite DEF Within, PerVisit, Steps
<1> QED
  BY <1>3, <1>4

(* Few visits count more than what is within one. *)
LEMMA Weighted ==
  ASSUME NEW w \in Nat, NEW a \in Nat, NEW b \in Nat, NEW x \in 0..(w - 1), NEW y \in 0..(w - 1),
         b < a \/ (b = a /\ y < x)
  PROVE  w * b + y < w * a + x
<1>1. CASE b = a /\ y < x
  BY <1>1
<1>2. CASE b < a
  <2>1. PICK k \in Nat : a = b + 1 + k
    <3>1. a - b - 1 \in Nat /\ a = b + 1 + (a - b - 1)
      BY <1>2
    <3> QED
      BY <3>1
  <2>2. w * a = w * b + w + w * k
    BY <2>1
  <2>3. w * k \in Nat /\ w * b \in Nat
    OBVIOUS
  <2> QED
    BY <2>2, <2>3
<1> QED
  BY <1>1, <1>2

(* A method that returns or has less to visit, or to do with one id *)
Nearer(t) ==
  \/ op'[t] = "none"
  \/ ToVisit(t)' < ToVisit(t)
  \/ ToVisit(t)' = ToVisit(t) /\ Within(t)' < Within(t)

LEMMA LessLeft ==
  ASSUME TypeOK, TypeOK', NEW t \in Task, op[t] # "none", Nearer(t)
  PROVE  Left(t)' < Left(t)
<1>1. /\ ToVisit(t) \in Nat /\ Within(t) \in 0..(PerVisit - 1)
      /\ ToVisit(t)' \in Nat /\ Within(t)' \in 0..(PerVisit - 1)
  <2>1. Measured
    BY MeasureTypes
  <2>2. Measured'
    BY MeasureTypes, PTL
  <2> QED
    BY <2>1, <2>2, SetsFinite DEF Measured
<1>2. PerVisit * ToVisit(t) \in Nat /\ PerVisit * ToVisit(t)' \in Nat
  BY <1>1, SetsFinite
<1>3. CASE op'[t] = "none"
  BY <1>1, <1>2, <1>3, SetsFinite DEF Left
<1>4. CASE op'[t] # "none"
  <2>1. PerVisit * ToVisit(t)' + Within(t)' < PerVisit * ToVisit(t) + Within(t)
    BY <1>1, <1>4, SetsFinite, Weighted DEF Nearer
  <2> QED
    BY <1>1, <1>2, <1>4, <2>1 DEF Left
<1> QED
  BY <1>3, <1>4

(* A loop over ids goes on, perhaps collecting one. *)
LEMMA VisitOne ==
  ASSUME TypeOK, NEW t \in Task, step[t] # "lookup", step'[t] = step[t],
         NEW d \in scan[t], scan'[t] = scan[t] \ {d}, ids'[t] \in {ids[t], ids[t] \cup {d}}
  PROVE  Nearer(t)
<1>1. /\ scan[t] \in SUBSET Conn /\ ids[t] \in SUBSET Conn
  BY DEF TypeOK
<1>2. /\ Cardinality(scan[t]) \in Nat /\ Cardinality(scan'[t]) = Cardinality(scan[t]) - 1
  BY <1>1, IdsCounted
<1>3. Cardinality(ids[t]) \in Nat /\ Cardinality(ids'[t]) \in Cardinality(ids[t])..(Cardinality(ids[t]) + 1)
  <2>1. /\ Cardinality(ids[t]) \in 0..Connections
        /\ Cardinality(ids[t] \cup {d}) \in Cardinality(ids[t])..(Cardinality(ids[t]) + 1)
    BY <1>1, IdsCounted
  <2>2. Cardinality(ids[t]) \in Cardinality(ids[t])..(Cardinality(ids[t]) + 1)
    BY <2>1, SetsFinite
  <2>3. ids'[t] = ids[t] \/ ids'[t] = ids[t] \cup {d}
    OBVIOUS
  <2> QED
    BY <2>1, <2>2, <2>3, SetsFinite
<1>4. ToVisit(t)' < ToVisit(t)
  BY <1>2, <1>3 DEF ToVisit
<1> QED
  BY <1>4 DEF Nearer

(* A loop over collected ids takes the next one. *)
LEMMA TakeOne ==
  ASSUME TypeOK, NEW t \in Task, step[t] = "evict", step'[t] # "lookup",
         NEW d \in ids[t], ids'[t] = ids[t] \ {d}, scan'[t] = scan[t]
  PROVE  Nearer(t)
<1>1. scan[t] \in SUBSET Conn /\ ids[t] \in SUBSET Conn
  BY DEF TypeOK
<1>2. Cardinality(ids[t]) \in Nat /\ Cardinality(ids'[t]) = Cardinality(ids[t]) - 1
  BY <1>1, IdsCounted
<1>3. Cardinality(scan[t]) \in Nat
  BY <1>1, IdsCounted
<1>4. ToVisit(t)' < ToVisit(t)
  BY <1>2, <1>3 DEF ToVisit
<1> QED
  BY <1>4 DEF Nearer

(* The method goes on with the id in hand. *)
LEMMA GoOn ==
  ASSUME NEW t \in Task, step[t] # "lookup", step'[t] # "lookup",
         scan'[t] = scan[t], ids'[t] = ids[t], Within(t)' < Within(t)
  PROVE  Nearer(t)
BY DEF Nearer, ToVisit

LEMMA UnregisterNearer ==
  ASSUME TypeOK, FrameOK, NEW t \in Task, Unregister(t)
  PROVE  Nearer(t)
<1>1. todo[t] \in SUBSET Subject /\ Keys \in Nat
  BY SetsFinite DEF TypeOK
<1>2. Cardinality(todo[t]) \in 0..Keys
  BY <1>1, SubjectsCounted
<1>3. CASE DropReady(t)
  <2>1. target[t] \in Conn
    BY <1>3 DEF DropReady, FrameOK, Dropping
  <2>2. SubjectsOf[target[t]] \in SUBSET Subject
    BY <2>1, RegistryAssumption
  <2>3. Cardinality(SubjectsOf[target[t]]) \in 0..Keys
    BY <2>2, SubjectsCounted
  <2>4. /\ step[t] = "drop_ready" /\ step'[t] = "drop_index" /\ todo'[t] = SubjectsOf[target[t]]
        /\ scan'[t] = scan[t] /\ ids'[t] = ids[t]
    BY <1>3 DEF DropReady, TypeOK
  <2>5. Within(t)' < Within(t)
    BY <1>1, <2>3, <2>4 DEF Within
  <2> QED
    BY <2>4, <2>5, GoOn
<1>4. CASE DropIndex(t)
  <2>1. PICK s \in todo[t] :
          todo'[t] = todo[t] \ {s} /\ step'[t] \in {"drop_index", "drop_key"}
    BY <1>4 DEF DropIndex, TypeOK
  <2>2. step[t] = "drop_index" /\ scan'[t] = scan[t] /\ ids'[t] = ids[t]
    BY <1>4 DEF DropIndex
  <2>3. Cardinality(todo'[t]) = Cardinality(todo[t]) - 1
    BY <1>1, <2>1, SubjectsCounted
  <2>4. Within(t)' < Within(t)
    BY <1>1, <1>2, <2>1, <2>2, <2>3 DEF Within
  <2> QED
    BY <2>1, <2>2, <2>4, GoOn
<1>5. CASE DropKey(t)
  <2>1. /\ step[t] = "drop_key" /\ step'[t] = "drop_index" /\ todo'[t] = todo[t]
        /\ scan'[t] = scan[t] /\ ids'[t] = ids[t]
    BY <1>5 DEF DropKey, TypeOK
  <2>2. Within(t)' < Within(t)
    BY <1>1, <1>2, <2>1 DEF Within
  <2> QED
    BY <2>1, <2>2, GoOn
<1>6. CASE Unregistered(t)
  <2>1. /\ step[t] = "drop_index" /\ step'[t] = "evict"
        /\ scan'[t] = scan[t] /\ ids'[t] = ids[t]
    BY <1>6 DEF Unregistered, TypeOK
  <2>2. Within(t)' < Within(t)
    BY <1>1, <1>2, <2>1 DEF Within
  <2> QED
    BY <2>1, <2>2, GoOn
<1> QED
  BY <1>3, <1>4, <1>5, <1>6 DEF Unregister

LEMMA SessionNearer ==
  ASSUME TypeOK, FrameOK, PhaseOK, NEW c \in Conn, SessionStep(c)
  PROVE  Nearer(c)
<1>t. c \in Task
  BY DEF Task
<1>1. todo[c] \in SUBSET Subject /\ Keys \in Nat
  BY <1>t, SetsFinite DEF TypeOK
<1>2. Cardinality(todo[c]) \in 0..Keys
  BY <1>1, SubjectsCounted
<1>3. CASE RegisterScan(c)
  <2>1. PICK d \in scan[c] : scan'[c] = scan[c] \ {d} /\ ids'[c] \in {ids[c], ids[c] \cup {d}}
    BY <1>t, <1>3 DEF RegisterScan, TypeOK
  <2>2. step[c] = "scan" /\ step'[c] = step[c]
    BY <1>3 DEF RegisterScan
  <2> QED
    BY <1>t, <2>1, <2>2, VisitOne
<1>4. CASE RegisterInsert(c)
  <2>1. SubjectsOf[c] \in SUBSET Subject
    BY RegistryAssumption
  <2>2. Cardinality(SubjectsOf[c]) \in 0..Keys
    BY <2>1, SubjectsCounted
  <2>3. /\ step[c] = "evict" /\ step'[c] = "index" /\ todo'[c] = SubjectsOf[c]
        /\ scan'[c] = scan[c] /\ ids'[c] = ids[c]
    BY <1>t, <1>4 DEF RegisterInsert, TypeOK
  <2>4. Within(c)' < Within(c)
    BY <1>1, <2>2, <2>3 DEF Within
  <2> QED
    BY <1>t, <2>3, <2>4, GoOn
<1>5. CASE RegisterIndex(c)
  <2>1. PICK s \in todo[c] : todo'[c] = todo[c] \ {s}
    BY <1>t, <1>5 DEF RegisterIndex, TypeOK
  <2>2. step[c] = "index" /\ step'[c] = step[c] /\ scan'[c] = scan[c] /\ ids'[c] = ids[c]
    BY <1>5 DEF RegisterIndex
  <2>3. Cardinality(todo'[c]) = Cardinality(todo[c]) - 1
    BY <1>1, <2>1, SubjectsCounted
  <2>4. Within(c)' < Within(c)
    BY <1>1, <1>2, <2>2, <2>3 DEF Within
  <2> QED
    BY <1>t, <2>2, <2>4, GoOn
<1>6. CASE Registered(c) \/ ReadyDone(c) \/ Closed(c)
  <2>1. op'[c] = "none"
    BY <1>t, <1>6 DEF Registered, ReadyDone, Closed, Return, TypeOK
  <2> QED
    BY <2>1 DEF Nearer
<1>7. CASE ReadyScan(c)
  <2>1. PICK d \in scan[c] : scan'[c] = scan[c] \ {d} /\ ids'[c] \in {ids[c], ids[c] \cup {d}}
    BY <1>t, <1>7 DEF ReadyScan, TypeOK
  <2>2. step[c] = "scan" /\ step'[c] = step[c]
    BY <1>7 DEF ReadyScan
  <2> QED
    BY <1>t, <2>1, <2>2, VisitOne
<1>8. CASE ReadyDecide(c)
  <2>1. CASE WithinLimit(ids[c])
    <3>1. op'[c] = "none"
      BY <1>t, <1>8, <2>1 DEF ReadyDecide, Return, TypeOK
    <3> QED
      BY <3>1 DEF Nearer
  <2>2. CASE ~WithinLimit(ids[c])
    <3>1. step[c] = "scan" /\ step'[c] = "evict" /\ scan'[c] = scan[c] /\ ids'[c] = ids[c]
      BY <1>t, <1>8, <2>2 DEF ReadyDecide, TypeOK
    <3>2. Within(c)' < Within(c)
      BY <1>1, <3>1 DEF Within
    <3> QED
      BY <1>t, <3>1, <3>2, GoOn
  <2> QED
    BY <2>1, <2>2
<1>9. CASE ReadyEvict(c)
  <2>1. PICK v \in ids[c] :
          /\ ids' = [ids EXCEPT ![c] = @ \ {v}]
          /\ UNCHANGED step \/ Remove(c, v)
    BY <1>9 DEF ReadyEvict
  <2>2. step'[c] \in {step[c], "drop_ready"}
    BY <1>t, <2>1 DEF Remove, TypeOK
  <2>3. step[c] = "evict" /\ scan'[c] = scan[c] /\ ids'[c] = ids[c] \ {v}
    BY <1>t, <1>9, <2>1 DEF ReadyEvict, TypeOK
  <2> QED
    BY <1>t, <2>2, <2>3, TakeOne
<1> QED
  BY <1>3, <1>4, <1>5, <1>6, <1>7, <1>8, <1>9 DEF SessionStep

LEMMA MethodNearer ==
  ASSUME TypeOK, FrameOK, PhaseOK, NEW t \in Task, MethodStep(t)
  PROVE  Nearer(t)
<1>1. todo[t] \in SUBSET Subject /\ Keys \in Nat /\ Connections \in Nat
  BY SetsFinite DEF TypeOK
<1>2. Cardinality(todo[t]) \in 0..Keys
  BY <1>1, SubjectsCounted
<1>3. CASE ScanDone(t)
  <2>1. /\ step[t] \in {"scan", "deliver"} /\ step'[t] = "evict"
        /\ scan'[t] = scan[t] /\ ids'[t] = ids[t]
    BY <1>3 DEF ScanDone, TypeOK
  <2>2. Within(t)' < Within(t)
    BY <1>1, <2>1 DEF Within
  <2> QED
    BY <2>1, <2>2, GoOn
<1>4. CASE EvictNext(t)
  <2>1. PICK v \in ids[t] : ids' = [ids EXCEPT ![t] = @ \ {v}] /\ Remove(t, v)
    BY <1>4 DEF EvictNext
  <2>2. step'[t] \in {step[t], "drop_ready"}
    BY <2>1 DEF Remove, TypeOK
  <2>3. step[t] = "evict" /\ scan'[t] = scan[t] /\ ids'[t] = ids[t] \ {v}
    BY <1>4, <2>1 DEF EvictNext, TypeOK
  <2> QED
    BY <2>2, <2>3, TakeOne
<1>5. CASE LoopDone(t)
  <2>1. op'[t] = "none"
    BY <1>5 DEF LoopDone, Return, TypeOK
  <2> QED
    BY <2>1 DEF Nearer
<1>6. CASE PruneScan(t) \/ SendDeliver(t)
  <2>1. /\ step[t] \in {"scan", "deliver"} /\ step'[t] = step[t]
        /\ \E d \in scan[t] : scan'[t] = scan[t] \ {d} /\ ids'[t] \in {ids[t], ids[t] \cup {d}}
    <3>1. CASE PruneScan(t)
      BY <3>1 DEF PruneScan, TypeOK
    <3>2. CASE SendDeliver(t)
      BY <3>2 DEF SendDeliver, TypeOK
    <3> QED
      BY <1>6, <3>1, <3>2
  <2> QED
    BY <2>1, VisitOne
<1>7. CASE SendLookup(t)
  <2>1. PICK s \in todo[t] :
          /\ todo'[t] = todo[t] \ {s} /\ scan'[t] = scan[t] \cup subjects[s]
          /\ step'[t] \in {"lookup", "deliver"}
    BY <1>7 DEF SendLookup, TypeOK
  <2>2. step[t] = "lookup" /\ ids'[t] = ids[t]
    BY <1>7 DEF SendLookup
  <2>3. CASE step'[t] = "lookup"
    <3>1. Cardinality(todo'[t]) = Cardinality(todo[t]) - 1
      BY <1>1, <2>1, SubjectsCounted
    <3>2. ToVisit(t)' = ToVisit(t) /\ Within(t)' < Within(t)
      BY <1>2, <2>2, <2>3, <3>1 DEF ToVisit, Within, Connections
    <3> QED
      BY <3>2 DEF Nearer
  <2>4. CASE step'[t] = "deliver"
    <3>1. scan'[t] \in SUBSET Conn /\ ids'[t] \in SUBSET Conn
      BY <2>1, <2>2 DEF TypeOK
    <3>2. Cardinality(scan'[t]) \in 0..Connections /\ Cardinality(ids'[t]) \in 0..Connections
      BY <3>1, IdsCounted
    <3>3. ToVisit(t)' < ToVisit(t)
      BY <1>1, <2>2, <2>4, <3>2 DEF ToVisit
    <3> QED
      BY <3>3 DEF Nearer
  <2> QED
    BY <2>1, <2>3, <2>4
<1> QED
  BY <1>3, <1>4, <1>5, <1>6, <1>7, UnregisterNearer, SessionNearer DEF MethodStep

(* A method rests while others run: only its own accesses change its frame. *)
LEMMA OthersLeft ==
  ASSUME TypeOK, [Next]_vars, NEW t \in Task, op[t] # "none", ~MethodStep(t)
  PROVE  Left(t)' = Left(t)
<1> DEFINE Same == /\ op'[t] = op[t] /\ step'[t] = step[t] /\ scan'[t] = scan[t]
                   /\ ids'[t] = ids[t] /\ todo'[t] = todo[t]
<1>0. Conn \subseteq Task /\ Sweeper \subseteq Task /\ Dispatcher \subseteq Task
  BY DEF Task
<1>1. Same => Left(t)' = Left(t)
  BY DEF Left, ToVisit, Within
<1> SUFFICES Same
  BY <1>1
<1> USE <1>0 DEF TypeOK, frame
<1>2. ASSUME NEW c \in Conn, Register(c)
      PROVE  Same
  BY <1>2 DEF Register, Call
<1>3. ASSUME NEW c \in Conn, SessionReady(c)
      PROVE  Same
  <2>1. /\ op[c] = "none" /\ UNCHANGED <<ids, todo>>
        /\ \/ UNCHANGED <<op, step, scan>>
           \/ /\ op' = [op EXCEPT ![c] = "session_ready"] /\ step' = [step EXCEPT ![c] = "scan"]
              /\ scan' = [scan EXCEPT ![c] = Conn]
    BY <1>3 DEF SessionReady, Call
  <2> QED
    BY <2>1
<1>4. ASSUME NEW c \in Conn, Exit(c)
      PROVE  Same
  BY <1>4 DEF Exit, Call
<1>6. ASSUME NEW c \in Conn, Alive(c) \/ GoIdle(c)
      PROVE  Same
  BY <1>6 DEF Alive, GoIdle
<1>7. ASSUME NEW u \in Sweeper, Prune(u)
      PROVE  Same
  BY <1>7 DEF Prune, Call
<1>8. ASSUME NEW u \in Dispatcher, Send(u)
      PROVE  Same
  BY <1>8 DEF Send, Call
<1>9. ASSUME NEW u \in Dispatcher, SendToConnection(u)
      PROVE  Same
  BY <1>9 DEF SendToConnection, Call
<1>10. ASSUME NEW u \in Task, u # t, ScanDone(u) \/ LoopDone(u) \/ PruneScan(u) \/ SendDeliver(u)
       PROVE  Same
  BY <1>10 DEF ScanDone, LoopDone, PruneScan, SendDeliver, Return
<1>11. ASSUME NEW u \in Task, u # t, SendLookup(u)
       PROVE  Same
  BY <1>11 DEF SendLookup
<1>12. ASSUME NEW u \in Task, u # t, EvictNext(u)
       PROVE  Same
  BY <1>12 DEF EvictNext, Remove
<1>13. ASSUME NEW u \in Task, u # t, Unregister(u)
       PROVE  Same
  BY <1>13 DEF Unregister, DropReady, DropIndex, DropKey, Unregistered
<1>14. ASSUME NEW c \in Conn, c # t, RegisterScan(c) \/ RegisterInsert(c) \/ RegisterIndex(c) \/ Registered(c)
       PROVE  Same
  BY <1>14 DEF RegisterScan, RegisterInsert, RegisterIndex, Registered, Return
<1>15. ASSUME NEW c \in Conn, c # t, ReadyScan(c) \/ ReadyDone(c) \/ Closed(c)
       PROVE  Same
  BY <1>15 DEF ReadyScan, ReadyDone, Closed, Return
<1>16. ASSUME NEW c \in Conn, c # t, ReadyDecide(c)
       PROVE  Same
  <2>1. CASE WithinLimit(ids[c])
    BY <1>16, <2>1 DEF ReadyDecide, Return
  <2>2. CASE ~WithinLimit(ids[c])
    BY <1>16, <2>2 DEF ReadyDecide
  <2> QED
    BY <2>1, <2>2
<1>17. ASSUME NEW c \in Conn, c # t, ReadyEvict(c)
       PROVE  Same
  BY <1>17 DEF ReadyEvict, Remove
<1>18. CASE UNCHANGED vars
  BY <1>18 DEF vars
<1> HIDE DEF Same
<1>19. ASSUME NEW u \in Task, MethodStep(u)
       PROVE  Same
  <2>1. u # t
    BY <1>19
  <2>2. CASE u \in Conn /\ SessionStep(u)
    BY <1>14, <1>15, <1>16, <1>17, <2>1, <2>2 DEF SessionStep
  <2> QED
    BY <1>10, <1>11, <1>12, <1>13, <1>19, <2>1, <2>2 DEF MethodStep
<1> QED
  BY <1>2, <1>3, <1>4, <1>6, <1>7, <1>8, <1>9, <1>18, <1>19 DEF Next

(* Nobody is ever further from the return than the longest method is from it. *)
LeftBounded == \A t \in Task : Left(t) \in 0..(PerVisit * (3 * Connections + 2))

(* Each access of a method brings its return closer, and nothing else puts it off. *)
ReturnsNearer ==
  [][\A t \in Task : op[t] # "none" =>
       Left(t)' <= Left(t) /\ (MethodStep(t) => Left(t)' < Left(t))]_vars

(***************************************************************************)
(* Whatever the threads do to the maps between its accesses, a method is   *)
(* through after at most PerVisit * (3 * Connections + 2) of its own: it   *)
(* waits for nobody, visits what an iterator finds once, and evicts what   *)
(* it has collected once, also where others have evicted it before         *)
(* (state.rs:797, 860, 925, 1007).                                         *)
(***************************************************************************)
THEOREM MethodsEnd == Spec => []LeftBounded /\ ReturnsNearer
<1> DEFINE IInv == TypeOK /\ FrameOK /\ LimitInv
           Near == \A t \in Task : op[t] # "none" =>
                     Left(t)' <= Left(t) /\ (MethodStep(t) => Left(t)' < Left(t))
<1>1. Init => IInv
  BY InitType, InitLimit
<1>2. IInv /\ [Next]_vars => IInv'
  BY InvStep
<1>3. TypeOK => Measured /\ LeftBounded
  <2> SUFFICES ASSUME TypeOK, NEW t \in Task
               PROVE  Left(t) \in 0..(PerVisit * (3 * Connections + 2))
    BY MeasureTypes DEF LeftBounded
  <2>1. /\ ToVisit(t) \in Nat /\ ToVisit(t) <= 3 * Connections + 1
        /\ Within(t) \in 0..(PerVisit - 1) /\ PerVisit \in Nat /\ Connections \in Nat
    BY MeasureTypes, SetsFinite DEF Measured
  <2>2. PerVisit * ToVisit(t) <= PerVisit * (3 * Connections + 1)
    <3>1. PICK k \in Nat : 3 * Connections + 1 = ToVisit(t) + k
      <4>1. 3 * Connections + 1 - ToVisit(t) \in Nat
        BY <2>1
      <4> QED
        BY <2>1, <4>1
    <3>2. PerVisit * (ToVisit(t) + k) = PerVisit * ToVisit(t) + PerVisit * k
      BY <2>1
    <3>3. PerVisit * k \in Nat /\ PerVisit * ToVisit(t) \in Nat
      BY <2>1
    <3> QED
      BY <3>1, <3>2, <3>3
  <2>3. PerVisit * (3 * Connections + 2) = PerVisit * (3 * Connections + 1) + PerVisit
    BY <2>1
  <2>4. PerVisit * ToVisit(t) \in Nat /\ PerVisit * (3 * Connections + 1) \in Nat
    BY <2>1
  <2> QED
    BY <2>1, <2>2, <2>3, <2>4 DEF Left
<1>4. TypeOK /\ TypeOK' /\ FrameOK /\ PhaseOK /\ [Next]_vars => Near
  <2> SUFFICES ASSUME TypeOK, TypeOK', FrameOK, PhaseOK, [Next]_vars, NEW t \in Task, op[t] # "none"
               PROVE  Left(t)' <= Left(t) /\ (MethodStep(t) => Left(t)' < Left(t))
    OBVIOUS
  <2>1. LeftBounded /\ LeftBounded'
    <3>1. LeftBounded
      BY <1>3
    <3>2. LeftBounded'
      BY <1>3, PTL
    <3> QED
      BY <3>1, <3>2
  <2>2. PerVisit * (3 * Connections + 2) \in Nat
    BY SetsFinite
  <2>3. Left(t) \in Nat /\ Left(t)' \in Nat
    BY <2>1, <2>2 DEF LeftBounded
  <2>4. CASE MethodStep(t)
    BY <2>3, <2>4, MethodNearer, LessLeft
  <2>5. CASE ~MethodStep(t)
    BY <2>3, <2>5, OthersLeft
  <2> QED
    BY <2>4, <2>5
<1>5. IInv => TypeOK /\ FrameOK /\ PhaseOK /\ LeftBounded
  BY <1>3 DEF LimitInv
<1>6. [Near]_vars => [\A t \in Task : op[t] # "none" =>
        Left(t)' <= Left(t) /\ (MethodStep(t) => Left(t)' < Left(t))]_vars
  OBVIOUS
<1>7. IInv /\ IInv' /\ [Next]_vars => Near
  BY <1>4, <1>5
<1> HIDE DEF Near, IInv
<1> QED
  BY <1>1, <1>2, <1>5, <1>6, <1>7, PTL DEF Spec, ReturnsNearer
=============================================================================
