------------------------ MODULE OutboxConsumer_proofs ------------------------
(***************************************************************************)
(* Proofs about OutboxConsumer, for every size of batches and any number   *)
(* of entries, failures and restarts:                                      *)
(*                                                                         *)
(*   TypeCorrect         Spec => []TypeOK                                  *)
(*   DeletesDispatched   Spec => []DeletedDispatched                       *)
(*   ImplementsFeed      Spec => FeedSpec                                  *)
(*                                                                         *)
(* The inductive invariant says where the position is: nothing handled is  *)
(* behind it, and the batch in hand goes on from it without a gap.         *)
(***************************************************************************)
EXTENDS OutboxConsumer, FiniteSetTheorems, TLAPS

(* Nothing after the position has been handled. *)
HandledSeen ==
  \A i \in DOMAIN handled : lastId # Latest => handled[i] <= lastId

(* The batch has no gap, and none before it, or is the first thing seen. *)
BatchFollows ==
  \A i \in DOMAIN batch :
    /\ batch[i] = batch[1] + i - 1
    /\ lastId # Latest => batch[1] = lastId + 1
    /\ lastId = Latest => \A j \in DOMAIN handled : handled[j] < batch[1]

(* Who waits with a position waits at the end. *)
BlockedAtEnd ==
  consumer = "blocked" /\ lastId # Latest => lastId = Len(stream)

(* What is about to be deleted has been dispatched. *)
DeletesCurrent ==
  consumer = "delete" => lastId \in Range(handled) /\ stream[lastId] = Push

Inv ==
  TypeOK /\ HandledSeen /\ BatchFollows /\ BlockedAtEnd /\ DeletesCurrent /\ DeletedDispatched

-----------------------------------------------------------------------------
(* An answer of Redis *)

LEMMA FirstsOfInterval ==
  ASSUME NEW a \in Nat, NEW m \in Nat, NEW most \in Nat \ {0},
         NEW b \in Firsts((a + 1)..m, most)
  PROVE  /\ b \in Seq((a + 1)..m) /\ Len(b) <= most
         /\ \A i \in DOMAIN b : b[i] = a + i
         /\ b = <<>> => m <= a
<1> DEFINE S == (a + 1)..m
           size == IF Cardinality(S) < most THEN Cardinality(S) ELSE most
<1>1. Cardinality(S) = IF a + 1 > m THEN 0 ELSE m - a
  BY FS_Interval
<1>2. size \in Nat /\ size <= most /\ (size = 0 => m <= a)
  BY <1>1
<1>3. b \in [1..size -> S]
  BY DEF Firsts
<1>4. b \in Seq(S) /\ Len(b) = size /\ DOMAIN b = 1..size
  BY <1>2, <1>3
<1>5. ASSUME NEW i \in 1..size
      PROVE  b[i] = a + i
  <2>1. b[i] \in S
    BY <1>3
  <2>2. {n \in S : n < b[i]} = (a + 1)..(b[i] - 1)
    BY <2>1
  <2>3. a + 1 \in Int /\ b[i] - 1 \in Int /\ a + 1 <= b[i] /\ b[i] \in Int
    BY <2>1
  <2>4. Cardinality((a + 1)..(b[i] - 1))
          = IF a + 1 > b[i] - 1 THEN 0 ELSE b[i] - 1 - (a + 1) + 1
    BY <2>3, FS_Interval
  <2>5. Cardinality({n \in S : n < b[i]}) = i - 1
    BY <1>4 DEF Firsts
  <2>6. Cardinality((a + 1)..(b[i] - 1)) = i - 1
    BY <2>2, <2>5
  <2> HIDE DEF S, size
  <2> QED
    BY <2>3, <2>4, <2>6
<1> QED
  BY <1>2, <1>4, <1>5

(* Range and the sequence of handled ids *)
LEMMA AppendRange ==
  ASSUME NEW S, NEW s \in Seq(S), NEW e \in S
  PROVE  /\ Append(s, e) \in Seq(S)
         /\ \A i \in DOMAIN Append(s, e) :
              (i \in DOMAIN s /\ Append(s, e)[i] = s[i]) \/ Append(s, e)[i] = e
         /\ Range(s) \subseteq Range(Append(s, e)) /\ e \in Range(Append(s, e))
<1>1. /\ Append(s, e) \in Seq(S)
      /\ DOMAIN s = 1..Len(s) /\ Len(s) \in Nat
      /\ DOMAIN Append(s, e) = 1..(Len(s) + 1)
      /\ \A i \in 1..Len(s) : Append(s, e)[i] = s[i]
      /\ Append(s, e)[Len(s) + 1] = e
  OBVIOUS
<1>2. \A i \in 1..(Len(s) + 1) : i \in 1..Len(s) \/ i = Len(s) + 1
  BY <1>1
<1>3. Range(s) \subseteq Range(Append(s, e)) /\ e \in Range(Append(s, e))
  BY <1>1 DEF Range
<1> QED
  BY <1>1, <1>2, <1>3

-----------------------------------------------------------------------------
(* The invariant *)

LEMMA Empty == \A S : <<>> \in Seq(S) /\ Len(<<>>) = 0 /\ DOMAIN <<>> = {}
OBVIOUS

LEMMA WiderSeq ==
  ASSUME NEW S, NEW T, S \subseteq T, NEW s \in Seq(S)
  PROVE  s \in Seq(T)
<1>1. Len(s) \in Nat /\ s \in [1..Len(s) -> T]
  OBVIOUS
<1> QED
  BY <1>1

LEMMA Bounds ==
  /\ Count \in Nat \ {0} /\ Latest \notin Nat
  /\ MaxEntries \in Nat /\ MaxFailures \in Nat /\ MaxRestarts \in Nat
BY OutboxAssumption

LEMMA InitInv == Init => Inv
<1> SUFFICES ASSUME Init
             PROVE  Inv
  OBVIOUS
<1>1. TypeOK
  <2>1. stream \in Seq(Kinds) /\ Len(stream) <= MaxEntries
    BY Empty, Bounds DEF Init
  <2>2. batch \in Seq(DOMAIN stream) /\ Len(batch) <= Count /\ handled \in Seq(DOMAIN stream)
    BY Empty, Bounds DEF Init
  <2>3. failures \in 0..MaxFailures /\ restarts \in 0..MaxRestarts
    BY Bounds DEF Init
  <2> QED
    BY <2>1, <2>2, <2>3 DEF Init, TypeOK
<1>2. HandledSeen /\ BatchFollows
  BY Empty DEF Init, HandledSeen, BatchFollows
<1>3. BlockedAtEnd /\ DeletesCurrent /\ DeletedDispatched
  BY DEF Init, BlockedAtEnd, DeletesCurrent, DeletedDispatched
<1> QED
  BY <1>1, <1>2, <1>3 DEF Inv

LEMMA NextInv == Inv /\ [Next]_vars => Inv'
<1> SUFFICES ASSUME Inv, [Next]_vars
             PROVE  Inv'
  OBVIOUS
<1> USE Bounds
    DEF Inv, TypeOK, HandledSeen, BatchFollows, BlockedAtEnd, DeletesCurrent, DeletedDispatched,
        bounds
<1>1. ASSUME NEW k \in Kinds, Add(k)
      PROVE  Inv'
  <2>1. /\ stream' \in Seq(Kinds) /\ Len(stream') = Len(stream) + 1
        /\ DOMAIN stream = 1..Len(stream) /\ DOMAIN stream' = 1..(Len(stream) + 1)
        /\ \A n \in DOMAIN stream : stream'[n] = stream[n]
        /\ Len(stream) \in Nat
    BY <1>1 DEF Add
  <2>2. batch' \in Seq(DOMAIN stream') /\ handled' \in Seq(DOMAIN stream')
    <3>1. DOMAIN stream \subseteq DOMAIN stream' /\ Len(stream) + 1 \in DOMAIN stream'
      BY <2>1
    <3>2. batch \in Seq(DOMAIN stream') /\ handled \in Seq(DOMAIN stream')
      BY <3>1, WiderSeq
    <3>3. <<Len(stream) + 1>> \in Seq(DOMAIN stream')
      BY <3>1
    <3> QED
      BY <1>1, <3>2, <3>3 DEF Add
  <2>3. \A j \in DOMAIN handled : handled[j] \in DOMAIN stream
    OBVIOUS
  <2>4. CASE consumer = "blocked"
    <3>1. /\ batch' = <<Len(stream) + 1>> /\ DOMAIN batch' = {1}
          /\ batch'[1] = Len(stream) + 1 /\ Len(batch') = 1 /\ batch' # <<>>
      <4>1. batch' = <<Len(stream) + 1>>
        BY <1>1, <2>4 DEF Add
      <4>2. \A n : DOMAIN <<n>> = {1} /\ <<n>>[1] = n /\ Len(<<n>>) = 1 /\ <<n>> # <<>>
        OBVIOUS
      <4> QED
        BY <4>1, <4>2
    <3>2. BatchFollows'
      BY <1>1, <2>1, <2>3, <2>4, <3>1 DEF Add
    <3> QED
      <4>1. TypeOK'
        BY <1>1, <2>1, <2>2, <2>4, <3>1 DEF Add
      <4>2. HandledSeen' /\ BlockedAtEnd' /\ DeletesCurrent'
        BY <1>1, <2>4 DEF Add
      <4>3. DeletedDispatched'
        BY <1>1, <2>1 DEF Add
      <4> QED
        BY <3>2, <4>1, <4>2, <4>3
  <2>5. CASE consumer # "blocked"
    BY <1>1, <2>1, <2>2, <2>5 DEF Add
  <2> QED
    BY <2>4, <2>5
<1>2. CASE Connect
  BY <1>2 DEF Connect
<1>3. CASE Read
  <2>1. /\ DOMAIN stream = 1..Len(stream) /\ Len(stream) \in Nat
        /\ From \in Nat /\ From <= Len(stream)
    BY DEF From
  <2>2. Later(From) = (From + 1)..Len(stream)
    BY <2>1 DEF Later, From, Range
  <2>3. /\ batch' \in Seq((From + 1)..Len(stream)) /\ Len(batch') <= Count
        /\ \A i \in DOMAIN batch' : batch'[i] = From + i
        /\ batch' = <<>> => Len(stream) <= From
    BY <1>3, <2>1, <2>2, FirstsOfInterval DEF Read, After
  <2>4. batch' \in Seq(DOMAIN stream) /\ (\A i \in DOMAIN batch' : i \in 1..Len(batch'))
    <3>1. (From + 1)..Len(stream) \subseteq DOMAIN stream
      BY <2>1
    <3>2. batch' \in Seq(DOMAIN stream)
      BY <2>3, <3>1, WiderSeq
    <3> QED
      BY <2>3, <3>2, SMTT(20)
  <2>5. \A i \in DOMAIN batch' : 1 \in DOMAIN batch' /\ batch'[1] = From + 1
    BY <2>3
  <2>6. BatchFollows'
    <3>1. lastId = Latest => batch' = <<>>
      <4>1. ASSUME lastId = Latest
            PROVE  (From + 1)..Len(stream) = {}
        BY <2>1, <4>1 DEF From
      <4>2. \A s \in Seq({}) : s = <<>>
        OBVIOUS
      <4> QED
        BY <4>1, <4>2, <2>3
    <3>2. CASE lastId = Latest
      BY <1>3, <3>1, <3>2
    <3>3. CASE lastId # Latest
      BY <1>3, <2>3, <2>4, <2>5, <3>3 DEF Read, From
    <3> QED
      BY <3>2, <3>3
  <2> QED
    BY <1>3, <2>1, <2>3, <2>4, <2>6 DEF Read, From
<1>4. CASE Receive
  BY <1>4 DEF Receive
<1>5. CASE Timeout
  BY <1>5 DEF Timeout
<1>6. CASE Fail
  BY <1>6 DEF Fail, Resumes
<1>7. CASE Handle
  <2>1. /\ batch # <<>> /\ Current = batch[1] /\ Current \in DOMAIN stream
        /\ 1 \in DOMAIN batch
    BY <1>7 DEF Handle, Current
  <2>2. /\ Rest \in Seq(DOMAIN stream) /\ Len(Rest) <= Count
        /\ \A i \in DOMAIN Rest : i + 1 \in DOMAIN batch /\ Rest[i] = batch[i + 1]
        /\ \A i \in DOMAIN Rest : i \in Nat /\ 1 \in DOMAIN Rest
    BY <2>1 DEF Rest
  <2>3. BatchFollows'
    <3>1. ASSUME NEW i \in DOMAIN Rest
          PROVE  Rest[i] = Rest[1] + i - 1 /\ Rest[1] = Current + 1
      <4>1. /\ i \in Nat /\ i + 1 \in DOMAIN batch /\ Rest[i] = batch[i + 1]
            /\ 1 \in DOMAIN Rest /\ Rest[1] = batch[1 + 1] /\ 1 + 1 \in DOMAIN batch
        BY <2>2
      <4>2. /\ batch[i + 1] = batch[1] + (i + 1) - 1 /\ batch[1 + 1] = batch[1] + (1 + 1) - 1
        BY <4>1
      <4>3. batch[1] \in Nat
        BY <2>1
      <4> QED
        BY <2>1, <4>1, <4>2, <4>3
    <3> QED
      BY <1>7, <2>1, <3>1 DEF Handle
  <2>4. \A i \in DOMAIN handled : handled[i] < Current
    <3>1. CASE lastId = Latest
      BY <2>1, <3>1
    <3>2. CASE lastId # Latest
      <4>1. lastId \in Nat /\ Current = lastId + 1
        BY <2>1, <3>2, SMTT(20)
      <4>2. \A i \in DOMAIN handled : handled[i] \in Nat /\ handled[i] <= lastId
        BY <3>2, SMTT(20)
      <4> QED
        BY <4>1, <4>2
    <3> QED
      BY <3>1, <3>2
  <2>5. /\ handled' \in Seq(DOMAIN stream) /\ Range(handled) \subseteq Range(handled')
        /\ \A i \in DOMAIN handled' : handled'[i] <= Current
        /\ stream[Current] \in Dispatched => Current \in Range(handled')
    <3>1. CASE stream[Current] \in Dispatched
      BY <1>7, <2>1, <2>4, <3>1, AppendRange, SMTT(20) DEF Handle
    <3>2. CASE stream[Current] \notin Dispatched
      BY <1>7, <2>1, <2>4, <3>2 DEF Handle
    <3> QED
      BY <3>1, <3>2
  <2> QED
    <3>1. TypeOK'
      <4>1. lastId' = Current /\ lastId' # Latest /\ Rest \in Seq(DOMAIN stream)
        BY <1>7, <2>1, <2>2 DEF Handle
      <4>2. consumer' = "handle" => batch' # <<>>
        BY <1>7 DEF Handle
      <4>3. batch' # <<>> => consumer' \in {"handle", "delete"}
        BY <1>7 DEF Handle
      <4> QED
        BY <1>7, <2>1, <2>2, <2>5, <4>1, <4>2, <4>3 DEF Handle
    <3>2. HandledSeen' /\ BlockedAtEnd'
      BY <1>7, <2>5 DEF Handle
    <3>3. DeletesCurrent'
      BY <1>7, <2>5 DEF Handle, Deletes, Dispatched
    <3>4. DeletedDispatched'
      BY <1>7, <2>5 DEF Handle
    <3> QED
      BY <2>3, <3>1, <3>2, <3>3, <3>4
<1>8. CASE Delete
  BY <1>8 DEF Delete
<1>9. CASE Stop
  <2>1. TypeOK'
    <3>1. batch' \in Seq(DOMAIN stream) /\ Len(batch') <= Count /\ batch' = <<>>
      BY <1>9, Empty DEF Stop
    <3>2. restarts' \in 0..MaxRestarts
      BY <1>9 DEF Stop
    <3> QED
      BY <1>9, <3>1, <3>2 DEF Stop
  <2>2. BatchFollows' /\ HandledSeen'
    BY <1>9, Empty DEF Stop
  <2> QED
    BY <1>9, <2>1, <2>2 DEF Stop
<1>10. CASE Start
  BY <1>10 DEF Start
<1>11. CASE UNCHANGED vars
  BY <1>11 DEF vars
<1> QED
  BY <1>1, <1>2, <1>3, <1>4, <1>5, <1>6, <1>7, <1>8, <1>9, <1>10, <1>11 DEF Next, Consume

(* The position and the batch fit together in every reachable state. *)
THEOREM Invariant == Spec => []Inv
BY InitInv, NextInv, PTL DEF Spec

-----------------------------------------------------------------------------
(* TypeOK: among others, a batch is never longer than COUNT, and there is  *)
(* one where the loop goes over it.                                        *)
THEOREM TypeCorrect == Spec => []TypeOK
<1>1. Inv => TypeOK
  BY DEF Inv
<1> QED
  BY <1>1, Invariant, PTL

(* XDEL removes only entries that were dispatched. *)
THEOREM DeletesDispatched == Spec => []DeletedDispatched
<1>1. Inv => DeletedDispatched
  BY DEF Inv
<1> QED
  BY <1>1, Invariant, PTL

-----------------------------------------------------------------------------
(* The refinement *)

LEMMA InitFeed == Init => Feed!Init
BY DEF Init, Feed!Init

LEMMA NextFeed == Inv /\ [Next]_vars => [Feed!Next]_(Feed!feed)
<1> SUFFICES ASSUME Inv, [Next]_vars
             PROVE  Feed!Next \/ UNCHANGED <<stream, handled, lastId>>
  BY DEF Feed!feed
<1>1. ASSUME NEW k \in Kinds, Add(k)
      PROVE  Feed!Add(k)
  BY <1>1 DEF Add, Feed!Add
<1>2. CASE Handle
  <2>1. Current = batch[1] /\ 1 \in DOMAIN batch /\ Current \in DOMAIN stream
    BY <1>2 DEF Handle, Current, Inv, TypeOK
  <2>2. Feed!Follows(Current)
    BY <2>1 DEF Feed!Follows, Inv, BatchFollows
  <2>3. stream[Current] \in Dispatched <=> stream[Current] \notin {Undecodable}
    <3>1. stream[Current] \in Kinds
      BY <2>1 DEF Inv, TypeOK
    <3> QED
      BY <3>1, OutboxAssumption DEF Kinds, Dispatched
  <2>4. Feed!See(Current)
    BY <1>2, <2>1, <2>2, <2>3 DEF Handle, Feed!See
  <2> QED
    BY <2>1, <2>4 DEF Feed!Next
<1>3. CASE Stop
  BY <1>3 DEF Stop, Feed!Next, Feed!Restart
<1>4. CASE Connect \/ Read \/ Receive \/ Timeout \/ Fail \/ Delete \/ Start
  BY <1>4 DEF Connect, Read, Receive, Timeout, Fail, Resumes, Delete, Start
<1>5. CASE UNCHANGED vars
  BY <1>5 DEF vars
<1> QED
  BY <1>1, <1>2, <1>3, <1>4, <1>5 DEF Next, Consume, Feed!Next

(* The consumer implements the feed: in order, at most once over all       *)
(* incarnations, and without a gap after the first entry of one.           *)
THEOREM ImplementsFeed == Spec => FeedSpec
<1>1. Inv /\ [Next]_vars => [Feed!Next]_(Feed!feed)
  BY NextFeed
<1> QED
  BY InitFeed, <1>1, Invariant, PTL DEF Spec, FeedSpec, Feed!Spec
==============================================================================
