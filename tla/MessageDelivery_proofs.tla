------------------------ MODULE MessageDelivery_proofs ------------------------
(***************************************************************************)
(* Proofs about MessageDelivery, for any connections, subjects, messages,  *)
(* queue sizes and times to live:                                          *)
(*                                                                         *)
(*   TypeCorrect         Spec => []TypeOK                                  *)
(*   MessagesAccounted   Spec => []Accounted                               *)
(*   NobodyStranded      Spec => []NoneStranded                            *)
(*   NothingTwice        Spec => []NoDuplicates                            *)
(*   NothingDropped      Spec => QueueKept                                 *)
(*   ArriveInOrder       Spec => []InOrder                                 *)
(*                                                                         *)
(* The first two hold on any number of worker threads; so does the fourth  *)
(* for a message that was not put back after a failed write, and of the    *)
(* fifth that an item stays until it is taken, too old or one of too many. *)
(***************************************************************************)
EXTENDS MessageDelivery, FiniteSetTheorems, WellFoundedInduction, TLAPS

-----------------------------------------------------------------------------
(* Sequences *)

LEMMA RangeOfParts ==
  ASSUME NEW S, NEW s \in Seq(S), s # <<>>
  PROVE  /\ Head(s) \in S /\ Tail(s) \in Seq(S)
         /\ Range(s) = {Head(s)} \cup Range(Tail(s))
<1>1. /\ Len(s) \in Nat \ {0} /\ DOMAIN s = 1..Len(s) /\ Head(s) = s[1]
      /\ Tail(s) \in Seq(S) /\ DOMAIN Tail(s) = 1..(Len(s) - 1)
      /\ \A i \in 1..(Len(s) - 1) : Tail(s)[i] = s[i + 1]
  OBVIOUS
<1>2. \A i \in 1..Len(s) : i = 1 \/ (i - 1 \in 1..(Len(s) - 1) /\ (i - 1) + 1 = i)
  BY <1>1
<1>3. \A i \in 1..(Len(s) - 1) : i + 1 \in 1..Len(s)
  BY <1>1
<1>4. ASSUME NEW x \in Range(s)
      PROVE  x \in {Head(s)} \cup Range(Tail(s))
  <2>1. PICK i \in 1..Len(s) : s[i] = x
    BY <1>1, <1>4 DEF Range
  <2>2. CASE i = 1
    BY <1>1, <2>1, <2>2
  <2>3. CASE i - 1 \in 1..(Len(s) - 1) /\ (i - 1) + 1 = i
    <3>1. Tail(s)[i - 1] = x
      BY <1>1, <2>1, <2>3
    <3> QED
      BY <1>1, <2>3, <3>1 DEF Range
  <2> QED
    BY <1>2, <2>2, <2>3
<1>5. Range(Tail(s)) \subseteq Range(s)
  BY <1>1, <1>3 DEF Range
<1>6. Head(s) \in S /\ Head(s) \in Range(s)
  <2>1. 1 \in 1..Len(s)
    BY <1>1
  <2> QED
    BY <1>1, <2>1 DEF Range
<1> QED
  BY <1>1, <1>4, <1>5, <1>6

LEMMA EmptySequence ==
  \A S : <<>> \in Seq(S) /\ Len(<<>>) = 0 /\ DOMAIN <<>> = {} /\ Range(<<>>) = {}
BY DEF Range

LEMMA ContainsIffInRange ==
  ASSUME NEW S, NEW s \in Seq(S), NEW x
  PROVE  Contains(s, x) <=> x \in Range(s)
BY DEF Contains, Range

LEMMA ConcatRange ==
  ASSUME NEW S, NEW s \in Seq(S), NEW t \in Seq(S)
  PROVE  /\ s \o t \in Seq(S)
         /\ Range(s \o t) = Range(s) \cup Range(t)
<1>1. /\ s \o t \in Seq(S) /\ Len(s) \in Nat /\ Len(t) \in Nat
      /\ DOMAIN s = 1..Len(s) /\ DOMAIN t = 1..Len(t) /\ DOMAIN (s \o t) = 1..(Len(s) + Len(t))
      /\ \A i \in 1..Len(s) : (s \o t)[i] = s[i]
      /\ \A i \in 1..Len(t) : (s \o t)[Len(s) + i] = t[i]
  OBVIOUS
<1>2. \A i \in 1..(Len(s) + Len(t)) :
        i \in 1..Len(s) \/ (i - Len(s) \in 1..Len(t) /\ Len(s) + (i - Len(s)) = i)
  BY <1>1
<1>3. ASSUME NEW x \in Range(s \o t)
      PROVE  x \in Range(s) \cup Range(t)
  <2>1. PICK i \in 1..(Len(s) + Len(t)) : (s \o t)[i] = x
    BY <1>1, <1>3 DEF Range
  <2>2. CASE i \in 1..Len(s)
    BY <1>1, <2>1, <2>2 DEF Range
  <2>3. CASE i - Len(s) \in 1..Len(t) /\ Len(s) + (i - Len(s)) = i
    BY <1>1, <2>1, <2>3 DEF Range
  <2> QED
    BY <1>2, <2>2, <2>3
<1>4. \A i \in 1..Len(s) : i \in 1..(Len(s) + Len(t))
  BY <1>1
<1>5. \A i \in 1..Len(t) : Len(s) + i \in 1..(Len(s) + Len(t))
  BY <1>1
<1>6. Range(s) \subseteq Range(s \o t)
  BY <1>1, <1>4 DEF Range
<1>7. Range(t) \subseteq Range(s \o t)
  BY <1>1, <1>5 DEF Range
<1> QED
  BY <1>1, <1>3, <1>6, <1>7

(* Orders lists all of a finite set. *)
LEMMA OrdersCover ==
  ASSUME NEW S, IsFiniteSet(S), NEW q \in Orders(S)
  PROVE  q \in Seq(S) /\ Range(q) = S
<1>1. Cardinality(S) \in Nat
  BY FS_CardinalityType
<1>2. q \in [1..Cardinality(S) -> S]
  BY DEF Orders, Injection
<1>3. IsFiniteSet(1..Cardinality(S)) /\ Cardinality(1..Cardinality(S)) = Cardinality(S)
  <2>1. 1 \in Int /\ Cardinality(S) \in Int
    BY <1>1
  <2>2. Cardinality(1..Cardinality(S))
          = IF 1 > Cardinality(S) THEN 0 ELSE Cardinality(S) - 1 + 1
    BY <2>1, FS_Interval
  <2> QED
    BY <1>1, <2>1, <2>2, FS_Interval
<1>4. q \in Surjection(1..Cardinality(S), S)
  BY <1>3, FS_Injection DEF Orders
<1> QED
  BY <1>1, <1>2, <1>4 DEF Surjection, Range

-----------------------------------------------------------------------------
(* The pending queues *)

LEMMA LeastOf ==
  ASSUME NEW S \in SUBSET Nat, S # {}
  PROVE  Min(S) \in S /\ \A y \in S : Min(S) <= y
<1>1. PICK x \in S : \A y \in S : ~(<<y, x>> \in OpToRel(<, Nat))
  BY NatLessThanWellFounded, WFMin
<1>2. ASSUME NEW y \in S
      PROVE  x <= y
  <2>1. x \in Nat /\ y \in Nat
    OBVIOUS
  <2>2. <<y, x>> \notin OpToRel(<, Nat)
    BY <1>1
  <2>3. <<y, x>> \in Nat \X Nat /\ <<y, x>>[1] = y /\ <<y, x>>[2] = x
    BY <2>1
  <2>4. ~(y < x)
    BY <2>2, <2>3 DEF OpToRel
  <2> QED
    BY <2>1, <2>4
<1>3. \E z \in S : \A y \in S : z =< y
  BY <1>2
<1> QED
  BY <1>3 DEF Min

LEMMA PrunedKeeps ==
  ASSUME NEW q \in Seq(Item), NEW at \in 0..MaxTime
  PROVE  /\ Pruned(q, at) \in Seq(Item)
         /\ Texts(Pruned(q, at)) \subseteq Texts(q)
<1> DEFINE fresh == {i \in DOMAIN q : at - q[i].at <= PendingTTL}
           least == Min(fresh \cup {Len(q) + 1})
           first == FirstKept(q, at)
<1>1. /\ Len(q) \in Nat /\ DOMAIN q = 1..Len(q) /\ MaxPending \in Nat
  BY DeliveryAssumption
<1>2. least \in Nat \ {0}
  <2>1. fresh \cup {Len(q) + 1} \subseteq Nat \ {0}
    BY <1>1
  <2> HIDE DEF fresh
  <2>2. least \in fresh \cup {Len(q) + 1}
    BY <2>1, LeastOf
  <2> QED
    BY <2>1, <2>2
<1>3. first = Max({Len(q) - MaxPending + 1, least})
  BY DEF FirstKept
<1>4. first \in Nat \ {0}
  <2> HIDE DEF least, first
  <2> DEFINE a == Len(q) - MaxPending + 1
  <2>1. a \in Int /\ least \in Int
    BY <1>1, <1>2
  <2>2. \E x \in {a, least} : \A y \in {a, least} : x >= y
    <3> HIDE DEF a
    <3>1. CASE a >= least
      BY <2>1, <3>1
    <3>2. CASE ~(a >= least)
      BY <2>1, <3>2
    <3> QED
      BY <3>1, <3>2
  <2>3. first \in {a, least} /\ \A y \in {a, least} : first >= y
    BY <1>3, <2>2 DEF Max
  <2> HIDE DEF a
  <2> QED
    BY <1>2, <2>1, <2>3
<1> HIDE DEF first
<1>5. Pruned(q, at) = SubSeq(q, first, Len(q))
  BY DEF Pruned, first
<1> DEFINE r == SubSeq(q, first, Len(q))
<1>6. /\ r \in Seq(Item)
      /\ \A i \in DOMAIN r : first + i - 1 \in DOMAIN q /\ r[i] = q[first + i - 1]
  BY <1>1, <1>4
<1> QED
  BY <1>5, <1>6 DEF Texts

LEMMA AppendTexts ==
  ASSUME NEW q \in Seq(Item), NEW item \in Item
  PROVE  /\ Append(q, item) \in Seq(Item)
         /\ Texts(Append(q, item)) = Texts(q) \cup {item.text}
<1>1. /\ Append(q, item) \in Seq(Item)
      /\ DOMAIN q = 1..Len(q) /\ Len(q) \in Nat
      /\ DOMAIN Append(q, item) = 1..(Len(q) + 1)
      /\ \A i \in 1..Len(q) : Append(q, item)[i] = q[i]
      /\ Append(q, item)[Len(q) + 1] = item
  OBVIOUS
<1>2. \A i \in 1..(Len(q) + 1) : i \in 1..Len(q) \/ i = Len(q) + 1
  BY <1>1
<1>3. \A i \in 1..Len(q) : i \in 1..(Len(q) + 1)
  BY <1>1
<1>4. Len(q) + 1 \in 1..(Len(q) + 1)
  BY <1>1
<1>5. Texts(Append(q, item)) \subseteq Texts(q) \cup {item.text}
  BY <1>1, <1>2 DEF Texts
<1>6. Texts(q) \cup {item.text} \subseteq Texts(Append(q, item))
  BY <1>1, <1>3, <1>4 DEF Texts
<1> QED
  BY <1>1, <1>5, <1>6

(* Every text of a queue is taken, and every text taken stays. *)
LEMMA TakenAll ==
  ASSUME NEW taken \in Seq(Message), NEW q \in Seq(Item), NEW r \in Taken(taken, q)
  PROVE  /\ r \in Seq(Message)
         /\ Range(r) = Range(taken) \cup Texts(q)
<1>1. PICK o \in Orders(Fresh(taken, q)) : r = taken \o [i \in DOMAIN o |-> q[o[i]].text]
  BY DEF Taken
<1> DEFINE new == [i \in DOMAIN o |-> q[o[i]].text]
<1>2. Len(q) \in Nat /\ DOMAIN q = 1..Len(q) /\ \A i \in DOMAIN q : q[i] \in Item
  OBVIOUS
<1>3. Fresh(taken, q) \subseteq DOMAIN q
  BY DEF Fresh
<1>4. IsFiniteSet(Fresh(taken, q))
  <2>1. IsFiniteSet(1..Len(q))
    BY <1>2, FS_Interval
  <2> QED
    BY <1>2, <1>3, <2>1, FS_Subset
<1>5. o \in Seq(Fresh(taken, q)) /\ Range(o) = Fresh(taken, q)
  BY <1>4, OrdersCover
<1>6. DOMAIN o = 1..Len(o) /\ Len(o) \in Nat /\ \A i \in DOMAIN o : o[i] \in Fresh(taken, q)
  BY <1>5
<1>7. \A i \in DOMAIN o : q[o[i]].text \in Message
  BY <1>2, <1>3, <1>6 DEF Item
<1>8. new \in Seq(Message)
  BY <1>6, <1>7
<1>9. Range(new) = {q[i].text : i \in Fresh(taken, q)}
  BY <1>5 DEF Range
<1>10. Range(new) \subseteq Texts(q)
  BY <1>3, <1>9 DEF Texts
<1>11. ASSUME NEW x \in Texts(q), x \notin Range(taken)
       PROVE  x \in Range(new)
  <2> DEFINE P == {i \in DOMAIN q : q[i].text = x}
  <2>1. P \subseteq Nat /\ P # {}
    BY <1>2, <1>11 DEF Texts
  <2>2. PICK i \in P : \A j \in P : ~(<<j, i>> \in OpToRel(<, Nat))
    BY <2>1, NatLessThanWellFounded, WFMin
  <2>3. ASSUME NEW j \in 1..(i - 1), q[j].text = x
        PROVE  FALSE
    <3>1. j \in Nat /\ i \in Nat /\ j < i /\ j \in DOMAIN q
      BY <1>2, <2>1
    <3>2. j \in P
      BY <2>3, <3>1
    <3>3. <<j, i>> \in Nat \X Nat /\ <<j, i>>[1] = j /\ <<j, i>>[2] = i
      BY <3>1
    <3> QED
      BY <2>2, <3>1, <3>2, <3>3 DEF OpToRel
  <2>4. i \in Fresh(taken, q)
    <3>1. ~Contains(taken, q[i].text)
      BY <1>11, ContainsIffInRange
    <3> QED
      BY <2>3, <3>1 DEF Fresh
  <2> QED
    BY <1>9, <2>4
<1> HIDE DEF new
<1>12. r \in Seq(Message) /\ Range(r) = Range(taken) \cup Range(new)
  <2>1. r = taken \o new
    BY <1>1 DEF new
  <2> QED
    BY <1>8, <2>1, ConcatRange
<1> QED
  BY <1>10, <1>11, <1>12

-----------------------------------------------------------------------------
(* The types *)

LEMMA TaskFacts ==
  /\ Conn \subseteq Task /\ Dispatcher \subseteq Task /\ Conn \cap Dispatcher = {}
  /\ Close \notin Message /\ Push \subseteq Message /\ 0 \in 0..MaxTime /\ MaxTime \in Nat
  /\ \A c \in Conn : SubjectsOf[c] \in Seq(Subject)
BY DeliveryAssumption DEF Task

LEMMA InitType == Init => TypeOK
<1> SUFFICES ASSUME Init
             PROVE  TypeOK
  OBVIOUS
<1>1. \A S : <<>> \in Seq(S)
  BY EmptySequence
<1> QED
  BY <1>1, TaskFacts DEF Init, TypeOK

(* The channel after an order or some texts, and the end of a loop *)
LEMMA ChannelType ==
  ASSUME TypeOK, NEW c \in Conn, NEW s \in Seq(Message \cup {Close})
  PROVE  channel[c] \o s \in Seq(Message \cup {Close})
BY DEF TypeOK

LEMMA BreakType ==
  ASSUME TypeOK, NEW c \in Conn, Break(c)
  PROVE  /\ session' \in [Conn -> {"new", "open", "closing", "closed"}]
         /\ channel' \in [Conn -> Seq(Message \cup {Close})]
         /\ writing' \in [Conn -> Message \cup {Close}]
BY EmptySequence DEF TypeOK, Break

LEMMA NextType == TypeOK /\ [Next]_vars => TypeOK'
<1> SUFFICES ASSUME TypeOK, [Next]_vars
             PROVE  TypeOK'
  OBVIOUS
<1> USE TaskFacts DEF TypeOK, frame, history
<1>1. CASE Tick
  BY <1>1 DEF Tick
<1>2. ASSUME NEW t \in Task, Requeue(t)
      PROVE  TypeOK'
  <2> DEFINE s == Head(todo[t])
             item == [text |-> message[t], at |-> now_ts[t]]
             kept == Pruned(Append(pending[s], item), now_ts[t])
  <2>1. s \in Subject /\ Tail(todo[t]) \in Seq(Subject)
    BY <1>2, RangeOfParts DEF Requeue
  <2>2. item \in Item
    BY <1>2 DEF Requeue, Item
  <2>3. kept \in Seq(Item)
    BY <2>1, <2>2, AppendTexts, PrunedKeeps
  <2>4. pending' = [pending EXCEPT ![s] = kept]
    BY <1>2 DEF Requeue, Enqueued
  <2> HIDE DEF s, kept
  <2> QED
    BY <1>2, <2>1, <2>3, <2>4 DEF Requeue, s
<1>3. ASSUME NEW t \in Task, Requeued(t)
      PROVE  TypeOK'
  <2>1. /\ session' \in [Conn -> {"new", "open", "closing", "closed"}]
        /\ channel' \in [Conn -> Seq(Message \cup {Close})]
        /\ writing' \in [Conn -> Message \cup {Close}]
    BY <1>3, BreakType DEF Requeued
  <2> QED
    BY <1>3, <2>1 DEF Requeued
<1>4. ASSUME NEW t \in Dispatcher, Send(t)
      PROVE  TypeOK'
  <2>1. PICK m \in Message, S \in Audience :
          /\ addressed' = [addressed EXCEPT ![m] = S]
          /\ message' = [message EXCEPT ![t] = m]
          /\ \E q \in Orders(S) : todo' = [todo EXCEPT ![t] = q]
          /\ ids' = [ids EXCEPT ![t] = Registered(S)]
    BY <1>4 DEF Send
  <2>2. PICK q \in Orders(S) : todo' = [todo EXCEPT ![t] = q]
    BY <2>1
  <2>3. S \subseteq Subject /\ IsFiniteSet(S)
    BY DeliveryAssumption, FS_Subset
  <2>4. q \in Seq(Subject)
    BY <2>3, OrdersCover
  <2>5. Registered(S) \subseteq Conn
    BY DEF Registered
  <2> QED
    BY <1>4, <2>1, <2>2, <2>3, <2>4, <2>5 DEF Send
<1>5. ASSUME NEW t \in Dispatcher, Deliver(t)
      PROVE  TypeOK'
  <2>1. PICK c \in ids[t] :
          /\ ids' = [ids EXCEPT ![t] = @ \ {c}]
          /\ IF c \in handles /\ Receiving(c)
               THEN /\ channel' = [channel EXCEPT ![c] = Append(@, message[t])]
                    /\ accepted' = [accepted EXCEPT ![message[t]] = @ \cup {c}]
                    /\ enqueued' = [enqueued EXCEPT ![t] = TRUE]
                    /\ UNCHANGED stale
               ELSE /\ stale' = [stale EXCEPT ![t] = @ \cup {c}]
                    /\ UNCHANGED <<channel, accepted, enqueued>>
    BY <1>5 DEF Deliver
  <2>2. c \in Conn /\ t \in Task
    OBVIOUS
  <2>3. Append(channel[c], message[t]) \in Seq(Message \cup {Close})
    BY <2>2
  <2> QED
    <3>1. ids' \in [Task -> SUBSET Conn]
      BY <2>1, <2>2
    <3>2. /\ stale' \in [Task -> SUBSET Conn] /\ enqueued' \in [Task -> BOOLEAN]
          /\ channel' \in [Conn -> Seq(Message \cup {Close})]
          /\ accepted' \in [Message -> SUBSET Conn]
      <4>1. CASE c \in handles /\ Receiving(c)
        <5>1. /\ channel' = [channel EXCEPT ![c] = Append(@, message[t])]
              /\ accepted' = [accepted EXCEPT ![message[t]] = @ \cup {c}]
              /\ enqueued' = [enqueued EXCEPT ![t] = TRUE]
              /\ stale' = stale
          BY <2>1, <4>1
        <5> QED
          BY <2>2, <2>3, <5>1
      <4>2. CASE ~(c \in handles /\ Receiving(c))
        <5>1. /\ stale' = [stale EXCEPT ![t] = @ \cup {c}]
              /\ channel' = channel /\ accepted' = accepted /\ enqueued' = enqueued
          BY <2>1, <4>2
        <5> QED
          BY <2>2, <5>1
      <4> QED
        BY <4>1, <4>2
    <3> QED
      BY <1>5, <3>1, <3>2 DEF Deliver
<1>6. ASSUME NEW t \in Dispatcher, Delivered(t)
      PROVE  TypeOK'
  <2>1. <<>> \in Seq(Subject)
    BY EmptySequence
  <2>2. todo' \in [Task -> Seq(Subject)]
    BY <1>6, <2>1 DEF Delivered
  <2> QED
    BY <1>6, <2>2 DEF Delivered
<1>7. ASSUME NEW c \in Conn, Register(c)
      PROVE  TypeOK'
  <2>1. channel' \in [Conn -> Seq(Message \cup {Close})]
    <3>1. \A d \in Conn : /\ channel[d] \in Seq(Message \cup {Close})
                          /\ Append(channel[d], Close) \in Seq(Message \cup {Close})
      OBVIOUS
    <3>2. channel' = [d \in Conn |-> IF d \in SameInstance(c) /\ Receiving(d)
                                       THEN Append(channel[d], Close) ELSE channel[d]]
      BY <1>7 DEF Register
    <3> QED
      BY <3>1, <3>2
  <2> QED
    BY <1>7, <2>1 DEF Register
<1>8. ASSUME NEW c \in Conn, Drain(c)
      PROVE  TypeOK'
  <2> DEFINE s == Head(todo[c])
             q == Pruned(pending[s], now_ts[c])
  <2>1. s \in Subject /\ Tail(todo[c]) \in Seq(Subject)
    BY <1>8, RangeOfParts DEF Drain
  <2>2. q \in Seq(Item)
    BY <2>1, PrunedKeeps
  <2>3. PICK texts \in Taken(snapshot[c], q) : snapshot' = [snapshot EXCEPT ![c] = texts]
    BY <1>8 DEF Drain
  <2>4. texts \in Seq(Message)
    BY <2>2, TakenAll
  <2> HIDE DEF q
  <2> QED
    BY <1>8, <2>1, <2>3, <2>4, EmptySequence DEF Drain
<1>9. ASSUME NEW c \in Conn, Drained(c)
      PROVE  TypeOK'
  <2>1. channel[c] \o snapshot[c] \in Seq(Message \cup {Close})
    OBVIOUS
  <2> QED
    BY <1>9, <2>1, EmptySequence DEF Drained
<1>10. ASSUME NEW c \in Conn, Receive(c)
       PROVE  TypeOK'
  <2>1. /\ session' \in [Conn -> {"new", "open", "closing", "closed"}]
        /\ channel' \in [Conn -> Seq(Message \cup {Close})]
        /\ writing' \in [Conn -> Message \cup {Close}]
    <3>1. CASE Break(c)
      BY <3>1, BreakType
    <3>2. CASE /\ channel[c] # <<>> /\ Head(channel[c]) # Close
               /\ writing' = [writing EXCEPT ![c] = Head(channel[c])]
               /\ channel' = [channel EXCEPT ![c] = Tail(@)]
               /\ UNCHANGED session
      <4>1. Head(channel[c]) \in Message \cup {Close} /\ Tail(channel[c]) \in Seq(Message \cup {Close})
        BY <3>2
      <4> QED
        BY <3>2, <4>1
    <3> QED
      BY <1>10, <3>1, <3>2 DEF Receive
  <2> QED
    BY <1>10, <2>1 DEF Receive
<1>11. ASSUME NEW c \in Conn, Written(c)
       PROVE  TypeOK'
  BY <1>11 DEF Written, Writing
<1>12. ASSUME NEW c \in Conn, Failed(c)
       PROVE  TypeOK'
  <2>1. CASE c \in WebTransport /\ writing[c] \in Push
    <3>1. /\ step' = [step EXCEPT ![c] = "requeue"]
          /\ message' = [message EXCEPT ![c] = writing[c]]
          /\ todo' = [todo EXCEPT ![c] = SubjectsOf[c]]
          /\ now_ts' = [now_ts EXCEPT ![c] = now]
          /\ UNCHANGED <<session, channel, writing>>
      BY <1>12, <2>1 DEF Failed
    <3>2. c \in Task /\ writing[c] \in Message
      BY <2>1
    <3>3. /\ step' \in [Task -> {"rest", "drain", "deliver", "requeue"}]
          /\ message' \in [Task -> Message \cup {Close}]
          /\ todo' \in [Task -> Seq(Subject)]
          /\ now_ts' \in [Task -> 0..MaxTime]
      BY <3>1, <3>2
    <3>4. \A t \in Task : step'[t] \in {"deliver", "requeue"} => message'[t] \in Message
      BY <3>1, <3>2
    <3> QED
      BY <1>12, <3>1, <3>3, <3>4 DEF Failed
  <2>2. CASE ~(c \in WebTransport /\ writing[c] \in Push)
    BY <1>12, <2>2, BreakType DEF Failed
  <2> QED
    BY <2>1, <2>2
<1>13. ASSUME NEW c \in Conn, Leave(c)
       PROVE  TypeOK'
  BY <1>13, BreakType DEF Leave
<1>14. ASSUME NEW c \in Conn, Unregister(c)
       PROVE  TypeOK'
  BY <1>14 DEF Unregister
<1>15. ASSUME NEW c \in Conn, Evict(c)
       PROVE  TypeOK'
  <2>1. <<>> \in Seq(Message \cup {Close}) /\ <<Close>> \in Seq(Message \cup {Close})
    OBVIOUS
  <2>2. PICK order \in {<<>>, <<Close>>} :
          channel' = [channel EXCEPT ![c] = IF Receiving(c) THEN @ \o order ELSE @]
    BY <1>15 DEF Evict
  <2>3. channel[c] \o order \in Seq(Message \cup {Close})
    BY <2>1, ChannelType
  <2> QED
    BY <1>15, <2>2, <2>3 DEF Evict
<1>16. CASE UNCHANGED vars
  BY <1>16 DEF vars
<1> QED
  BY <1>1, <1>2, <1>3, <1>4, <1>5, <1>6, <1>7, <1>8, <1>9, <1>10, <1>11, <1>12, <1>13, <1>14, <1>15, <1>16
     DEF Next

(* TypeOK: the state of the queues, channels, sessions and tasks keeps its *)
(* type; a task that puts a message back has one.                          *)
THEOREM TypeCorrect == Spec => []TypeOK
BY InitType, NextType, PTL DEF Spec

-----------------------------------------------------------------------------
(* Where a message is *)

Waits(m, s) == m \in Texts(pending[s]) \/ <<s, m>> \in pruned

InSnapshot(m) == \E c \in Conn : step[c] = "drain" /\ m \in Range(snapshot[c])

OnItsWay(m, s) ==
  \E t \in Dispatcher :
    message[t] = m /\ step[t] \in {"deliver", "requeue"} /\ s \in Range(todo[t])

(* Under each of its subjects a message waits, if nobody has or gets it. *)
Kept ==
  \A m \in Message : \A s \in addressed[m] :
    accepted[m] # {} \/ InSnapshot(m) \/ Waits(m, s) \/ OnItsWay(m, s)

EnqueuedAccepted ==
  \A t \in Dispatcher :
    enqueued[t] => step[t] \in {"deliver", "requeue"} /\ accepted[message[t]] # {}

(* A step of the sessions, that only puts one of them to work *)
LEMMA SessionKeeps ==
  ASSUME Kept, EnqueuedAccepted,
         UNCHANGED <<addressed, accepted, pending, pruned, snapshot, enqueued>>,
         \A t \in Dispatcher : step'[t] = step[t] /\ message'[t] = message[t] /\ todo'[t] = todo[t],
         \A c \in Conn : step[c] = "drain" => step'[c] = "drain"
  PROVE  Kept' /\ EnqueuedAccepted'
<1>1. \A m, s : Waits(m, s) => Waits(m, s)'
  BY DEF Waits, Texts
<1>2. \A m : InSnapshot(m) => InSnapshot(m)'
  BY DEF InSnapshot
<1>3. \A m, s : OnItsWay(m, s) => OnItsWay(m, s)'
  BY DEF OnItsWay
<1>4. Kept'
  BY <1>1, <1>2, <1>3 DEF Kept
<1>5. EnqueuedAccepted'
  BY DEF EnqueuedAccepted
<1> QED
  BY <1>4, <1>5

LEMMA KeptInit == Init => Kept /\ EnqueuedAccepted
<1> SUFFICES ASSUME Init
             PROVE  Kept /\ EnqueuedAccepted
  OBVIOUS
<1>1. \A m \in Message : addressed[m] = {}
  BY DEF Init
<1>2. \A t \in Dispatcher : ~enqueued[t]
  BY TaskFacts DEF Init
<1> QED
  BY <1>1, <1>2 DEF Kept, EnqueuedAccepted

LEMMA KeptNext == TypeOK /\ Kept /\ EnqueuedAccepted /\ [Next]_vars => Kept' /\ EnqueuedAccepted'
<1> SUFFICES ASSUME TypeOK, Kept, EnqueuedAccepted, [Next]_vars
             PROVE  Kept' /\ EnqueuedAccepted'
  OBVIOUS
<1> USE TaskFacts
<1>1. CASE Tick
  BY <1>1, SessionKeeps DEF Tick, frame, history
<1>2. ASSUME NEW t \in Task, Requeue(t)
      PROVE  Kept' /\ EnqueuedAccepted'
  <2>1. PICK s \in Subject : s = Head(todo[t])
    BY <1>2, RangeOfParts DEF Requeue, TypeOK
  <2>2. Range(todo[t]) = {s} \cup Range(Tail(todo[t]))
    BY <1>2, <2>1, RangeOfParts DEF Requeue, TypeOK
  <2>3. PICK item \in Item : item = [text |-> message[t], at |-> now_ts[t]]
    BY <1>2 DEF Requeue, Item, TypeOK
  <2>4. PICK q : q = Append(pending[s], item)
    OBVIOUS
  <2>5. PICK kept : kept = Pruned(q, now_ts[t])
    OBVIOUS
  <2>6. Texts(q) = Texts(pending[s]) \cup {message[t]}
    BY <2>3, <2>4, AppendTexts DEF TypeOK
  <2>7. /\ pending' = [pending EXCEPT ![s] = kept]
        /\ pruned' = pruned \cup {<<s, m>> : m \in Texts(q) \ Texts(kept)}
        /\ todo' = [todo EXCEPT ![t] = Tail(@)]
        /\ UNCHANGED <<addressed, accepted, snapshot, step, message, enqueued>>
    BY <1>2, <2>1, <2>3, <2>4, <2>5 DEF Requeue, Enqueued
  <2>8. pending'[s] = kept /\ \A r \in Subject \ {s} : pending'[r] = pending[r]
    BY <2>7 DEF TypeOK
  <2>9. ASSUME NEW m \in Texts(q)
        PROVE  Waits(m, s)'
    <3>1. CASE m \in Texts(kept)
      BY <2>8, <3>1 DEF Waits, Texts
    <3>2. CASE m \notin Texts(kept)
      BY <2>7, <3>2 DEF Waits
    <3> QED
      BY <3>1, <3>2
  <2>10. ASSUME NEW m, NEW r \in Subject, Waits(m, r)
         PROVE  Waits(m, r)'
    <3>1. CASE <<r, m>> \in pruned
      BY <2>7, <3>1 DEF Waits
    <3>2. CASE m \in Texts(pending[r]) /\ r = s
      BY <2>6, <2>9, <3>2
    <3>3. CASE m \in Texts(pending[r]) /\ r # s
      BY <2>8, <3>3 DEF Waits, Texts
    <3> QED
      BY <2>10, <3>1, <3>2, <3>3 DEF Waits
  <2>11. ASSUME NEW m, NEW r \in Subject, OnItsWay(m, r)
         PROVE  OnItsWay(m, r)' \/ Waits(m, r)'
    <3>1. PICK u \in Dispatcher :
            message[u] = m /\ step[u] \in {"deliver", "requeue"} /\ r \in Range(todo[u])
      BY <2>11 DEF OnItsWay
    <3>2. CASE u = t /\ r = s
      <4>1. m \in Texts(q)
        BY <2>6, <3>1, <3>2
      <4> QED
        BY <2>9, <3>2, <4>1
    <3>3. CASE u = t /\ r # s
      <4>1. r \in Range(todo'[u])
        BY <2>2, <2>7, <3>1, <3>3 DEF TypeOK
      <4> QED
        BY <2>7, <3>1, <4>1 DEF OnItsWay
    <3>4. CASE u # t
      <4>1. todo'[u] = todo[u]
        BY <2>7, <3>4 DEF TypeOK
      <4> QED
        BY <2>7, <3>1, <4>1 DEF OnItsWay
    <3> QED
      BY <3>2, <3>3, <3>4
  <2>12. \A m : InSnapshot(m) => InSnapshot(m)'
    BY <2>7 DEF InSnapshot
  <2>13. Kept'
    BY <2>7, <2>10, <2>11, <2>12 DEF Kept, TypeOK
  <2> QED
    BY <2>7, <2>13 DEF EnqueuedAccepted
<1>3. ASSUME NEW t \in Task, Requeued(t)
      PROVE  Kept' /\ EnqueuedAccepted'
  <2>1. \A m, s : Waits(m, s) => Waits(m, s)'
    BY <1>3 DEF Requeued, Waits, Texts, history
  <2>2. \A m : InSnapshot(m) => InSnapshot(m)'
    BY <1>3 DEF Requeued, InSnapshot, TypeOK
  <2>3. ASSUME NEW m, NEW s, OnItsWay(m, s)
        PROVE  OnItsWay(m, s)'
    <3>1. PICK u \in Dispatcher :
            message[u] = m /\ step[u] \in {"deliver", "requeue"} /\ s \in Range(todo[u])
      BY <2>3 DEF OnItsWay
    <3>2. u # t
      BY <1>3, <3>1, EmptySequence DEF Requeued
    <3>3. message'[u] = message[u] /\ step'[u] = step[u] /\ todo'[u] = todo[u]
      BY <1>3, <3>2 DEF Requeued, TypeOK
    <3> QED
      BY <3>1, <3>3 DEF OnItsWay
  <2>4. Kept'
    BY <1>3, <2>1, <2>2, <2>3 DEF Requeued, Kept, history
  <2>5. EnqueuedAccepted'
    BY <1>3 DEF Requeued, EnqueuedAccepted, history, TypeOK
  <2> QED
    BY <2>4, <2>5
<1>4. ASSUME NEW t \in Dispatcher, Send(t)
      PROVE  Kept' /\ EnqueuedAccepted'
  <2>1. PICK n \in Message, S \in Audience :
          /\ addressed[n] = {}
          /\ addressed' = [addressed EXCEPT ![n] = S]
          /\ message' = [message EXCEPT ![t] = n]
          /\ \E q \in Orders(S) : todo' = [todo EXCEPT ![t] = q]
    BY <1>4 DEF Send
  <2>2. PICK q \in Orders(S) : todo' = [todo EXCEPT ![t] = q]
    BY <2>1
  <2>3. S \subseteq Subject /\ IsFiniteSet(S)
    BY DeliveryAssumption, FS_Subset
  <2>4. Range(q) = S
    BY <2>3, OrdersCover
  <2>5. /\ step[t] = "rest" /\ step' = [step EXCEPT ![t] = "deliver"]
        /\ UNCHANGED <<pending, pruned, accepted, snapshot, enqueued>>
    BY <1>4 DEF Send, Idle
  <2>6. /\ message'[t] = n /\ step'[t] = "deliver" /\ todo'[t] = q
        /\ \A u \in Task \ {t} :
             message'[u] = message[u] /\ step'[u] = step[u] /\ todo'[u] = todo[u]
    BY <2>1, <2>2, <2>5 DEF TypeOK
  <2>7. ASSUME NEW m \in Message, NEW s \in addressed'[m]
        PROVE  accepted'[m] # {} \/ InSnapshot(m)' \/ Waits(m, s)' \/ OnItsWay(m, s)'
    <3>1. CASE m = n
      <4>1. s \in S
        BY <2>1, <2>7, <3>1 DEF TypeOK
      <4> QED
        BY <2>4, <2>6, <3>1, <4>1 DEF OnItsWay
    <3>2. CASE m # n
      <4>1. s \in addressed[m]
        BY <2>1, <2>7, <3>2 DEF TypeOK
      <4>2. Waits(m, s) => Waits(m, s)'
        BY <2>5 DEF Waits, Texts
      <4>3. InSnapshot(m) => InSnapshot(m)'
        BY <2>5, <2>6 DEF InSnapshot
      <4>4. OnItsWay(m, s) => OnItsWay(m, s)'
        BY <2>5, <2>6 DEF OnItsWay
      <4> QED
        BY <2>5, <4>1, <4>2, <4>3, <4>4 DEF Kept
    <3> QED
      BY <3>1, <3>2
  <2>8. EnqueuedAccepted'
    BY <2>5, <2>6 DEF EnqueuedAccepted
  <2> QED
    BY <2>7, <2>8 DEF Kept
<1>5. ASSUME NEW t \in Dispatcher, Deliver(t)
      PROVE  Kept' /\ EnqueuedAccepted'
  <2>1. /\ step[t] = "deliver" /\ UNCHANGED <<pending, step, message, todo, snapshot, addressed, pruned>>
        /\ \E c \in ids[t] :
             \/ /\ accepted' = [accepted EXCEPT ![message[t]] = @ \cup {c}]
                /\ enqueued' = [enqueued EXCEPT ![t] = TRUE]
             \/ UNCHANGED <<accepted, enqueued>>
    BY <1>5 DEF Deliver
  <2>2. message[t] \in Message
    BY <2>1 DEF TypeOK
  <2>3. \A m \in Message : accepted[m] \subseteq accepted'[m]
    <3>1. PICK c \in ids[t] : \/ accepted' = [accepted EXCEPT ![message[t]] = @ \cup {c}]
                              \/ UNCHANGED accepted
      BY <2>1
    <3>2. CASE accepted' = [accepted EXCEPT ![message[t]] = @ \cup {c}]
      BY <2>2, <3>2 DEF TypeOK
    <3>3. CASE UNCHANGED accepted
      BY <3>3
    <3> QED
      BY <3>1, <3>2, <3>3
  <2>4. \A m, s : Waits(m, s) => Waits(m, s)'
    BY <2>1 DEF Waits, Texts
  <2>5. \A m : InSnapshot(m) => InSnapshot(m)'
    BY <2>1 DEF InSnapshot
  <2>6. \A m, s : OnItsWay(m, s) => OnItsWay(m, s)'
    BY <2>1 DEF OnItsWay
  <2>7. Kept'
    BY <2>1, <2>3, <2>4, <2>5, <2>6 DEF Kept
  <2>8. EnqueuedAccepted'
    <3>1. CASE UNCHANGED <<accepted, enqueued>>
      BY <2>1, <3>1 DEF EnqueuedAccepted
    <3>2. ASSUME NEW c, accepted' = [accepted EXCEPT ![message[t]] = @ \cup {c}],
                 enqueued' = [enqueued EXCEPT ![t] = TRUE]
          PROVE  EnqueuedAccepted'
      <4>1. accepted'[message[t]] # {}
        BY <2>2, <3>2 DEF TypeOK
      <4>2. ASSUME NEW u \in Dispatcher, u # t, enqueued'[u]
            PROVE  step[u] \in {"deliver", "requeue"} /\ accepted'[message[u]] # {}
        <5>1. enqueued[u]
          BY <3>2, <4>2 DEF TypeOK
        <5>2. step[u] \in {"deliver", "requeue"} /\ accepted[message[u]] # {}
          BY <5>1 DEF EnqueuedAccepted
        <5>3. message[u] \in Message
          BY <5>2 DEF TypeOK
        <5> QED
          BY <2>3, <5>2, <5>3
      <4> QED
        BY <2>1, <4>1, <4>2 DEF EnqueuedAccepted
    <3> QED
      BY <2>1, <3>1, <3>2
  <2> QED
    BY <2>7, <2>8
<1>6. ASSUME NEW t \in Dispatcher, Delivered(t)
      PROVE  Kept' /\ EnqueuedAccepted'
  <2>1. /\ step[t] = "deliver" /\ step' = [step EXCEPT ![t] = "requeue"]
        /\ todo' = [todo EXCEPT ![t] = IF Buffers(t) THEN @ ELSE <<>>]
        /\ UNCHANGED <<pending, message, enqueued, snapshot, addressed, accepted, pruned>>
    BY <1>6 DEF Delivered, history
  <2>2. /\ step'[t] = "requeue"
        /\ todo'[t] = IF Buffers(t) THEN todo[t] ELSE <<>>
        /\ \A u \in Task \ {t} : step'[u] = step[u] /\ todo'[u] = todo[u]
    BY <2>1 DEF TypeOK
  <2>3. \A m, s : Waits(m, s) => Waits(m, s)'
    BY <2>1 DEF Waits, Texts
  <2>4. \A m : InSnapshot(m) => InSnapshot(m)'
    BY <2>1, <2>2 DEF InSnapshot
  <2>5. ASSUME NEW m, NEW s, OnItsWay(m, s)
        PROVE  OnItsWay(m, s)' \/ accepted'[m] # {}
    <3>1. PICK u \in Dispatcher :
            message[u] = m /\ step[u] \in {"deliver", "requeue"} /\ s \in Range(todo[u])
      BY <2>5 DEF OnItsWay
    <3>2. CASE u = t /\ ~Buffers(t)
      BY <2>1, <3>1, <3>2 DEF Buffers, EnqueuedAccepted
    <3>3. CASE u = t /\ Buffers(t)
      BY <2>1, <2>2, <3>1, <3>3 DEF OnItsWay
    <3>4. CASE u # t
      BY <2>1, <2>2, <3>1, <3>4 DEF OnItsWay
    <3> QED
      BY <3>2, <3>3, <3>4
  <2>6. Kept'
    BY <2>1, <2>3, <2>4, <2>5 DEF Kept
  <2>7. EnqueuedAccepted'
    BY <2>1, <2>2 DEF EnqueuedAccepted
  <2> QED
    BY <2>6, <2>7
<1>7. ASSUME NEW c \in Conn, Register(c)
      PROVE  Kept' /\ EnqueuedAccepted'
  BY <1>7, SessionKeeps DEF Register, history, TypeOK
<1>8. ASSUME NEW c \in Conn, Drain(c)
      PROVE  Kept' /\ EnqueuedAccepted'
  <2> DEFINE s == Head(todo[c])
             q == Pruned(pending[s], now_ts[c])
  <2>1. s \in Subject
    BY <1>8, RangeOfParts DEF Drain, TypeOK
  <2>2. q \in Seq(Item)
    BY <2>1, PrunedKeeps DEF TypeOK
  <2>3. PICK texts \in Taken(snapshot[c], q) : snapshot' = [snapshot EXCEPT ![c] = texts]
    BY <1>8 DEF Drain
  <2>4. Range(texts) = Range(snapshot[c]) \cup Texts(q)
    BY <2>2, TakenAll DEF TypeOK
  <2>5. /\ step[c] = "drain"
        /\ pending' = [pending EXCEPT ![s] = <<>>]
        /\ pruned' = pruned \cup {<<s, m>> : m \in Texts(pending[s]) \ Texts(q)}
        /\ todo' = [todo EXCEPT ![c] = Tail(@)]
        /\ UNCHANGED <<step, message, enqueued, addressed, accepted>>
    BY <1>8 DEF Drain
  <2> HIDE DEF s, q
  <2>6. snapshot'[c] = texts /\ \A d \in Conn \ {c} : snapshot'[d] = snapshot[d]
    BY <2>3 DEF TypeOK
  <2>7. \A m : InSnapshot(m) => InSnapshot(m)'
    BY <2>4, <2>5, <2>6 DEF InSnapshot
  <2>8. ASSUME NEW m, NEW r \in Subject, Waits(m, r)
        PROVE  Waits(m, r)' \/ InSnapshot(m)'
    <3>1. CASE r = s /\ m \in Texts(pending[s])
      <4>1. CASE m \in Texts(q)
        BY <2>4, <2>5, <2>6, <4>1 DEF InSnapshot
      <4>2. CASE m \notin Texts(q)
        BY <2>5, <3>1, <4>2 DEF Waits
      <4> QED
        BY <4>1, <4>2
    <3>2. CASE r # s
      <4>1. pending'[r] = pending[r]
        BY <2>5, <3>2 DEF TypeOK
      <4> QED
        BY <2>5, <2>8, <4>1 DEF Waits, Texts
    <3> QED
      BY <2>5, <2>8, <3>1, <3>2 DEF Waits
  <2>9. \A m, r : OnItsWay(m, r) => OnItsWay(m, r)'
    <3>1. \A t \in Dispatcher : todo'[t] = todo[t]
      BY <2>5 DEF TypeOK
    <3> QED
      BY <2>5, <3>1 DEF OnItsWay
  <2>10. Kept'
    BY <2>5, <2>7, <2>8, <2>9 DEF Kept, TypeOK
  <2> QED
    BY <2>5, <2>10 DEF EnqueuedAccepted
<1>9. ASSUME NEW c \in Conn, Drained(c)
      PROVE  Kept' /\ EnqueuedAccepted'
  <2>1. /\ accepted' = [m \in Message |-> IF Contains(snapshot[c], m)
                                            THEN accepted[m] \cup {c} ELSE accepted[m]]
        /\ step' = [step EXCEPT ![c] = "rest"] /\ snapshot' = [snapshot EXCEPT ![c] = <<>>]
        /\ UNCHANGED <<pending, message, todo, enqueued, addressed, pruned>>
    BY <1>9 DEF Drained
  <2>2. \A m \in Message : accepted[m] \subseteq accepted'[m]
    BY <2>1
  <2>3. ASSUME NEW m \in Message, InSnapshot(m)
        PROVE  InSnapshot(m)' \/ accepted'[m] # {}
    <3>1. PICK d \in Conn : step[d] = "drain" /\ m \in Range(snapshot[d])
      BY <2>3 DEF InSnapshot
    <3>2. CASE d = c
      <4>1. Contains(snapshot[c], m)
        BY <3>1, <3>2, ContainsIffInRange DEF TypeOK
      <4> QED
        BY <2>1, <4>1
    <3>3. CASE d # c
      <4>1. step'[d] = step[d] /\ snapshot'[d] = snapshot[d]
        BY <2>1, <3>3 DEF TypeOK
      <4> QED
        BY <3>1, <4>1 DEF InSnapshot
    <3> QED
      BY <3>2, <3>3
  <2>4. \A m, s : Waits(m, s) => Waits(m, s)'
    BY <2>1 DEF Waits, Texts
  <2>5. \A t \in Dispatcher : step'[t] = step[t]
    BY <2>1 DEF TypeOK
  <2>6. \A m, s : OnItsWay(m, s) => OnItsWay(m, s)'
    BY <2>1, <2>5 DEF OnItsWay
  <2>7. Kept'
    BY <2>1, <2>2, <2>3, <2>4, <2>6 DEF Kept
  <2>8. EnqueuedAccepted'
    BY <2>1, <2>2, <2>5 DEF EnqueuedAccepted, TypeOK
  <2> QED
    BY <2>7, <2>8
<1>10. ASSUME NEW c \in Conn, Receive(c) \/ Leave(c) \/ Unregister(c) \/ Evict(c)
       PROVE  Kept' /\ EnqueuedAccepted'
  BY <1>10, SessionKeeps DEF Receive, Leave, Unregister, Evict, frame, history
<1>11. ASSUME NEW c \in Conn, Written(c)
       PROVE  Kept' /\ EnqueuedAccepted'
  BY <1>11, SessionKeeps DEF Written, frame
<1>12. ASSUME NEW c \in Conn, Failed(c)
       PROVE  Kept' /\ EnqueuedAccepted'
  <2>1. step[c] = "rest" /\ UNCHANGED <<addressed, accepted, pending, pruned, snapshot, enqueued>>
    BY <1>12 DEF Failed, Writing
  <2>2. \A t \in Task \ {c} :
          step'[t] = step[t] /\ message'[t] = message[t] /\ todo'[t] = todo[t]
    BY <1>12 DEF Failed, TypeOK
  <2> QED
    BY <2>1, <2>2, SessionKeeps
<1>13. CASE UNCHANGED vars
  BY <1>13, SessionKeeps DEF vars, frame, history
<1> QED
  BY <1>1, <1>2, <1>3, <1>4, <1>5, <1>6, <1>7, <1>8, <1>9, <1>10, <1>11, <1>12, <1>13 DEF Next

(* A message whose dispatch is over was taken, is taken, or waits. *)
THEOREM MessagesAccounted == Spec => []Accounted
<1>1. TypeOK /\ Kept => Accounted
  <2> SUFFICES ASSUME TypeOK, Kept, NEW m \in Message, addressed[m] # {}, accepted[m] = {},
                      ~\E t \in Task : message[t] = m
                                         \/ (t \in Conn /\ step[t] = "drain" /\ Contains(snapshot[t], m))
               PROVE  \A s \in addressed[m] : m \in Texts(pending[s]) \/ <<s, m>> \in pruned
    BY DEF Accounted
  <2>1. ~InSnapshot(m)
    BY TaskFacts, ContainsIffInRange DEF InSnapshot, TypeOK
  <2>2. \A s : ~OnItsWay(m, s)
    BY TaskFacts DEF OnItsWay
  <2> QED
    BY <2>1, <2>2 DEF Kept, Waits
<1> QED
  BY <1>1, InitType, NextType, KeptInit, KeptNext, PTL DEF Spec

-----------------------------------------------------------------------------
(* What waits while somebody could take it, on one worker *)

Takers(s) == {c \in handles : session[c] = "open" /\ s \in Range(SubjectsOf[c])}

OneBusy == \A t, u \in Task : step[t] # "rest" /\ step[u] # "rest" => t = u

DrainEmpties ==
  \A c \in Conn : step[c] = "drain" =>
    \A s \in Range(SubjectsOf[c]) : s \in Range(todo[c]) \/ Texts(pending[s]) = {}

DeliverReaches ==
  \A t \in Dispatcher : step[t] = "deliver" =>
    \A s \in Range(todo[t]) : Takers(s) \subseteq ids[t] \/ enqueued[t]

BufferedForNobody ==
  \A t \in Dispatcher : step[t] = "requeue" => \A s \in Range(todo[t]) : Takers(s) = {}

RequeuesFailed == \A c \in Conn : step[c] = "requeue" => message[c] \in failed

WaitsForNobody == \A s \in Subject : Takers(s) # {} => Texts(pending[s]) \subseteq failed

Untaken == /\ OneBusy /\ DrainEmpties /\ DeliverReaches /\ BufferedForNobody
           /\ RequeuesFailed /\ WaitsForNobody

LEMMA AllAtRest ==
  ASSUME workers = 1, Cardinality(Busy) < workers
  PROVE  \A t \in Task : step[t] = "rest"
<1>1. Busy \subseteq Task /\ IsFiniteSet(Task)
  BY DeliveryAssumption DEF Busy
<1>2. IsFiniteSet(Busy) /\ Cardinality(Busy) \in Nat
  BY <1>1, FS_Subset, FS_CardinalityType
<1>3. Busy = {}
  BY <1>2, FS_EmptySet
<1> QED
  BY <1>3 DEF Busy

(* A step that puts no task to work and opens no session *)
LEMMA TakersLeave ==
  ASSUME Untaken, UNCHANGED pending, failed \subseteq failed',
         \A s : Takers(s)' \subseteq Takers(s),
         UNCHANGED <<step, message, todo, ids, enqueued>>
  PROVE  Untaken'
<1>1. OneBusy' /\ RequeuesFailed'
  BY DEF Untaken, OneBusy, RequeuesFailed
<1>2. DrainEmpties'
  <2> SUFFICES ASSUME NEW c \in Conn, step'[c] = "drain", NEW s \in Range(SubjectsOf[c])
               PROVE  s \in Range(todo'[c]) \/ Texts(pending'[s]) = {}
    BY DEF DrainEmpties
  <2>1. step[c] = "drain" /\ todo'[c] = todo[c] /\ pending'[s] = pending[s]
    OBVIOUS
  <2>2. s \in Range(todo[c]) \/ Texts(pending[s]) = {}
    BY <2>1 DEF Untaken, DrainEmpties
  <2> QED
    BY <2>1, <2>2
<1>3. DeliverReaches'
  <2> SUFFICES ASSUME NEW t \in Dispatcher, step[t] = "deliver", NEW s \in Range(todo[t])
               PROVE  Takers(s)' \subseteq ids[t] \/ enqueued[t]
    BY DEF DeliverReaches
  <2>1. Takers(s) \subseteq ids[t] \/ enqueued[t]
    BY DEF Untaken, DeliverReaches
  <2> QED
    BY <2>1
<1>4. BufferedForNobody'
  <2> SUFFICES ASSUME NEW t \in Dispatcher, step[t] = "requeue", NEW s \in Range(todo[t])
               PROVE  Takers(s)' = {}
    BY DEF BufferedForNobody
  <2>1. Takers(s) = {}
    BY DEF Untaken, BufferedForNobody
  <2> QED
    BY <2>1
<1>5. WaitsForNobody'
  <2> SUFFICES ASSUME NEW s \in Subject, Takers(s)' # {}
               PROVE  Texts(pending[s])' \subseteq failed'
    BY DEF WaitsForNobody
  <2>1. Takers(s) # {}
    OBVIOUS
  <2>2. Texts(pending[s]) \subseteq failed
    BY <2>1 DEF Untaken, WaitsForNobody
  <2> QED
    BY <2>2 DEF Texts
<1> QED
  BY <1>1, <1>2, <1>3, <1>4, <1>5 DEF Untaken

(* After a step with no task at work the queues alone matter. *)
LEMMA RestUntaken ==
  ASSUME \A t \in Task : step'[t] = "rest", WaitsForNobody'
  PROVE  Untaken'
BY TaskFacts DEF Untaken, OneBusy, DrainEmpties, DeliverReaches, BufferedForNobody, RequeuesFailed

LEMMA UntakenInit == Init => Untaken
<1> SUFFICES ASSUME Init
             PROVE  Untaken
  OBVIOUS
<1>1. \A t \in Task : step[t] = "rest"
  BY DEF Init
<1>2. \A s : Takers(s) = {}
  BY DEF Init, Takers
<1> QED
  BY <1>1, <1>2, TaskFacts
     DEF Untaken, OneBusy, DrainEmpties, DeliverReaches, BufferedForNobody, RequeuesFailed, WaitsForNobody
LEMMA UntakenNext == TypeOK /\ Untaken /\ workers = 1 /\ [Next]_vars => Untaken'
<1> SUFFICES ASSUME TypeOK, Untaken, workers = 1, [Next]_vars
             PROVE  Untaken'
  OBVIOUS
<1> USE TaskFacts
<1>1. CASE Tick
  <2>1. UNCHANGED <<pending, failed, handles, session, step, message, todo, ids, enqueued>>
    BY <1>1 DEF Tick, frame, history
  <2> QED
    BY <2>1, TakersLeave DEF Takers
<1>2. ASSUME NEW t \in Task, Requeue(t)
      PROVE  Untaken'
  <2>1. PICK s \in Subject : s = Head(todo[t])
    BY <1>2, RangeOfParts DEF Requeue, TypeOK
  <2>2. Range(todo[t]) = {s} \cup Range(Tail(todo[t]))
    BY <1>2, <2>1, RangeOfParts DEF Requeue, TypeOK
  <2>3. PICK item \in Item : item = [text |-> message[t], at |-> now_ts[t]]
    BY <1>2 DEF Requeue, Item, TypeOK
  <2>4. PICK q \in Seq(Item) : q = Append(pending[s], item)
    BY <2>3, AppendTexts DEF TypeOK
  <2>5. PICK kept : kept = Pruned(q, now_ts[t])
    OBVIOUS
  <2>6. Texts(kept) \subseteq Texts(pending[s]) \cup {message[t]}
    <3>1. Texts(q) = Texts(pending[s]) \cup {message[t]}
      BY <2>3, <2>4, AppendTexts DEF TypeOK
    <3> QED
      BY <2>4, <2>5, <3>1, PrunedKeeps DEF TypeOK
  <2>7. /\ step[t] = "requeue"
        /\ pending' = [pending EXCEPT ![s] = kept]
        /\ todo' = [todo EXCEPT ![t] = Tail(@)]
        /\ UNCHANGED <<handles, session, step, message, ids, enqueued, failed>>
    BY <1>2, <2>1, <2>3, <2>4, <2>5 DEF Requeue, Enqueued
  <2>8. \A u \in Task : step[u] # "rest" => u = t
    BY <2>7 DEF Untaken, OneBusy
  <2>9. OneBusy' /\ RequeuesFailed'
    BY <2>7 DEF Untaken, OneBusy, RequeuesFailed
  <2>10. DrainEmpties' /\ DeliverReaches'
    BY <2>7, <2>8 DEF DrainEmpties, DeliverReaches
  <2>11. Range(todo'[t]) \subseteq Range(todo[t])
    BY <2>2, <2>7 DEF TypeOK
  <2>12. \A r : Takers(r)' = Takers(r)
    BY <2>7 DEF Takers
  <2>13. BufferedForNobody'
    BY <2>7, <2>8, <2>11, <2>12 DEF Untaken, BufferedForNobody
  <2>14. ASSUME NEW r \in Subject, Takers(r) # {}
         PROVE  Texts(pending'[r]) \subseteq failed
    <3>1. Texts(pending[r]) \subseteq failed
      BY <2>14 DEF Untaken, WaitsForNobody
    <3>2. CASE r # s
      BY <2>7, <3>1, <3>2 DEF TypeOK
    <3>3. CASE r = s
      <4>1. t \notin Dispatcher
        BY <2>2, <2>7, <2>14, <3>3 DEF Untaken, BufferedForNobody
      <4>2. message[t] \in failed
        BY <2>7, <4>1 DEF Untaken, RequeuesFailed, Task
      <4>3. pending'[s] = kept
        BY <2>7 DEF TypeOK
      <4> QED
        BY <2>6, <3>1, <3>3, <4>2, <4>3
    <3> QED
      BY <3>2, <3>3
  <2>15. WaitsForNobody'
    BY <2>7, <2>12, <2>14 DEF WaitsForNobody, Texts
  <2> QED
    BY <2>9, <2>10, <2>13, <2>15 DEF Untaken
<1>3. ASSUME NEW t \in Task, Requeued(t)
      PROVE  Untaken'
  <2>1. step[t] = "requeue" /\ step' = [step EXCEPT ![t] = "rest"]
        /\ UNCHANGED <<pending, failed, handles>>
    BY <1>3 DEF Requeued, history
  <2>2. \A u \in Task : step'[u] = "rest"
    BY <2>1 DEF Untaken, OneBusy, TypeOK
  <2>3. \A c \in Conn : session'[c] = "open" => session[c] = "open"
    BY <1>3 DEF Requeued, Break, TypeOK
  <2>4. \A s : Takers(s)' \subseteq Takers(s)
    BY <2>1, <2>3 DEF Takers, TypeOK
  <2>5. WaitsForNobody'
    BY <2>1, <2>4 DEF Untaken, WaitsForNobody, Texts
  <2> QED
    BY <2>2, <2>5, RestUntaken
<1>4. ASSUME NEW t \in Dispatcher, Send(t)
      PROVE  Untaken'
  <2>1. \A u \in Task : step[u] = "rest"
    BY <1>4, AllAtRest DEF Send, Idle
  <2>2. PICK S \in Audience : /\ \E q \in Orders(S) : todo' = [todo EXCEPT ![t] = q]
                              /\ ids' = [ids EXCEPT ![t] = Registered(S)]
    BY <1>4 DEF Send
  <2>3. PICK q \in Orders(S) : todo' = [todo EXCEPT ![t] = q]
    BY <2>2
  <2>4. S \subseteq Subject /\ IsFiniteSet(S)
    BY DeliveryAssumption, FS_Subset
  <2>5. Range(q) = S
    BY <2>4, OrdersCover
  <2>6. step' = [step EXCEPT ![t] = "deliver"] /\ UNCHANGED <<pending, failed, handles, session>>
    BY <1>4 DEF Send
  <2>7. step'[t] = "deliver" /\ \A u \in Task \ {t} : step'[u] = "rest"
    BY <2>1, <2>6 DEF TypeOK
  <2>8. todo'[t] = q /\ ids'[t] = Registered(S)
    BY <2>2, <2>3 DEF TypeOK
  <2>9. \A s : Takers(s)' = Takers(s)
    BY <2>6 DEF Takers
  <2>10. \A s \in S : Takers(s) \subseteq Registered(S)
    BY DEF Takers, Registered, Range
  <2>11. OneBusy' /\ DrainEmpties' /\ BufferedForNobody' /\ RequeuesFailed'
    BY <2>7 DEF OneBusy, DrainEmpties, BufferedForNobody, RequeuesFailed
  <2>12. DeliverReaches'
    BY <2>5, <2>7, <2>8, <2>9, <2>10 DEF DeliverReaches
  <2>13. WaitsForNobody'
    BY <2>6, <2>9 DEF Untaken, WaitsForNobody, Texts
  <2> QED
    BY <2>11, <2>12, <2>13 DEF Untaken
<1>5. ASSUME NEW t \in Dispatcher, Deliver(t)
      PROVE  Untaken'
  <2>1. PICK c \in ids[t] :
          /\ ids' = [ids EXCEPT ![t] = @ \ {c}]
          /\ \/ enqueued' = [enqueued EXCEPT ![t] = TRUE]
             \/ ~(c \in handles /\ Receiving(c)) /\ UNCHANGED enqueued
    BY <1>5 DEF Deliver
  <2>2. /\ step[t] = "deliver"
        /\ UNCHANGED <<pending, failed, handles, session, step, message, todo>>
    BY <1>5 DEF Deliver
  <2>3. \A u \in Task : step[u] # "rest" => u = t
    BY <2>2 DEF Untaken, OneBusy
  <2>4. \A s : Takers(s)' = Takers(s)
    BY <2>2 DEF Takers
  <2>5. OneBusy' /\ DrainEmpties' /\ BufferedForNobody' /\ RequeuesFailed'
    BY <2>2, <2>3 DEF Untaken, OneBusy, DrainEmpties, BufferedForNobody, RequeuesFailed
  <2>6. ASSUME NEW s \in Range(todo[t])
        PROVE  Takers(s) \subseteq ids'[t] \/ enqueued'[t]
    <3>1. Takers(s) \subseteq ids[t] \/ enqueued[t]
      BY <2>2 DEF Untaken, DeliverReaches
    <3>2. CASE enqueued' = [enqueued EXCEPT ![t] = TRUE]
      BY <3>2 DEF TypeOK
    <3>3. CASE ~(c \in handles /\ Receiving(c)) /\ UNCHANGED enqueued
      <4>1. c \notin Takers(s)
        BY <3>3 DEF Takers, Receiving
      <4>2. ids'[t] = ids[t] \ {c}
        BY <2>1 DEF TypeOK
      <4> QED
        BY <3>1, <3>3, <4>1, <4>2
    <3> QED
      BY <2>1, <3>2, <3>3
  <2>7. DeliverReaches'
    BY <2>2, <2>3, <2>4, <2>6 DEF DeliverReaches
  <2>8. WaitsForNobody'
    BY <2>2, <2>4 DEF Untaken, WaitsForNobody, Texts
  <2> QED
    BY <2>5, <2>7, <2>8 DEF Untaken
<1>6. ASSUME NEW t \in Dispatcher, Delivered(t)
      PROVE  Untaken'
  <2>1. /\ step[t] = "deliver" /\ ids[t] = {} /\ step' = [step EXCEPT ![t] = "requeue"]
        /\ handles' = handles \ stale[t]
        /\ todo' = [todo EXCEPT ![t] = IF Buffers(t) THEN @ ELSE <<>>]
        /\ UNCHANGED <<pending, failed, session, message>>
    BY <1>6 DEF Delivered, history
  <2>2. /\ step'[t] = "requeue" /\ \A u \in Task \ {t} : step'[u] = "rest"
        /\ todo'[t] = IF Buffers(t) THEN todo[t] ELSE <<>>
    BY <2>1 DEF Untaken, OneBusy, TypeOK
  <2>3. \A s : Takers(s)' \subseteq Takers(s)
    BY <2>1 DEF Takers
  <2>4. OneBusy' /\ DrainEmpties' /\ DeliverReaches' /\ RequeuesFailed'
    BY <2>2 DEF OneBusy, DrainEmpties, DeliverReaches, RequeuesFailed
  <2>5. ASSUME NEW s \in Range(todo'[t])
        PROVE  Takers(s) = {}
    <3>1. CASE Buffers(t)
      BY <2>1, <2>2, <2>5, <3>1 DEF Untaken, DeliverReaches, Buffers
    <3>2. CASE ~Buffers(t)
      BY <2>2, <2>5, <3>2, EmptySequence
    <3> QED
      BY <3>1, <3>2
  <2>6. BufferedForNobody'
    BY <2>2, <2>3, <2>5 DEF BufferedForNobody
  <2>7. WaitsForNobody'
    BY <2>1, <2>3 DEF Untaken, WaitsForNobody, Texts
  <2> QED
    BY <2>4, <2>6, <2>7 DEF Untaken
<1>7. ASSUME NEW c \in Conn, Register(c)
      PROVE  Untaken'
  <2>1. \A u \in Task : step[u] = "rest"
    BY <1>7, AllAtRest DEF Register, Idle
  <2>2. /\ session[c] = "new" /\ handles' = (handles \ SameInstance(c)) \cup {c}
        /\ step' = [step EXCEPT ![c] = "drain"] /\ todo' = [todo EXCEPT ![c] = SubjectsOf[c]]
        /\ UNCHANGED <<pending, failed, session>>
    BY <1>7 DEF Register, history
  <2>3. /\ step'[c] = "drain" /\ \A u \in Task \ {c} : step'[u] = "rest"
        /\ todo'[c] = SubjectsOf[c]
    BY <2>1, <2>2 DEF TypeOK
  <2>4. \A s : Takers(s)' \subseteq Takers(s)
    BY <2>2 DEF Takers
  <2>5. OneBusy' /\ DrainEmpties' /\ DeliverReaches' /\ BufferedForNobody' /\ RequeuesFailed'
    BY <2>3 DEF OneBusy, DrainEmpties, DeliverReaches, BufferedForNobody, RequeuesFailed
  <2>6. WaitsForNobody'
    BY <2>2, <2>4 DEF Untaken, WaitsForNobody, Texts
  <2> QED
    BY <2>5, <2>6 DEF Untaken
<1>8. ASSUME NEW c \in Conn, Drain(c)
      PROVE  Untaken'
  <2>1. PICK s \in Subject : s = Head(todo[c])
    BY <1>8, RangeOfParts DEF Drain, TypeOK
  <2>2. Range(todo[c]) = {s} \cup Range(Tail(todo[c]))
    BY <1>8, <2>1, RangeOfParts DEF Drain, TypeOK
  <2>3. /\ step[c] = "drain"
        /\ pending' = [pending EXCEPT ![s] = <<>>]
        /\ todo' = [todo EXCEPT ![c] = Tail(@)]
        /\ UNCHANGED <<handles, session, step, message, ids, enqueued, failed>>
    BY <1>8, <2>1 DEF Drain
  <2>4. \A u \in Task : step[u] # "rest" => u = c
    BY <2>3 DEF Untaken, OneBusy
  <2>5. /\ pending'[s] = <<>> /\ \A r \in Subject \ {s} : pending'[r] = pending[r]
        /\ todo'[c] = Tail(todo[c])
    BY <2>3 DEF TypeOK
  <2>6. Texts(pending'[s]) = {}
    BY <2>5, EmptySequence DEF Texts
  <2>7. OneBusy' /\ DeliverReaches' /\ BufferedForNobody' /\ RequeuesFailed'
    BY <2>3, <2>4 DEF Untaken, OneBusy, DeliverReaches, BufferedForNobody, RequeuesFailed
  <2>8. ASSUME NEW r \in Range(SubjectsOf[c])
        PROVE  r \in Range(todo'[c]) \/ Texts(pending'[r]) = {}
    <3>1. r \in Range(todo[c]) \/ Texts(pending[r]) = {}
      BY <2>3 DEF Untaken, DrainEmpties
    <3>2. r \in Subject
      BY DEF Range
    <3> QED
      BY <2>2, <2>5, <2>6, <3>1, <3>2
  <2>9. DrainEmpties'
    BY <2>3, <2>4, <2>8 DEF DrainEmpties, Texts
  <2>10. \A r : Takers(r)' = Takers(r)
    BY <2>3 DEF Takers
  <2>11. ASSUME NEW r \in Subject, Takers(r) # {}
         PROVE  Texts(pending'[r]) \subseteq failed
    BY <2>5, <2>6, <2>11 DEF Untaken, WaitsForNobody
  <2>12. WaitsForNobody'
    BY <2>3, <2>10, <2>11 DEF WaitsForNobody, Texts
  <2> QED
    BY <2>7, <2>9, <2>12 DEF Untaken
<1>9. ASSUME NEW c \in Conn, Drained(c)
      PROVE  Untaken'
  <2>1. /\ step[c] = "drain" /\ todo[c] = <<>> /\ step' = [step EXCEPT ![c] = "rest"]
        /\ session' = [session EXCEPT ![c] = "open"]
        /\ UNCHANGED <<pending, failed, handles>>
    BY <1>9 DEF Drained
  <2>2. \A u \in Task : step'[u] = "rest"
    BY <2>1 DEF Untaken, OneBusy, TypeOK
  <2>3. ASSUME NEW s \in Subject, NEW d \in Takers(s)'
        PROVE  Texts(pending[s]) \subseteq failed
    <3>1. CASE d = c
      BY <2>1, <2>3, <3>1, EmptySequence DEF Takers, Untaken, DrainEmpties
    <3>2. CASE d # c
      <4>1. d \in Takers(s)
        BY <2>1, <2>3, <3>2 DEF Takers, TypeOK
      <4> QED
        BY <4>1 DEF Untaken, WaitsForNobody
    <3> QED
      BY <3>1, <3>2
  <2>4. WaitsForNobody'
    BY <2>1, <2>3 DEF WaitsForNobody, Texts
  <2> QED
    BY <2>2, <2>4, RestUntaken
<1>10. ASSUME NEW c \in Conn, Receive(c) \/ Leave(c) \/ Unregister(c) \/ Evict(c)
       PROVE  Untaken'
  <2>1. UNCHANGED <<pending, failed, step, message, todo, ids, enqueued>>
    BY <1>10 DEF Receive, Leave, Unregister, Evict, frame, history
  <2>2. handles' \subseteq handles
    BY <1>10 DEF Receive, Leave, Unregister, Evict
  <2>3. \A d \in Conn : session'[d] = "open" => session[d] = "open"
    BY <1>10 DEF Receive, Leave, Unregister, Evict, Break, TypeOK
  <2>4. \A s : Takers(s)' \subseteq Takers(s)
    BY <2>2, <2>3 DEF Takers, TypeOK
  <2> QED
    BY <2>1, <2>4, TakersLeave
<1>11. ASSUME NEW c \in Conn, Written(c)
       PROVE  Untaken'
  <2>1. UNCHANGED <<pending, failed, handles, session, step, message, todo, ids, enqueued>>
    BY <1>11 DEF Written, frame
  <2> QED
    BY <2>1, TakersLeave DEF Takers
<1>12. ASSUME NEW c \in Conn, Failed(c)
       PROVE  Untaken'
  <2>1. UNCHANGED <<pending, handles, ids, enqueued>>
    BY <1>12 DEF Failed
  <2>2. CASE c \in WebTransport /\ writing[c] \in Push
    <3>1. /\ Idle(c) /\ step' = [step EXCEPT ![c] = "requeue"]
          /\ message' = [message EXCEPT ![c] = writing[c]]
          /\ failed' = failed \cup {writing[c]} /\ UNCHANGED session
      BY <1>12, <2>2 DEF Failed
    <3>2. \A u \in Task : step[u] = "rest"
      BY <3>1, AllAtRest DEF Idle
    <3>3. /\ step'[c] = "requeue" /\ \A u \in Task \ {c} : step'[u] = "rest"
          /\ message'[c] = writing[c]
      BY <3>1, <3>2 DEF TypeOK
    <3>4. OneBusy' /\ DrainEmpties' /\ DeliverReaches' /\ BufferedForNobody' /\ RequeuesFailed'
      BY <3>1, <3>3 DEF OneBusy, DrainEmpties, DeliverReaches, BufferedForNobody, RequeuesFailed
    <3>5. \A s : Takers(s)' = Takers(s)
      BY <2>1, <3>1 DEF Takers
    <3>6. WaitsForNobody'
      BY <2>1, <3>1, <3>5 DEF Untaken, WaitsForNobody, Texts
    <3> QED
      BY <3>4, <3>6 DEF Untaken
  <2>3. CASE ~(c \in WebTransport /\ writing[c] \in Push)
    <3>1. Break(c) /\ UNCHANGED <<step, message, todo, failed>>
      BY <1>12, <2>3 DEF Failed
    <3>2. \A d \in Conn : session'[d] = "open" => session[d] = "open"
      BY <3>1 DEF Break, TypeOK
    <3>3. \A s : Takers(s)' \subseteq Takers(s)
      BY <2>1, <3>2 DEF Takers, TypeOK
    <3> QED
      BY <2>1, <3>1, <3>3, TakersLeave
  <2> QED
    BY <2>2, <2>3
<1>13. CASE UNCHANGED vars
  <2>1. UNCHANGED <<pending, failed, handles, session, step, message, todo, ids, enqueued>>
    BY <1>13 DEF vars, frame, history
  <2> QED
    BY <2>1, TakersLeave DEF Takers
<1> QED
  BY <1>1, <1>2, <1>3, <1>4, <1>5, <1>6, <1>7, <1>8, <1>9, <1>10, <1>11, <1>12, <1>13 DEF Next

(* On one worker nothing waits under a subject while a connection of that  *)
(* subject is open, but what a session failed to write.                    *)
THEOREM NobodyStranded == Spec => []NoneStranded
<1>1. [Next]_vars => UNCHANGED workers
  BY DEF Next, Tick, Requeue, Requeued, Send, Deliver, Delivered, Register, Drain, Drained,
         Receive, Written, Failed, Leave, Unregister, Evict, vars
<1>2. TypeOK /\ (workers = 1 => Untaken) /\ [Next]_vars => (workers = 1 => Untaken)'
  BY <1>1, UntakenNext
<1>3. (workers = 1 => Untaken) /\ TypeOK => NoneStranded
  <2> SUFFICES ASSUME TypeOK, Untaken, NEW c \in handles, session[c] = "open",
                      NEW i \in DOMAIN SubjectsOf[c]
               PROVE  Texts(pending[SubjectsOf[c][i]]) \subseteq failed
    BY DEF NoneStranded
  <2>1. c \in Conn
    BY DEF TypeOK
  <2>2. SubjectsOf[c][i] \in Subject
    BY <2>1, TaskFacts
  <2>3. c \in Takers(SubjectsOf[c][i])
    BY DEF Takers, Range
  <2> QED
    BY <2>2, <2>3 DEF Untaken, WaitsForNobody
<1> QED
  BY <1>2, <1>3, InitType, NextType, UntakenInit, PTL DEF Spec

-----------------------------------------------------------------------------
(***************************************************************************)
(* One worker thread: nothing twice.  A registration has the connection to *)
(* itself until its queues are drained, and what it takes it takes once;   *)
(* what comes later is from dispatches, each of which serves a connection  *)
(* of its list once.                                                       *)
(***************************************************************************)
Distinct(q) == \A i, j \in DOMAIN q : q[i] = q[j] => i = j \/ q[i] = Close

(* The messages a connection has or will get. *)
Has(c) == Message \cap (Range(sent[c]) \cup {writing[c]} \cup Range(channel[c]))

CopiesApart ==
  \A c \in Conn :
    /\ Distinct(sent[c]) /\ Distinct(channel[c]) /\ Distinct(snapshot[c])
    /\ Range(sent[c]) \cap Range(channel[c]) = {}
    /\ writing[c] \in Message => writing[c] \notin Range(sent[c]) \cup Range(channel[c])

NewHasNone ==
  \A c \in Conn :
    /\ session[c] = "new" => Has(c) = {} /\ (c \in handles => step[c] = "drain")
    /\ step[c] = "drain" => session[c] = "new"

StillToGet ==
  \A t \in Dispatcher : step[t] = "deliver" => \A c \in ids[t] : message[t] \notin Has(c)

FromDispatch ==
  \A m \in Message : addressed[m] = {} =>
    /\ \A c \in Conn : m \notin Has(c) /\ m \notin Range(snapshot[c])
    /\ \A s \in Subject : m \notin Texts(pending[s])
    /\ \A t \in Task : message[t] # m

Once == CopiesApart /\ NewHasNone /\ StillToGet /\ FromDispatch

(* How the sequences change that copies are in. *)
LEMMA DistinctTail ==
  ASSUME NEW S, NEW q \in Seq(S), q # <<>>, Distinct(q)
  PROVE  Distinct(Tail(q)) /\ (Head(q) = Close \/ Head(q) \notin Range(Tail(q)))
<1>1. /\ Len(q) \in Nat \ {0} /\ DOMAIN q = 1..Len(q) /\ Head(q) = q[1]
      /\ DOMAIN Tail(q) = 1..(Len(q) - 1)
      /\ \A i \in 1..(Len(q) - 1) : Tail(q)[i] = q[i + 1] /\ i + 1 \in 1..Len(q) /\ i + 1 # 1
  OBVIOUS
<1>2. Distinct(Tail(q))
  BY <1>1 DEF Distinct
<1>3. 1 \in DOMAIN q
  BY <1>1
<1> QED
  BY <1>1, <1>2, <1>3 DEF Distinct, Range

LEMMA DistinctConcat ==
  ASSUME NEW S, NEW s \in Seq(S), NEW t \in Seq(S), Distinct(s), Distinct(t),
         Range(s) \cap Range(t) \subseteq {Close}
  PROVE  Distinct(s \o t)
<1>1. /\ Len(s) \in Nat /\ Len(t) \in Nat
      /\ DOMAIN s = 1..Len(s) /\ DOMAIN t = 1..Len(t) /\ DOMAIN (s \o t) = 1..(Len(s) + Len(t))
      /\ \A i \in 1..Len(s) : (s \o t)[i] = s[i]
      /\ \A i \in 1..Len(t) : (s \o t)[Len(s) + i] = t[i]
  OBVIOUS
<1> SUFFICES ASSUME NEW i \in 1..(Len(s) + Len(t)), NEW j \in 1..(Len(s) + Len(t)),
                    (s \o t)[i] = (s \o t)[j], (s \o t)[i] # Close
             PROVE  i = j
  BY <1>1 DEF Distinct
<1>2. \A k \in 1..(Len(s) + Len(t)) :
        \/ k \in DOMAIN s /\ (s \o t)[k] = s[k]
        \/ k - Len(s) \in DOMAIN t /\ (s \o t)[k] = t[k - Len(s)]
  <2> TAKE k \in 1..(Len(s) + Len(t))
  <2>1. CASE k \in 1..Len(s)
    BY <1>1, <2>1
  <2>2. CASE k - Len(s) \in 1..Len(t) /\ Len(s) + (k - Len(s)) = k
    BY <1>1, <2>2
  <2> QED
    BY <1>1, <2>1, <2>2
<1>3. CASE i \in DOMAIN s /\ (s \o t)[i] = s[i]
  <2>1. CASE j \in DOMAIN s /\ (s \o t)[j] = s[j]
    BY <1>3, <2>1 DEF Distinct
  <2>2. CASE j - Len(s) \in DOMAIN t /\ (s \o t)[j] = t[j - Len(s)]
    BY <1>3, <2>2 DEF Range
  <2> QED
    BY <1>2, <2>1, <2>2
<1>4. CASE i - Len(s) \in DOMAIN t /\ (s \o t)[i] = t[i - Len(s)]
  <2>1. CASE j \in DOMAIN s /\ (s \o t)[j] = s[j]
    BY <1>4, <2>1 DEF Range
  <2>2. CASE j - Len(s) \in DOMAIN t /\ (s \o t)[j] = t[j - Len(s)]
    <3>1. i - Len(s) = j - Len(s)
      BY <1>4, <2>2 DEF Distinct
    <3> QED
      BY <1>1, <3>1
  <2> QED
    BY <1>2, <2>1, <2>2
<1> QED
  BY <1>2, <1>3, <1>4

LEMMA OneElement ==
  ASSUME NEW x
  PROVE  Distinct(<<x>>) /\ Range(<<x>>) = {x}
<1>1. DOMAIN <<x>> = 1..1 /\ <<x>>[1] = x /\ \A i \in 1..1 : i = 1
  OBVIOUS
<1> QED
  BY <1>1 DEF Distinct, Range

LEMMA AppendOne ==
  ASSUME NEW S, NEW s \in Seq(S), NEW x \in S
  PROVE  Append(s, x) = s \o <<x>> /\ <<x>> \in Seq(S)
OBVIOUS

LEMMA DistinctAppend ==
  ASSUME NEW S, NEW s \in Seq(S), NEW x \in S, Distinct(s), x = Close \/ x \notin Range(s)
  PROVE  /\ Distinct(Append(s, x))
         /\ Range(Append(s, x)) = Range(s) \cup {x}
<1>1. PICK t \in Seq(S) : t = <<x>> /\ Append(s, x) = s \o t
  BY AppendOne
<1>2. Distinct(t) /\ Range(t) = {x}
  BY <1>1, OneElement
<1>3. Range(s) \cap Range(t) \subseteq {Close}
  BY <1>2
<1>4. Range(s \o t) = Range(s) \cup {x}
  BY <1>2, ConcatRange
<1>5. Distinct(s \o t)
  BY <1>2, <1>3, DistinctConcat
<1> QED
  BY <1>1, <1>4, <1>5

LEMMA TakenOnce ==
  ASSUME NEW taken \in Seq(Message), NEW q \in Seq(Item), NEW r \in Taken(taken, q),
         Distinct(taken)
  PROVE  Distinct(r)
<1>1. PICK o \in Orders(Fresh(taken, q)) :
        InQueueOrder(o) /\ r = taken \o [i \in DOMAIN o |-> q[o[i]].text]
  BY DEF Taken
<1> DEFINE new == [i \in DOMAIN o |-> q[o[i]].text]
<1>2. Len(q) \in Nat /\ DOMAIN q = 1..Len(q) /\ \A i \in DOMAIN q : q[i] \in Item
  OBVIOUS
<1>3. Fresh(taken, q) \subseteq DOMAIN q
  BY DEF Fresh
<1>4. IsFiniteSet(Fresh(taken, q))
  <2>1. IsFiniteSet(1..Len(q))
    BY <1>2, FS_Interval
  <2> QED
    BY <1>2, <1>3, <2>1, FS_Subset
<1>5. o \in Seq(Fresh(taken, q))
  BY <1>4, OrdersCover
<1>6. DOMAIN o = 1..Len(o) /\ Len(o) \in Nat /\ \A i \in DOMAIN o : o[i] \in Fresh(taken, q)
  BY <1>5
<1>7. new \in Seq(Message)
  BY <1>2, <1>3, <1>6 DEF Item
<1>8. ASSUME NEW i \in DOMAIN o, NEW j \in DOMAIN o, i < j
      PROVE  new[i] # new[j]
  <2>1. o[i] < o[j] /\ o[i] \in DOMAIN q /\ o[j] \in DOMAIN q
    BY <1>1, <1>3, <1>6, <1>8 DEF InQueueOrder
  <2>2. o[i] \in 1..(o[j] - 1)
    BY <1>2, <2>1
  <2> QED
    BY <1>6, <2>2 DEF Fresh
<1>9. Distinct(new)
  <2>1. \A i, j \in DOMAIN new : i = j \/ i < j \/ j < i
    BY <1>6
  <2>2. DOMAIN new = DOMAIN o
    OBVIOUS
  <2> QED
    BY <1>8, <2>1, <2>2 DEF Distinct
<1>10. Range(taken) \cap Range(new) = {}
  <2>1. ASSUME NEW i \in DOMAIN o
        PROVE  new[i] \notin Range(taken)
    <3>1. ~Contains(taken, q[o[i]].text)
      BY <1>6 DEF Fresh
    <3> QED
      BY <3>1, ContainsIffInRange
  <2> QED
    BY <2>1 DEF Range
<1>11. r = taken \o new
  BY <1>1
<1> HIDE DEF new
<1> QED
  BY <1>7, <1>9, <1>10, <1>11, DistinctConcat

(* A step that takes copies away, adds at most orders, and dispatches, takes *)
(* and opens nothing.                                                        *)
LEMMA CopiesLeave ==
  ASSUME TypeOK, Once,
         \A c \in Conn : /\ sent'[c] = sent[c] /\ writing'[c] \in {writing[c], Close}
                         /\ Distinct(channel'[c])
                         /\ Range(channel'[c]) \subseteq Range(channel[c]) \cup {Close}
                         /\ Distinct(snapshot'[c])
  PROVE  CopiesApart' /\ \A c \in Conn : Has(c)' \subseteq Has(c)
<1> USE TaskFacts
<1>1. \A c \in Conn : Range(sent[c]) \subseteq Message
  BY DEF TypeOK, Range
<1>2. CopiesApart'
  <2> SUFFICES ASSUME NEW c \in Conn
               PROVE  /\ Distinct(sent'[c]) /\ Distinct(channel'[c]) /\ Distinct(snapshot'[c])
                      /\ Range(sent'[c]) \cap Range(channel'[c]) = {}
                      /\ writing'[c] \in Message
                           => writing'[c] \notin Range(sent'[c]) \cup Range(channel'[c])
    BY DEF CopiesApart
  <2>1. /\ Distinct(sent[c]) /\ Range(sent[c]) \cap Range(channel[c]) = {}
        /\ writing[c] \in Message => writing[c] \notin Range(sent[c]) \cup Range(channel[c])
    BY DEF Once, CopiesApart
  <2>2. /\ sent'[c] = sent[c] /\ writing'[c] \in {writing[c], Close} /\ Close \notin Message
        /\ Distinct(channel'[c]) /\ Distinct(snapshot'[c])
        /\ Range(channel'[c]) \subseteq Range(channel[c]) \cup {Close}
    OBVIOUS
  <2> QED
    BY <1>1, <2>1, <2>2
<1>3. \A c \in Conn : Has(c)' \subseteq Has(c)
  BY DEF Has
<1> QED
  BY <1>2, <1>3

LEMMA FewerCopies ==
  ASSUME TypeOK, Once, CopiesApart', \A c \in Conn : Has(c)' \subseteq Has(c),
         \A c \in Conn : session'[c] = "new" => session[c] = "new",
         \A c \in Conn : session'[c] = "new" /\ c \in handles' => step'[c] = "drain",
         \A c \in Conn : step'[c] = "drain" => session'[c] = "new"
  PROVE  NewHasNone'
BY DEF Once, NewHasNone

LEMMA OnceInit == Init => Once
<1> SUFFICES ASSUME Init
             PROVE  Once
  OBVIOUS
<1> USE TaskFacts, EmptySequence
<1>1. \A c \in Conn : Has(c) = {}
  BY DEF Init, Has
<1>2. Distinct(<<>>)
  BY DEF Distinct
<1>3. CopiesApart
  BY <1>2 DEF Init, CopiesApart
<1>4. NewHasNone /\ StillToGet
  BY <1>1, DeliveryAssumption DEF Init, NewHasNone, StillToGet, Task
<1>5. FromDispatch
  <2>1. \A s \in Subject : Texts(pending[s]) = {}
    BY DEF Init, Texts
  <2> QED
    BY <1>1, <2>1 DEF Init, FromDispatch
<1> QED
  BY <1>3, <1>4, <1>5 DEF Once

LEMMA OnceNext == TypeOK /\ Untaken /\ Once /\ [Next]_vars => Once'
<1> SUFFICES ASSUME TypeOK, Untaken, Once, [Next]_vars
             PROVE  Once'
  OBVIOUS
<1> USE TaskFacts
<1>e. /\ Distinct(<<>>) /\ Range(<<>>) = {} /\ <<>> \in Seq(Message \cup {Close})
  BY EmptySequence DEF Distinct
<1>s. \A c \in Conn : /\ Distinct(sent[c]) /\ Distinct(channel[c]) /\ Distinct(snapshot[c])
                      /\ Range(sent[c]) \subseteq Message
  BY DEF Once, CopiesApart, TypeOK, Range
<1>o. \A q \in Seq(Message \cup {Close}) :
        Distinct(q) => /\ Distinct(Append(q, Close))
                       /\ Range(Append(q, Close)) = Range(q) \cup {Close}
  BY DistinctAppend
<1>b. ASSUME NEW c \in Conn, Break(c), UNCHANGED <<sent, snapshot>>
      PROVE  /\ CopiesApart' /\ \A d \in Conn : Has(d)' \subseteq Has(d)
             /\ \A d \in Conn : session'[d] = "new" => d # c /\ session[d] = "new"
             /\ \A d \in Conn : session[d] = "new" /\ d # c => session'[d] = "new"
  <2>1. \A d \in Conn : /\ sent'[d] = sent[d] /\ writing'[d] \in {writing[d], Close}
                        /\ Distinct(channel'[d])
                        /\ Range(channel'[d]) \subseteq Range(channel[d]) \cup {Close}
                        /\ Distinct(snapshot'[d])
    BY <1>b, <1>e, <1>s DEF Break, TypeOK
  <2>2. CopiesApart' /\ \A d \in Conn : Has(d)' \subseteq Has(d)
    BY <2>1, CopiesLeave
  <2> QED
    BY <1>b, <2>2 DEF Break, TypeOK
<1>q. ASSUME UNCHANGED <<sent, writing, channel, snapshot>>
      PROVE  CopiesApart' /\ \A c \in Conn : Has(c)' = Has(c)
  BY <1>q DEF Once, CopiesApart, Has
<1>n. ASSUME \A c \in Conn : Has(c)' \subseteq Has(c), UNCHANGED <<session, handles, step>>
      PROVE  NewHasNone'
  BY <1>n DEF Once, NewHasNone
<1>g. ASSUME \A c \in Conn : Has(c)' \subseteq Has(c), UNCHANGED <<step, ids, message>>
      PROVE  StillToGet'
  BY <1>g DEF Once, StillToGet, TypeOK
<1>f. ASSUME \A c \in Conn : Has(c)' \subseteq Has(c), UNCHANGED <<addressed, pending>>,
             \A c \in Conn : Range(snapshot'[c]) \subseteq Range(snapshot[c]),
             \A t \in Task : message'[t] \in {message[t], Close}
      PROVE  FromDispatch'
  <2>1. \A s \in Subject : Texts(pending[s])' = Texts(pending[s])
    BY <1>f DEF Texts
  <2> QED
    BY <1>f, <2>1 DEF Once, FromDispatch
<1>1. CASE Tick
  <2>1. UNCHANGED <<sent, writing, channel, snapshot, session, handles, step, message, ids,
                    addressed, pending>>
    BY <1>1 DEF Tick, frame, history
  <2>2. CopiesApart' /\ \A c \in Conn : Has(c)' = Has(c)
    BY <2>1, <1>q
  <2>3. NewHasNone' /\ StillToGet' /\ FromDispatch'
    BY <2>1, <2>2, <1>n, <1>g, <1>f
  <2> QED
    BY <2>2, <2>3 DEF Once
<1>2. ASSUME NEW t \in Task, Requeue(t)
      PROVE  Once'
  <2>1. PICK s \in Subject : s = Head(todo[t])
    BY <1>2, RangeOfParts DEF Requeue, TypeOK
  <2>2. PICK item \in Item : item = [text |-> message[t], at |-> now_ts[t]]
    BY <1>2 DEF Requeue, Item, TypeOK
  <2>3. PICK q \in Seq(Item) : q = Append(pending[s], item)
    BY <2>2, AppendTexts DEF TypeOK
  <2>4. Texts(q) = Texts(pending[s]) \cup {message[t]}
    BY <2>2, <2>3, AppendTexts DEF TypeOK
  <2>5. PICK kept : kept = Pruned(q, now_ts[t])
    OBVIOUS
  <2>6. Texts(kept) \subseteq Texts(pending[s]) \cup {message[t]}
    BY <2>4, <2>5, PrunedKeeps DEF TypeOK
  <2>7. /\ pending' = [pending EXCEPT ![s] = kept]
        /\ UNCHANGED <<sent, writing, channel, snapshot, session, handles, step, message, ids,
                       addressed>>
    BY <1>2, <2>1, <2>2, <2>3, <2>5 DEF Requeue, Enqueued
  <2>8. CopiesApart' /\ \A c \in Conn : Has(c)' = Has(c)
    BY <2>7, <1>q
  <2>9. \A r \in Subject : Texts(pending'[r]) \subseteq Texts(pending[r]) \cup {message[t]}
    BY <2>6, <2>7 DEF TypeOK
  <2>10. message[t] \in Message => addressed[message[t]] # {}
    BY DEF Once, FromDispatch
  <2>11. \A r \in Subject : Texts(pending[r])' = Texts(pending'[r])
    BY DEF Texts
  <2>12. FromDispatch'
    <3> SUFFICES ASSUME NEW m \in Message, addressed'[m] = {}
                 PROVE  /\ \A c \in Conn : m \notin Has(c)' /\ m \notin Range(snapshot'[c])
                        /\ \A r \in Subject : m \notin Texts(pending'[r])
                        /\ \A u \in Task : message'[u] # m
      BY <2>11 DEF FromDispatch
    <3>1. addressed[m] = {} /\ m # message[t]
      BY <2>7, <2>10
    <3> QED
      BY <2>7, <2>8, <2>9, <3>1 DEF Once, FromDispatch
  <2>13. NewHasNone' /\ StillToGet'
    BY <2>7, <2>8, <1>n, <1>g
  <2> QED
    BY <2>8, <2>12, <2>13 DEF Once
<1>3. ASSUME NEW t \in Task, Requeued(t)
      PROVE  Once'
  <2>1. /\ step[t] = "requeue" /\ step' = [step EXCEPT ![t] = "rest"]
        /\ message' = [message EXCEPT ![t] = Close]
        /\ UNCHANGED <<sent, snapshot, handles, ids, addressed, pending>>
        /\ IF t \in Conn THEN Break(t) ELSE UNCHANGED <<session, channel, writing>>
    BY <1>3 DEF Requeued, history
  <2>2. /\ CopiesApart' /\ \A d \in Conn : Has(d)' \subseteq Has(d)
        /\ \A d \in Conn : session'[d] = "new" => session[d] = "new"
        /\ \A d \in Conn : session[d] = "new" /\ d # t => session'[d] = "new"
    <3>1. CASE t \in Conn
      BY <2>1, <3>1, <1>b
    <3>2. CASE t \notin Conn
      BY <2>1, <3>2, <1>q
    <3> QED
      BY <3>1, <3>2
  <2>3. NewHasNone'
    <3>1. \A c \in Conn : step'[c] = "drain" <=> step[c] = "drain"
      BY <2>1 DEF TypeOK
    <3>2. \A c \in Conn : step[c] = "drain" => c # t
      BY <2>1
    <3> QED
      BY <2>1, <2>2, <3>1, <3>2, FewerCopies DEF Once, NewHasNone
  <2>4. StillToGet'
    BY <2>1, <2>2 DEF Once, StillToGet, TypeOK
  <2>5. FromDispatch'
    <3>1. \A u \in Task : message'[u] \in {message[u], Close}
      BY <2>1 DEF TypeOK
    <3> QED
      BY <2>1, <2>2, <3>1, <1>f
  <2> QED
    BY <2>2, <2>3, <2>4, <2>5 DEF Once
<1>4. ASSUME NEW t \in Dispatcher, Send(t)
      PROVE  Once'
  <2>1. PICK m \in Message, S \in Audience :
          /\ addressed[m] = {} /\ addressed' = [addressed EXCEPT ![m] = S]
          /\ message' = [message EXCEPT ![t] = m]
          /\ ids' = [ids EXCEPT ![t] = Registered(S)]
          /\ step' = [step EXCEPT ![t] = "deliver"] /\ step[t] = "rest"
          /\ UNCHANGED <<sent, writing, channel, snapshot, session, handles, pending>>
    BY <1>4 DEF Send, Idle
  <2>2. CopiesApart' /\ \A c \in Conn : Has(c)' = Has(c)
    BY <2>1, <1>q
  <2>3. NewHasNone'
    BY <2>1, <2>2 DEF Once, NewHasNone, TypeOK
  <2>4. StillToGet'
    <3>1. \A c \in Conn : m \notin Has(c)
      BY <2>1 DEF Once, FromDispatch
    <3>2. Registered(S) \subseteq Conn
      BY DEF Registered, TypeOK
    <3>3. ASSUME NEW u \in Dispatcher, step'[u] = "deliver", NEW c \in ids'[u]
          PROVE  message'[u] \notin Has(c)'
      <4>1. CASE u = t
        BY <2>1, <2>2, <3>1, <3>2, <3>3, <4>1 DEF TypeOK
      <4>2. CASE u # t
        <5>1. step[u] = "deliver" /\ c \in ids[u] /\ message'[u] = message[u] /\ c \in Conn
          BY <2>1, <3>3, <4>2 DEF TypeOK
        <5> QED
          BY <2>2, <5>1 DEF Once, StillToGet
      <4> QED
        BY <4>1, <4>2
    <3> QED
      BY <3>3 DEF StillToGet
  <2>5. FromDispatch'
    <3>1. S # {}
      BY DeliveryAssumption
    <3>2. \A n \in Message : addressed'[n] = {} => n # m /\ addressed[n] = {}
      BY <2>1, <3>1 DEF TypeOK
    <3>3. \A n \in Message, u \in Task : message'[u] = n => n = m \/ message[u] = n
      BY <2>1 DEF TypeOK
    <3> QED
      BY <2>1, <2>2, <3>2, <3>3 DEF Once, FromDispatch, Texts
  <2> QED
    BY <2>2, <2>3, <2>4, <2>5 DEF Once
<1>5. ASSUME NEW t \in Dispatcher, Deliver(t)
      PROVE  Once'
  <2>1. step[t] = "deliver" /\ message[t] \in Message
    BY <1>5 DEF Deliver, TypeOK
  <2>2. PICK c \in ids[t] :
          /\ ids' = [ids EXCEPT ![t] = @ \ {c}]
          /\ \/ /\ c \in handles /\ Receiving(c)
                /\ channel' = [channel EXCEPT ![c] = Append(@, message[t])]
             \/ UNCHANGED channel
          /\ UNCHANGED <<sent, writing, snapshot, session, handles, step, message, addressed,
                         pending>>
    BY <1>5 DEF Deliver
  <2>3. c \in Conn /\ message[t] \notin Has(c)
    BY <2>1, <2>2 DEF Once, StillToGet, TypeOK
  <2>4. CASE UNCHANGED channel
    <3>1. CopiesApart' /\ \A d \in Conn : Has(d)' = Has(d)
      BY <2>2, <2>4, <1>q
    <3>2. StillToGet'
      BY <2>2, <3>1 DEF Once, StillToGet, TypeOK
    <3>3. NewHasNone' /\ FromDispatch'
      BY <2>2, <3>1 DEF Once, NewHasNone, FromDispatch, Texts
    <3> QED
      BY <3>1, <3>2, <3>3 DEF Once
  <2>5. CASE /\ c \in handles /\ Receiving(c)
             /\ channel' = [channel EXCEPT ![c] = Append(@, message[t])]
    <3>1. session[c] # "new"
      <4>1. session[c] = "new" => step[c] = "drain"
        BY <2>3, <2>5 DEF Once, NewHasNone
      <4> QED
        BY <2>1, <2>3, <4>1 DEF Untaken, OneBusy
    <3>2. /\ Distinct(channel'[c])
          /\ Range(channel'[c]) = Range(channel[c]) \cup {message[t]}
          /\ \A d \in Conn : d # c => channel'[d] = channel[d]
      <4>1. message[t] \notin Range(channel[c])
        BY <2>1, <2>3 DEF Has
      <4>2. channel[c] \in Seq(Message \cup {Close}) /\ Distinct(channel[c])
        BY <2>3, <1>s DEF TypeOK
      <4>3. /\ Distinct(Append(channel[c], message[t]))
            /\ Range(Append(channel[c], message[t])) = Range(channel[c]) \cup {message[t]}
        BY <2>1, <4>1, <4>2, DistinctAppend
      <4> QED
        BY <2>3, <2>5, <4>3 DEF TypeOK
    <3>3. CopiesApart'
      <4> SUFFICES ASSUME NEW d \in Conn
                   PROVE  /\ Distinct(sent'[d]) /\ Distinct(channel'[d]) /\ Distinct(snapshot'[d])
                          /\ Range(sent'[d]) \cap Range(channel'[d]) = {}
                          /\ writing'[d] \in Message
                               => writing'[d] \notin Range(sent'[d]) \cup Range(channel'[d])
        BY DEF CopiesApart
      <4>1. CASE d # c
        BY <2>2, <3>2, <4>1 DEF Once, CopiesApart
      <4>2. CASE d = c
        <5>1. /\ Distinct(sent[c]) /\ Distinct(channel[c]) /\ Distinct(snapshot[c])
              /\ Range(sent[c]) \cap Range(channel[c]) = {}
              /\ writing[c] \in Message => writing[c] \notin Range(sent[c]) \cup Range(channel[c])
          BY <2>3 DEF Once, CopiesApart
        <5>2. message[t] \notin Range(sent[c]) \cup {writing[c]}
          BY <2>1, <2>3 DEF Has
        <5> QED
          BY <2>2, <3>2, <4>2, <5>1, <5>2
      <4> QED
        BY <4>1, <4>2
    <3>4. \A d \in Conn : Has(d)' = IF d = c THEN Has(d) \cup {message[t]} ELSE Has(d)
      BY <2>1, <2>2, <3>2 DEF Has
    <3>5. NewHasNone'
      BY <2>2, <3>1, <3>4 DEF Once, NewHasNone
    <3>6. StillToGet'
      <4>1. \A u \in Dispatcher : step[u] = "deliver" => u = t
        BY <2>1 DEF Untaken, OneBusy
      <4>2. \A d \in ids'[t] : d \in ids[t] /\ d # c /\ d \in Conn
        BY <2>2 DEF TypeOK
      <4> QED
        BY <2>1, <2>2, <3>4, <4>1, <4>2 DEF Once, StillToGet
    <3>7. FromDispatch'
      <4>1. addressed[message[t]] # {}
        BY <2>1 DEF Once, FromDispatch
      <4> QED
        BY <2>2, <3>4, <4>1 DEF Once, FromDispatch, Texts
    <3> QED
      BY <3>3, <3>5, <3>6, <3>7 DEF Once
  <2> QED
    BY <2>2, <2>4, <2>5
<1>6. ASSUME NEW t \in Dispatcher, Delivered(t)
      PROVE  Once'
  <2>1. /\ handles' = handles \ stale[t] /\ step[t] = "deliver"
        /\ step' = [step EXCEPT ![t] = "requeue"]
        /\ UNCHANGED <<sent, writing, channel, snapshot, session, message, ids, addressed, pending>>
    BY <1>6 DEF Delivered, history
  <2>2. CopiesApart' /\ \A c \in Conn : Has(c)' = Has(c)
    BY <2>1, <1>q
  <2>3. NewHasNone'
    BY <2>1, <2>2 DEF Once, NewHasNone, TypeOK
  <2>4. StillToGet'
    BY <2>1, <2>2 DEF Once, StillToGet, TypeOK
  <2>5. FromDispatch'
    BY <2>1, <2>2 DEF Once, FromDispatch, Texts
  <2> QED
    BY <2>2, <2>3, <2>4, <2>5 DEF Once
<1>7. ASSUME NEW c \in Conn, Register(c)
      PROVE  Once'
  <2>1. /\ session[c] = "new" /\ step[c] = "rest"
        /\ handles' = (handles \ SameInstance(c)) \cup {c}
        /\ step' = [step EXCEPT ![c] = "drain"]
        /\ UNCHANGED <<sent, writing, snapshot, session, message, ids, addressed, pending>>
        /\ \A d \in Conn : channel'[d] \in {channel[d], Append(channel[d], Close)}
    BY <1>7 DEF Register, Idle, history
  <2>2. \A d \in Conn : /\ Distinct(channel'[d])
                        /\ Range(channel'[d]) \subseteq Range(channel[d]) \cup {Close}
    <3> SUFFICES ASSUME NEW d \in Conn
                 PROVE  /\ Distinct(channel'[d])
                        /\ Range(channel'[d]) \subseteq Range(channel[d]) \cup {Close}
      OBVIOUS
    <3>1. channel[d] \in Seq(Message \cup {Close}) /\ Distinct(channel[d])
      BY <1>s DEF TypeOK
    <3>2. /\ Distinct(Append(channel[d], Close))
          /\ Range(Append(channel[d], Close)) = Range(channel[d]) \cup {Close}
      BY <3>1, <1>o
    <3>3. CASE channel'[d] = channel[d]
      BY <3>1, <3>3
    <3>4. CASE channel'[d] = Append(channel[d], Close)
      BY <3>2, <3>4
    <3> QED
      BY <2>1, <3>3, <3>4
  <2>3. CopiesApart' /\ \A d \in Conn : Has(d)' \subseteq Has(d)
    BY <2>1, <2>2, <1>s, CopiesLeave
  <2>4. NewHasNone'
    BY <2>1, <2>3, FewerCopies DEF Once, NewHasNone, TypeOK
  <2>5. StillToGet'
    BY <2>1, <2>3 DEF Once, StillToGet, TypeOK
  <2>6. FromDispatch'
    BY <2>1, <2>3 DEF Once, FromDispatch, Texts
  <2> QED
    BY <2>3, <2>4, <2>5, <2>6 DEF Once
<1>8. ASSUME NEW c \in Conn, Drain(c)
      PROVE  Once'
  <2>1. PICK s \in Subject : s = Head(todo[c])
    BY <1>8, RangeOfParts DEF Drain, TypeOK
  <2>2. PICK q : q = Pruned(pending[s], now_ts[c])
    OBVIOUS
  <2>3. q \in Seq(Item) /\ Texts(q) \subseteq Texts(pending[s])
    BY <2>2, PrunedKeeps DEF TypeOK
  <2>4. PICK texts \in Taken(snapshot[c], q) : snapshot' = [snapshot EXCEPT ![c] = texts]
    BY <1>8, <2>1, <2>2 DEF Drain
  <2>5. /\ pending' = [pending EXCEPT ![s] = <<>>]
        /\ UNCHANGED <<sent, writing, channel, session, handles, step, message, ids, addressed>>
    BY <1>8, <2>1 DEF Drain
  <2>6. Distinct(texts) /\ Range(texts) = Range(snapshot[c]) \cup Texts(q)
    <3>1. snapshot[c] \in Seq(Message)
      BY DEF TypeOK
    <3> QED
      BY <2>3, <2>4, <3>1, <1>s, TakenOnce, TakenAll
  <2>7. \A d \in Conn : /\ Distinct(snapshot'[d])
                        /\ Range(snapshot'[d]) \subseteq Range(snapshot[d]) \cup Texts(pending[s])
    BY <2>3, <2>4, <2>6, <1>s DEF TypeOK
  <2>8. \A d \in Conn : Has(d)' = Has(d)
    BY <2>5 DEF Has
  <2>9. CopiesApart'
    BY <2>5, <2>7 DEF Once, CopiesApart
  <2>10. NewHasNone' /\ StillToGet'
    BY <2>5, <2>8, <1>n, <1>g
  <2>11. \A r \in Subject : Texts(pending'[r]) \subseteq Texts(pending[r])
    <3>1. Texts(<<>>) = {}
      BY DEF Texts
    <3> QED
      BY <2>5, <3>1 DEF TypeOK
  <2>12. FromDispatch'
    <3>1. \A r \in Subject : Texts(pending[r])' = Texts(pending'[r])
      BY DEF Texts
    <3>2. \A d \in Conn : \A m \in Range(snapshot'[d]) :
            m \in Range(snapshot[d]) \/ m \in Texts(pending[s])
      BY <2>7
    <3> QED
      BY <2>5, <2>8, <2>11, <3>1, <3>2 DEF Once, FromDispatch
  <2> QED
    BY <2>9, <2>10, <2>12 DEF Once
<1>9. ASSUME NEW c \in Conn, Drained(c)
      PROVE  Once'
  <2>1. /\ step[c] = "drain"
        /\ channel' = [channel EXCEPT ![c] = @ \o snapshot[c]]
        /\ snapshot' = [snapshot EXCEPT ![c] = <<>>]
        /\ session' = [session EXCEPT ![c] = "open"]
        /\ step' = [step EXCEPT ![c] = "rest"]
        /\ UNCHANGED <<sent, writing, handles, message, ids, addressed, pending>>
    BY <1>9 DEF Drained
  <2>2. Has(c) = {}
    BY <2>1 DEF Once, NewHasNone
  <2>3. \A t \in Dispatcher : step[t] # "deliver" /\ step'[t] # "deliver"
    <3> TAKE t \in Dispatcher
    <3>1. t # c /\ step'[t] = step[t]
      BY <2>1 DEF TypeOK
    <3> QED
      BY <2>1, <3>1 DEF Untaken, OneBusy
  <2>4. /\ Distinct(channel[c] \o snapshot[c])
        /\ Range(channel[c] \o snapshot[c]) = Range(channel[c]) \cup Range(snapshot[c])
    <3>1. /\ channel[c] \in Seq(Message \cup {Close}) /\ snapshot[c] \in Seq(Message \cup {Close})
          /\ Range(snapshot[c]) \subseteq Message
      BY DEF TypeOK, Range
    <3>2. Range(channel[c]) \cap Range(snapshot[c]) \subseteq {Close}
      BY <2>2, <3>1 DEF Has
    <3>3. Range(channel[c] \o snapshot[c]) = Range(channel[c]) \cup Range(snapshot[c])
      BY <3>1, ConcatRange
    <3> QED
      BY <3>1, <3>2, <3>3, <1>s, DistinctConcat
  <2>5. /\ Distinct(channel'[c])
        /\ Range(channel'[c]) = Range(channel[c]) \cup Range(snapshot[c])
        /\ \A d \in Conn : d # c => channel'[d] = channel[d]
    BY <2>1, <2>4 DEF TypeOK
  <2>6. \A d \in Conn : Distinct(snapshot'[d]) /\ Range(snapshot'[d]) \subseteq Range(snapshot[d])
    BY <2>1, <1>e, <1>s DEF TypeOK
  <2>7. CopiesApart'
    <3> SUFFICES ASSUME NEW d \in Conn
                 PROVE  /\ Distinct(sent'[d]) /\ Distinct(channel'[d]) /\ Distinct(snapshot'[d])
                        /\ Range(sent'[d]) \cap Range(channel'[d]) = {}
                        /\ writing'[d] \in Message
                             => writing'[d] \notin Range(sent'[d]) \cup Range(channel'[d])
      BY DEF CopiesApart
    <3>1. CASE d # c
      BY <2>1, <2>5, <2>6, <3>1 DEF Once, CopiesApart
    <3>2. CASE d = c
      <4>1. Range(sent[c]) = {} /\ writing[c] \notin Message
        BY <2>2, <1>s DEF Has
      <4> QED
        BY <2>1, <2>5, <2>6, <3>2, <4>1, <1>s
    <3> QED
      BY <3>1, <3>2
  <2>8. \A d \in Conn : Has(d)' \subseteq Has(d) \cup Range(snapshot[d])
    BY <2>1, <2>5 DEF Has
  <2>9. \A d \in Conn : d # c => Has(d)' = Has(d)
    BY <2>1, <2>5 DEF Has
  <2>10. NewHasNone'
    BY <2>1, <2>9 DEF Once, NewHasNone, TypeOK
  <2>11. StillToGet'
    BY <2>3 DEF StillToGet
  <2>12. FromDispatch'
    <3>1. \A s \in Subject : Texts(pending[s])' = Texts(pending[s])
      BY <2>1 DEF Texts
    <3>2. \A d \in Conn : \A m \in Has(d)' : m \in Has(d) \/ m \in Range(snapshot[d])
      BY <2>8
    <3> QED
      BY <2>1, <2>6, <3>1, <3>2 DEF Once, FromDispatch
  <2> QED
    BY <2>7, <2>10, <2>11, <2>12 DEF Once
<1>10. ASSUME NEW c \in Conn, Receive(c)
       PROVE  Once'
  <2>1. UNCHANGED <<handles, pending, snapshot, step, message, ids, addressed, sent>>
    BY <1>10 DEF Receive, frame, history
  <2>2. session[c] = "open" /\ step[c] = "rest" /\ writing[c] = Close
    BY <1>10 DEF Receive, AtSelect
  <2>3. CASE Break(c)
    <3>1. /\ CopiesApart' /\ \A d \in Conn : Has(d)' \subseteq Has(d)
          /\ \A d \in Conn : session'[d] = "new" <=> session[d] = "new"
      BY <2>1, <2>2, <2>3, <1>b
    <3>2. NewHasNone'
      BY <2>1, <3>1 DEF Once, NewHasNone
    <3>3. StillToGet'
      BY <2>1, <3>1 DEF Once, StillToGet, TypeOK
    <3>4. FromDispatch'
      BY <2>1, <3>1 DEF Once, FromDispatch, Texts
    <3> QED
      BY <3>1, <3>2, <3>3, <3>4 DEF Once
  <2>4. CASE /\ channel[c] # <<>> /\ Head(channel[c]) # Close
             /\ writing' = [writing EXCEPT ![c] = Head(channel[c])]
             /\ channel' = [channel EXCEPT ![c] = Tail(@)]
             /\ UNCHANGED session
    <3>1. channel[c] \in Seq(Message \cup {Close}) /\ Distinct(channel[c])
      BY <1>s DEF TypeOK
    <3>2. /\ Head(channel[c]) \in Message
          /\ Range(channel[c]) = {Head(channel[c])} \cup Range(Tail(channel[c]))
      BY <2>4, <3>1, RangeOfParts
    <3>3. Distinct(Tail(channel[c])) /\ Head(channel[c]) \notin Range(Tail(channel[c]))
      BY <2>4, <3>1, DistinctTail
    <3>4. /\ writing'[c] = Head(channel[c]) /\ channel'[c] = Tail(channel[c])
          /\ \A d \in Conn : d # c => writing'[d] = writing[d] /\ channel'[d] = channel[d]
      BY <2>4 DEF TypeOK
    <3>5. CopiesApart'
      <4> SUFFICES ASSUME NEW d \in Conn
                   PROVE  /\ Distinct(sent'[d]) /\ Distinct(channel'[d]) /\ Distinct(snapshot'[d])
                          /\ Range(sent'[d]) \cap Range(channel'[d]) = {}
                          /\ writing'[d] \in Message
                               => writing'[d] \notin Range(sent'[d]) \cup Range(channel'[d])
        BY DEF CopiesApart
      <4>1. CASE d # c
        BY <2>1, <3>4, <4>1 DEF Once, CopiesApart
      <4>2. CASE d = c
        BY <2>1, <3>2, <3>3, <3>4, <4>2 DEF Once, CopiesApart
      <4> QED
        BY <4>1, <4>2
    <3>6. \A d \in Conn : Has(d)' = Has(d)
      <4>1. Has(c)' = Has(c)
        BY <2>1, <2>2, <3>2, <3>4 DEF Has
      <4>2. \A d \in Conn : d # c => Has(d)' = Has(d)
        BY <2>1, <3>4 DEF Has
      <4> QED
        BY <4>1, <4>2
    <3>7. NewHasNone' /\ StillToGet'
      BY <2>1, <2>4, <3>6 DEF Once, NewHasNone, StillToGet, TypeOK
    <3>8. FromDispatch'
      BY <2>1, <3>6 DEF Once, FromDispatch, Texts
    <3> QED
      BY <3>5, <3>7, <3>8 DEF Once
  <2> QED
    BY <1>10, <2>3, <2>4 DEF Receive
<1>11. ASSUME NEW c \in Conn, Written(c)
       PROVE  Once'
  <2>1. /\ UNCHANGED <<handles, pending, channel, session, snapshot, step, message, ids, addressed>>
        /\ sent' = [sent EXCEPT ![c] = Append(@, writing[c])]
        /\ writing' = [writing EXCEPT ![c] = Close]
        /\ writing[c] # Close
    BY <1>11 DEF Written, Writing, frame
  <2>2. sent[c] \in Seq(Message) /\ writing[c] \in Message
    BY <2>1 DEF TypeOK
  <2>3. writing[c] \notin Range(sent[c]) \cup Range(channel[c])
    BY <2>2 DEF Once, CopiesApart
  <2>4. /\ Distinct(Append(sent[c], writing[c]))
        /\ Range(Append(sent[c], writing[c])) = Range(sent[c]) \cup {writing[c]}
    BY <2>2, <2>3, <1>s, DistinctAppend
  <2>5. /\ sent'[c] = Append(sent[c], writing[c]) /\ writing'[c] = Close
        /\ \A d \in Conn : d # c => sent'[d] = sent[d] /\ writing'[d] = writing[d]
    BY <2>1 DEF TypeOK
  <2>6. CopiesApart'
    <3> SUFFICES ASSUME NEW d \in Conn
                 PROVE  /\ Distinct(sent'[d]) /\ Distinct(channel'[d]) /\ Distinct(snapshot'[d])
                        /\ Range(sent'[d]) \cap Range(channel'[d]) = {}
                        /\ writing'[d] \in Message
                             => writing'[d] \notin Range(sent'[d]) \cup Range(channel'[d])
      BY DEF CopiesApart
    <3>1. CASE d # c
      BY <2>1, <2>5, <3>1 DEF Once, CopiesApart
    <3>2. CASE d = c
      <4>1. /\ Distinct(channel[c]) /\ Distinct(snapshot[c])
            /\ Range(sent[c]) \cap Range(channel[c]) = {}
        BY DEF Once, CopiesApart
      <4>2. writing'[c] \notin Message
        BY <2>5, TaskFacts
      <4> QED
        BY <2>1, <2>3, <2>4, <2>5, <3>2, <4>1, <4>2
    <3> QED
      BY <3>1, <3>2
  <2>7. \A d \in Conn : Has(d)' = Has(d)
    <3>1. Has(c)' = Has(c)
      BY <2>1, <2>2, <2>4, <2>5 DEF Has
    <3>2. \A d \in Conn : d # c => Has(d)' = Has(d)
      BY <2>1, <2>5 DEF Has
    <3> QED
      BY <3>1, <3>2
  <2>8. NewHasNone' /\ StillToGet'
    BY <2>1, <2>7 DEF Once, NewHasNone, StillToGet, TypeOK
  <2>9. FromDispatch'
    BY <2>1, <2>7 DEF Once, FromDispatch, Texts
  <2> QED
    BY <2>6, <2>8, <2>9 DEF Once
<1>12. ASSUME NEW c \in Conn, Failed(c)
       PROVE  Once'
  <2>1. /\ writing[c] # Close /\ writing[c] \in Message /\ step[c] = "rest"
        /\ UNCHANGED <<handles, pending, snapshot, ids, addressed, sent>>
    BY <1>12 DEF Failed, Writing, TypeOK
  <2>2. session[c] # "new" /\ addressed[writing[c]] # {}
    BY <2>1 DEF Once, NewHasNone, FromDispatch, Has
  <2>3. CASE c \in WebTransport /\ writing[c] \in Push
    <3>1. /\ step' = [step EXCEPT ![c] = "requeue"]
          /\ message' = [message EXCEPT ![c] = writing[c]]
          /\ UNCHANGED <<session, channel, writing>>
      BY <1>12, <2>3 DEF Failed
    <3>2. CopiesApart' /\ \A d \in Conn : Has(d)' = Has(d)
      BY <2>1, <3>1, <1>q
    <3>3. NewHasNone'
      BY <2>1, <2>2, <3>1, <3>2 DEF Once, NewHasNone, TypeOK
    <3>4. StillToGet'
      BY <2>1, <3>1, <3>2 DEF Once, StillToGet, TypeOK
    <3>5. FromDispatch'
      <4>1. \A m \in Message, u \in Task : message'[u] = m => m = writing[c] \/ message[u] = m
        BY <3>1 DEF TypeOK
      <4> QED
        BY <2>1, <2>2, <3>1, <3>2, <4>1 DEF Once, FromDispatch, Texts
    <3> QED
      BY <3>2, <3>3, <3>4, <3>5 DEF Once
  <2>4. CASE ~(c \in WebTransport /\ writing[c] \in Push)
    <3>1. Break(c) /\ UNCHANGED <<step, message>>
      BY <1>12, <2>4 DEF Failed
    <3>2. /\ CopiesApart' /\ \A d \in Conn : Has(d)' \subseteq Has(d)
          /\ \A d \in Conn : session'[d] = "new" <=> session[d] = "new"
      BY <2>1, <2>2, <3>1, <1>b
    <3>3. NewHasNone'
      BY <2>1, <3>1, <3>2 DEF Once, NewHasNone
    <3>4. StillToGet'
      BY <2>1, <3>1, <3>2 DEF Once, StillToGet, TypeOK
    <3>5. FromDispatch'
      BY <2>1, <3>1, <3>2 DEF Once, FromDispatch, Texts
    <3> QED
      BY <3>2, <3>3, <3>4, <3>5 DEF Once
  <2> QED
    BY <2>3, <2>4
<1>13. ASSUME NEW c \in Conn, Leave(c)
       PROVE  Once'
  <2>1. Break(c) /\ session[c] = "open"
        /\ UNCHANGED <<handles, pending, snapshot, step, message, ids, addressed, sent>>
    BY <1>13 DEF Leave, AtSelect, frame, history
  <2>2. /\ CopiesApart' /\ \A d \in Conn : Has(d)' \subseteq Has(d)
        /\ \A d \in Conn : session'[d] = "new" <=> session[d] = "new"
    BY <2>1, <1>b
  <2>3. NewHasNone'
    BY <2>1, <2>2 DEF Once, NewHasNone
  <2>4. StillToGet'
    BY <2>1, <2>2 DEF Once, StillToGet, TypeOK
  <2>5. FromDispatch'
    BY <2>1, <2>2 DEF Once, FromDispatch, Texts
  <2> QED
    BY <2>2, <2>3, <2>4, <2>5 DEF Once
<1>14. ASSUME NEW c \in Conn, Unregister(c)
       PROVE  Once'
  <2>1. /\ session[c] = "closing" /\ session' = [session EXCEPT ![c] = "closed"]
        /\ handles' = handles \ {c}
        /\ UNCHANGED <<sent, writing, channel, snapshot, step, message, ids, addressed, pending>>
    BY <1>14 DEF Unregister, frame, history
  <2>2. CopiesApart' /\ \A d \in Conn : Has(d)' = Has(d)
    BY <2>1, <1>q
  <2>3. NewHasNone'
    BY <2>1, <2>2 DEF Once, NewHasNone, TypeOK
  <2>4. StillToGet' /\ FromDispatch'
    BY <2>1, <2>2, <1>g, <1>f
  <2> QED
    BY <2>2, <2>3, <2>4 DEF Once
<1>15. ASSUME NEW c \in Conn, Evict(c)
       PROVE  Once'
  <2>1. PICK order \in {<<>>, <<Close>>} :
          channel' = [channel EXCEPT ![c] = IF Receiving(c) THEN @ \o order ELSE @]
    BY <1>15 DEF Evict
  <2>2. /\ handles' = handles \ {c}
        /\ UNCHANGED <<sent, writing, session, snapshot, step, message, ids, addressed, pending>>
    BY <1>15 DEF Evict, frame, history
  <2>3. /\ channel[c] \o order \in {channel[c], Append(channel[c], Close)}
        /\ \A d \in Conn : d # c => channel'[d] = channel[d]
        /\ channel'[c] \in {channel[c], channel[c] \o order}
    <3>1. channel[c] \in Seq(Message \cup {Close})
      BY DEF TypeOK
    <3>2. channel[c] \o <<>> = channel[c]
      BY <3>1
    <3>3. channel[c] \o <<Close>> = Append(channel[c], Close)
      BY <3>1, AppendOne
    <3>4. channel[c] \o order \in {channel[c], Append(channel[c], Close)}
      BY <3>2, <3>3
    <3> QED
      BY <2>1, <3>4 DEF TypeOK
  <2>4. \A d \in Conn : /\ Distinct(channel'[d])
                        /\ Range(channel'[d]) \subseteq Range(channel[d]) \cup {Close}
    <3>1. channel[c] \in Seq(Message \cup {Close}) /\ Distinct(channel[c])
      BY <1>s DEF TypeOK
    <3>2. /\ Distinct(Append(channel[c], Close))
          /\ Range(Append(channel[c], Close)) = Range(channel[c]) \cup {Close}
      BY <3>1, <1>o
    <3>3. channel'[c] \in {channel[c], Append(channel[c], Close)}
      BY <2>3
    <3> QED
      BY <2>3, <3>1, <3>2, <3>3, <1>s
  <2>5. CopiesApart' /\ \A d \in Conn : Has(d)' \subseteq Has(d)
    BY <2>2, <2>4, <1>s, CopiesLeave
  <2>6. NewHasNone'
    BY <2>2, <2>5 DEF Once, NewHasNone
  <2>7. StillToGet'
    BY <2>2, <2>5 DEF Once, StillToGet, TypeOK
  <2>8. FromDispatch'
    BY <2>2, <2>5 DEF Once, FromDispatch, Texts
  <2> QED
    BY <2>5, <2>6, <2>7, <2>8 DEF Once
<1>16. CASE UNCHANGED vars
  <2>1. UNCHANGED <<sent, writing, channel, snapshot, session, handles, step, message, ids,
                    addressed, pending>>
    BY <1>16 DEF vars, frame, history
  <2>2. CopiesApart' /\ \A c \in Conn : Has(c)' = Has(c)
    BY <2>1, <1>q
  <2>3. NewHasNone' /\ StillToGet' /\ FromDispatch'
    BY <2>1, <2>2, <1>n, <1>g, <1>f
  <2> QED
    BY <2>2, <2>3 DEF Once
<1> QED
  BY <1>1, <1>2, <1>3, <1>4, <1>5, <1>6, <1>7, <1>8, <1>9, <1>10, <1>11, <1>12, <1>13, <1>14,
     <1>15, <1>16 DEF Next

-----------------------------------------------------------------------------
(***************************************************************************)
(* What leaves a queue.  A queue is never longer than its limit, so an     *)
(* item that is appended makes room for at most one; and on one worker the *)
(* items of a queue are in the order of their time, so those behind a      *)
(* fresh one are fresh.                                                    *)
(***************************************************************************)
Sorted(q) == \A i, j \in DOMAIN q : i <= j => q[i].at <= q[j].at

UpTo(q, n) == \A i \in DOMAIN q : q[i].at <= n

WithinLimit == \A s \in Subject : Len(pending[s]) <= MaxPending

InTime ==
  /\ \A s \in Subject : Sorted(pending[s]) /\ UpTo(pending[s], now)
  /\ \A t \in Task : step[t] = "requeue" =>
       now_ts[t] <= now /\ \A s \in Subject : UpTo(pending[s], now_ts[t])

LEMMA ItemTimes ==
  ASSUME NEW q \in Seq(Item)
  PROVE  \A i \in DOMAIN q : q[i] \in Item /\ q[i].at \in 0..MaxTime /\ q[i].at \in Int
<1>1. \A i \in DOMAIN q : q[i] \in Item
  OBVIOUS
<1>2. \A x \in Item : x.at \in 0..MaxTime
  BY DEF Item
<1>3. MaxTime \in Nat
  BY DeliveryAssumption
<1> QED
  BY <1>1, <1>2, <1>3

(* Where prune_pending_queue stops taking items off the front *)
LEMMA FirstKeptIs ==
  ASSUME NEW q \in Seq(Item), NEW at \in 0..MaxTime
  PROVE  \E least \in 1..(Len(q) + 1) :
           /\ \A i \in DOMAIN q : i < least => at - q[i].at > PendingTTL
           /\ least \in DOMAIN q => at - q[least].at <= PendingTTL
           /\ FirstKept(q, at) = IF least >= Len(q) - MaxPending + 1 THEN least
                                                                      ELSE Len(q) - MaxPending + 1
<1> DEFINE fresh == {i \in DOMAIN q : at - q[i].at <= PendingTTL}
           least == Min(fresh \cup {Len(q) + 1})
           over == Len(q) - MaxPending + 1
<1>1. /\ Len(q) \in Nat /\ DOMAIN q = 1..Len(q) /\ MaxPending \in Nat
      /\ \A i \in DOMAIN q : q[i].at \in Int
      /\ at \in Int /\ PendingTTL \in Int
  BY DeliveryAssumption, ItemTimes
<1>2. fresh \cup {Len(q) + 1} \subseteq 1..(Len(q) + 1) /\ fresh \cup {Len(q) + 1} \subseteq Nat
  BY <1>1
<1>3. least \in fresh \cup {Len(q) + 1} /\ \A y \in fresh : least <= y
  <2> HIDE DEF fresh
  <2> QED
    BY <1>2, LeastOf
<1>4. FirstKept(q, at) = Max({over, least})
  BY DEF FirstKept
<1>5. least \in 1..(Len(q) + 1) /\ over \in Int
  <2> HIDE DEF least, fresh
  <2> QED
    BY <1>1, <1>2, <1>3
<1>6. \A i \in DOMAIN q : i < least => at - q[i].at > PendingTTL
  <2> SUFFICES ASSUME NEW i \in DOMAIN q, i < least
               PROVE  at - q[i].at > PendingTTL
    OBVIOUS
  <2>1. i \notin fresh
    <3> HIDE DEF least, fresh
    <3> QED
      BY <1>1, <1>3, <1>5
  <2> QED
    BY <1>1, <2>1
<1>7. least \in DOMAIN q => at - q[least].at <= PendingTTL
  <2> SUFFICES ASSUME least \in DOMAIN q
               PROVE  least \in fresh
    OBVIOUS
  <2> HIDE DEF least, fresh
  <2> QED
    BY <1>1, <1>3
<1> HIDE DEF least, over
<1>8. Max({over, least}) = IF least >= over THEN least ELSE over
  <2>1. CASE least >= over
    <3>1. \E x \in {over, least} : \A y \in {over, least} : x >= y
      BY <1>5, <2>1
    <3>2. Max({over, least}) \in {over, least} /\ \A y \in {over, least} : Max({over, least}) >= y
      BY <3>1 DEF Max
    <3> QED
      BY <1>5, <2>1, <3>2
  <2>2. CASE ~(least >= over)
    <3>1. \E x \in {over, least} : \A y \in {over, least} : x >= y
      BY <1>5, <2>2
    <3>2. Max({over, least}) \in {over, least} /\ \A y \in {over, least} : Max({over, least}) >= y
      BY <3>1 DEF Max
    <3> QED
      BY <1>5, <2>2, <3>2
  <2> QED
    BY <2>1, <2>2
<1>9. FirstKept(q, at) = IF least >= Len(q) - MaxPending + 1 THEN least ELSE Len(q) - MaxPending + 1
  BY <1>4, <1>8 DEF over
<1> QED
  BY <1>5, <1>6, <1>7, <1>9

(* What is left of a queue, and what of it is gone *)
LEMMA PrunedParts ==
  ASSUME NEW q \in Seq(Item), NEW at \in 0..MaxTime
  PROVE  \E first \in Nat \ {0} :
           /\ Pruned(q, at) \in Seq(Item)
           /\ Len(Pruned(q, at)) <= MaxPending /\ Len(Pruned(q, at)) <= Len(q)
           /\ \A i \in DOMAIN Pruned(q, at) :
                first + i - 1 \in DOMAIN q /\ Pruned(q, at)[i] = q[first + i - 1]
           /\ \A k \in DOMAIN q : k >= first => q[k].text \in Texts(Pruned(q, at))
           /\ \A k \in DOMAIN q : k < first =>
                at - q[k].at > PendingTTL \/ k <= Len(q) - MaxPending
           /\ \A k \in DOMAIN q : k >= first =>
                \E j \in DOMAIN q : j <= k /\ at - q[j].at <= PendingTTL
<1>1. PICK least \in 1..(Len(q) + 1) :
           /\ \A i \in DOMAIN q : i < least => at - q[i].at > PendingTTL
           /\ least \in DOMAIN q => at - q[least].at <= PendingTTL
           /\ FirstKept(q, at) = IF least >= Len(q) - MaxPending + 1 THEN least
                                                                      ELSE Len(q) - MaxPending + 1
  BY FirstKeptIs
<1>2. Len(q) \in Nat /\ DOMAIN q = 1..Len(q) /\ MaxPending \in Nat \ {0}
  BY DeliveryAssumption
<1>3. PICK first \in Nat \ {0} :
        /\ first = FirstKept(q, at) /\ first >= least /\ first >= Len(q) - MaxPending + 1
        /\ first = least \/ first = Len(q) - MaxPending + 1
  BY <1>1, <1>2
<1> DEFINE r == SubSeq(q, first, Len(q))
<1>4. Pruned(q, at) = r
  BY <1>3 DEF Pruned
<1>5. /\ r \in Seq(Item)
      /\ Len(r) = IF first <= Len(q) THEN Len(q) - first + 1 ELSE 0
      /\ DOMAIN r = 1..Len(r)
      /\ \A i \in DOMAIN r : first + i - 1 \in DOMAIN q /\ r[i] = q[first + i - 1]
  BY <1>2, <1>3
<1>6. Len(r) <= MaxPending /\ Len(r) <= Len(q)
  <2> HIDE DEF r
  <2> QED
    BY <1>2, <1>3, <1>5
<1>7. ASSUME NEW k \in DOMAIN q, k >= first
      PROVE  q[k].text \in Texts(r)
  <2> HIDE DEF r
  <2>1. k - first + 1 \in DOMAIN r /\ first + (k - first + 1) - 1 = k
    BY <1>2, <1>3, <1>5, <1>7
  <2>2. r[k - first + 1] = q[k]
    BY <1>5, <2>1
  <2> QED
    BY <2>1, <2>2 DEF Texts
<1>8. ASSUME NEW k \in DOMAIN q, k < first
      PROVE  at - q[k].at > PendingTTL \/ k <= Len(q) - MaxPending
  BY <1>1, <1>2, <1>3, <1>8
<1>9. ASSUME NEW k \in DOMAIN q, k >= first
      PROVE  \E j \in DOMAIN q : j <= k /\ at - q[j].at <= PendingTTL
  <2>1. least \in DOMAIN q /\ least <= k
    BY <1>2, <1>3, <1>9
  <2> QED
    BY <1>1, <2>1
<1> HIDE DEF r
<1> QED
  BY <1>3, <1>4, <1>5, <1>6, <1>7, <1>8, <1>9

LEMMA PrunedSorted ==
  ASSUME NEW q \in Seq(Item), NEW at \in 0..MaxTime, Sorted(q)
  PROVE  /\ Sorted(Pruned(q, at))
         /\ \A n : UpTo(q, n) => UpTo(Pruned(q, at), n)
<1>1. PICK first \in Nat \ {0} :
        /\ Pruned(q, at) \in Seq(Item)
        /\ \A i \in DOMAIN Pruned(q, at) :
             first + i - 1 \in DOMAIN q /\ Pruned(q, at)[i] = q[first + i - 1]
  BY PrunedParts
<1>2. \A i \in DOMAIN Pruned(q, at) : i \in Nat
  BY <1>1
<1>3. \A i, j \in Nat : i <= j => first + i - 1 <= first + j - 1
  BY <1>1
<1> QED
  BY <1>1, <1>2, <1>3 DEF Sorted, UpTo

(* Behind a fresh item of a sorted queue all are fresh. *)
LEMMA KeptAreFresh ==
  ASSUME NEW q \in Seq(Item), NEW at \in 0..MaxTime, Sorted(q), NEW m \in Texts(Pruned(q, at))
  PROVE  \E k \in DOMAIN q : q[k].text = m /\ at - q[k].at <= PendingTTL
<1>1. PICK first \in Nat \ {0} :
        /\ Pruned(q, at) \in Seq(Item)
        /\ \A i \in DOMAIN Pruned(q, at) :
             first + i - 1 \in DOMAIN q /\ Pruned(q, at)[i] = q[first + i - 1]
        /\ \A k \in DOMAIN q : k >= first =>
             \E j \in DOMAIN q : j <= k /\ at - q[j].at <= PendingTTL
  BY PrunedParts
<1>2. PICK i \in DOMAIN Pruned(q, at) : Pruned(q, at)[i].text = m
  BY DEF Texts
<1>3. PICK k \in DOMAIN q : k = first + i - 1 /\ q[k].text = m
  BY <1>1, <1>2
<1>4. i \in Nat \ {0}
  BY <1>1
<1>5. k >= first
  BY <1>3, <1>4
<1>6. PICK j \in DOMAIN q : j <= k /\ at - q[j].at <= PendingTTL
  BY <1>1, <1>5
<1>7. q[j].at <= q[k].at
  BY <1>6 DEF Sorted
<1>8. at \in Int /\ q[j].at \in Int /\ q[k].at \in Int /\ PendingTTL \in Int
  BY DeliveryAssumption, ItemTimes
<1>9. at - q[k].at <= PendingTTL
  BY <1>6, <1>7, <1>8
<1> QED
  BY <1>3, <1>9

(* The steps that touch a queue *)
LEMMA QueueSteps ==
  ASSUME TypeOK, [Next]_vars
  PROVE  \/ \E t \in Task : Requeue(t)
         \/ \E c \in Conn : Drain(c)
         \/ /\ UNCHANGED pending
            /\ \A c \in Conn : snapshot'[c] \in {snapshot[c], <<>>}
<1> DEFINE Quiet == UNCHANGED pending /\ \A c \in Conn : snapshot'[c] \in {snapshot[c], <<>>}
<1> USE TaskFacts DEF TypeOK, frame, history
<1>1. CASE Tick \/ UNCHANGED vars
  BY <1>1 DEF Tick, vars
<1>2. ASSUME NEW t \in Task, Requeued(t)
      PROVE  Quiet
  BY <1>2 DEF Requeued
<1>3. ASSUME NEW t \in Dispatcher, Send(t) \/ Deliver(t) \/ Delivered(t)
      PROVE  Quiet
  BY <1>3 DEF Send, Deliver, Delivered
<1>4. ASSUME NEW c \in Conn, Register(c) \/ Drained(c)
      PROVE  Quiet
  BY <1>4 DEF Register, Drained
<1>5. ASSUME NEW c \in Conn, Receive(c) \/ Written(c) \/ Failed(c) \/ Leave(c) \/ Unregister(c) \/ Evict(c)
      PROVE  Quiet
  BY <1>5 DEF Receive, Written, Failed, Leave, Unregister, Evict
<1> QED
  BY <1>1, <1>2, <1>3, <1>4, <1>5 DEF Next

(* An item joins the queue of s, which is then pruned. *)
Joins(t, s, item, q) ==
  /\ item.at = now_ts[t] /\ now_ts[t] \in 0..MaxTime
  /\ pending' = [pending EXCEPT ![s] = Pruned(q, now_ts[t])]
  /\ Len(q) = Len(pending[s]) + 1 /\ q[Len(q)] = item
  /\ \A i \in DOMAIN pending[s] : i \in DOMAIN q /\ q[i] = pending[s][i]

LEMMA RequeueEffect ==
  ASSUME TypeOK, NEW t \in Task, Requeue(t)
  PROVE  \E s \in Subject, item \in Item, q \in Seq(Item) : Joins(t, s, item, q)
<1>1. PICK s \in Subject : s = Head(todo[t])
  BY RangeOfParts DEF Requeue, TypeOK
<1>2. PICK item \in Item : item = [text |-> message[t], at |-> now_ts[t]]
  BY DEF Requeue, TypeOK, Item
<1>3. PICK q \in Seq(Item) : q = Append(pending[s], item)
  BY <1>2, AppendTexts DEF TypeOK
<1>4. pending[s] \in Seq(Item)
  BY DEF TypeOK
<1>5. /\ Len(q) = Len(pending[s]) + 1 /\ q[Len(q)] = item
      /\ \A i \in DOMAIN pending[s] : i \in DOMAIN q /\ q[i] = pending[s][i]
  BY <1>3, <1>4
<1>6. pending' = [pending EXCEPT ![s] = Pruned(q, now_ts[t])]
  BY <1>1, <1>2, <1>3 DEF Requeue, Enqueued
<1>7. item.at = now_ts[t] /\ now_ts[t] \in 0..MaxTime
  BY <1>2 DEF TypeOK
<1> QED
  BY <1>5, <1>6, <1>7 DEF Joins

LEMMA LimitStep ==
  TypeOK /\ WithinLimit /\ [Next]_vars => WithinLimit'
<1> SUFFICES ASSUME TypeOK, WithinLimit, [Next]_vars
             PROVE  WithinLimit'
  OBVIOUS
<1>1. ASSUME NEW t \in Task, Requeue(t)
      PROVE  WithinLimit'
  <2>1. PICK s \in Subject, item \in Item, q \in Seq(Item) : Joins(t, s, item, q)
    BY <1>1, RequeueEffect
  <2>2. Len(Pruned(q, now_ts[t])) <= MaxPending
    BY <2>1, PrunedParts DEF Joins
  <2> QED
    BY <2>1, <2>2 DEF Joins, WithinLimit, TypeOK
<1>2. ASSUME NEW c \in Conn, Drain(c)
      PROVE  WithinLimit'
  <2>1. PICK s : pending' = [pending EXCEPT ![s] = <<>>]
    BY <1>2 DEF Drain
  <2> QED
    BY <2>1, EmptySequence, DeliveryAssumption DEF WithinLimit, TypeOK
<1> QED
  BY <1>1, <1>2, QueueSteps DEF WithinLimit

LEMMA SortedAppend ==
  ASSUME NEW q \in Seq(Item), NEW r \in Seq(Item), NEW n \in Int, Sorted(q), UpTo(q, n),
         Len(r) = Len(q) + 1, \A i \in DOMAIN q : r[i] = q[i], r[Len(r)].at = n
  PROVE  Sorted(r) /\ UpTo(r, n)
<1>1. Len(q) \in Nat /\ DOMAIN q = 1..Len(q) /\ DOMAIN r = 1..(Len(q) + 1)
  OBVIOUS
<1>2. \A i \in DOMAIN r : i \in DOMAIN q \/ i = Len(q) + 1
  BY <1>1
<1>3. UpTo(r, n)
  BY <1>1, <1>2 DEF UpTo
<1>4. ASSUME NEW i \in DOMAIN r, NEW j \in DOMAIN r, i <= j
      PROVE  r[i].at <= r[j].at
  <2>1. CASE j \in DOMAIN q
    <3>1. i \in DOMAIN q
      BY <1>1, <1>4, <2>1
    <3> QED
      BY <1>4, <2>1, <3>1 DEF Sorted
  <2>2. CASE j = Len(q) + 1
    BY <1>3, <2>2 DEF UpTo
  <2> QED
    BY <1>2, <2>1, <2>2
<1> QED
  BY <1>3, <1>4 DEF Sorted

LEMMA TimeStep ==
  TypeOK /\ OneBusy /\ workers = 1 /\ InTime /\ [Next]_vars => InTime'
<1> SUFFICES ASSUME TypeOK, OneBusy, workers = 1, InTime, [Next]_vars
             PROVE  InTime'
  OBVIOUS
<1> USE TaskFacts
<1>0. /\ now \in Nat /\ \A s \in Subject : pending[s] \in Seq(Item)
      /\ \A s \in Subject : \A i \in DOMAIN pending[s] : pending[s][i].at \in Int
  BY ItemTimes DEF TypeOK
<1>1. CASE Tick
  <2>1. now' = now + 1 /\ UNCHANGED <<pending, step, now_ts>>
    BY <1>1 DEF Tick, frame
  <2>2. \A s \in Subject : UpTo(pending[s], now')
    BY <1>0, <2>1 DEF InTime, UpTo
  <2>3. \A t \in Task : now_ts[t] \in Int
    BY DEF TypeOK
  <2> QED
    BY <1>0, <2>1, <2>2, <2>3 DEF InTime
<1>2. ASSUME UNCHANGED <<now, pending>>,
             \A t \in Task : step'[t] = "requeue" =>
               \/ step[t] = "requeue" /\ now_ts'[t] = now_ts[t]
               \/ now_ts'[t] = now
      PROVE  InTime'
  BY <1>0, <1>2 DEF InTime
<1>3. ASSUME NEW t \in Task, Requeue(t)
      PROVE  InTime'
  <2>1. PICK s \in Subject, item \in Item, q \in Seq(Item) : Joins(t, s, item, q)
    BY <1>3, RequeueEffect
  <2>2. step[t] = "requeue" /\ UNCHANGED <<now, step, now_ts>>
    BY <1>3 DEF Requeue
  <2>3. Sorted(pending[s]) /\ UpTo(pending[s], now_ts[t]) /\ now_ts[t] <= now /\ now_ts[t] \in Int
    BY <2>1, <2>2 DEF InTime, Joins
  <2>4. Sorted(q) /\ UpTo(q, now_ts[t])
    BY <1>0, <2>1, <2>3, SortedAppend DEF Joins
  <2>5. Sorted(Pruned(q, now_ts[t])) /\ UpTo(Pruned(q, now_ts[t]), now_ts[t])
    BY <2>1, <2>4, PrunedSorted DEF Joins
  <2>6. Pruned(q, now_ts[t]) \in Seq(Item)
    BY <2>1, PrunedKeeps DEF Joins
  <2>7. UpTo(Pruned(q, now_ts[t]), now)
    <3>1. \A i \in DOMAIN Pruned(q, now_ts[t]) : Pruned(q, now_ts[t])[i].at \in Int
      BY <2>6, ItemTimes
    <3> QED
      BY <1>0, <2>3, <2>5, <3>1 DEF UpTo
  <2>8. \A r \in Subject : Sorted(pending'[r]) /\ UpTo(pending'[r], now) /\ UpTo(pending'[r], now_ts[t])
    BY <2>1, <2>2, <2>5, <2>7 DEF Joins, InTime, TypeOK
  <2>9. \A u \in Task : step[u] = "requeue" => u = t
    BY <2>2 DEF OneBusy
  <2> QED
    BY <2>2, <2>3, <2>8, <2>9 DEF InTime
<1>4. ASSUME NEW c \in Conn, Drain(c)
      PROVE  InTime'
  <2>1. (\E s : pending' = [pending EXCEPT ![s] = <<>>]) /\ UNCHANGED <<now, step, now_ts>>
    BY <1>4 DEF Drain
  <2>2. \A s \in Subject : pending'[s] \in {pending[s], <<>>}
    BY <2>1 DEF TypeOK
  <2>3. Sorted(<<>>) /\ \A n : UpTo(<<>>, n)
    BY EmptySequence DEF Sorted, UpTo
  <2>4. \A s \in Subject : Sorted(pending[s])' /\ \A n : UpTo(pending[s], n) => UpTo(pending'[s], n)
    BY <2>2, <2>3 DEF InTime
  <2> QED
    BY <2>1, <2>2, <2>3 DEF InTime
<1>5. ASSUME NEW t \in Task, Requeued(t)
      PROVE  InTime'
  BY <1>2, <1>5 DEF Requeued, TypeOK
<1>6. ASSUME NEW t \in Dispatcher, Send(t) \/ Deliver(t) \/ Delivered(t)
      PROVE  InTime'
  BY <1>2, <1>6 DEF Send, Deliver, Delivered, TypeOK, history
<1>7. ASSUME NEW c \in Conn, Register(c) \/ Drained(c)
      PROVE  InTime'
  BY <1>2, <1>7 DEF Register, Drained, TypeOK, history
<1>8. ASSUME NEW c \in Conn, Failed(c)
      PROVE  InTime'
  BY <1>2, <1>8 DEF Failed, TypeOK
<1>9. ASSUME NEW c \in Conn, Receive(c) \/ Written(c) \/ Leave(c) \/ Unregister(c) \/ Evict(c)
      PROVE  InTime'
  BY <1>2, <1>9 DEF Receive, Written, Leave, Unregister, Evict, frame
<1>10. CASE UNCHANGED vars
  BY <1>2, <1>10 DEF vars, frame
<1> QED
  BY <1>1, <1>3, <1>4, <1>5, <1>6, <1>7, <1>8, <1>9, <1>10 DEF Next

LEMMA KeptStep ==
  TypeOK /\ WithinLimit /\ [Next]_vars => KeptUntilDue
<1> SUFFICES ASSUME TypeOK, WithinLimit, [Next]_vars, NEW s \in Subject, NEW i \in DOMAIN pending[s]
             PROVE  LET m == pending[s][i].text
                        old == \E t \in Task : now_ts[t] - pending[s][i].at > PendingTTL
                        taken == \E c \in Conn : /\ step[c] = "drain" /\ todo[c] # todo'[c]
                                                 /\ Head(todo[c]) = s
                    IN  \/ m \in Texts(pending'[s])
                        \/ old
                        \/ taken /\ \E c \in Conn : Contains(snapshot'[c], m)
                        \/ Len(pending[s]) = MaxPending /\ i = 1
  BY DEF KeptUntilDue
<1> DEFINE m == pending[s][i].text
           old == \E t \in Task : now_ts[t] - pending[s][i].at > PendingTTL
           taken == \E c \in Conn : step[c] = "drain" /\ todo[c] # todo'[c] /\ Head(todo[c]) = s
           Goal == \/ m \in Texts(pending'[s])
                   \/ old
                   \/ taken /\ \E c \in Conn : Contains(snapshot'[c], m)
                   \/ Len(pending[s]) = MaxPending /\ i = 1
<1>0. /\ pending[s] \in Seq(Item) /\ Len(pending[s]) \in Nat /\ DOMAIN pending[s] = 1..Len(pending[s])
      /\ Len(pending[s]) <= MaxPending /\ MaxPending \in Nat \ {0}
  BY DeliveryAssumption DEF TypeOK, WithinLimit
<1>1. CASE pending'[s] = pending[s]
  BY <1>1 DEF Texts
<1>2. ASSUME NEW t \in Task, Requeue(t), pending'[s] # pending[s]
      PROVE  Goal
  <2>1. PICK r \in Subject, item \in Item, q \in Seq(Item) : Joins(t, r, item, q)
    BY <1>2, RequeueEffect
  <2>2. r = s /\ pending'[s] = Pruned(q, now_ts[t]) /\ now_ts[t] \in 0..MaxTime
    BY <1>2, <2>1 DEF Joins, TypeOK
  <2>3. i \in DOMAIN q /\ q[i] = pending[s][i] /\ Len(q) = Len(pending[s]) + 1
    BY <2>1, <2>2 DEF Joins
  <2>4. \/ q[i].text \in Texts(Pruned(q, now_ts[t]))
        \/ now_ts[t] - q[i].at > PendingTTL
        \/ i <= Len(q) - MaxPending
    <3>1. PICK first \in Nat \ {0} :
            /\ \A k \in DOMAIN q : k >= first => q[k].text \in Texts(Pruned(q, now_ts[t]))
            /\ \A k \in DOMAIN q : k < first =>
                 now_ts[t] - q[k].at > PendingTTL \/ k <= Len(q) - MaxPending
      BY <2>2, PrunedParts
    <3>2. i >= first \/ i < first
      BY <1>0
    <3> QED
      BY <2>3, <3>1, <3>2
  <2>5. CASE i <= Len(q) - MaxPending
    BY <1>0, <2>3, <2>5
  <2> QED
    BY <2>2, <2>3, <2>4, <2>5
<1>3. ASSUME NEW c \in Conn, Drain(c), pending'[s] # pending[s]
      PROVE  Goal
  <2>1. s = Head(todo[c]) /\ pending' = [pending EXCEPT ![s] = <<>>]
    BY <1>3 DEF Drain, TypeOK
  <2>2. PICK texts \in Taken(snapshot[c], Pruned(pending[s], now_ts[c])) :
          snapshot' = [snapshot EXCEPT ![c] = texts]
    BY <1>3, <2>1 DEF Drain
  <2>3. /\ now_ts[c] \in 0..MaxTime /\ c \in Task /\ snapshot[c] \in Seq(Message)
        /\ Pruned(pending[s], now_ts[c]) \in Seq(Item)
    BY <1>0, TaskFacts, PrunedKeeps DEF TypeOK
  <2>4. texts \in Seq(Message) /\ Texts(Pruned(pending[s], now_ts[c])) \subseteq Range(texts)
    BY <2>2, <2>3, TakenAll
  <2>5. snapshot'[c] = texts
    BY <2>2 DEF TypeOK
  <2>6. taken
    <3>1. step[c] = "drain" /\ todo[c] # <<>> /\ todo' = [todo EXCEPT ![c] = Tail(@)]
      BY <1>3 DEF Drain
    <3>2. todo[c] \in Seq(Subject) /\ todo'[c] = Tail(todo[c])
      BY <2>3, <3>1 DEF TypeOK
    <3>3. Len(Tail(todo[c])) = Len(todo[c]) - 1 /\ Len(todo[c]) \in Nat
      BY <3>1, <3>2
    <3>4. Len(todo'[c]) # Len(todo[c])
      BY <3>2, <3>3
    <3>5. todo'[c] # todo[c]
      BY <3>4
    <3> QED
      BY <2>1, <3>1, <3>5
  <2>7. \/ m \in Texts(Pruned(pending[s], now_ts[c]))
        \/ now_ts[c] - pending[s][i].at > PendingTTL
    <3>1. PICK first \in Nat \ {0} :
            /\ \A k \in DOMAIN pending[s] : k >= first =>
                 pending[s][k].text \in Texts(Pruned(pending[s], now_ts[c]))
            /\ \A k \in DOMAIN pending[s] : k < first =>
                 now_ts[c] - pending[s][k].at > PendingTTL \/ k <= Len(pending[s]) - MaxPending
      BY <1>0, <2>3, PrunedParts
    <3>2. (i >= first \/ i < first) /\ ~(i <= Len(pending[s]) - MaxPending)
      BY <1>0
    <3> QED
      BY <3>1, <3>2
  <2>8. m \in Texts(Pruned(pending[s], now_ts[c])) => Contains(snapshot'[c], m)
    BY <2>4, <2>5, ContainsIffInRange
  <2> QED
    BY <2>3, <2>6, <2>7, <2>8
<1> QED
  BY <1>1, <1>2, <1>3, QueueSteps

LEMMA TakenStep ==
  TypeOK /\ InTime /\ [Next]_vars => TakenInTime
<1> SUFFICES ASSUME TypeOK, InTime, [Next]_vars, NEW c \in Conn, NEW m \in Message,
                    step[c] = "drain", Contains(snapshot'[c], m), ~Contains(snapshot[c], m)
             PROVE  \E i \in DOMAIN pending[Head(todo[c])] :
                      /\ pending[Head(todo[c])][i].text = m
                      /\ now_ts[c] - pending[Head(todo[c])][i].at <= PendingTTL
  BY DEF TakenInTime
<1>1. snapshot'[c] # snapshot[c] /\ snapshot'[c] # <<>>
  BY EmptySequence DEF Contains
<1>2. ASSUME NEW t \in Task, Requeue(t)
      PROVE  FALSE
  BY <1>1, <1>2 DEF Requeue
<1>3. PICK d \in Conn : Drain(d)
  BY <1>1, <1>2, QueueSteps
<1>4. d = c
  BY <1>1, <1>3 DEF Drain, TypeOK
<1> DEFINE s == Head(todo[c])
<1>5. s \in Subject
  BY <1>3, <1>4, TaskFacts, RangeOfParts DEF Drain, TypeOK
<1>6. PICK texts \in Taken(snapshot[c], Pruned(pending[s], now_ts[c])) :
        snapshot' = [snapshot EXCEPT ![c] = texts]
  BY <1>3, <1>4 DEF Drain
<1> HIDE DEF s
<1>7. /\ now_ts[c] \in 0..MaxTime /\ snapshot[c] \in Seq(Message) /\ pending[s] \in Seq(Item)
      /\ Pruned(pending[s], now_ts[c]) \in Seq(Item)
  BY <1>5, TaskFacts, PrunedKeeps DEF TypeOK
<1>8. /\ texts \in Seq(Message)
      /\ Range(texts) = Range(snapshot[c]) \cup Texts(Pruned(pending[s], now_ts[c]))
  BY <1>6, <1>7, TakenAll
<1>9. snapshot'[c] = texts
  BY <1>6 DEF TypeOK
<1>10. m \in Texts(Pruned(pending[s], now_ts[c]))
  BY <1>7, <1>8, <1>9, ContainsIffInRange
<1>11. Sorted(pending[s])
  BY <1>5 DEF InTime
<1>12. \E k \in DOMAIN pending[s] : pending[s][k].text = m /\ now_ts[c] - pending[s][k].at <= PendingTTL
  BY <1>7, <1>10, <1>11, KeptAreFresh
<1> QED
  BY <1>12 DEF s

(* On any number of workers an item of a queue stays until a registration  *)
(* takes it, it is too old or makes room; on one worker nothing too old is *)
(* taken (state.rs:228-239, 366-382).                                      *)
THEOREM NothingDropped == Spec => QueueKept
<1>1. [Next]_vars => UNCHANGED workers
  BY DEF Next, Tick, Requeue, Requeued, Send, Deliver, Delivered, Register, Drain, Drained,
         Receive, Written, Failed, Leave, Unregister, Evict, vars
<1>2. TypeOK /\ (workers = 1 => Untaken) /\ [Next]_vars => (workers = 1 => Untaken)'
  BY <1>1, UntakenNext
<1>3. TypeOK /\ (workers = 1 => Untaken) /\ (workers = 1 => InTime) /\ [Next]_vars
        => (workers = 1 => InTime)'
  BY <1>1, TimeStep DEF Untaken
<1>4. Init => WithinLimit /\ InTime
  <2> SUFFICES ASSUME Init
               PROVE  WithinLimit /\ InTime
    OBVIOUS
  <2>1. \A s \in Subject : pending[s] = <<>>
    BY DEF Init
  <2>2. \A t \in Task : step[t] = "rest"
    BY DEF Init
  <2> QED
    BY <2>1, <2>2, EmptySequence, DeliveryAssumption DEF WithinLimit, InTime, Sorted, UpTo
<1>5. TypeOK /\ WithinLimit /\ (workers = 1 => InTime) /\ [Next]_vars
        => [KeptUntilDue /\ (workers = 1 => TakenInTime)]_vars
  BY KeptStep, TakenStep
<1> QED
  BY <1>2, <1>3, <1>4, <1>5, InitType, NextType, UntakenInit, LimitStep, PTL DEF Spec, QueueKept

-----------------------------------------------------------------------------
(***************************************************************************)
(* One worker: in the order of dispatch.                                   *)
(*                                                                         *)
(* What is at work is the newest message dispatched, so a live copy goes   *)
(* behind all the client has.  A buffered copy comes from the queues of    *)
(* the client's subjects, which a registration takes one after the other   *)
(* in the order of SubjectsOf, and each queue is in order by itself: what  *)
(* could go wrong is that two messages to the same subjects are taken from *)
(* two queues.  Neither is displaced, so each waits in every queue it was  *)
(* addressed to (WaitsAsAddressed), but for the queues that a registration *)
(* has already emptied or that the buffering has not come to; and the      *)
(* queue of the first of them holds both.                                  *)
(***************************************************************************)

(* n may stand behind m: it is newer, if both are in place and addressed alike. *)
Follows(m, n, gone, to) ==
  {m, n} \cap (gone \cup {Close}) = {} /\ to[m] = to[n] => m < n

(* The messages of q stand in their order. *)
InRow(q, gone, to) == \A i, j \in DOMAIN q : i < j => Follows(q[i], q[j], gone, to)

(* All of S may stand before all of T. *)
Ahead(S, T, gone, to) == \A m \in S, n \in T : Follows(m, n, gone, to)

(* Some connection lists the subject s before r. *)
Earlier(s, r) ==
  \E c \in Conn : \E i, j \in DOMAIN SubjectsOf[c] :
    i < j /\ SubjectsOf[c][i] = s /\ SubjectsOf[c][j] = r

(* What waits under s and was neither put back nor lost from another queue. *)
Undisturbed(s) == Texts(pending[s]) \ Displaced

(* The messages are dispatched by number. *)
DispatchedInTurn ==
  \A m, n \in Message : addressed[n] # {} /\ m < n => addressed[m] # {}

(* The message at work is the newest one. *)
NewestAtWork ==
  \A t \in Dispatcher : step[t] # "rest" =>
    \A n \in Message : addressed[n] # {} => n <= message[t]

(* A message is buffered under every subject, in no queue until then. *)
BuffersAll ==
  \A t \in Dispatcher :
    /\ step[t] # "rest" => IsInjective(todo[t]) /\ Range(todo[t]) \subseteq addressed[message[t]]
    /\ step[t] = "deliver" =>
         /\ Range(todo[t]) = addressed[message[t]]
         /\ \A s \in Subject : message[t] \notin Texts(pending[s])
    /\ step[t] = "requeue" /\ message[t] \notin Displaced => \A s \in Range(todo[t]) :
         /\ message[t] \notin Texts(pending[s])
         /\ \A r \in addressed[message[t]] : r \in Range(todo[t]) \/ message[t] \in Texts(pending[r])

(* What waits under s waits under each earlier subject it was addressed to, *)
(* or a registration has just taken it there, or it is being buffered.      *)
WaitsAsAddressed ==
  \A s \in Subject : \A n \in Undisturbed(s) :
    /\ s \in addressed[n]
    /\ \A r \in addressed[n] : Earlier(r, s) =>
         \/ n \in Texts(pending[r])
         \/ \E c \in Conn : step[c] = "drain" /\ s \in Range(todo[c]) /\ n \in Range(snapshot[c])
         \/ \E t \in Dispatcher : step[t] = "requeue" /\ message[t] = n /\ r \in Range(todo[t])

(* The messages of a queue wait in their order. *)
QueueInRow(q, gone, to) ==
  \A i, j \in DOMAIN q : i < j => Follows(q[i].text, q[j].text, gone, to)

(* So they do in every queue. *)
QueuesInRow == \A s \in Subject : QueueInRow(pending[s], Displaced, addressed)

(* A registration goes through the queues in the order of its subjects. *)
DrainsInTurn ==
  \A c \in Conn :
    /\ step[c] = "drain" =>
         /\ Range(todo[c]) \subseteq Range(SubjectsOf[c])
         /\ \A i, j \in DOMAIN todo[c] : i < j => Earlier(todo[c][i], todo[c][j])
    /\ step[c] # "drain" => snapshot[c] = <<>>

(* It takes all those addressed like one it has: none is left in a later queue. *)
TakesAll ==
  \A c \in Conn : step[c] = "drain" =>
    \A m \in Range(snapshot[c]) \ Displaced, s \in Range(todo[c]) : \A n \in Undisturbed(s) :
      n \in Range(snapshot[c]) \/ addressed[m] # addressed[n]

(* What a client has, is being written, queued and taken is in order. *)
InTurn(had, now_written, queued, taken, gone, to) ==
  /\ InRow(had, gone, to) /\ InRow(queued, gone, to) /\ InRow(taken, gone, to)
  /\ Ahead(Range(had), {now_written} \cup Range(queued), gone, to)
  /\ Ahead({now_written}, Range(queued), gone, to)

(* So it is for every client. *)
CopiesInRow ==
  \A c \in Conn : InTurn(sent[c], writing[c], channel[c], snapshot[c], Displaced, addressed)

-----------------------------------------------------------------------------
(* How rows change *)

(* What is displaced stays so, and a message is addressed once. *)
LEMMA FollowsStays ==
  ASSUME NEW m, NEW n, NEW gone, NEW to, NEW gone1, NEW to1, Follows(m, n, gone, to),
         gone \subseteq gone1, m = Close \/ to1[m] = to[m], n = Close \/ to1[n] = to[n]
  PROVE  Follows(m, n, gone1, to1)
BY DEF Follows

LEMMA RowStays ==
  ASSUME NEW q, NEW gone, NEW to, NEW gone1, NEW to1, InRow(q, gone, to),
         gone \subseteq gone1, \A m \in Range(q) : m = Close \/ to1[m] = to[m]
  PROVE  InRow(q, gone1, to1)
<1> SUFFICES ASSUME NEW i \in DOMAIN q, NEW j \in DOMAIN q, i < j
             PROVE  Follows(q[i], q[j], gone1, to1)
  BY DEF InRow
<1>1. Follows(q[i], q[j], gone, to)
  BY DEF InRow
<1>2. q[i] \in Range(q) /\ q[j] \in Range(q)
  BY DEF Range
<1> QED
  BY <1>1, <1>2, FollowsStays

LEMMA AheadStays ==
  ASSUME NEW S, NEW T, NEW gone, NEW to, NEW gone1, NEW to1, Ahead(S, T, gone, to),
         gone \subseteq gone1, \A m \in S \cup T : m = Close \/ to1[m] = to[m]
  PROVE  Ahead(S, T, gone1, to1)
<1> SUFFICES ASSUME NEW m \in S, NEW n \in T
             PROVE  Follows(m, n, gone1, to1)
  BY DEF Ahead
<1>1. Follows(m, n, gone, to)
  BY DEF Ahead
<1> QED
  BY <1>1, FollowsStays

LEMMA RowConcat ==
  ASSUME NEW S, NEW s \in Seq(S), NEW t \in Seq(S), NEW gone, NEW to,
         InRow(s, gone, to), InRow(t, gone, to), Ahead(Range(s), Range(t), gone, to)
  PROVE  InRow(s \o t, gone, to)
<1>1. /\ Len(s) \in Nat /\ Len(t) \in Nat
      /\ DOMAIN s = 1..Len(s) /\ DOMAIN t = 1..Len(t) /\ DOMAIN (s \o t) = 1..(Len(s) + Len(t))
      /\ \A i \in 1..Len(s) : (s \o t)[i] = s[i]
      /\ \A i \in 1..Len(t) : (s \o t)[Len(s) + i] = t[i]
  OBVIOUS
<1> SUFFICES ASSUME NEW i \in 1..(Len(s) + Len(t)), NEW j \in 1..(Len(s) + Len(t)), i < j
             PROVE  Follows((s \o t)[i], (s \o t)[j], gone, to)
  BY <1>1 DEF InRow
<1>2. \A k \in 1..(Len(s) + Len(t)) :
        \/ k \in DOMAIN s /\ (s \o t)[k] = s[k]
        \/ k - Len(s) \in DOMAIN t /\ (s \o t)[k] = t[k - Len(s)]
  <2> TAKE k \in 1..(Len(s) + Len(t))
  <2>1. CASE k \in 1..Len(s)
    BY <1>1, <2>1
  <2>2. CASE k - Len(s) \in 1..Len(t) /\ Len(s) + (k - Len(s)) = k
    BY <1>1, <2>2
  <2> QED
    BY <1>1, <2>1, <2>2
<1>3. CASE i \in DOMAIN s /\ (s \o t)[i] = s[i]
  <2>1. CASE j \in DOMAIN s /\ (s \o t)[j] = s[j]
    BY <1>3, <2>1 DEF InRow
  <2>2. CASE j - Len(s) \in DOMAIN t /\ (s \o t)[j] = t[j - Len(s)]
    BY <1>3, <2>2 DEF Range, Ahead
  <2> QED
    BY <1>2, <2>1, <2>2
<1>4. CASE i - Len(s) \in DOMAIN t /\ (s \o t)[i] = t[i - Len(s)]
  <2>1. i \notin DOMAIN s /\ j \notin DOMAIN s /\ i - Len(s) < j - Len(s)
    BY <1>1, <1>4
  <2>2. j - Len(s) \in DOMAIN t /\ (s \o t)[j] = t[j - Len(s)]
    BY <1>2, <2>1
  <2> QED
    BY <1>4, <2>1, <2>2 DEF InRow
<1> QED
  BY <1>2, <1>3, <1>4

LEMMA RowTail ==
  ASSUME NEW S, NEW q \in Seq(S), q # <<>>, NEW gone, NEW to, InRow(q, gone, to)
  PROVE  InRow(Tail(q), gone, to) /\ Ahead({Head(q)}, Range(Tail(q)), gone, to)
<1>1. /\ Len(q) \in Nat \ {0} /\ DOMAIN q = 1..Len(q) /\ Head(q) = q[1]
      /\ DOMAIN Tail(q) = 1..(Len(q) - 1)
      /\ \A i \in 1..(Len(q) - 1) : Tail(q)[i] = q[i + 1] /\ i + 1 \in 1..Len(q) /\ 1 < i + 1
  OBVIOUS
<1>2. \A i, j \in 1..(Len(q) - 1) : i < j => i + 1 < j + 1
  BY <1>1
<1>3. InRow(Tail(q), gone, to)
  BY <1>1, <1>2 DEF InRow
<1>4. 1 \in DOMAIN q
  BY <1>1
<1>5. \A i \in 1..(Len(q) - 1) : Follows(q[1], Tail(q)[i], gone, to)
  BY <1>1, <1>4 DEF InRow
<1> QED
  BY <1>1, <1>3, <1>5 DEF Ahead, Range

LEMMA RowOfOne ==
  ASSUME NEW x, NEW gone, NEW to
  PROVE  InRow(<<x>>, gone, to) /\ Range(<<x>>) = {x}
<1>1. DOMAIN <<x>> = 1..1 /\ \A i \in 1..1 : i = 1
  OBVIOUS
<1>2. Range(<<x>>) = {x}
  BY OneElement
<1> QED
  BY <1>1, <1>2 DEF InRow

LEMMA RowAppend ==
  ASSUME NEW S, NEW s \in Seq(S), NEW x \in S, NEW gone, NEW to,
         InRow(s, gone, to), Ahead(Range(s), {x}, gone, to)
  PROVE  InRow(Append(s, x), gone, to) /\ Range(Append(s, x)) = Range(s) \cup {x}
<1>1. PICK t \in Seq(S) : t = <<x>> /\ Append(s, x) = s \o t
  BY AppendOne
<1>2. InRow(t, gone, to) /\ Range(t) = {x}
  BY <1>1, RowOfOne
<1>3. Range(s \o t) = Range(s) \cup {x}
  BY <1>2, ConcatRange
<1>4. InRow(s \o t, gone, to)
  BY <1>2, RowConcat
<1> QED
  BY <1>1, <1>3, <1>4

LEMMA AheadOfClose ==
  ASSUME NEW S, NEW gone, NEW to
  PROVE  /\ Ahead(S, {Close}, gone, to) /\ Ahead({Close}, S, gone, to)
         /\ Ahead({}, S, gone, to) /\ Ahead(S, {}, gone, to)
BY DEF Ahead, Follows

(* What a registration takes from a queue comes behind what it has. *)
LEMMA RowTaken ==
  ASSUME NEW taken \in Seq(Message), NEW q \in Seq(Item), NEW r \in Taken(taken, q),
         NEW gone, NEW to, InRow(taken, gone, to), QueueInRow(q, gone, to),
         Ahead(Range(taken), Texts(q) \ Range(taken), gone, to)
  PROVE  InRow(r, gone, to)
<1>1. PICK o \in Orders(Fresh(taken, q)) :
        InQueueOrder(o) /\ r = taken \o [i \in DOMAIN o |-> q[o[i]].text]
  BY DEF Taken
<1> DEFINE new == [i \in DOMAIN o |-> q[o[i]].text]
<1>2. Len(q) \in Nat /\ DOMAIN q = 1..Len(q) /\ \A i \in DOMAIN q : q[i] \in Item
  OBVIOUS
<1>3. Fresh(taken, q) \subseteq DOMAIN q
  BY DEF Fresh
<1>4. IsFiniteSet(Fresh(taken, q))
  <2>1. IsFiniteSet(1..Len(q))
    BY <1>2, FS_Interval
  <2> QED
    BY <1>2, <1>3, <2>1, FS_Subset
<1>5. o \in Seq(Fresh(taken, q))
  BY <1>4, OrdersCover
<1>6. DOMAIN o = 1..Len(o) /\ Len(o) \in Nat /\ \A i \in DOMAIN o : o[i] \in Fresh(taken, q)
  BY <1>5
<1>7. new \in Seq(Message)
  BY <1>2, <1>3, <1>6 DEF Item
<1>8. InRow(new, gone, to)
  <2>1. ASSUME NEW i \in DOMAIN o, NEW j \in DOMAIN o, i < j
        PROVE  Follows(new[i], new[j], gone, to)
    <3>1. o[i] < o[j] /\ o[i] \in DOMAIN q /\ o[j] \in DOMAIN q
      BY <1>1, <1>3, <1>6, <2>1 DEF InQueueOrder
    <3> QED
      BY <3>1 DEF QueueInRow
  <2>2. DOMAIN new = DOMAIN o
    OBVIOUS
  <2> QED
    BY <2>1, <2>2 DEF InRow
<1>9. Range(new) \subseteq Texts(q) \ Range(taken)
  <2>1. ASSUME NEW i \in DOMAIN o
        PROVE  new[i] \in Texts(q) /\ new[i] \notin Range(taken)
    <3>1. ~Contains(taken, q[o[i]].text)
      BY <1>6 DEF Fresh
    <3>2. q[o[i]].text \notin Range(taken)
      BY <3>1, ContainsIffInRange
    <3> QED
      BY <1>3, <1>6, <3>2 DEF Texts
  <2> QED
    BY <2>1 DEF Range
<1>10. r = taken \o new
  BY <1>1
<1> HIDE DEF new
<1>11. Ahead(Range(taken), Range(new), gone, to)
  BY <1>9 DEF Ahead
<1> QED
  BY <1>7, <1>8, <1>10, <1>11, RowConcat

LEMMA QueueRowStays ==
  ASSUME NEW q, NEW gone, NEW to, NEW gone1, NEW to1, QueueInRow(q, gone, to),
         gone \subseteq gone1, \A m \in Texts(q) : to1[m] = to[m]
  PROVE  QueueInRow(q, gone1, to1)
<1> SUFFICES ASSUME NEW i \in DOMAIN q, NEW j \in DOMAIN q, i < j
             PROVE  Follows(q[i].text, q[j].text, gone1, to1)
  BY DEF QueueInRow
<1>1. Follows(q[i].text, q[j].text, gone, to)
  BY DEF QueueInRow
<1>2. q[i].text \in Texts(q) /\ q[j].text \in Texts(q)
  BY DEF Texts
<1> QED
  BY <1>1, <1>2, FollowsStays

LEMMA QueueRowAppend ==
  ASSUME NEW q \in Seq(Item), NEW r \in Seq(Item), NEW item, NEW gone, NEW to,
         Len(r) = Len(q) + 1, r[Len(r)] = item,
         \A i \in DOMAIN q : i \in DOMAIN r /\ r[i] = q[i],
         QueueInRow(q, gone, to), \A m \in Texts(q) : Follows(m, item.text, gone, to)
  PROVE  QueueInRow(r, gone, to)
<1>1. /\ Len(q) \in Nat /\ DOMAIN q = 1..Len(q) /\ DOMAIN r = 1..(Len(q) + 1)
      /\ \A i \in DOMAIN r : i \in DOMAIN q \/ i = Len(q) + 1
      /\ \A i \in DOMAIN q : i \in Nat /\ i < Len(q) + 1
      /\ \A i, j \in DOMAIN r : i < j => i \in DOMAIN q
  OBVIOUS
<1> SUFFICES ASSUME NEW i \in DOMAIN r, NEW j \in DOMAIN r, i < j
             PROVE  Follows(r[i].text, r[j].text, gone, to)
  BY DEF QueueInRow
<1>2. i \in DOMAIN q /\ r[i] = q[i]
  BY <1>1
<1>3. CASE j \in DOMAIN q
  <2>1. r[j] = q[j]
    BY <1>3
  <2> QED
    BY <1>2, <1>3, <2>1 DEF QueueInRow
<1>4. CASE j = Len(q) + 1
  <2>1. r[j] = item /\ q[i].text \in Texts(q)
    BY <1>2, <1>4 DEF Texts
  <2> QED
    BY <1>2, <2>1
<1> QED
  BY <1>1, <1>3, <1>4

LEMMA QueueRowPruned ==
  ASSUME NEW q \in Seq(Item), NEW at \in 0..MaxTime, NEW gone, NEW to, QueueInRow(q, gone, to)
  PROVE  QueueInRow(Pruned(q, at), gone, to)
<1>1. PICK first \in Nat \ {0} :
        /\ Pruned(q, at) \in Seq(Item)
        /\ \A i \in DOMAIN Pruned(q, at) :
             first + i - 1 \in DOMAIN q /\ Pruned(q, at)[i] = q[first + i - 1]
  BY PrunedParts
<1>2. \A i \in DOMAIN Pruned(q, at) : i \in Nat
  BY <1>1
<1>3. \A i, j \in Nat : i < j => first + i - 1 < first + j - 1
  BY <1>1
<1> QED
  BY <1>1, <1>2, <1>3 DEF QueueInRow

LEMMA InjectiveTail ==
  ASSUME NEW S, NEW q \in Seq(S), q # <<>>, IsInjective(q)
  PROVE  IsInjective(Tail(q)) /\ Head(q) \notin Range(Tail(q))
<1>1. /\ Len(q) \in Nat \ {0} /\ DOMAIN q = 1..Len(q) /\ Head(q) = q[1]
      /\ DOMAIN Tail(q) = 1..(Len(q) - 1)
      /\ \A i \in 1..(Len(q) - 1) : Tail(q)[i] = q[i + 1] /\ i + 1 \in 1..Len(q) /\ i + 1 # 1
  OBVIOUS
<1>2. IsInjective(Tail(q))
  BY <1>1 DEF IsInjective
<1>3. 1 \in DOMAIN q
  BY <1>1
<1> QED
  BY <1>1, <1>2, <1>3 DEF IsInjective, Range

LEMMA OrdersInjective ==
  ASSUME NEW S, NEW q \in Orders(S)
  PROVE  IsInjective(q)
BY DEF Orders, Injection, IsInjective

-----------------------------------------------------------------------------
(* What any step does to the histories, the queues and who is at work *)

LEMMA HistoryGrows ==
  ASSUME TypeOK, [Next]_vars
  PROVE  /\ Displaced \subseteq Displaced'
         /\ \A m \in Message : addressed[m] # {} => addressed'[m] = addressed[m]
<1> DEFINE Grows == /\ failed \subseteq failed' /\ pruned \subseteq pruned'
                    /\ \A m \in Message : addressed[m] # {} => addressed'[m] = addressed[m]
<1> USE TaskFacts DEF TypeOK, frame, history
<1>1. Tick \/ UNCHANGED vars => Grows
  BY DEF Tick, vars
<1>2. ASSUME NEW t \in Task, Requeue(t) \/ Requeued(t)
      PROVE  Grows
  BY <1>2 DEF Requeue, Requeued
<1>3. ASSUME NEW t \in Dispatcher, Deliver(t) \/ Delivered(t)
      PROVE  Grows
  BY <1>3 DEF Deliver, Delivered
<1>4. ASSUME NEW t \in Dispatcher, Send(t)
      PROVE  Grows
  BY <1>4 DEF Send
<1>5. ASSUME NEW c \in Conn, Register(c) \/ Drain(c) \/ Drained(c)
      PROVE  Grows
  BY <1>5 DEF Register, Drain, Drained
<1>6. ASSUME NEW c \in Conn, Receive(c) \/ Written(c) \/ Failed(c) \/ Leave(c) \/ Unregister(c) \/ Evict(c)
      PROVE  Grows
  BY <1>6 DEF Receive, Written, Failed, Leave, Unregister, Evict
<1> HIDE DEF TypeOK, Grows
<1>7. Grows
  BY <1>1, <1>2, <1>3, <1>4, <1>5, <1>6 DEF Next
<1> QED
  BY <1>7 DEF Grows, Displaced

LEMMA NoNewDispatch ==
  ASSUME TypeOK, [Next]_vars
  PROVE  \/ \E t \in Dispatcher : Send(t)
         \/ /\ UNCHANGED addressed
            /\ \A t \in Dispatcher :
                 step'[t] # "rest" => step[t] # "rest" /\ message'[t] = message[t]
<1> DEFINE Same == /\ UNCHANGED addressed
                   /\ \A t \in Dispatcher :
                        step'[t] # "rest" => step[t] # "rest" /\ message'[t] = message[t]
<1> USE TaskFacts DEF TypeOK, frame, history
<1>1. CASE Tick
  BY <1>1 DEF Tick
<1>6. CASE UNCHANGED vars
  BY <1>6 DEF vars
<1>2. ASSUME NEW t \in Task, Requeue(t) \/ Requeued(t)
      PROVE  Same
  BY <1>2 DEF Requeue, Requeued
<1>3. ASSUME NEW t \in Dispatcher, Deliver(t) \/ Delivered(t)
      PROVE  Same
  BY <1>3 DEF Deliver, Delivered
<1>4. ASSUME NEW c \in Conn, Register(c) \/ Drain(c) \/ Drained(c)
      PROVE  Same
  BY <1>4 DEF Register, Drain, Drained
<1>5. ASSUME NEW c \in Conn, Receive(c) \/ Written(c) \/ Failed(c) \/ Leave(c) \/ Unregister(c) \/ Evict(c)
      PROVE  Same
  BY <1>5 DEF Receive, Written, Failed, Leave, Unregister, Evict
<1> HIDE DEF TypeOK, Same
<1>7. Same => /\ UNCHANGED addressed
              /\ \A t \in Dispatcher :
                   step'[t] # "rest" => step[t] # "rest" /\ message'[t] = message[t]
  BY DEF Same
<1> QED
  BY <1>1, <1>2, <1>3, <1>4, <1>5, <1>6, <1>7 DEF Next

(* A loop over the queues is left alone by the steps that touch no queue. *)
LoopsGoOn ==
  /\ \A c \in Conn : step[c] = "drain" /\ todo[c] # <<>> =>
       step'[c] = "drain" /\ todo'[c] = todo[c] /\ snapshot'[c] = snapshot[c]
  /\ \A t \in Dispatcher : step[t] = "requeue" /\ todo[t] # <<>> =>
       step'[t] = "requeue" /\ todo'[t] = todo[t] /\ message'[t] = message[t]

LEMMA QueuesLeftAlone ==
  ASSUME TypeOK, [Next]_vars
  PROVE  \/ \E t \in Task : Requeue(t)
         \/ \E c \in Conn : Drain(c)
         \/ UNCHANGED pending /\ LoopsGoOn
<1> DEFINE Quiet == UNCHANGED pending /\ LoopsGoOn
<1> USE TaskFacts DEF TypeOK, frame, history, LoopsGoOn
<1>1. CASE Tick
  BY <1>1 DEF Tick
<1>7. CASE UNCHANGED vars
  BY <1>7 DEF vars
<1>2. ASSUME NEW t \in Task, Requeued(t)
      PROVE  Quiet
  BY <1>2 DEF Requeued
<1>3. ASSUME NEW t \in Dispatcher, Send(t)
      PROVE  Quiet
  BY <1>3 DEF Send, Idle
<1>4. ASSUME NEW t \in Dispatcher, Deliver(t) \/ Delivered(t)
      PROVE  Quiet
  BY <1>4 DEF Deliver, Delivered
<1>5. ASSUME NEW c \in Conn, Register(c) \/ Drained(c)
      PROVE  Quiet
  <2>1. CASE Register(c)
    BY <2>1 DEF Register, Idle
  <2>2. CASE Drained(c)
    BY <2>2 DEF Drained, Idle
  <2> QED
    BY <1>5, <2>1, <2>2
<1>6. ASSUME NEW c \in Conn, Receive(c) \/ Written(c) \/ Failed(c) \/ Leave(c) \/ Unregister(c) \/ Evict(c)
      PROVE  Quiet
  BY <1>6 DEF Receive, Written, Failed, Leave, Unregister, Evict, Idle
<1> HIDE DEF TypeOK, LoopsGoOn, Quiet
<1>8. Quiet => UNCHANGED pending /\ LoopsGoOn
  BY DEF Quiet
<1> QED
  BY <1>1, <1>2, <1>3, <1>4, <1>5, <1>6, <1>7, <1>8 DEF Next

LEMMA QueuedTexts ==
  ASSUME TypeOK
  PROVE  \A s \in Subject : pending[s] \in Seq(Item) /\ Texts(pending[s]) \subseteq Message
<1> SUFFICES ASSUME NEW s \in Subject
             PROVE  pending[s] \in Seq(Item) /\ Texts(pending[s]) \subseteq Message
  OBVIOUS
<1>1. pending[s] \in Seq(Item)
  BY DEF TypeOK
<1>2. \A i \in DOMAIN pending[s] : pending[s][i] \in Item
  BY <1>1
<1>3. \A x \in Item : x.text \in Message
  BY DEF Item
<1> QED
  BY <1>1, <1>2, <1>3 DEF Texts

-----------------------------------------------------------------------------
(* One worker: messages are dispatched in the order of their numbers. *)

LEMMA TurnNext ==
  ASSUME TypeOK, workers = 1, DispatchedInTurn, NewestAtWork, [Next]_vars
  PROVE  DispatchedInTurn' /\ NewestAtWork'
<1> USE TaskFacts
<1>n. Message \subseteq Nat
  BY DeliveryAssumption
<1>1. ASSUME NEW t \in Dispatcher, Send(t)
      PROVE  DispatchedInTurn' /\ NewestAtWork'
  <2>1. PICK m \in Message, S \in Audience :
          /\ addressed[m] = {} /\ \A n \in Message : n < m => addressed[n] # {}
          /\ addressed' = [addressed EXCEPT ![m] = S]
          /\ message' = [message EXCEPT ![t] = m]
          /\ step' = [step EXCEPT ![t] = "deliver"]
    BY <1>1 DEF Send
  <2>2. S # {}
    BY DeliveryAssumption
  <2>3. \A n \in Message : addressed'[n] # {} <=> n = m \/ addressed[n] # {}
    BY <2>1, <2>2 DEF TypeOK
  <2>4. \A n \in Message : addressed[n] # {} => n < m
    BY <1>n, <2>1 DEF DispatchedInTurn
  <2>5. DispatchedInTurn'
    BY <1>n, <2>1, <2>3, <2>4 DEF DispatchedInTurn
  <2>6. \A u \in Task : step[u] = "rest"
    BY <1>1, AllAtRest DEF Send, Idle
  <2>7. \A u \in Dispatcher : step'[u] # "rest" => u = t /\ message'[u] = m
    BY <2>1, <2>6 DEF TypeOK
  <2>8. NewestAtWork'
    BY <1>n, <2>3, <2>4, <2>7 DEF NewestAtWork
  <2> QED
    BY <2>5, <2>8
<1>2. CASE /\ UNCHANGED addressed
           /\ \A t \in Dispatcher :
                step'[t] # "rest" => step[t] # "rest" /\ message'[t] = message[t]
  BY <1>2 DEF DispatchedInTurn, NewestAtWork
<1> QED
  BY <1>1, <1>2, NoNewDispatch

-----------------------------------------------------------------------------
(* One worker: what was buffered waits under every subject. *)

(* A message joins the queue of s: what is lost there is displaced. *)
LEMMA JoinsQueue ==
  ASSUME TypeOK, NEW t \in Task, Requeue(t)
  PROVE  \E s \in Subject :
           /\ s = Head(todo[t]) /\ s \in Range(todo[t]) /\ todo'[t] = Tail(todo[t])
           /\ Range(todo[t]) = {s} \cup Range(Tail(todo[t]))
           /\ message[t] \in Message
           /\ Texts(pending'[s]) \subseteq Texts(pending[s]) \cup {message[t]}
           /\ (Texts(pending[s]) \cup {message[t]}) \ Texts(pending'[s]) \subseteq Displaced'
           /\ \A r \in Subject : r # s => pending'[r] = pending[r]
<1>1. step[t] = "requeue" /\ todo[t] # <<>> /\ todo[t] \in Seq(Subject) /\ message[t] \in Message
  BY DEF Requeue, TypeOK
<1>2. PICK s \in Subject : s = Head(todo[t]) /\ Range(todo[t]) = {s} \cup Range(Tail(todo[t]))
  BY <1>1, RangeOfParts
<1>3. PICK item \in Item : item = [text |-> message[t], at |-> now_ts[t]]
  BY <1>1 DEF Item, TypeOK
<1>4. PICK q \in Seq(Item) : q = Append(pending[s], item)
  BY <1>3, AppendTexts DEF TypeOK
<1>5. Texts(q) = Texts(pending[s]) \cup {message[t]}
  BY <1>3, <1>4, AppendTexts DEF TypeOK
<1>6. PICK kept : kept = Pruned(q, now_ts[t])
  OBVIOUS
<1>7. Texts(kept) \subseteq Texts(q)
  BY <1>6, PrunedKeeps DEF TypeOK
<1>8. /\ pending' = [pending EXCEPT ![s] = kept]
      /\ pruned' = pruned \cup {<<s, m>> : m \in Texts(q) \ Texts(kept)}
      /\ todo' = [todo EXCEPT ![t] = Tail(@)]
  BY <1>2, <1>3, <1>4, <1>6 DEF Requeue, Enqueued
<1>9. pending'[s] = kept /\ todo'[t] = Tail(todo[t]) /\ \A r \in Subject : r # s => pending'[r] = pending[r]
  BY <1>8 DEF TypeOK
<1>10. Texts(q) \ Texts(kept) \subseteq Displaced'
  <2> SUFFICES ASSUME NEW m \in Texts(q) \ Texts(kept)
               PROVE  m \in Displaced'
    OBVIOUS
  <2>1. <<s, m>> \in pruned' /\ <<s, m>>[2] = m
    BY <1>8
  <2> QED
    BY <2>1 DEF Displaced
<1> QED
  BY <1>1, <1>2, <1>5, <1>7, <1>9, <1>10

(* A registration empties the queue of s: what it leaves out is displaced. *)
LEMMA TakesQueue ==
  ASSUME TypeOK, NEW c \in Conn, Drain(c)
  PROVE  \E s \in Subject, q \in Seq(Item) :
           /\ s = Head(todo[c]) /\ s \in Range(todo[c]) /\ todo'[c] = Tail(todo[c])
           /\ Range(todo[c]) = {s} \cup Range(Tail(todo[c]))
           /\ q = Pruned(pending[s], now_ts[c]) /\ Texts(q) \subseteq Texts(pending[s])
           /\ Texts(pending[s]) \ Texts(q) \subseteq Displaced'
           /\ snapshot'[c] \in Taken(snapshot[c], q)
           /\ Range(snapshot'[c]) = Range(snapshot[c]) \cup Texts(q)
           /\ \A d \in Conn : d # c => snapshot'[d] = snapshot[d]
           /\ Texts(pending'[s]) = {} /\ pending'[s] = <<>>
           /\ \A r \in Subject : r # s => pending'[r] = pending[r]
<1>1. todo[c] # <<>> /\ todo[c] \in Seq(Subject)
  BY TaskFacts DEF Drain, TypeOK
<1>2. PICK s \in Subject : s = Head(todo[c]) /\ Range(todo[c]) = {s} \cup Range(Tail(todo[c]))
  BY <1>1, RangeOfParts
<1>3. PICK q \in Seq(Item) :
        q = Pruned(pending[s], now_ts[c]) /\ Texts(q) \subseteq Texts(pending[s])
  BY TaskFacts, PrunedKeeps DEF TypeOK
<1>4. PICK texts \in Taken(snapshot[c], q) : snapshot' = [snapshot EXCEPT ![c] = texts]
  BY <1>2, <1>3 DEF Drain
<1>5. /\ pending' = [pending EXCEPT ![s] = <<>>]
      /\ pruned' = pruned \cup {<<s, m>> : m \in Texts(pending[s]) \ Texts(q)}
      /\ todo' = [todo EXCEPT ![c] = Tail(@)]
  BY <1>2, <1>3 DEF Drain
<1>6. snapshot'[c] = texts /\ \A d \in Conn : d # c => snapshot'[d] = snapshot[d]
  BY <1>4 DEF TypeOK
<1>7. Range(texts) = Range(snapshot[c]) \cup Texts(q)
  <2>1. snapshot[c] \in Seq(Message)
    BY DEF TypeOK
  <2> QED
    BY <1>3, <1>4, <2>1, TakenAll
<1>8. Texts(pending[s]) \ Texts(q) \subseteq Displaced'
  <2> SUFFICES ASSUME NEW m \in Texts(pending[s]) \ Texts(q)
               PROVE  m \in Displaced'
    OBVIOUS
  <2>1. <<s, m>> \in pruned' /\ <<s, m>>[2] = m
    BY <1>5
  <2> QED
    BY <2>1 DEF Displaced
<1>9. /\ pending'[s] = <<>> /\ Texts(<<>>) = {}
      /\ \A r \in Subject : r # s => pending'[r] = pending[r]
  BY <1>5 DEF TypeOK, Texts
<1>10. todo'[c] = Tail(todo[c])
  BY <1>5, TaskFacts DEF TypeOK
<1> QED
  BY <1>2, <1>3, <1>4, <1>6, <1>7, <1>8, <1>9, <1>10

(* What joins a queue is the newest message, or was put back. *)
LEMMA QueuesRowNext ==
  ASSUME TypeOK, Untaken, Once, NewestAtWork, BuffersAll, QueuesInRow, [Next]_vars
  PROVE  QueuesInRow'
<1> USE TaskFacts
<1>t. \A s \in Subject : pending[s] \in Seq(Item) /\ Texts(pending[s]) \subseteq Message
  BY QueuedTexts
<1>a. \A s \in Subject : \A m \in Texts(pending[s]) : addressed[m] # {} /\ addressed'[m] = addressed[m]
  BY <1>t, HistoryGrows DEF Once, FromDispatch
<1>k. ASSUME NEW s \in Subject, pending'[s] = pending[s]
      PROVE  QueueInRow(pending'[s], Displaced', addressed')
  BY <1>a, <1>k, HistoryGrows, QueueRowStays DEF QueuesInRow
<1>1. ASSUME NEW t \in Task, Requeue(t)
      PROVE  QueuesInRow'
  <2>1. PICK s \in Subject : s = Head(todo[t]) /\ s \in Range(todo[t])
    BY <1>1, RangeOfParts DEF Requeue, TypeOK
  <2>2. PICK item \in Item : item = [text |-> message[t], at |-> now_ts[t]]
    BY <1>1 DEF Requeue, Item, TypeOK
  <2>3. PICK q \in Seq(Item) : q = Append(pending[s], item)
    BY <2>2, <1>t, AppendTexts
  <2>4. /\ pending' = [pending EXCEPT ![s] = Pruned(q, now_ts[t])] /\ UNCHANGED addressed
        /\ step[t] = "requeue" /\ message[t] \in Message
    BY <1>1, <2>1, <2>2, <2>3 DEF Requeue, Enqueued, TypeOK
  <2>5. ASSUME NEW m \in Texts(pending[s])
        PROVE  Follows(m, item.text, Displaced, addressed)
    <3>1. item.text = message[t]
      BY <2>2
    <3>2. CASE t \in Conn
      <4>1. message[t] \in Displaced
        BY <2>4, <3>2 DEF Untaken, RequeuesFailed, Displaced
      <4> QED
        BY <3>1, <4>1 DEF Follows
    <3>3. CASE t \in Dispatcher /\ message[t] \notin Displaced
      <4>1. message[t] \notin Texts(pending[s])
        BY <2>1, <2>4, <3>3 DEF BuffersAll
      <4>2. m <= message[t] /\ m \in Nat /\ message[t] \in Nat
        BY <1>t, <1>a, <2>4, <2>5, <3>3, DeliveryAssumption DEF NewestAtWork
      <4>3. m < message[t]
        BY <4>1, <4>2, <2>5
      <4> QED
        BY <3>1, <4>3 DEF Follows
    <3>4. CASE message[t] \in Displaced
      BY <3>1, <3>4 DEF Follows
    <3> QED
      BY <3>2, <3>3, <3>4 DEF Task
  <2>6. QueueInRow(q, Displaced, addressed)
    <3>1. pending[s] \in Seq(Item)
      BY <1>t
    <3>2. /\ Len(q) = Len(pending[s]) + 1 /\ q[Len(q)] = item
          /\ \A i \in DOMAIN pending[s] : i \in DOMAIN q /\ q[i] = pending[s][i]
      BY <2>3, <3>1
    <3>3. QueueInRow(pending[s], Displaced, addressed)
      BY DEF QueuesInRow
    <3> QED
      BY <2>5, <3>1, <3>2, <3>3, QueueRowAppend
  <2>7. QueueInRow(Pruned(q, now_ts[t]), Displaced', addressed')
    <3>1. now_ts[t] \in 0..MaxTime
      BY DEF TypeOK
    <3>2. QueueInRow(Pruned(q, now_ts[t]), Displaced, addressed)
      BY <2>6, <3>1, QueueRowPruned
    <3> QED
      BY <2>4, <3>2, HistoryGrows, QueueRowStays
  <2>8. pending'[s] = Pruned(q, now_ts[t]) /\ \A r \in Subject : r # s => pending'[r] = pending[r]
    BY <2>4 DEF TypeOK
  <2>9. \A r \in Subject : QueueInRow(pending'[r], Displaced', addressed')
    BY <1>k, <2>7, <2>8
  <2> QED
    BY <2>9 DEF QueuesInRow
<1>2. ASSUME NEW c \in Conn, Drain(c)
      PROVE  QueuesInRow'
  <2>1. PICK s \in Subject :
          pending'[s] = <<>> /\ \A r \in Subject : r # s => pending'[r] = pending[r]
    BY <1>2, TakesQueue
  <2>2. QueueInRow(<<>>, Displaced', addressed')
    BY DEF QueueInRow
  <2>3. \A r \in Subject : QueueInRow(pending'[r], Displaced', addressed')
    BY <1>k, <2>1, <2>2
  <2> QED
    BY <2>3 DEF QueuesInRow
<1>3. CASE UNCHANGED pending
  <2>1. \A r \in Subject : QueueInRow(pending'[r], Displaced', addressed')
    BY <1>k, <1>3
  <2> QED
    BY <2>1 DEF QueuesInRow
<1> QED
  BY <1>1, <1>2, <1>3, QueuesLeftAlone

(* A registration that takes a message from a queue has the later ones to do. *)
LEMMA WaitsNext ==
  ASSUME TypeOK, Untaken, BuffersAll, WaitsAsAddressed, DrainsInTurn, [Next]_vars
  PROVE  WaitsAsAddressed'
<1> USE TaskFacts
<1>t. \A s \in Subject : Texts(pending[s]) \subseteq Message
  BY QueuedTexts
<1>w. \A s \in Subject : \A n \in Undisturbed(s) : s \in addressed[n] /\ addressed'[n] = addressed[n]
  BY <1>t, HistoryGrows DEF WaitsAsAddressed, Undisturbed
<1>d. Displaced \subseteq Displaced'
  BY HistoryGrows
<1>g. SUFFICES ASSUME NEW s \in Subject, NEW n \in Texts(pending'[s]) \ Displaced'
               PROVE  /\ s \in addressed'[n]
                      /\ \A r \in addressed'[n] : Earlier(r, s) =>
                           \/ n \in Texts(pending'[r])
                           \/ \E c \in Conn : step'[c] = "drain" /\ s \in Range(todo'[c]) /\ n \in Range(snapshot'[c])
                           \/ \E t \in Dispatcher : step'[t] = "requeue" /\ message'[t] = n /\ r \in Range(todo'[t])
  <2>1. \A r \in Subject : Undisturbed(r)' = Texts(pending'[r]) \ Displaced'
    BY DEF Undisturbed, Texts
  <2>2. \A r : Texts(pending[r])' = Texts(pending'[r])
    BY DEF Texts
  <2> QED
    BY <2>1, <2>2 DEF WaitsAsAddressed, Earlier
<1>1. ASSUME NEW t \in Task, Requeue(t)
      PROVE  /\ s \in addressed'[n]
             /\ \A r \in addressed'[n] : Earlier(r, s) =>
                  \/ n \in Texts(pending'[r])
                  \/ \E c \in Conn : step'[c] = "drain" /\ s \in Range(todo'[c]) /\ n \in Range(snapshot'[c])
                  \/ \E u \in Dispatcher : step'[u] = "requeue" /\ message'[u] = n /\ r \in Range(todo'[u])
  <2>1. PICK s0 \in Subject :
           /\ s0 = Head(todo[t]) /\ s0 \in Range(todo[t]) /\ todo'[t] = Tail(todo[t])
           /\ Range(todo[t]) = {s0} \cup Range(Tail(todo[t]))
           /\ Texts(pending'[s0]) \subseteq Texts(pending[s0]) \cup {message[t]}
           /\ (Texts(pending[s0]) \cup {message[t]}) \ Texts(pending'[s0]) \subseteq Displaced'
           /\ \A r \in Subject : r # s0 => pending'[r] = pending[r]
    BY <1>1, JoinsQueue
  <2>2. step[t] = "requeue" /\ UNCHANGED <<step, message, snapshot, addressed>> /\ message[t] \in Message
    BY <1>1 DEF Requeue, TypeOK
  <2>3. \A u \in Task : step[u] # "rest" => u = t
    BY <2>2 DEF Untaken, OneBusy
  <2>4. addressed'[n] \subseteq Subject
    <3>1. n \in Message
      BY <1>t, <2>1, <2>2
    <3> QED
      BY <2>2, <3>1 DEF TypeOK
  <2>5. CASE n = message[t]
    <3>1. t \in Dispatcher
      <4>1. t \in Conn => message[t] \in Displaced
        BY <2>2 DEF Untaken, RequeuesFailed, Displaced
      <4> QED
        BY <1>d, <1>g, <2>5, <4>1 DEF Task
    <3>2. /\ Range(todo[t]) \subseteq addressed[n]
          /\ \A r \in addressed[n] : r \in Range(todo[t]) \/ n \in Texts(pending[r])
      BY <1>d, <1>g, <2>1, <2>2, <2>5, <3>1 DEF BuffersAll
    <3>3. s \in addressed'[n]
      <4>1. CASE s = s0
        BY <2>1, <2>2, <3>2, <4>1
      <4>2. CASE s # s0
        <5>1. n \in Undisturbed(s)
          BY <1>d, <1>g, <2>1, <4>2 DEF Undisturbed
        <5> QED
          BY <1>w, <2>2, <5>1
      <4> QED
        BY <4>1, <4>2
    <3>4. ASSUME NEW r \in addressed'[n]
          PROVE  \/ n \in Texts(pending'[r])
                 \/ \E u \in Dispatcher : step'[u] = "requeue" /\ message'[u] = n /\ r \in Range(todo'[u])
      <4>1. CASE r = s0
        BY <1>g, <2>1, <2>5, <4>1
      <4>2. CASE r # s0 /\ r \in Range(todo[t])
        BY <2>1, <2>2, <2>5, <3>1, <4>2
      <4>3. CASE r # s0 /\ n \in Texts(pending[r])
        BY <2>1, <2>4, <3>4, <4>3
      <4> QED
        BY <2>2, <3>2, <4>1, <4>2, <4>3
    <3> QED
      BY <3>3, <3>4
  <2>6. CASE n # message[t]
    <3>1. n \in Undisturbed(s)
      BY <1>d, <1>g, <2>1, <2>6 DEF Undisturbed
    <3>2. s \in addressed'[n]
      BY <1>w, <2>2, <3>1
    <3>3. ASSUME NEW r \in addressed'[n], Earlier(r, s)
          PROVE  n \in Texts(pending'[r])
      <4>1. \/ n \in Texts(pending[r])
            \/ \E c \in Conn : step[c] = "drain"
            \/ \E u \in Dispatcher : step[u] = "requeue" /\ message[u] = n
        BY <2>2, <3>1, <3>3 DEF WaitsAsAddressed
      <4>2. n \in Texts(pending[r])
        BY <2>2, <2>3, <2>6, <4>1
      <4> QED
        BY <1>g, <2>1, <2>4, <3>3, <4>2
    <3> QED
      BY <3>2, <3>3
  <2> QED
    BY <2>5, <2>6
<1>2. ASSUME NEW c \in Conn, Drain(c)
      PROVE  /\ s \in addressed'[n]
             /\ \A r \in addressed'[n] : Earlier(r, s) =>
                  \/ n \in Texts(pending'[r])
                  \/ \E d \in Conn : step'[d] = "drain" /\ s \in Range(todo'[d]) /\ n \in Range(snapshot'[d])
  <2>1. PICK s0 \in Subject, q \in Seq(Item) :
           /\ s0 = Head(todo[c]) /\ s0 \in Range(todo[c]) /\ todo'[c] = Tail(todo[c])
           /\ Range(todo[c]) = {s0} \cup Range(Tail(todo[c]))
           /\ q = Pruned(pending[s0], now_ts[c]) /\ Texts(q) \subseteq Texts(pending[s0])
           /\ Texts(pending[s0]) \ Texts(q) \subseteq Displaced'
           /\ snapshot'[c] \in Taken(snapshot[c], q)
           /\ Range(snapshot'[c]) = Range(snapshot[c]) \cup Texts(q)
           /\ \A d \in Conn : d # c => snapshot'[d] = snapshot[d]
           /\ Texts(pending'[s0]) = {} /\ pending'[s0] = <<>>
           /\ \A r \in Subject : r # s0 => pending'[r] = pending[r]
    BY <1>2, TakesQueue
  <2>2. step[c] = "drain" /\ UNCHANGED <<step, addressed>>
    BY <1>2 DEF Drain
  <2>3. \A u \in Task : step[u] # "rest" => u = c
    BY <2>2 DEF Untaken, OneBusy
  <2>4. s # s0 /\ pending'[s] = pending[s] /\ n \in Undisturbed(s) /\ n \in Message
    BY <1>d, <1>g, <1>t, <2>1 DEF Undisturbed
  <2>5. s \in addressed'[n] /\ addressed'[n] \subseteq Subject
    BY <1>w, <2>2, <2>4 DEF TypeOK
  <2>6. ASSUME NEW r \in addressed'[n], Earlier(r, s)
        PROVE  n \in Texts(pending'[r]) \/ (s \in Range(todo'[c]) /\ n \in Range(snapshot'[c]))
    <3>1. \/ n \in Texts(pending[r])
          \/ \E d \in Conn : step[d] = "drain" /\ s \in Range(todo[d]) /\ n \in Range(snapshot[d])
          \/ \E u \in Dispatcher : step[u] = "requeue"
      BY <2>2, <2>4, <2>6 DEF WaitsAsAddressed
    <3>2. CASE n \in Texts(pending[r]) /\ r # s0
      BY <2>1, <2>5, <2>6, <3>2
    <3>3. CASE n \in Texts(pending[r]) /\ r = s0
      <4>1. n \in Range(snapshot'[c])
        BY <1>g, <2>1, <3>3
      <4>2. s0 \in Range(SubjectsOf[c])
        BY <2>1, <2>2 DEF DrainsInTurn
      <4>3. s \in Range(SubjectsOf[c])
        BY <2>6, <3>3, <4>2, SubjectsAssumption DEF Earlier
      <4>4. s \in Range(todo[c])
        <5>1. Texts(pending[s]) # {}
          BY <2>4 DEF Undisturbed
        <5> QED
          BY <2>2, <4>3, <5>1 DEF Untaken, DrainEmpties
      <4> QED
        BY <2>1, <2>4, <4>1, <4>4
    <3>4. CASE \E d \in Conn : step[d] = "drain" /\ s \in Range(todo[d]) /\ n \in Range(snapshot[d])
      <4>1. s \in Range(todo[c]) /\ n \in Range(snapshot[c])
        BY <2>3, <3>4
      <4> QED
        BY <2>1, <2>4, <4>1
    <3>5. CASE \E u \in Dispatcher : step[u] = "requeue"
      BY <2>3, <3>5
    <3> QED
      BY <3>1, <3>2, <3>3, <3>4, <3>5
  <2>7. step'[c] = "drain"
    BY <2>2
  <2> QED
    BY <2>5, <2>6, <2>7
<1>3. CASE UNCHANGED pending /\ LoopsGoOn
  <2>1. n \in Undisturbed(s)
    BY <1>d, <1>g, <1>3 DEF Undisturbed
  <2>2. s \in addressed'[n] /\ addressed'[n] = addressed[n]
    BY <1>w, <2>1
  <2>3. ASSUME NEW r \in addressed'[n], Earlier(r, s)
        PROVE  \/ n \in Texts(pending'[r])
               \/ \E c \in Conn : step'[c] = "drain" /\ s \in Range(todo'[c]) /\ n \in Range(snapshot'[c])
               \/ \E t \in Dispatcher : step'[t] = "requeue" /\ message'[t] = n /\ r \in Range(todo'[t])
    <3>1. \/ n \in Texts(pending[r])
          \/ \E c \in Conn : step[c] = "drain" /\ s \in Range(todo[c]) /\ n \in Range(snapshot[c])
          \/ \E t \in Dispatcher : step[t] = "requeue" /\ message[t] = n /\ r \in Range(todo[t])
      BY <2>1, <2>2, <2>3 DEF WaitsAsAddressed
    <3>2. CASE n \in Texts(pending[r])
      BY <1>3, <3>2
    <3>3. ASSUME NEW c \in Conn, step[c] = "drain", s \in Range(todo[c]), n \in Range(snapshot[c])
          PROVE  step'[c] = "drain" /\ s \in Range(todo'[c]) /\ n \in Range(snapshot'[c])
      BY <1>3, <3>3, EmptySequence DEF LoopsGoOn
    <3>4. ASSUME NEW t \in Dispatcher, step[t] = "requeue", message[t] = n, r \in Range(todo[t])
          PROVE  step'[t] = "requeue" /\ message'[t] = n /\ r \in Range(todo'[t])
      BY <1>3, <3>4, EmptySequence DEF LoopsGoOn
    <3> QED
      BY <3>1, <3>2, <3>3, <3>4
  <2> QED
    BY <2>2, <2>3
<1> QED
  BY <1>1, <1>2, <1>3, QueuesLeftAlone

(* A message joins the queues still to do, and leaves none in between. *)
LEMMA BuffersNext ==
  ASSUME TypeOK, Untaken, Once, workers = 1, BuffersAll, [Next]_vars
  PROVE  BuffersAll'
<1> USE TaskFacts
<1>p. \A s : Texts(pending[s])' = Texts(pending'[s])
  BY DEF Texts
<1>d. Displaced \subseteq Displaced'
  BY HistoryGrows
<1>1. ASSUME NEW t \in Dispatcher, Send(t)
      PROVE  BuffersAll'
  <2>1. PICK m \in Message, S \in Audience :
          /\ addressed[m] = {} /\ addressed' = [addressed EXCEPT ![m] = S]
          /\ message' = [message EXCEPT ![t] = m]
          /\ \E q \in Orders(S) : todo' = [todo EXCEPT ![t] = q]
          /\ step' = [step EXCEPT ![t] = "deliver"]
          /\ UNCHANGED pending
    BY <1>1 DEF Send
  <2>2. PICK q \in Orders(S) : todo' = [todo EXCEPT ![t] = q]
    BY <2>1
  <2>3. \A u \in Task : step[u] = "rest"
    BY <1>1, AllAtRest DEF Send, Idle
  <2>4. IsInjective(q) /\ Range(q) = S
    <3>1. S \subseteq Subject /\ IsFiniteSet(Subject)
      BY DeliveryAssumption
    <3>2. IsFiniteSet(S)
      BY <3>1, FS_Subset
    <3> QED
      BY <3>2, OrdersInjective, OrdersCover
  <2>5. /\ step'[t] = "deliver" /\ message'[t] = m /\ todo'[t] = q /\ addressed'[m] = S
        /\ \A u \in Dispatcher : u # t => step'[u] = "rest"
    BY <2>1, <2>3, <2>2 DEF TypeOK
  <2>6. \A s \in Subject : m \notin Texts(pending'[s])
    BY <2>1 DEF Once, FromDispatch
  <2> QED
    BY <1>p, <2>4, <2>5, <2>6 DEF BuffersAll
<1>2. ASSUME NEW t \in Dispatcher, Delivered(t)
      PROVE  BuffersAll'
  <2>1. /\ step[t] = "deliver" /\ step'[t] = "requeue" /\ todo'[t] \in {todo[t], <<>>}
        /\ UNCHANGED <<message, addressed, pending>>
        /\ \A u \in Dispatcher : u # t => step'[u] = step[u]
    BY <1>2 DEF Delivered, history, TypeOK
  <2>2. \A u \in Dispatcher : u # t => step'[u] = "rest"
    BY <2>1 DEF Untaken, OneBusy
  <2>3. /\ IsInjective(todo[t]) /\ Range(todo[t]) = addressed[message[t]]
        /\ \A s \in Subject : message[t] \notin Texts(pending[s])
    BY <2>1 DEF BuffersAll
  <2>4. Range(todo[t]) \subseteq Subject /\ Range(<<>>) = {} /\ IsInjective(<<>>)
    <3>1. Range(todo[t]) \subseteq Subject
      BY DEF TypeOK, Range
    <3> QED
      BY <3>1, EmptySequence DEF IsInjective
  <2>5. CASE todo'[t] = todo[t]
    BY <1>p, <2>1, <2>2, <2>3, <2>4, <2>5 DEF BuffersAll
  <2>6. CASE todo'[t] = <<>>
    BY <1>p, <2>1, <2>2, <2>4, <2>6 DEF BuffersAll
  <2> QED
    BY <2>1, <2>5, <2>6
<1>3. ASSUME NEW t \in Task, Requeue(t)
      PROVE  BuffersAll'
  <2>1. PICK s \in Subject :
           /\ s = Head(todo[t]) /\ todo'[t] = Tail(todo[t])
           /\ Range(todo[t]) = {s} \cup Range(Tail(todo[t]))
           /\ (Texts(pending[s]) \cup {message[t]}) \ Texts(pending'[s]) \subseteq Displaced'
           /\ \A r \in Subject : r # s => pending'[r] = pending[r]
    BY <1>3, JoinsQueue
  <2>2. /\ step[t] = "requeue" /\ todo[t] # <<>> /\ UNCHANGED <<step, message, addressed>>
        /\ message[t] \in Message
    BY <1>3 DEF Requeue, TypeOK
  <2>3. \A u \in Dispatcher : step'[u] # "rest" => u = t
    BY <2>2 DEF Untaken, OneBusy
  <2>4. CASE t \in Conn
    BY <2>3, <2>4 DEF BuffersAll
  <2>5. CASE t \in Dispatcher
    <3>1. IsInjective(todo[t]) /\ Range(todo[t]) \subseteq addressed[message[t]]
      BY <2>2, <2>5 DEF BuffersAll
    <3>2. IsInjective(Tail(todo[t])) /\ s \notin Range(Tail(todo[t]))
      BY <2>1, <2>2, <3>1, InjectiveTail DEF TypeOK
    <3>3. addressed[message[t]] \subseteq Subject
      BY <2>2 DEF TypeOK
    <3>4. ASSUME message[t] \notin Displaced', NEW r \in Range(Tail(todo[t]))
          PROVE  /\ message[t] \notin Texts(pending'[r])
                 /\ \A x \in addressed[message[t]] :
                      x \in Range(Tail(todo[t])) \/ message[t] \in Texts(pending'[x])
      <4>1. /\ \A x \in Range(todo[t]) : message[t] \notin Texts(pending[x])
            /\ \A x \in addressed[message[t]] : x \in Range(todo[t]) \/ message[t] \in Texts(pending[x])
        BY <1>d, <2>1, <2>2, <2>5, <3>4 DEF BuffersAll
      <4>2. r # s /\ r \in Range(todo[t]) /\ r \in Subject
        BY <2>1, <3>1, <3>2, <3>3, <3>4
      <4>3. message[t] \in Texts(pending'[s])
        BY <2>1, <3>4
      <4> QED
        BY <2>1, <3>3, <4>1, <4>2, <4>3
    <3> QED
      BY <1>p, <2>1, <2>2, <2>3, <3>1, <3>2, <3>4 DEF BuffersAll
  <2> QED
    BY <2>4, <2>5 DEF Task
<1>4. ASSUME NEW c \in Conn, Drain(c)
      PROVE  BuffersAll'
  <2>1. step[c] = "drain" /\ UNCHANGED step
    BY <1>4 DEF Drain
  <2>2. \A u \in Dispatcher : step'[u] = "rest"
    BY <2>1 DEF Untaken, OneBusy
  <2> QED
    BY <2>2 DEF BuffersAll
<1>5. ASSUME UNCHANGED <<pending, addressed>>,
             \A t \in Dispatcher : \/ step'[t] = "rest"
                                   \/ step'[t] = step[t] /\ todo'[t] = todo[t] /\ message'[t] = message[t]
      PROVE  BuffersAll'
  BY <1>d, <1>p, <1>5 DEF BuffersAll
<1>6. CASE Tick \/ UNCHANGED vars
  <2>1. UNCHANGED <<pending, addressed, step, todo, message>>
    BY <1>6 DEF Tick, vars, frame, history
  <2> QED
    BY <2>1, <1>5
<1>7. ASSUME NEW t \in Task, Requeued(t)
      PROVE  BuffersAll'
  <2>1. /\ UNCHANGED <<pending, addressed, todo>> /\ step' = [step EXCEPT ![t] = "rest"]
        /\ message' = [message EXCEPT ![t] = Close]
    BY <1>7 DEF Requeued, history
  <2>2. \A u \in Dispatcher : \/ step'[u] = "rest"
                              \/ step'[u] = step[u] /\ todo'[u] = todo[u] /\ message'[u] = message[u]
    BY <2>1 DEF TypeOK
  <2> QED
    BY <2>1, <2>2, <1>5
<1>8. ASSUME NEW t \in Dispatcher, Deliver(t)
      PROVE  BuffersAll'
  <2>1. UNCHANGED <<pending, addressed, step, todo, message>>
    BY <1>8 DEF Deliver
  <2> QED
    BY <2>1, <1>5
<1>9. ASSUME NEW c \in Conn, Register(c) \/ Drained(c) \/ Receive(c) \/ Written(c) \/ Failed(c)
                             \/ Leave(c) \/ Unregister(c) \/ Evict(c)
      PROVE  BuffersAll'
  <2>1. /\ UNCHANGED <<pending, addressed>>
        /\ \A t \in Dispatcher : step'[t] = step[t] /\ todo'[t] = todo[t] /\ message'[t] = message[t]
    <3>1. CASE Register(c) \/ Drained(c)
      BY <3>1 DEF Register, Drained, history, TypeOK
    <3>2. CASE Failed(c)
      BY <3>2 DEF Failed, TypeOK
    <3>3. CASE Receive(c) \/ Written(c) \/ Leave(c) \/ Unregister(c) \/ Evict(c)
      BY <3>3 DEF Receive, Written, Leave, Unregister, Evict, frame, history
    <3> QED
      BY <1>9, <3>1, <3>2, <3>3
  <2> QED
    BY <2>1, <1>5
<1> QED
  BY <1>1, <1>2, <1>3, <1>4, <1>6, <1>7, <1>8, <1>9 DEF Next

-----------------------------------------------------------------------------
(* One worker: a registration takes what waits in the order of dispatch. *)

LEMMA DrainsNext ==
  ASSUME TypeOK, DrainsInTurn, [Next]_vars
  PROVE  DrainsInTurn'
<1> USE TaskFacts
<1>e. DrainsInTurn' <=>
        \A c \in Conn :
          /\ step'[c] = "drain" =>
               /\ Range(todo'[c]) \subseteq Range(SubjectsOf[c])
               /\ \A i, j \in DOMAIN todo'[c] : i < j => Earlier(todo'[c][i], todo'[c][j])
          /\ step'[c] # "drain" => snapshot'[c] = <<>>
  BY DEF DrainsInTurn, Earlier
<1>1. ASSUME NEW c \in Conn, Register(c)
      PROVE  DrainsInTurn'
  <2>1. /\ step' = [step EXCEPT ![c] = "drain"] /\ step[c] = "rest"
        /\ todo' = [todo EXCEPT ![c] = SubjectsOf[c]] /\ UNCHANGED snapshot
    BY <1>1 DEF Register, Idle
  <2>2. \A i, j \in DOMAIN SubjectsOf[c] : i < j => Earlier(SubjectsOf[c][i], SubjectsOf[c][j])
    BY DEF Earlier
  <2>3. todo'[c] = SubjectsOf[c] /\ step'[c] = "drain" /\ snapshot'[c] = <<>>
    BY <2>1 DEF TypeOK, DrainsInTurn
  <2>4. \A d \in Conn : d # c => todo'[d] = todo[d] /\ step'[d] = step[d] /\ snapshot'[d] = snapshot[d]
    BY <2>1 DEF TypeOK
  <2> QED
    BY <1>e, <2>2, <2>3, <2>4 DEF DrainsInTurn
<1>2. ASSUME NEW c \in Conn, Drain(c)
      PROVE  DrainsInTurn'
  <2>1. /\ step[c] = "drain" /\ UNCHANGED step /\ todo[c] # <<>> /\ todo[c] \in Seq(Subject)
        /\ todo' = [todo EXCEPT ![c] = Tail(@)]
        /\ \A d \in Conn : d # c => snapshot'[d] = snapshot[d]
    BY <1>2, TakesQueue DEF Drain, TypeOK
  <2>2. Range(Tail(todo[c])) \subseteq Range(SubjectsOf[c])
    <3>1. Range(Tail(todo[c])) \subseteq Range(todo[c])
      BY <2>1, RangeOfParts
    <3>2. Range(todo[c]) \subseteq Range(SubjectsOf[c])
      BY <2>1 DEF DrainsInTurn
    <3> QED
      BY <3>1, <3>2
  <2>3. \A i, j \in DOMAIN Tail(todo[c]) : i < j => Earlier(Tail(todo[c])[i], Tail(todo[c])[j])
    <3>1. /\ DOMAIN todo[c] = 1..Len(todo[c]) /\ Len(todo[c]) \in Nat \ {0}
          /\ DOMAIN Tail(todo[c]) = 1..(Len(todo[c]) - 1)
          /\ \A i \in 1..(Len(todo[c]) - 1) :
               Tail(todo[c])[i] = todo[c][i + 1] /\ i + 1 \in 1..Len(todo[c])
      BY <2>1
    <3>2. \A i, j \in 1..(Len(todo[c]) - 1) : i < j => i + 1 < j + 1
      BY <3>1
    <3>3. \A i, j \in DOMAIN todo[c] : i < j => Earlier(todo[c][i], todo[c][j])
      BY <2>1 DEF DrainsInTurn
    <3> QED
      BY <3>1, <3>2, <3>3
  <2>4. /\ todo'[c] = Tail(todo[c]) /\ step'[c] = "drain"
        /\ \A d \in Conn : d # c => todo'[d] = todo[d]
    BY <2>1 DEF TypeOK
  <2> QED
    <3>1. \A d \in Conn : d # c =>
            /\ step'[d] = "drain" =>
                 /\ Range(todo'[d]) \subseteq Range(SubjectsOf[d])
                 /\ \A i, j \in DOMAIN todo'[d] : i < j => Earlier(todo'[d][i], todo'[d][j])
            /\ step'[d] # "drain" => snapshot'[d] = <<>>
      BY <2>1, <2>4 DEF DrainsInTurn
    <3> QED
      BY <1>e, <2>2, <2>3, <2>4, <3>1
<1>3. ASSUME \A c \in Conn : \/ step'[c] = step[c] /\ snapshot'[c] = snapshot[c] /\ todo'[c] = todo[c]
                             \/ /\ step'[c] # "drain"
                                /\ snapshot'[c] = <<>> \/ (step[c] # "drain" /\ snapshot'[c] = snapshot[c])
      PROVE  DrainsInTurn'
  BY <1>e, <1>3 DEF DrainsInTurn
<1>4. CASE Tick \/ UNCHANGED vars
  <2>1. UNCHANGED <<step, snapshot, todo>>
    BY <1>4 DEF Tick, vars, frame
  <2> QED
    BY <2>1, <1>3
<1>5. ASSUME NEW t \in Task, Requeue(t) \/ Requeued(t)
      PROVE  DrainsInTurn'
  <2>1. /\ step[t] = "requeue" /\ step'[t] # "drain" /\ UNCHANGED snapshot
        /\ \A c \in Conn : c # t => step'[c] = step[c] /\ todo'[c] = todo[c]
    BY <1>5 DEF Requeue, Requeued, TypeOK
  <2> QED
    BY <2>1, <1>3
<1>6. ASSUME NEW t \in Dispatcher, Send(t) \/ Deliver(t) \/ Delivered(t)
      PROVE  DrainsInTurn'
  <2>1. UNCHANGED snapshot /\ \A c \in Conn : step'[c] = step[c] /\ todo'[c] = todo[c]
    <3>1. CASE Send(t)
      BY <3>1 DEF Send, TypeOK
    <3>2. CASE Deliver(t) \/ Delivered(t)
      BY <3>2 DEF Deliver, Delivered, TypeOK
    <3> QED
      BY <1>6, <3>1, <3>2
  <2> QED
    BY <2>1, <1>3
<1>7. ASSUME NEW c \in Conn, Drained(c)
      PROVE  DrainsInTurn'
  <2>1. /\ step'[c] # "drain" /\ snapshot'[c] = <<>>
        /\ \A d \in Conn : d # c =>
             step'[d] = step[d] /\ todo'[d] = todo[d] /\ snapshot'[d] = snapshot[d]
    BY <1>7 DEF Drained, TypeOK
  <2> QED
    BY <2>1, <1>3
<1>8. ASSUME NEW c \in Conn, Failed(c)
      PROVE  DrainsInTurn'
  <2>1. /\ UNCHANGED snapshot /\ step[c] = "rest" /\ step'[c] # "drain"
        /\ \A d \in Conn : d # c => step'[d] = step[d] /\ todo'[d] = todo[d]
    BY <1>8 DEF Failed, Writing, TypeOK
  <2> QED
    BY <2>1, <1>3
<1>9. ASSUME NEW c \in Conn, Receive(c) \/ Written(c) \/ Leave(c) \/ Unregister(c) \/ Evict(c)
      PROVE  DrainsInTurn'
  <2>1. UNCHANGED <<step, snapshot, todo>>
    BY <1>9 DEF Receive, Written, Leave, Unregister, Evict, frame
  <2> QED
    BY <2>1, <1>3
<1> QED
  BY <1>1, <1>2, <1>4, <1>5, <1>6, <1>7, <1>8, <1>9 DEF Next

(* A registration takes from one queue after the other, from none at first. *)
LEMMA DrainGoesOn ==
  ASSUME TypeOK, [Next]_vars, NEW c \in Conn, step'[c] = "drain"
  PROVE  /\ step[c] = "drain" /\ todo[c] = <<>> => todo'[c] = <<>>
         /\ step[c] # "drain" => snapshot'[c] = snapshot[c]
<1> DEFINE GoesOn == /\ step[c] = "drain" /\ todo[c] = <<>> => todo'[c] = <<>>
                     /\ step[c] # "drain" => snapshot'[c] = snapshot[c]
<1> USE TaskFacts DEF TypeOK, frame, history
<1>1. Tick => GoesOn
  BY DEF Tick
<1>2. UNCHANGED vars => GoesOn
  BY DEF vars
<1>3. ASSUME NEW t \in Task, Requeue(t) \/ Requeued(t)
      PROVE  GoesOn
  BY <1>3 DEF Requeue, Requeued
<1>4. ASSUME NEW t \in Dispatcher, Send(t)
      PROVE  GoesOn
  BY <1>4 DEF Send
<1>5. ASSUME NEW t \in Dispatcher, Deliver(t) \/ Delivered(t)
      PROVE  GoesOn
  BY <1>5 DEF Deliver, Delivered
<1>6. ASSUME NEW d \in Conn, Register(d) \/ Drain(d) \/ Drained(d)
      PROVE  GoesOn
  BY <1>6 DEF Register, Drain, Drained, Idle
<1>7. ASSUME NEW d \in Conn, Receive(d) \/ Written(d) \/ Failed(d) \/ Leave(d) \/ Unregister(d) \/ Evict(d)
      PROVE  GoesOn
  BY <1>7 DEF Receive, Written, Failed, Leave, Unregister, Evict, Writing
<1> HIDE DEF TypeOK, GoesOn
<1>8. GoesOn
  BY <1>1, <1>2, <1>3, <1>4, <1>5, <1>6, <1>7 DEF Next
<1> QED
  BY <1>8 DEF GoesOn

(* The first queue to hold one of them holds them all. *)
LEMMA TakesNext ==
  ASSUME TypeOK, Untaken, Once, WaitsAsAddressed, DrainsInTurn, TakesAll, [Next]_vars
  PROVE  TakesAll'
<1> USE TaskFacts
<1>d. Displaced \subseteq Displaced'
  BY HistoryGrows
<1>t. \A s \in Subject : Texts(pending[s]) \subseteq Message
  BY QueuedTexts
<1>r. \A c \in Conn : /\ Range(todo[c]) \subseteq Subject /\ Range(todo'[c]) \subseteq Subject
                      /\ Range(snapshot[c]) \subseteq Message
  BY NextType DEF TypeOK, Range
<1>e. TakesAll' <=>
        \A c \in Conn : step'[c] = "drain" =>
          \A m \in Range(snapshot'[c]) \ Displaced', s \in Range(todo'[c]) :
            \A n \in Texts(pending'[s]) \ Displaced' :
              n \in Range(snapshot'[c]) \/ addressed'[m] # addressed'[n]
  <2>1. \A s : Undisturbed(s)' = Texts(pending'[s]) \ Displaced'
    BY DEF Undisturbed, Texts
  <2> QED
    BY <2>1 DEF TakesAll
<1>1. ASSUME NEW t \in Task, Requeue(t)
      PROVE  TakesAll'
  <2>1. step[t] = "requeue" /\ UNCHANGED step
    BY <1>1 DEF Requeue
  <2>2. \A c \in Conn : step'[c] # "drain"
    BY <2>1 DEF Untaken, OneBusy
  <2> QED
    BY <1>e, <2>2
<1>2. ASSUME NEW c \in Conn, Drain(c)
      PROVE  TakesAll'
  <2>1. PICK s0 \in Subject, q \in Seq(Item) :
           /\ s0 = Head(todo[c]) /\ s0 \in Range(todo[c]) /\ todo'[c] = Tail(todo[c])
           /\ Range(todo[c]) = {s0} \cup Range(Tail(todo[c]))
           /\ Texts(q) \subseteq Texts(pending[s0])
           /\ Texts(pending[s0]) \ Texts(q) \subseteq Displaced'
           /\ Range(snapshot'[c]) = Range(snapshot[c]) \cup Texts(q)
           /\ Texts(pending'[s0]) = {}
           /\ \A r \in Subject : r # s0 => pending'[r] = pending[r]
    BY <1>2, TakesQueue
  <2>2. /\ step[c] = "drain" /\ UNCHANGED <<step, addressed>>
        /\ todo[c] # <<>> /\ todo[c] \in Seq(Subject)
    BY <1>2 DEF Drain, TypeOK
  <2>3. \A u \in Task : step[u] # "rest" => u = c
    BY <2>2 DEF Untaken, OneBusy
  <2>4. \A s \in Range(Tail(todo[c])) : Earlier(s0, s)
    <3>1. /\ DOMAIN todo[c] = 1..Len(todo[c]) /\ Len(todo[c]) \in Nat \ {0} /\ s0 = todo[c][1]
          /\ DOMAIN Tail(todo[c]) = 1..(Len(todo[c]) - 1)
          /\ \A i \in 1..(Len(todo[c]) - 1) :
               Tail(todo[c])[i] = todo[c][i + 1] /\ i + 1 \in 1..Len(todo[c]) /\ 1 < i + 1
      BY <2>1, <2>2
    <3>2. 1 \in DOMAIN todo[c]
      BY <3>1
    <3>3. \A i \in 1..(Len(todo[c]) - 1) : Earlier(s0, Tail(todo[c])[i])
      BY <2>2, <3>1, <3>2 DEF DrainsInTurn
    <3> QED
      BY <3>1, <3>3 DEF Range
  <2>5. ASSUME NEW m \in Range(snapshot'[c]) \ Displaced', NEW s \in Range(todo'[c]),
               NEW n \in Texts(pending'[s]) \ Displaced', n \notin Range(snapshot'[c]),
               addressed[m] = addressed[n]
        PROVE  FALSE
    <3>1. s \in Subject /\ s # s0 /\ pending'[s] = pending[s] /\ s \in Range(todo[c])
      BY <1>r, <2>1, <2>5
    <3>2. n \in Undisturbed(s) /\ n \notin Range(snapshot[c])
      BY <1>d, <2>1, <2>5, <3>1 DEF Undisturbed
    <3>3. CASE m \in Range(snapshot[c])
      BY <1>d, <2>2, <2>5, <3>1, <3>2, <3>3 DEF TakesAll
    <3>4. CASE m \in Texts(q)
      <4>1. m \in Undisturbed(s0)
        BY <1>d, <2>1, <2>5, <3>4 DEF Undisturbed
      <4>2. s0 \in addressed[n]
        BY <2>5, <4>1 DEF WaitsAsAddressed
      <4>3. \/ n \in Texts(pending[s0])
            \/ \E d \in Conn : step[d] = "drain" /\ n \in Range(snapshot[d])
            \/ \E u \in Dispatcher : step[u] = "requeue"
        BY <2>1, <2>4, <2>5, <3>1, <3>2, <4>2 DEF WaitsAsAddressed
      <4>4. n \in Texts(pending[s0])
        BY <2>3, <3>2, <4>3
      <4> QED
        BY <2>1, <2>5, <4>4
    <3> QED
      BY <2>1, <2>5, <3>3, <3>4
  <2>6. \A d \in Conn : step'[d] = "drain" => d = c
    BY <2>2, <2>3
  <2> QED
    BY <1>e, <2>2, <2>5, <2>6
<1>3. CASE UNCHANGED pending /\ LoopsGoOn
  <2>1. ASSUME NEW c \in Conn, step'[c] = "drain", NEW m \in Range(snapshot'[c]) \ Displaced',
               NEW s \in Range(todo'[c]), NEW n \in Texts(pending'[s]) \ Displaced',
               n \notin Range(snapshot'[c])
        PROVE  addressed'[m] # addressed'[n]
    <3>1. step[c] = "drain" => todo[c] # <<>> /\ todo'[c] = todo[c] /\ snapshot'[c] = snapshot[c]
      <4>1. step[c] = "drain" /\ todo[c] = <<>> => todo'[c] = <<>>
        BY <2>1, DrainGoesOn
      <4> QED
        BY <1>3, <2>1, <4>1, EmptySequence DEF LoopsGoOn
    <3>2. step[c] # "drain" => snapshot'[c] = <<>>
      BY <2>1, DrainGoesOn DEF DrainsInTurn
    <3>3. step[c] = "drain"
      BY <2>1, <3>2, EmptySequence
    <3>4. s \in Subject /\ n \in Undisturbed(s) /\ m \in Range(snapshot[c]) \ Displaced
      BY <1>3, <1>d, <1>r, <2>1, <3>1, <3>3 DEF Undisturbed
    <3>5. addressed[m] # addressed[n]
      BY <2>1, <3>1, <3>3, <3>4 DEF TakesAll
    <3>6. /\ m \in Message /\ addressed[m] # {} /\ n \in Message /\ addressed[n] # {}
      BY <1>r, <1>t, <2>1, <3>4 DEF Once, FromDispatch, Undisturbed
    <3> QED
      BY <3>5, <3>6, HistoryGrows
  <2> QED
    BY <1>e, <2>1
<1> QED
  BY <1>1, <1>2, <1>3, QueuesLeftAlone

-----------------------------------------------------------------------------
(* One worker: what a client has and will get. *)

LEMMA TurnStays ==
  ASSUME NEW s, NEW w, NEW q, NEW x, NEW gone, NEW to, NEW gone1, NEW to1,
         InTurn(s, w, q, x, gone, to), gone \subseteq gone1,
         \A m \in Range(s) \cup {w} \cup Range(q) \cup Range(x) : m = Close \/ to1[m] = to[m]
  PROVE  InTurn(s, w, q, x, gone1, to1)
<1>1. InRow(s, gone1, to1) /\ InRow(q, gone1, to1) /\ InRow(x, gone1, to1)
  BY RowStays DEF InTurn
<1>2. Ahead(Range(s), {w} \cup Range(q), gone1, to1)
  BY AheadStays DEF InTurn
<1>3. Ahead({w}, Range(q), gone1, to1)
  BY AheadStays DEF InTurn
<1> QED
  BY <1>1, <1>2, <1>3 DEF InTurn

(* One more on a channel, behind what is there. *)
LEMMA CopyAppend ==
  ASSUME NEW q \in Seq(Message \cup {Close}), NEW m \in Message \cup {Close}, NEW gone, NEW to,
         InRow(q, gone, to), Ahead(Range(q), {m}, gone, to)
  PROVE  InRow(Append(q, m), gone, to) /\ Range(Append(q, m)) = Range(q) \cup {m}
<1>1. PICK Copy : Copy = Message \cup {Close}
  OBVIOUS
<1>2. \A S : \A s \in Seq(S), x \in S :
        InRow(s, gone, to) /\ Ahead(Range(s), {x}, gone, to)
          => InRow(Append(s, x), gone, to) /\ Range(Append(s, x)) = Range(s) \cup {x}
  BY RowAppend
<1>3. \A s \in Seq(Copy), x \in Copy :
        InRow(s, gone, to) /\ Ahead(Range(s), {x}, gone, to)
          => InRow(Append(s, x), gone, to) /\ Range(Append(s, x)) = Range(s) \cup {x}
  BY <1>2
<1>4. q \in Seq(Copy) /\ m \in Copy
  BY <1>1
<1> QED
  BY <1>3, <1>4

(* Copies go, and orders to close come. *)
LEMMA TurnShrinks ==
  ASSUME NEW s, NEW w, NEW q \in Seq(Message \cup {Close}), NEW x, NEW gone, NEW to,
         InTurn(s, w, q, x, gone, to), NEW w1, w1 \in {w, Close},
         NEW q1, q1 \in {q, <<>>, Append(q, Close)}, NEW x1, x1 \in {x, <<>>}
  PROVE  InTurn(s, w1, q1, x1, gone, to)
<1>1. InRow(<<>>, gone, to) /\ Range(<<>>) = {}
  BY EmptySequence DEF InRow
<1>2. InRow(Append(q, Close), gone, to) /\ Range(Append(q, Close)) = Range(q) \cup {Close}
  <2>1. InRow(q, gone, to) /\ Ahead(Range(q), {Close}, gone, to)
    BY AheadOfClose DEF InTurn
  <2>2. Close \in Message \cup {Close}
    OBVIOUS
  <2> QED
    BY <2>1, <2>2, CopyAppend
<1>3. InRow(q1, gone, to) /\ InRow(x1, gone, to) /\ Range(q1) \subseteq Range(q) \cup {Close}
  BY <1>1, <1>2 DEF InTurn
<1>4. Ahead(Range(s), {w1} \cup Range(q1), gone, to)
  BY <1>3 DEF InTurn, Ahead, Follows
<1>5. Ahead({w1}, Range(q1), gone, to)
  BY <1>3 DEF InTurn, Ahead, Follows
<1> QED
  BY <1>3, <1>4, <1>5 DEF InTurn

(* The head of the channel is written. *)
LEMMA TurnReceives ==
  ASSUME NEW s, NEW q \in Seq(Message \cup {Close}), q # <<>>, NEW x, NEW gone, NEW to,
         InTurn(s, Close, q, x, gone, to)
  PROVE  InTurn(s, Head(q), Tail(q), x, gone, to)
<1>1. Range(q) = {Head(q)} \cup Range(Tail(q))
  BY RangeOfParts
<1>2. InRow(Tail(q), gone, to) /\ Ahead({Head(q)}, Range(Tail(q)), gone, to)
  BY RowTail DEF InTurn
<1>3. Ahead(Range(s), {Head(q)} \cup Range(Tail(q)), gone, to)
  BY <1>1 DEF InTurn, Ahead
<1> QED
  BY <1>2, <1>3 DEF InTurn

(* What is written is behind what the client has. *)
LEMMA TurnWritten ==
  ASSUME NEW s \in Seq(Message), NEW w \in Message, NEW q, NEW x, NEW gone, NEW to,
         InTurn(s, w, q, x, gone, to)
  PROVE  InTurn(Append(s, w), Close, q, x, gone, to)
<1>1. InRow(s, gone, to) /\ Ahead(Range(s), {w}, gone, to)
  BY DEF InTurn, Ahead
<1>2. InRow(Append(s, w), gone, to) /\ Range(Append(s, w)) = Range(s) \cup {w}
  BY <1>1, RowAppend
<1>3. Ahead(Range(s) \cup {w}, {Close} \cup Range(q), gone, to)
  BY DEF InTurn, Ahead, Follows
<1> QED
  BY <1>2, <1>3, AheadOfClose DEF InTurn

(* More comes on the channel, behind all the client has. *)
LEMMA TurnGrows ==
  ASSUME NEW s, NEW w, NEW q \in Seq(Message \cup {Close}), NEW x, NEW gone, NEW to,
         InTurn(s, w, q, x, gone, to), NEW more \in Seq(Message \cup {Close}),
         InRow(more, gone, to), Ahead(Range(s) \cup {w} \cup Range(q), Range(more), gone, to)
  PROVE  InTurn(s, w, q \o more, x, gone, to)
<1>1. Range(q \o more) = Range(q) \cup Range(more)
  BY ConcatRange
<1>2. Ahead(Range(q), Range(more), gone, to)
  BY DEF Ahead
<1>3. InRow(q \o more, gone, to)
  BY <1>2, RowConcat DEF InTurn
<1>4. Ahead(Range(s), {w} \cup Range(q \o more), gone, to) /\ Ahead({w}, Range(q \o more), gone, to)
  BY <1>1 DEF InTurn, Ahead
<1> QED
  BY <1>3, <1>4 DEF InTurn

(* One message more comes on the channel. *)
LEMMA TurnGrowsByOne ==
  ASSUME NEW s, NEW w, NEW q \in Seq(Message \cup {Close}), NEW x, NEW gone, NEW to,
         InTurn(s, w, q, x, gone, to), NEW m \in Message,
         Ahead(Range(s) \cup {w} \cup Range(q), {m}, gone, to)
  PROVE  InTurn(s, w, Append(q, m), x, gone, to)
<1>1. InRow(q, gone, to) /\ Ahead(Range(q), {m}, gone, to) /\ m \in Message \cup {Close}
  BY DEF InTurn, Ahead
<1>2. InRow(Append(q, m), gone, to) /\ Range(Append(q, m)) = Range(q) \cup {m}
  BY <1>1, CopyAppend
<1>3. /\ Ahead(Range(s), {w} \cup Range(Append(q, m)), gone, to)
      /\ Ahead({w}, Range(Append(q, m)), gone, to)
  BY <1>2 DEF InTurn, Ahead
<1> QED
  BY <1>2, <1>3 DEF InTurn

(* A client gets no more: copies go, and orders to close come. *)
NoMore(c) ==
  /\ sent'[c] = sent[c] /\ writing'[c] \in {writing[c], Close}
  /\ channel'[c] \in {channel[c], <<>>, Append(channel[c], Close)}
  /\ snapshot'[c] \in {snapshot[c], <<>>}

(* The steps by which a client gets more *)
LEMMA CopySteps ==
  ASSUME TypeOK, [Next]_vars, NEW c \in Conn
  PROVE  \/ NoMore(c)
         \/ \E t \in Dispatcher :
              /\ step[t] = "deliver" /\ c \in ids[t] /\ c \in handles /\ Receiving(c)
              /\ ids'[t] = ids[t] \ {c} /\ enqueued'[t]
              /\ channel'[c] = Append(channel[c], message[t])
              /\ UNCHANGED <<sent, writing, snapshot>>
         \/ Drain(c) \/ Drained(c) \/ Receive(c) \/ Written(c)
<1> USE TaskFacts DEF TypeOK, frame, history, NoMore
<1>1. Tick => NoMore(c)
  BY DEF Tick
<1>2. UNCHANGED vars => NoMore(c)
  BY DEF vars
<1>3. ASSUME NEW t \in Task, Requeue(t)
      PROVE  NoMore(c)
  BY <1>3 DEF Requeue
<1>4. ASSUME NEW t \in Task, Requeued(t)
      PROVE  NoMore(c)
  BY <1>4 DEF Requeued, Break
<1>5. ASSUME NEW t \in Dispatcher, Send(t) \/ Delivered(t)
      PROVE  NoMore(c)
  BY <1>5 DEF Send, Delivered
<1>6. ASSUME NEW t \in Dispatcher, Deliver(t), ~NoMore(c)
      PROVE  /\ step[t] = "deliver" /\ c \in ids[t] /\ c \in handles /\ Receiving(c)
             /\ ids'[t] = ids[t] \ {c} /\ enqueued'[t]
             /\ channel'[c] = Append(channel[c], message[t])
             /\ UNCHANGED <<sent, writing, snapshot>>
  <2>1. PICK d \in ids[t] :
          /\ ids' = [ids EXCEPT ![t] = @ \ {d}]
          /\ IF d \in handles /\ Receiving(d)
               THEN /\ channel' = [channel EXCEPT ![d] = Append(@, message[t])]
                    /\ enqueued' = [enqueued EXCEPT ![t] = TRUE]
               ELSE UNCHANGED channel
    BY <1>6 DEF Deliver
  <2>2. step[t] = "deliver" /\ UNCHANGED <<sent, writing, snapshot>>
    BY <1>6 DEF Deliver
  <2>3. d = c /\ c \in handles /\ Receiving(c)
    BY <1>6, <2>1, <2>2
  <2>4. enqueued'[t] = TRUE
    <3>1. enqueued' = [enqueued EXCEPT ![t] = TRUE]
      BY <2>1, <2>3, Zenon
    <3>2. t \in DOMAIN enqueued
      OBVIOUS
    <3> QED
      BY <3>1, <3>2, Zenon
  <2>5. enqueued'[t]
    BY <2>4, Zenon
  <2>6. ids'[t] = ids[t] \ {c} /\ channel'[c] = Append(channel[c], message[t])
    BY <2>1, <2>3
  <2> QED
    BY <2>1, <2>2, <2>3, <2>5, <2>6
<1>7. ASSUME NEW d \in Conn, Register(d)
      PROVE  NoMore(c)
  BY <1>7 DEF Register
<1>8. ASSUME NEW d \in Conn, d # c, Drain(d) \/ Drained(d) \/ Receive(d) \/ Written(d)
      PROVE  NoMore(c)
  <2>1. CASE Drain(d)
    BY <1>8, <2>1 DEF Drain
  <2>2. CASE Drained(d)
    BY <1>8, <2>2 DEF Drained
  <2>3. CASE Receive(d)
    BY <1>8, <2>3 DEF Receive, Break
  <2>4. CASE Written(d)
    BY <1>8, <2>4 DEF Written
  <2> QED
    BY <1>8, <2>1, <2>2, <2>3, <2>4
<1>9. ASSUME NEW d \in Conn, Failed(d) \/ Leave(d) \/ Unregister(d)
      PROVE  NoMore(c)
  BY <1>9 DEF Failed, Leave, Unregister, Break
<1>10. ASSUME NEW d \in Conn, Evict(d)
       PROVE  NoMore(c)
  <2>1. PICK order \in {<<>>, <<Close>>} :
          channel' = [channel EXCEPT ![d] = IF Receiving(d) THEN @ \o order ELSE @]
    BY <1>10 DEF Evict
  <2>2. channel[d] \o <<>> = channel[d] /\ channel[d] \o <<Close>> = Append(channel[d], Close)
    <3>1. channel[d] \in Seq(Message \cup {Close})
      OBVIOUS
    <3> QED
      BY <3>1, AppendOne
  <2>3. channel'[c] \in {channel[c], Append(channel[c], Close)}
    BY <2>1, <2>2
  <2>4. UNCHANGED <<sent, writing, snapshot>>
    BY <1>10 DEF Evict
  <2> QED
    BY <2>3, <2>4
<1> HIDE DEF TypeOK, NoMore
<1> QED
  BY <1>1, <1>2, <1>3, <1>4, <1>5, <1>6, <1>7, <1>8, <1>9, <1>10 DEF Next

(* A live copy is the newest message; a registration brings the first copies. *)
LEMMA CopiesNext ==
  ASSUME TypeOK, Untaken, Once, NewestAtWork, WaitsAsAddressed, QueuesInRow, TakesAll, CopiesInRow,
         [Next]_vars
  PROVE  CopiesInRow'
<1> USE TaskFacts
<1>n. Message \subseteq Nat
  BY DeliveryAssumption
<1>d. Displaced \subseteq Displaced'
  BY HistoryGrows
<1> SUFFICES ASSUME NEW c \in Conn
             PROVE  InTurn(sent'[c], writing'[c], channel'[c], snapshot'[c], Displaced', addressed')
  BY DEF CopiesInRow
<1>t. /\ sent[c] \in Seq(Message) /\ writing[c] \in Message \cup {Close}
      /\ channel[c] \in Seq(Message \cup {Close}) /\ snapshot[c] \in Seq(Message)
  BY DEF TypeOK
<1>a. \A m \in Range(sent[c]) \cup {writing[c]} \cup Range(channel[c]) \cup Range(snapshot[c]) :
        m = Close \/ (m \in Message /\ addressed[m] # {})
  <2>1. /\ Range(sent[c]) \subseteq Message /\ Range(snapshot[c]) \subseteq Message
        /\ Range(channel[c]) \subseteq Message \cup {Close}
    BY <1>t DEF Range
  <2> QED
    BY <1>t, <2>1 DEF Once, FromDispatch, Has
<1>k. InTurn(sent[c], writing[c], channel[c], snapshot[c], Displaced', addressed')
  <2>1. \A m \in Range(sent[c]) \cup {writing[c]} \cup Range(channel[c]) \cup Range(snapshot[c]) :
          m = Close \/ addressed'[m] = addressed[m]
    BY <1>a, HistoryGrows
  <2>2. InTurn(sent[c], writing[c], channel[c], snapshot[c], Displaced, addressed)
    BY DEF CopiesInRow
  <2> QED
    BY <1>d, <2>1, <2>2, TurnStays
<1>1. CASE NoMore(c)
  <2>1. /\ writing'[c] \in {writing[c], Close}
        /\ channel'[c] \in {channel[c], <<>>, Append(channel[c], Close)}
        /\ snapshot'[c] \in {snapshot[c], <<>>} /\ sent'[c] = sent[c]
    BY <1>1 DEF NoMore
  <2>2. channel[c] \in Seq(Message \cup {Close})
    BY <1>t
  <2>3. \A w1, q1, x1 :
          /\ w1 \in {writing[c], Close} /\ q1 \in {channel[c], <<>>, Append(channel[c], Close)}
          /\ x1 \in {snapshot[c], <<>>}
          => InTurn(sent[c], w1, q1, x1, Displaced', addressed')
    BY <1>k, <2>2, TurnShrinks
  <2> QED
    BY <2>1, <2>3
<1>2. ASSUME NEW t \in Dispatcher, step[t] = "deliver", c \in ids[t], c \in handles, Receiving(c),
             channel'[c] = Append(channel[c], message[t]), UNCHANGED <<sent, writing, snapshot>>
      PROVE  InTurn(sent'[c], writing'[c], channel'[c], snapshot'[c], Displaced', addressed')
  <2>1. message[t] \in Message /\ message[t] \notin Has(c)
    BY <1>2 DEF TypeOK, Once, StillToGet
  <2>2. ASSUME NEW m \in Range(sent[c]) \cup {writing[c]} \cup Range(channel[c])
        PROVE  Follows(m, message[t], Displaced', addressed')
    <3>1. CASE m = Close
      BY <3>1 DEF Follows
    <3>2. CASE m \in Message /\ addressed[m] # {}
      <4>1. m <= message[t] /\ m # message[t]
        BY <1>2, <2>1, <2>2, <3>2 DEF NewestAtWork, Has
      <4>2. m \in Nat /\ message[t] \in Nat
        BY <1>n, <2>1, <3>2
      <4>3. m < message[t]
        BY <4>1, <4>2
      <4> QED
        BY <4>3 DEF Follows
    <3> QED
      BY <1>a, <2>2, <3>1, <3>2
  <2>3. Ahead(Range(sent[c]) \cup {writing[c]} \cup Range(channel[c]), {message[t]},
              Displaced', addressed')
    BY <2>2 DEF Ahead
  <2>4. InTurn(sent[c], writing[c], Append(channel[c], message[t]), snapshot[c],
               Displaced', addressed')
    <3>1. channel[c] \in Seq(Message \cup {Close}) /\ message[t] \in Message
      BY <1>t, <2>1
    <3> QED
      BY <1>k, <2>3, <3>1, TurnGrowsByOne
  <2> QED
    BY <1>2, <2>4
<1>3. CASE Drain(c)
  <2>1. PICK s0 \in Subject, q \in Seq(Item) :
           /\ s0 = Head(todo[c]) /\ s0 \in Range(todo[c]) /\ todo'[c] = Tail(todo[c])
           /\ Range(todo[c]) = {s0} \cup Range(Tail(todo[c]))
           /\ q = Pruned(pending[s0], now_ts[c]) /\ Texts(q) \subseteq Texts(pending[s0])
           /\ snapshot'[c] \in Taken(snapshot[c], q)
    BY <1>3, TakesQueue
  <2>2. /\ step[c] = "drain" /\ UNCHANGED <<sent, writing, channel, addressed>>
        /\ now_ts[c] \in 0..MaxTime /\ pending[s0] \in Seq(Item)
    BY <1>3 DEF Drain, TypeOK
  <2>3. Ahead(Range(snapshot[c]), Texts(q) \ Range(snapshot[c]), Displaced, addressed)
    <3> SUFFICES ASSUME NEW m \in Range(snapshot[c]) \ Displaced,
                        NEW n \in Texts(q) \ Range(snapshot[c]), n \notin Displaced
                 PROVE  addressed[m] # addressed[n]
      BY DEF Ahead, Follows
    <3>1. n \in Undisturbed(s0)
      BY <2>1 DEF Undisturbed
    <3> QED
      BY <2>1, <2>2, <3>1 DEF TakesAll
  <2>4. QueueInRow(q, Displaced, addressed)
    BY <2>1, <2>2, QueueRowPruned DEF QueuesInRow
  <2>5. InTurn(sent[c], writing[c], channel[c], snapshot[c], Displaced, addressed)
    BY DEF CopiesInRow
  <2>6. InRow(snapshot'[c], Displaced, addressed)
    <3>1. InRow(snapshot[c], Displaced, addressed)
      BY <2>5 DEF InTurn
    <3> QED
      BY <1>t, <2>1, <2>3, <2>4, <3>1, RowTaken
  <2>7. InRow(snapshot'[c], Displaced', addressed')
    BY <1>d, <2>2, <2>6, RowStays
  <2> QED
    BY <1>k, <2>2, <2>7 DEF InTurn
<1>4. CASE Drained(c)
  <2>1. /\ step[c] = "drain" /\ channel'[c] = channel[c] \o snapshot[c] /\ snapshot'[c] = <<>>
        /\ UNCHANGED <<sent, writing>>
    BY <1>4 DEF Drained, TypeOK
  <2>2. Has(c) = {}
    BY <2>1 DEF Once, NewHasNone
  <2>3. \A m \in Range(sent[c]) \cup {writing[c]} \cup Range(channel[c]) : m = Close
    BY <1>a, <2>2 DEF Has
  <2>4. Ahead(Range(sent[c]) \cup {writing[c]} \cup Range(channel[c]), Range(snapshot[c]),
              Displaced', addressed')
    BY <2>3 DEF Ahead, Follows
  <2>5. snapshot[c] \in Seq(Message \cup {Close}) /\ InRow(snapshot[c], Displaced', addressed')
    BY <1>k, <1>t DEF InTurn
  <2>6. InTurn(sent[c], writing[c], channel[c] \o snapshot[c], snapshot[c], Displaced', addressed')
    BY <1>k, <1>t, <2>4, <2>5, TurnGrows
  <2>7. InRow(<<>>, Displaced', addressed')
    BY DEF InRow
  <2> QED
    BY <2>1, <2>6, <2>7 DEF InTurn
<1>5. CASE Receive(c)
  <2>1. CASE Break(c)
    <3>1. /\ sent'[c] = sent[c] /\ writing'[c] = Close /\ channel'[c] = <<>>
          /\ snapshot'[c] = snapshot[c]
      BY <1>5, <2>1 DEF Receive, Break, frame, history, TypeOK
    <3>2. NoMore(c)
      BY <3>1 DEF NoMore
    <3> QED
      BY <1>1, <3>2
  <2>2. CASE ~Break(c)
    <3>1. /\ channel[c] # <<>> /\ writing[c] = Close /\ UNCHANGED <<sent, snapshot>>
          /\ writing'[c] = Head(channel[c]) /\ channel'[c] = Tail(channel[c])
      BY <1>5, <2>2 DEF Receive, AtSelect, frame, history, TypeOK
    <3>2. InTurn(sent[c], Head(channel[c]), Tail(channel[c]), snapshot[c], Displaced', addressed')
      BY <1>k, <1>t, <3>1, TurnReceives
    <3> QED
      BY <3>1, <3>2
  <2> QED
    BY <2>1, <2>2
<1>6. CASE Written(c)
  <2>1. /\ writing[c] # Close /\ sent'[c] = Append(sent[c], writing[c]) /\ writing'[c] = Close
        /\ UNCHANGED <<channel, snapshot>>
    BY <1>6 DEF Written, Writing, frame, TypeOK
  <2>2. InTurn(Append(sent[c], writing[c]), Close, channel[c], snapshot[c], Displaced', addressed')
    BY <1>k, <1>t, <2>1, TurnWritten
  <2> QED
    BY <2>1, <2>2
<1> QED
  BY <1>1, <1>2, <1>3, <1>4, <1>5, <1>6, CopySteps

-----------------------------------------------------------------------------
(* One worker: the invariant, and what a client gets. *)

OneByOne ==
  /\ DispatchedInTurn /\ NewestAtWork /\ BuffersAll /\ QueuesInRow /\ WaitsAsAddressed
  /\ DrainsInTurn /\ TakesAll /\ CopiesInRow

LEMMA OneByOneInit == Init => OneByOne
<1> SUFFICES ASSUME Init
             PROVE  OneByOne
  OBVIOUS
<1> USE TaskFacts, EmptySequence
<1>1. \A s \in Subject : Texts(pending[s]) = {} /\ Undisturbed(s) = {}
  BY DEF Init, Texts, Undisturbed
<1>2. \A t \in Task : step[t] = "rest"
  BY DEF Init
<1>3. DispatchedInTurn /\ NewestAtWork /\ BuffersAll /\ TakesAll
  BY <1>2 DEF Init, DispatchedInTurn, NewestAtWork, BuffersAll, TakesAll
<1>4. WaitsAsAddressed
  BY <1>1 DEF WaitsAsAddressed
<1>5. QueuesInRow
  BY DEF Init, QueuesInRow, QueueInRow
<1>6. DrainsInTurn
  BY <1>2 DEF Init, DrainsInTurn
<1>7. CopiesInRow
  <2>1. InRow(<<>>, Displaced, addressed)
    BY DEF InRow
  <2>2. InTurn(<<>>, Close, <<>>, <<>>, Displaced, addressed)
    <3>1. Range(<<>>) = {}
      BY EmptySequence
    <3>2. /\ Ahead({}, {Close} \cup {}, Displaced, addressed)
          /\ Ahead({Close}, {}, Displaced, addressed)
      BY AheadOfClose
    <3>3. /\ Ahead(Range(<<>>), {Close} \cup Range(<<>>), Displaced, addressed)
          /\ Ahead({Close}, Range(<<>>), Displaced, addressed)
      BY <3>1, <3>2
    <3> QED
      BY <2>1, <3>3, Zenon DEF InTurn
  <2> QED
    BY <2>2 DEF Init, CopiesInRow
<1> QED
  BY <1>3, <1>4, <1>5, <1>6, <1>7 DEF OneByOne

(* On one worker a client gets the messages to the same subjects in the     *)
(* order of their dispatch, but for those put back or dropped by one queue. *)
THEOREM ArriveInOrder == Spec => []InOrder
<1>1. [Next]_vars => UNCHANGED workers
  BY DEF Next, Tick, Requeue, Requeued, Send, Deliver, Delivered, Register, Drain, Drained,
         Receive, Written, Failed, Leave, Unregister, Evict, vars
<1>2. TypeOK /\ (workers = 1 => Untaken) /\ [Next]_vars => (workers = 1 => Untaken)'
  BY <1>1, UntakenNext
<1>3. TypeOK /\ (workers = 1 => Untaken /\ Once) /\ [Next]_vars => (workers = 1 => Once)'
  BY <1>1, OnceNext
<1>4. TypeOK /\ (workers = 1 => Untaken /\ Once /\ OneByOne) /\ [Next]_vars => (workers = 1 => OneByOne)'
  <2> SUFFICES ASSUME TypeOK, workers = 1, Untaken, Once, OneByOne, [Next]_vars
               PROVE  OneByOne'
    BY <1>1
  <2>1. DispatchedInTurn' /\ NewestAtWork'
    BY TurnNext DEF OneByOne
  <2>2. BuffersAll' /\ QueuesInRow' /\ WaitsAsAddressed'
    BY BuffersNext, QueuesRowNext, WaitsNext DEF OneByOne
  <2>3. DrainsInTurn' /\ TakesAll' /\ CopiesInRow'
    BY DrainsNext, TakesNext, CopiesNext DEF OneByOne
  <2> QED
    BY <2>1, <2>2, <2>3 DEF OneByOne
<1>5. (workers = 1 => OneByOne) /\ TypeOK => InOrder
  <2> SUFFICES ASSUME TypeOK, OneByOne, NEW c \in Conn
               PROVE  InRow(Copies(c), Displaced, addressed)
    BY DEF InOrder, InRow, Follows
  <2>1. InTurn(sent[c], writing[c], channel[c], snapshot[c], Displaced, addressed)
    BY DEF OneByOne, CopiesInRow
  <2>2. /\ sent[c] \in Seq(Message \cup {Close}) /\ writing[c] \in Message \cup {Close}
        /\ channel[c] \in Seq(Message \cup {Close})
    BY DEF TypeOK
  <2>3. PICK w \in Seq(Message \cup {Close}) : w = <<writing[c]>>
    BY <2>2, AppendOne
  <2>4. InRow(w, Displaced, addressed) /\ Range(w) = {writing[c]}
    BY <2>3, RowOfOne
  <2>5. /\ sent[c] \o w \in Seq(Message \cup {Close})
        /\ Range(sent[c] \o w) = Range(sent[c]) \cup {writing[c]}
    BY <2>2, <2>4, ConcatRange
  <2>6. InRow(sent[c] \o w, Displaced, addressed)
    <3>1. InRow(sent[c], Displaced, addressed) /\ Ahead(Range(sent[c]), Range(w), Displaced, addressed)
      BY <2>1, <2>4 DEF InTurn, Ahead
    <3> QED
      BY <2>2, <2>4, <3>1, RowConcat
  <2>7. InRow((sent[c] \o w) \o channel[c], Displaced, addressed)
    <3>1. /\ InRow(channel[c], Displaced, addressed)
          /\ Ahead(Range(sent[c] \o w), Range(channel[c]), Displaced, addressed)
      BY <2>1, <2>5 DEF InTurn, Ahead
    <3> QED
      BY <2>2, <2>5, <2>6, <3>1, RowConcat
  <2> QED
    BY <2>3, <2>7 DEF Copies
<1> QED
  BY <1>2, <1>3, <1>4, <1>5, InitType, NextType, UntakenInit, OnceInit, OneByOneInit, PTL DEF Spec

-----------------------------------------------------------------------------
(***************************************************************************)
(* Any number of workers: nothing twice, but what was put back.            *)
(*                                                                         *)
(* A message that is in no queue is live: a dispatch gives it to each      *)
(* connection of its list once, and buffers it only if none took it.  So   *)
(* what is in a queue, or taken from one, was given to nobody before, and  *)
(* a connection takes from the queues once, when it registers.             *)
(***************************************************************************)
(* m stands in q at most once. *)
Single(q, m) == \A i, j \in DOMAIN q : q[i] = m /\ q[j] = m => i = j

(* What no failed write has put back *)
InPlace == Message \ failed

(* A client has, will get or takes a message in place once. *)
SingleCopies ==
  \A c \in Conn : \A m \in InPlace :
    /\ Single(sent[c], m) /\ Single(channel[c], m) /\ Single(snapshot[c], m)
    /\ m \notin Range(sent[c]) \/ m \notin Range(channel[c])
    /\ writing[c] = m => m \notin Range(sent[c]) \cup Range(channel[c])

(* A message is dispatched by one task. *)
OneDispatch ==
  \A t, u \in Dispatcher : message[t] = message[u] /\ message[t] \in Message => t = u

(* m waits, is taken from the queues, or is being put into them. *)
Buffered(m) ==
  \/ \E s \in Subject : m \in Texts(pending[s])
  \/ \E c \in Conn : m \in Range(snapshot[c])
  \/ \E t \in Dispatcher : step[t] = "requeue" /\ message[t] = m /\ todo[t] # <<>>

(* What is buffered is no longer dispatched, and who registers has it not. *)
BufferedForNew ==
  \A m \in InPlace : Buffered(m) =>
    /\ \A c \in Conn : session[c] = "new" => m \notin Has(c)
    /\ \A t \in Dispatcher : message[t] = m => step[t] # "deliver"

(* A dispatch comes to a connection that has its message not. *)
LiveForRest ==
  \A t \in Dispatcher : step[t] = "deliver" /\ message[t] \notin failed =>
    \A c \in Conn : c \in ids[t] \/ ~enqueued[t] => message[t] \notin Has(c)

(* A registration drains the queues before its session is open. *)
DrainIsNew == \A c \in Conn : step[c] = "drain" => session[c] = "new"

(* The inductive invariant, on any number of workers. *)
OnceInPlace ==
  /\ SingleCopies /\ OneDispatch /\ BufferedForNew /\ LiveForRest /\ FromDispatch
  /\ DrainIsNew /\ DrainsInTurn /\ RequeuesFailed

LEMMA SingleTail ==
  ASSUME NEW S, NEW q \in Seq(S), q # <<>>, NEW m, Single(q, m)
  PROVE  Single(Tail(q), m) /\ (Head(q) = m => m \notin Range(Tail(q)))
<1>1. /\ Len(q) \in Nat \ {0} /\ DOMAIN q = 1..Len(q) /\ Head(q) = q[1]
      /\ DOMAIN Tail(q) = 1..(Len(q) - 1)
      /\ \A i \in 1..(Len(q) - 1) : Tail(q)[i] = q[i + 1] /\ i + 1 \in 1..Len(q) /\ i + 1 # 1
  OBVIOUS
<1>2. Single(Tail(q), m)
  BY <1>1 DEF Single
<1>3. 1 \in DOMAIN q
  BY <1>1
<1> QED
  BY <1>1, <1>2, <1>3 DEF Single, Range

LEMMA SingleConcat ==
  ASSUME NEW S, NEW s \in Seq(S), NEW t \in Seq(S), NEW m, Single(s, m), Single(t, m),
         m \notin Range(s) \/ m \notin Range(t)
  PROVE  Single(s \o t, m)
<1>1. /\ Len(s) \in Nat /\ Len(t) \in Nat
      /\ DOMAIN s = 1..Len(s) /\ DOMAIN t = 1..Len(t) /\ DOMAIN (s \o t) = 1..(Len(s) + Len(t))
      /\ \A i \in 1..Len(s) : (s \o t)[i] = s[i]
      /\ \A i \in 1..Len(t) : (s \o t)[Len(s) + i] = t[i]
  OBVIOUS
<1> SUFFICES ASSUME NEW i \in 1..(Len(s) + Len(t)), NEW j \in 1..(Len(s) + Len(t)),
                    (s \o t)[i] = m, (s \o t)[j] = m
             PROVE  i = j
  BY <1>1 DEF Single
<1>2. \A k \in 1..(Len(s) + Len(t)) :
        \/ k \in DOMAIN s /\ (s \o t)[k] = s[k]
        \/ k - Len(s) \in DOMAIN t /\ (s \o t)[k] = t[k - Len(s)]
  <2> TAKE k \in 1..(Len(s) + Len(t))
  <2>1. CASE k \in 1..Len(s)
    BY <1>1, <2>1
  <2>2. CASE k - Len(s) \in 1..Len(t) /\ Len(s) + (k - Len(s)) = k
    BY <1>1, <2>2
  <2> QED
    BY <1>1, <2>1, <2>2
<1>3. CASE m \notin Range(t)
  <2>1. i \in DOMAIN s /\ s[i] = m /\ j \in DOMAIN s /\ s[j] = m
    BY <1>2, <1>3 DEF Range
  <2> QED
    BY <2>1 DEF Single
<1>4. CASE m \notin Range(s)
  <2>1. /\ i - Len(s) \in DOMAIN t /\ t[i - Len(s)] = m
        /\ j - Len(s) \in DOMAIN t /\ t[j - Len(s)] = m
    BY <1>2, <1>4 DEF Range
  <2>2. i - Len(s) = j - Len(s)
    BY <2>1 DEF Single
  <2> QED
    BY <1>1, <2>2
<1> QED
  BY <1>3, <1>4

LEMMA SingleOne ==
  ASSUME NEW x, NEW m
  PROVE  Single(<<x>>, m) /\ Single(<<>>, m)
<1>1. DOMAIN <<x>> = 1..1 /\ \A i \in 1..1 : i = 1
  OBVIOUS
<1> QED
  BY <1>1 DEF Single

LEMMA SingleAppend ==
  ASSUME NEW S, NEW s \in Seq(S), NEW x \in S, NEW m, Single(s, m), x # m \/ m \notin Range(s)
  PROVE  Single(Append(s, x), m) /\ Range(Append(s, x)) = Range(s) \cup {x}
<1>1. PICK t \in Seq(S) : t = <<x>> /\ Append(s, x) = s \o t
  BY AppendOne
<1>2. Single(t, m) /\ Range(t) = {x}
  BY <1>1, SingleOne, OneElement
<1>3. Single(s \o t, m) /\ Range(s \o t) = Range(s) \cup Range(t)
  BY <1>2, SingleConcat, ConcatRange
<1> QED
  BY <1>1, <1>2, <1>3

(* A registration takes a text once, whatever the queues hold. *)
LEMMA SingleTaken ==
  ASSUME NEW taken \in Seq(Message), NEW q \in Seq(Item), NEW r \in Taken(taken, q),
         NEW m, Single(taken, m)
  PROVE  Single(r, m)
<1>1. PICK o \in Orders(Fresh(taken, q)) :
        InQueueOrder(o) /\ r = taken \o [i \in DOMAIN o |-> q[o[i]].text]
  BY DEF Taken
<1> DEFINE new == [i \in DOMAIN o |-> q[o[i]].text]
<1>2. Len(q) \in Nat /\ DOMAIN q = 1..Len(q) /\ \A i \in DOMAIN q : q[i] \in Item
  OBVIOUS
<1>3. Fresh(taken, q) \subseteq DOMAIN q
  BY DEF Fresh
<1>4. IsFiniteSet(Fresh(taken, q))
  <2>1. IsFiniteSet(1..Len(q))
    BY <1>2, FS_Interval
  <2> QED
    BY <1>2, <1>3, <2>1, FS_Subset
<1>5. o \in Seq(Fresh(taken, q)) /\ IsInjective(o)
  BY <1>4, OrdersCover, OrdersInjective
<1>6. DOMAIN o = 1..Len(o) /\ Len(o) \in Nat /\ \A i \in DOMAIN o : o[i] \in Fresh(taken, q)
  BY <1>5
<1>7. new \in Seq(Message)
  BY <1>2, <1>3, <1>6 DEF Item
<1>8. DOMAIN new = DOMAIN o /\ \A i \in DOMAIN o : new[i] = q[o[i]].text
  OBVIOUS
<1>9. Single(new, m)
  <2> SUFFICES ASSUME NEW i \in DOMAIN o, NEW j \in DOMAIN o, q[o[i]].text = m, q[o[j]].text = m
               PROVE  i = j
    BY <1>8 DEF Single
  <2>1. /\ \A k \in 1..(o[i] - 1) : q[k].text # m
        /\ \A k \in 1..(o[j] - 1) : q[k].text # m
    BY <1>6 DEF Fresh
  <2>2. o[i] \in 1..Len(q) /\ o[j] \in 1..Len(q)
    BY <1>2, <1>3, <1>6
  <2>3. o[i] = o[j]
    BY <1>2, <2>1, <2>2
  <2> QED
    BY <1>5, <2>3 DEF IsInjective
<1>10. m \notin Range(taken) \/ m \notin Range(new)
  <2>1. \A i \in DOMAIN o : ~Contains(taken, new[i])
    BY <1>6, <1>8 DEF Fresh
  <2>2. \A x \in Range(new) : ~Contains(taken, x)
    BY <1>8, <2>1 DEF Range
  <2> QED
    BY <2>2, ContainsIffInRange
<1>11. r = taken \o new
  BY <1>1
<1> HIDE DEF new
<1> QED
  BY <1>7, <1>9, <1>10, <1>11, SingleConcat

-----------------------------------------------------------------------------
(* What the steps do to one message, one dispatch, one connection *)

LEMMA AppendRange ==
  ASSUME NEW S, NEW s \in Seq(S), NEW x \in S
  PROVE  Range(Append(s, x)) = Range(s) \cup {x}
<1>1. PICK t \in Seq(S) : t = <<x>> /\ Append(s, x) = s \o t
  BY AppendOne
<1>2. Range(t) = {x}
  BY <1>1, OneElement
<1>3. Range(s \o t) = Range(s) \cup Range(t)
  BY ConcatRange
<1> QED
  BY <1>1, <1>2, <1>3

(* Who has a message had it, is just given it by a dispatch, or took it. *)
LEMMA HasFrom ==
  ASSUME TypeOK, [Next]_vars, NEW c \in Conn, NEW m \in Has(c)'
  PROVE  \/ m \in Has(c)
         \/ \E t \in Dispatcher :
              /\ step[t] = "deliver" /\ message[t] = m /\ c \in ids[t]
              /\ ids'[t] = ids[t] \ {c} /\ enqueued'[t]
         \/ Drained(c) /\ m \in Range(snapshot[c])
<1> USE TaskFacts
<1>t. /\ sent[c] \in Seq(Message) /\ writing[c] \in Message \cup {Close}
      /\ channel[c] \in Seq(Message \cup {Close}) /\ snapshot[c] \in Seq(Message)
      /\ m \in Message /\ m # Close
  BY DeliveryAssumption DEF TypeOK, Has
<1>r. \A q \in Seq(Message \cup {Close}) :
        /\ \A x \in Message \cup {Close} : Range(Append(q, x)) = Range(q) \cup {x}
        /\ q # <<>> => Range(q) = {Head(q)} \cup Range(Tail(q))
  <2>1. PICK Copy : Copy = Message \cup {Close}
    OBVIOUS
  <2>2. \A S : \A q \in Seq(S) : \A x \in S : Range(Append(q, x)) = Range(q) \cup {x}
    BY AppendRange
  <2>3. \A S : \A q \in Seq(S) : q # <<>> => Range(q) = {Head(q)} \cup Range(Tail(q))
    BY RangeOfParts
  <2>4. \A q \in Seq(Copy) :
          /\ \A x \in Copy : Range(Append(q, x)) = Range(q) \cup {x}
          /\ q # <<>> => Range(q) = {Head(q)} \cup Range(Tail(q))
    BY <2>2, <2>3
  <2> QED
    BY <2>1, <2>4
<1>1. CASE NoMore(c)
  <2>1. Range(channel'[c]) \subseteq Range(channel[c]) \cup {Close}
    <3>1. Range(Append(channel[c], Close)) = Range(channel[c]) \cup {Close}
      BY <1>t, <1>r
    <3> QED
      BY <1>1, <3>1, EmptySequence DEF NoMore
  <2> QED
    BY <1>1, <1>t, <2>1 DEF NoMore, Has
<1>2. ASSUME NEW t \in Dispatcher, step[t] = "deliver", c \in ids[t],
             ids'[t] = ids[t] \ {c}, enqueued'[t],
             channel'[c] = Append(channel[c], message[t]), UNCHANGED <<sent, writing, snapshot>>
      PROVE  m \in Has(c) \/ message[t] = m
  <2>1. message[t] \in Message \cup {Close}
    BY <1>2 DEF TypeOK
  <2>2. Range(channel'[c]) = Range(channel[c]) \cup {message[t]}
    BY <1>2, <1>t, <1>r, <2>1
  <2> QED
    BY <1>2, <2>2 DEF Has
<1>3. CASE Drain(c)
  BY <1>3 DEF Drain, Has
<1>4. CASE Drained(c)
  <2>1. channel'[c] = channel[c] \o snapshot[c] /\ UNCHANGED <<sent, writing>>
    BY <1>4 DEF Drained, TypeOK
  <2>2. Range(channel'[c]) = Range(channel[c]) \cup Range(snapshot[c])
    <3>1. snapshot[c] \in Seq(Message \cup {Close})
      BY <1>t
    <3> QED
      BY <1>t, <2>1, <3>1, ConcatRange
  <2> QED
    BY <1>4, <2>1, <2>2 DEF Has
<1>5. CASE Receive(c)
  <2>1. CASE Break(c)
    BY <1>5, <2>1, EmptySequence DEF Receive, Break, history, Has, TypeOK
  <2>2. CASE ~Break(c)
    <3>1. /\ channel[c] # <<>> /\ writing'[c] = Head(channel[c]) /\ channel'[c] = Tail(channel[c])
          /\ UNCHANGED sent
      BY <1>5, <2>2 DEF Receive, history, TypeOK
    <3>2. Range(channel[c]) = {Head(channel[c])} \cup Range(Tail(channel[c]))
      BY <1>t, <1>r, <3>1
    <3> QED
      BY <3>1, <3>2 DEF Has
  <2> QED
    BY <2>1, <2>2
<1>6. CASE Written(c)
  <2>1. /\ sent'[c] = Append(sent[c], writing[c]) /\ writing'[c] = Close /\ UNCHANGED channel
    BY <1>6 DEF Written, Writing, TypeOK
  <2>2. Range(sent'[c]) = Range(sent[c]) \cup {writing[c]}
    <3>1. sent[c] \in Seq(Message \cup {Close})
      BY <1>t
    <3> QED
      BY <1>t, <1>r, <2>1, <3>1
  <2> QED
    BY <1>t, <2>1, <2>2 DEF Has
<1> QED
  BY <1>1, <1>2, <1>3, <1>4, <1>5, <1>6, CopySteps

(* What joins a queue comes from a loop over the queues; what is taken was there. *)
LEMMA QueuedFrom ==
  ASSUME TypeOK, [Next]_vars, NEW m \in Message
  PROVE  /\ \A s \in Subject : m \in Texts(pending'[s]) =>
              \/ m \in Texts(pending[s])
              \/ \E t \in Task : step[t] = "requeue" /\ message[t] = m /\ todo[t] # <<>>
         /\ \A c \in Conn : m \in Range(snapshot'[c]) =>
              \/ m \in Range(snapshot[c])
              \/ \E s \in Subject : m \in Texts(pending[s])
<1> USE TaskFacts
<1>1. ASSUME NEW t \in Task, Requeue(t)
      PROVE  /\ step[t] = "requeue" /\ todo[t] # <<>> /\ UNCHANGED snapshot
             /\ \A s \in Subject : Texts(pending'[s]) \subseteq Texts(pending[s]) \cup {message[t]}
  <2>1. PICK s \in Subject :
          /\ Texts(pending'[s]) \subseteq Texts(pending[s]) \cup {message[t]}
          /\ \A r \in Subject : r # s => pending'[r] = pending[r]
    BY <1>1, JoinsQueue
  <2> QED
    BY <1>1, <2>1 DEF Requeue
<1>2. ASSUME NEW c \in Conn, Drain(c)
      PROVE  /\ \A s \in Subject : Texts(pending'[s]) \subseteq Texts(pending[s])
             /\ \A d \in Conn : Range(snapshot'[d]) \subseteq
                  Range(snapshot[d]) \cup UNION {Texts(pending[s]) : s \in Subject}
  <2>1. PICK s \in Subject, q \in Seq(Item) :
           /\ s = Head(todo[c]) /\ s \in Range(todo[c]) /\ todo'[c] = Tail(todo[c])
           /\ Range(todo[c]) = {s} \cup Range(Tail(todo[c]))
           /\ Texts(q) \subseteq Texts(pending[s])
           /\ Range(snapshot'[c]) = Range(snapshot[c]) \cup Texts(q)
           /\ \A d \in Conn : d # c => snapshot'[d] = snapshot[d]
           /\ Texts(pending'[s]) = {}
           /\ \A r \in Subject : r # s => pending'[r] = pending[r]
    BY <1>2, TakesQueue
  <2> QED
    BY <2>1
<1>3. ASSUME UNCHANGED pending, NEW c \in Conn
      PROVE  snapshot'[c] \in {snapshot[c], <<>>} \/ Drain(c)
  BY CopySteps DEF NoMore, Drained, Receive, Written, frame, TypeOK
<1>4. CASE UNCHANGED pending
  <2>1. \A c \in Conn : Drain(c) => Range(snapshot'[c]) \subseteq
                  Range(snapshot[c]) \cup UNION {Texts(pending[s]) : s \in Subject}
    BY <1>2
  <2> QED
    BY <1>3, <1>4, <2>1, EmptySequence
<1> QED
  BY <1>1, <1>2, <1>4, QueuesLeftAlone, ZenonT(40)

(* One dispatch: it starts, goes on with its list, buffers, is over. *)
LEMMA DispatcherSteps ==
  ASSUME TypeOK, [Next]_vars, NEW u \in Dispatcher
  PROVE  \/ Send(u)
         \/ /\ step[u] = "deliver" /\ step'[u] = "deliver" /\ message'[u] = message[u]
            /\ ids'[u] \subseteq ids[u] /\ (enqueued[u] => enqueued'[u])
         \/ /\ step[u] = "deliver" /\ step'[u] = "requeue" /\ message'[u] = message[u]
            /\ ids[u] = {} /\ (todo'[u] # <<>> => ~enqueued[u])
         \/ /\ step[u] = "requeue" /\ step'[u] = "requeue" /\ message'[u] = message[u]
            /\ todo'[u] # <<>> => todo[u] # <<>>
         \/ step'[u] \notin {"deliver", "requeue"} /\ message'[u] \in {message[u], Close}
<1> DEFINE Rest == step'[u] \notin {"deliver", "requeue"} /\ message'[u] \in {message[u], Close}
           Same == /\ step'[u] = step[u] /\ message'[u] = message[u] /\ todo'[u] = todo[u]
                   /\ ids'[u] \subseteq ids[u] /\ (enqueued[u] => enqueued'[u])
<1> USE TaskFacts DEF TypeOK, frame, history
<1>1. Tick \/ UNCHANGED vars => Same
  BY DEF Tick, vars
<1>2. ASSUME NEW t \in Task, Requeue(t)
      PROVE  Same \/ (t = u /\ step[u] = "requeue" /\ step'[u] = "requeue" /\ message'[u] = message[u]
                      /\ todo[u] # <<>>)
  BY <1>2 DEF Requeue
<1>3. ASSUME NEW t \in Task, Requeued(t)
      PROVE  Same \/ Rest
  BY <1>3 DEF Requeued
<1>4. ASSUME NEW t \in Dispatcher, t # u, Send(t) \/ Delivered(t)
      PROVE  Same
  BY <1>4 DEF Send, Delivered
<1>5. ASSUME NEW t \in Dispatcher, Deliver(t)
      PROVE  Same
  BY <1>5 DEF Deliver
<1>6. ASSUME Delivered(u)
      PROVE  /\ step[u] = "deliver" /\ step'[u] = "requeue" /\ message'[u] = message[u]
             /\ ids[u] = {} /\ (todo'[u] # <<>> => ~enqueued[u])
  BY <1>6 DEF Delivered, Buffers
<1>7. ASSUME NEW d \in Conn, Register(d) \/ Drain(d) \/ Drained(d)
      PROVE  Same
  <2>1. CASE Register(d)
    BY <2>1 DEF Register
  <2>2. CASE Drain(d)
    BY <2>2 DEF Drain
  <2>3. CASE Drained(d)
    BY <2>3 DEF Drained
  <2> QED
    BY <1>7, <2>1, <2>2, <2>3
<1>8. ASSUME NEW d \in Conn, Receive(d) \/ Written(d) \/ Leave(d) \/ Unregister(d) \/ Evict(d)
      PROVE  Same
  BY <1>8 DEF Receive, Written, Leave, Unregister, Evict
<1>9. ASSUME NEW d \in Conn, Failed(d)
      PROVE  Same
  BY <1>9 DEF Failed
<1> HIDE DEF TypeOK
<1>10. Same => \/ /\ step[u] = "deliver" /\ step'[u] = "deliver" /\ message'[u] = message[u]
                  /\ ids'[u] \subseteq ids[u] /\ (enqueued[u] => enqueued'[u])
               \/ /\ step[u] = "requeue" /\ step'[u] = "requeue" /\ message'[u] = message[u]
                  /\ todo'[u] # <<>> => todo[u] # <<>>
               \/ Rest
  OBVIOUS
<1> QED
  BY <1>1, <1>2, <1>3, <1>4, <1>5, <1>6, <1>7, <1>8, <1>9, <1>10 DEF Next

(* One connection: it registers once, and puts back what it failed to write. *)
LEMMA SessionSteps ==
  ASSUME TypeOK, [Next]_vars, NEW c \in Conn
  PROVE  /\ session'[c] = "new" => session[c] = "new"
         /\ step'[c] = "drain" => /\ session[c] = "new" \/ step[c] = "drain"
                                  /\ session'[c] = session[c]
         /\ step'[c] = "requeue" =>
              \/ step[c] = "requeue" /\ message'[c] = message[c]
              \/ message'[c] \in failed'
         /\ message'[c] \in {message[c], Close, writing[c]}
<1> DEFINE Goes == /\ session'[c] = "new" => session[c] = "new"
                   /\ step'[c] = "drain" => /\ session[c] = "new" \/ step[c] = "drain"
                                            /\ session'[c] = session[c]
                   /\ step'[c] = "requeue" =>
                        \/ step[c] = "requeue" /\ message'[c] = message[c]
                        \/ message'[c] \in failed'
                   /\ message'[c] \in {message[c], Close, writing[c]}
<1> USE TaskFacts DEF TypeOK, frame, history
<1>1. Tick \/ UNCHANGED vars => Goes
  BY DEF Tick, vars
<1>2. ASSUME NEW t \in Task, Requeue(t)
      PROVE  Goes
  BY <1>2 DEF Requeue
<1>3. ASSUME NEW t \in Task, Requeued(t)
      PROVE  Goes
  BY <1>3 DEF Requeued, Break
<1>4. ASSUME NEW t \in Dispatcher, Send(t)
      PROVE  Goes
  BY <1>4 DEF Send
<1>5. ASSUME NEW t \in Dispatcher, Deliver(t) \/ Delivered(t)
      PROVE  Goes
  BY <1>5 DEF Deliver, Delivered
<1>6. ASSUME NEW d \in Conn, Register(d) \/ Drain(d) \/ Drained(d)
      PROVE  Goes
  BY <1>6 DEF Register, Drain, Drained
<1>7. ASSUME NEW d \in Conn, Receive(d) \/ Written(d) \/ Leave(d)
      PROVE  Goes
  BY <1>7 DEF Receive, Written, Leave, Break, AtSelect
<1>8. ASSUME NEW d \in Conn, Unregister(d) \/ Evict(d)
      PROVE  Goes
  BY <1>8 DEF Unregister, Evict, Idle
<1>9. ASSUME NEW d \in Conn, Failed(d)
      PROVE  Goes
  BY <1>9 DEF Failed, Writing, Break
<1> HIDE DEF TypeOK, Goes
<1>10. Goes
  BY <1>1, <1>2, <1>3, <1>4, <1>5, <1>6, <1>7, <1>8, <1>9 DEF Next
<1> QED
  BY <1>10 DEF Goes

-----------------------------------------------------------------------------
(* Any number of workers: the invariant *)

LEMMA InPlaceShrinks ==
  ASSUME TypeOK, [Next]_vars
  PROVE  failed \subseteq failed'
<1> USE DEF frame, history
<1>1. Tick \/ UNCHANGED vars => failed \subseteq failed'
  BY DEF Tick, vars
<1>2. \A t \in Task : Requeue(t) \/ Requeued(t) => failed \subseteq failed'
  BY DEF Requeue, Requeued
<1>3. \A t \in Dispatcher : Send(t) \/ Deliver(t) \/ Delivered(t) => failed \subseteq failed'
  BY DEF Send, Deliver, Delivered
<1>4. \A c \in Conn : Register(c) \/ Drain(c) \/ Drained(c) => failed \subseteq failed'
  BY DEF Register, Drain, Drained
<1>5. \A c \in Conn : Receive(c) \/ Written(c) \/ Failed(c) \/ Leave(c) \/ Unregister(c) \/ Evict(c)
        => failed \subseteq failed'
  BY DEF Receive, Written, Failed, Leave, Unregister, Evict
<1> QED
  BY <1>1, <1>2, <1>3, <1>4, <1>5 DEF Next

(* A copy joins where there is none. *)
LEMMA SingleNext ==
  ASSUME TypeOK, OnceInPlace, [Next]_vars
  PROVE  SingleCopies'
<1> USE TaskFacts
<1> SUFFICES ASSUME NEW c \in Conn, NEW m \in Message, m \notin failed'
             PROVE  /\ Single(sent'[c], m) /\ Single(channel'[c], m) /\ Single(snapshot'[c], m)
                    /\ m \notin Range(sent'[c]) \/ m \notin Range(channel'[c])
                    /\ writing'[c] = m => m \notin Range(sent'[c]) \cup Range(channel'[c])
  BY DEF SingleCopies, InPlace
<1>m. m \in InPlace /\ m # Close
  BY InPlaceShrinks, DeliveryAssumption DEF InPlace
<1>t. /\ sent[c] \in Seq(Message) /\ writing[c] \in Message \cup {Close}
      /\ channel[c] \in Seq(Message \cup {Close}) /\ snapshot[c] \in Seq(Message)
  BY DEF TypeOK
<1>s. /\ Single(sent[c], m) /\ Single(channel[c], m) /\ Single(snapshot[c], m)
      /\ m \notin Range(sent[c]) \/ m \notin Range(channel[c])
      /\ writing[c] = m => m \notin Range(sent[c]) \cup Range(channel[c])
  BY <1>m DEF OnceInPlace, SingleCopies
<1>e. Single(<<>>, m) /\ Range(<<>>) = {}
  BY SingleOne, EmptySequence
<1>a. \A x \in Message \cup {Close} : x # m \/ m \notin Range(channel[c]) =>
        /\ Single(Append(channel[c], x), m)
        /\ Range(Append(channel[c], x)) = Range(channel[c]) \cup {x}
  <2>1. PICK Copy : Copy = Message \cup {Close}
    OBVIOUS
  <2>2. \A S : \A s \in Seq(S) : \A x \in S : Single(s, m) /\ (x # m \/ m \notin Range(s)) =>
          Single(Append(s, x), m) /\ Range(Append(s, x)) = Range(s) \cup {x}
    BY SingleAppend
  <2>3. channel[c] \in Seq(Copy)
    BY <1>t, <2>1
  <2>4. \A x \in Copy : x # m \/ m \notin Range(channel[c]) =>
          /\ Single(Append(channel[c], x), m)
          /\ Range(Append(channel[c], x)) = Range(channel[c]) \cup {x}
    BY <1>s, <2>2, <2>3
  <2> QED
    BY <2>1, <2>4
<1>1. CASE NoMore(c)
  <2>1. /\ Single(channel'[c], m) /\ Single(snapshot'[c], m)
        /\ Range(channel'[c]) \subseteq Range(channel[c]) \cup {Close}
    BY <1>1, <1>m, <1>s, <1>e, <1>a DEF NoMore
  <2> QED
    BY <1>1, <1>m, <1>s, <2>1 DEF NoMore
<1>2. ASSUME NEW t \in Dispatcher, step[t] = "deliver", c \in ids[t],
             channel'[c] = Append(channel[c], message[t]), UNCHANGED <<sent, writing, snapshot>>
      PROVE  /\ Single(sent'[c], m) /\ Single(channel'[c], m) /\ Single(snapshot'[c], m)
             /\ m \notin Range(sent'[c]) \/ m \notin Range(channel'[c])
             /\ writing'[c] = m => m \notin Range(sent'[c]) \cup Range(channel'[c])
  <2>1. message[t] \in Message \cup {Close}
    BY <1>2 DEF TypeOK
  <2>2. message[t] = m => m \notin Has(c)
    BY <1>2, <1>m DEF OnceInPlace, LiveForRest, InPlace
  <2>3. message[t] = m => m \notin Range(sent[c]) \cup {writing[c]} \cup Range(channel[c])
    BY <2>2 DEF Has
  <2>4. Single(channel'[c], m) /\ Range(channel'[c]) = Range(channel[c]) \cup {message[t]}
    BY <1>2, <1>a, <2>1, <2>3
  <2> QED
    BY <1>2, <1>s, <2>3, <2>4
<1>3. CASE Drain(c)
  <2>1. PICK s0 \in Subject, q \in Seq(Item) :
           /\ s0 = Head(todo[c]) /\ s0 \in Range(todo[c]) /\ todo'[c] = Tail(todo[c])
           /\ Range(todo[c]) = {s0} \cup Range(Tail(todo[c]))
           /\ snapshot'[c] \in Taken(snapshot[c], q)
    BY <1>3, TakesQueue
  <2>2. UNCHANGED <<sent, writing, channel>>
    BY <1>3 DEF Drain
  <2>3. Single(snapshot'[c], m)
    BY <1>s, <1>t, <2>1, SingleTaken
  <2> QED
    BY <1>s, <2>2, <2>3
<1>4. CASE Drained(c)
  <2>1. /\ step[c] = "drain" /\ channel'[c] = channel[c] \o snapshot[c] /\ snapshot'[c] = <<>>
        /\ UNCHANGED <<sent, writing>>
    BY <1>4 DEF Drained, TypeOK
  <2>2. m \in Range(snapshot[c]) => m \notin Has(c)
    BY <1>m, <2>1 DEF OnceInPlace, BufferedForNew, Buffered, DrainIsNew
  <2>3. m \in Range(snapshot[c]) => m \notin Range(sent[c]) \cup {writing[c]} \cup Range(channel[c])
    BY <2>2 DEF Has
  <2>4. Single(channel'[c], m) /\ Range(channel'[c]) = Range(channel[c]) \cup Range(snapshot[c])
    <3>1. snapshot[c] \in Seq(Message \cup {Close})
      BY <1>t
    <3> QED
      BY <1>s, <1>t, <2>1, <2>3, <3>1, SingleConcat, ConcatRange
  <2> QED
    BY <1>e, <1>s, <2>1, <2>3, <2>4
<1>5. CASE Receive(c)
  <2>1. CASE Break(c)
    <3>1. /\ sent'[c] = sent[c] /\ writing'[c] = Close /\ channel'[c] = <<>>
          /\ snapshot'[c] = snapshot[c]
      BY <1>5, <2>1 DEF Receive, Break, frame, history, TypeOK
    <3> QED
      BY <1>e, <1>m, <1>s, <3>1
  <2>2. CASE ~Break(c)
    <3>1. /\ channel[c] # <<>> /\ writing[c] = Close /\ UNCHANGED <<sent, snapshot>>
          /\ writing'[c] = Head(channel[c]) /\ channel'[c] = Tail(channel[c])
      BY <1>5, <2>2 DEF Receive, AtSelect, frame, history, TypeOK
    <3>2. Range(channel[c]) = {Head(channel[c])} \cup Range(Tail(channel[c]))
      BY <1>t, <3>1, RangeOfParts
    <3>3. Single(Tail(channel[c]), m) /\ (Head(channel[c]) = m => m \notin Range(Tail(channel[c])))
      BY <1>s, <1>t, <3>1, SingleTail
    <3> QED
      BY <1>s, <3>1, <3>2, <3>3
  <2> QED
    BY <2>1, <2>2
<1>6. CASE Written(c)
  <2>1. /\ sent'[c] = Append(sent[c], writing[c]) /\ writing[c] # Close /\ writing'[c] = Close
        /\ UNCHANGED <<channel, snapshot>>
    BY <1>6 DEF Written, Writing, frame, TypeOK
  <2>2. Single(sent'[c], m) /\ Range(sent'[c]) = Range(sent[c]) \cup {writing[c]}
    <3>1. writing[c] \in Message
      BY <1>t, <2>1
    <3>2. writing[c] # m \/ m \notin Range(sent[c])
      BY <1>s
    <3> QED
      BY <1>s, <1>t, <2>1, <3>1, <3>2, SingleAppend
  <2> QED
    BY <1>m, <1>s, <2>1, <2>2
<1> QED
  BY <1>1, <1>2, <1>3, <1>4, <1>5, <1>6, CopySteps

(* What was not dispatched is nowhere. *)
LEMMA FromDispatchNext ==
  ASSUME TypeOK, FromDispatch, [Next]_vars
  PROVE  FromDispatch'
<1> USE TaskFacts
<1> SUFFICES ASSUME NEW m \in Message, addressed'[m] = {}
             PROVE  /\ \A c \in Conn : m \notin Has(c)' /\ m \notin Range(snapshot'[c])
                    /\ \A s \in Subject : m \notin Texts(pending'[s])
                    /\ \A t \in Task : message'[t] # m
  <2>1. \A s : Texts(pending[s])' = Texts(pending'[s])
    BY DEF Texts
  <2> QED
    BY <2>1 DEF FromDispatch
<1>m. m # Close
  BY DeliveryAssumption
<1>a. addressed[m] = {}
  BY HistoryGrows
<1>b. /\ \A c \in Conn : m \notin Has(c) /\ m \notin Range(snapshot[c])
      /\ \A s \in Subject : m \notin Texts(pending[s])
      /\ \A t \in Task : message[t] # m
  BY <1>a DEF FromDispatch
<1>1. \A c \in Conn : m \notin Has(c)'
  BY <1>b, HasFrom
<1>2. /\ \A c \in Conn : m \notin Range(snapshot'[c])
      /\ \A s \in Subject : m \notin Texts(pending'[s])
  BY <1>b, QueuedFrom
<1>3. ASSUME NEW c \in Conn
      PROVE  message'[c] # m
  <2>1. message'[c] \in {message[c], Close, writing[c]}
    BY SessionSteps
  <2>2. writing[c] # m
    BY <1>b DEF Has
  <2> QED
    BY <1>b, <1>m, <2>1, <2>2
<1>4. ASSUME NEW u \in Dispatcher
      PROVE  message'[u] # m
  <2>1. CASE Send(u)
    <3>1. PICK n \in Message, S \in Audience :
            addressed' = [addressed EXCEPT ![n] = S] /\ message' = [message EXCEPT ![u] = n]
      BY <2>1 DEF Send
    <3>2. S # {}
      BY DeliveryAssumption
    <3>3. addressed'[n] = S /\ message'[u] = n
      BY <3>1 DEF TypeOK
    <3> QED
      BY <3>2, <3>3
  <2>2. CASE message'[u] \in {message[u], Close}
    BY <1>b, <1>m, <2>2
  <2> QED
    BY <2>1, <2>2, DispatcherSteps
<1> QED
  BY <1>1, <1>2, <1>3, <1>4 DEF Task

LEMMA OneDispatchNext ==
  ASSUME TypeOK, OneDispatch, FromDispatch, [Next]_vars
  PROVE  OneDispatch'
<1> USE TaskFacts
<1>m. Close \notin Message
  BY DeliveryAssumption
<1> SUFFICES ASSUME NEW t \in Dispatcher, NEW u \in Dispatcher,
                    message'[t] = message'[u], message'[t] \in Message
             PROVE  t = u
  BY DEF OneDispatch
<1>1. ASSUME NEW v \in Dispatcher, Send(v)
      PROVE  t = u
  <2>1. PICK m \in Message : addressed[m] = {} /\ message' = [message EXCEPT ![v] = m]
    BY <1>1 DEF Send
  <2>2. \A w \in Task : message[w] # m
    BY <2>1 DEF FromDispatch
  <2>3. \A w \in Dispatcher : message'[w] = IF w = v THEN m ELSE message[w]
    BY <2>1 DEF TypeOK
  <2> QED
    BY <2>2, <2>3 DEF OneDispatch
<1>2. CASE message'[t] \in {message[t], Close} /\ message'[u] \in {message[u], Close}
  BY <1>2, <1>m DEF OneDispatch
<1> QED
  BY <1>1, <1>2, DispatcherSteps

(* A message is buffered that was, or whose dispatch found nobody. *)
LEMMA BufferedFrom ==
  ASSUME TypeOK, RequeuesFailed, [Next]_vars, NEW m \in Message, m \notin failed, Buffered(m)'
  PROVE  \/ Buffered(m)
         \/ \E t \in Dispatcher : /\ step[t] = "deliver" /\ message[t] = m /\ step'[t] = "requeue"
                                  /\ ids[t] = {} /\ ~enqueued[t]
<1> USE TaskFacts
<1>1. ASSUME NEW s \in Subject, m \in Texts(pending'[s])
      PROVE  Buffered(m)
  <2>1. \/ m \in Texts(pending[s])
        \/ \E t \in Task : step[t] = "requeue" /\ message[t] = m /\ todo[t] # <<>>
    BY <1>1, QueuedFrom
  <2>2. \A t \in Conn : step[t] = "requeue" => message[t] # m
    BY DEF RequeuesFailed
  <2> QED
    BY <2>1, <2>2 DEF Buffered, Task
<1>2. ASSUME NEW c \in Conn, m \in Range(snapshot'[c])
      PROVE  Buffered(m)
  BY <1>2, QueuedFrom DEF Buffered
<1>3. ASSUME NEW t \in Dispatcher, step'[t] = "requeue", message'[t] = m, todo'[t] # <<>>
      PROVE  \/ Buffered(m)
             \/ step[t] = "deliver" /\ message[t] = m /\ ids[t] = {} /\ ~enqueued[t]
  <2>1. ~Send(t)
    BY <1>3 DEF Send, TypeOK
  <2> QED
    BY <1>3, <2>1, DispatcherSteps DEF Buffered
<1>4. \A s : Texts(pending[s])' = Texts(pending'[s])
  BY DEF Texts
<1> QED
  BY <1>1, <1>2, <1>3, <1>4 DEF Buffered

LEMMA BufferedNext ==
  ASSUME TypeOK, OnceInPlace, [Next]_vars
  PROVE  BufferedForNew'
<1> USE TaskFacts
<1> SUFFICES ASSUME NEW m \in Message, m \notin failed', Buffered(m)'
             PROVE  /\ \A c \in Conn : session'[c] = "new" => m \notin Has(c)'
                    /\ \A t \in Dispatcher : message'[t] = m => step'[t] # "deliver"
  BY DEF BufferedForNew, InPlace
<1>m. m \in InPlace /\ m # Close
  BY InPlaceShrinks, DeliveryAssumption DEF InPlace
<1>d. ASSUME NEW c \in Conn, session'[c] = "new", m \in Has(c)', m \notin Has(c)
      PROVE  \E t \in Dispatcher : step[t] = "deliver" /\ message[t] = m /\ c \in ids[t]
  <2>1. ~Drained(c)
    BY <1>d DEF Drained, TypeOK
  <2> QED
    BY <1>d, <2>1, HasFrom
<1>u. ASSUME NEW u \in Dispatcher, message'[u] = m, step'[u] = "deliver"
      PROVE  \/ addressed[m] = {}
             \/ step[u] = "deliver" /\ message[u] = m
  <2>1. Send(u) => addressed[m] = {}
    BY <1>u DEF Send, TypeOK
  <2> QED
    BY <1>u, <2>1, DispatcherSteps
<1>1. CASE Buffered(m)
  <2>1. /\ \A c \in Conn : session[c] = "new" => m \notin Has(c)
        /\ \A t \in Dispatcher : message[t] = m => step[t] # "deliver"
    BY <1>1, <1>m DEF OnceInPlace, BufferedForNew
  <2>2. addressed[m] # {}
    BY <1>1, <1>m DEF OnceInPlace, FromDispatch, Buffered
  <2>3. ASSUME NEW c \in Conn, session'[c] = "new"
        PROVE  m \notin Has(c)'
    BY <1>d, <2>1, <2>3, SessionSteps
  <2> QED
    BY <1>u, <2>1, <2>2, <2>3
<1>2. ASSUME NEW t \in Dispatcher, step[t] = "deliver", message[t] = m, step'[t] = "requeue",
             ids[t] = {}, ~enqueued[t]
      PROVE  /\ \A c \in Conn : session'[c] = "new" => m \notin Has(c)'
             /\ \A u \in Dispatcher : message'[u] = m => step'[u] # "deliver"
  <2>1. \A u \in Dispatcher : message[u] = m => u = t
    BY <1>2 DEF OnceInPlace, OneDispatch
  <2>2. \A c \in Conn : m \notin Has(c)
    BY <1>2, <1>m DEF OnceInPlace, LiveForRest, InPlace
  <2>3. addressed[m] # {}
    BY <1>2 DEF OnceInPlace, FromDispatch
  <2>4. \A c \in Conn : session'[c] = "new" => m \notin Has(c)'
    BY <1>2, <1>d, <2>1, <2>2
  <2> QED
    BY <1>2, <1>u, <2>1, <2>3, <2>4
<1>3. RequeuesFailed /\ m \notin failed
  BY <1>m DEF OnceInPlace, InPlace
<1> QED
  BY <1>1, <1>2, <1>3, BufferedFrom

LEMMA LiveNext ==
  ASSUME TypeOK, OnceInPlace, [Next]_vars
  PROVE  LiveForRest'
<1> USE TaskFacts
<1> SUFFICES ASSUME NEW u \in Dispatcher, step'[u] = "deliver", message'[u] \notin failed',
                    NEW c \in Conn, c \in ids'[u] \/ ~enqueued'[u], message'[u] \in Has(c)'
             PROVE  FALSE
  BY DEF LiveForRest
<1>1. PICK m \in Message : m = message'[u] /\ m \notin failed
  BY InPlaceShrinks DEF Has
<1>2. \/ m \in Has(c)
      \/ \E t \in Dispatcher : /\ step[t] = "deliver" /\ message[t] = m /\ c \in ids[t]
                               /\ ids'[t] = ids[t] \ {c} /\ enqueued'[t]
      \/ Drained(c) /\ m \in Range(snapshot[c])
  BY <1>1, HasFrom
<1>3. CASE Send(u)
  <2>1. addressed[m] = {}
    BY <1>1, <1>3 DEF Send, TypeOK
  <2> QED
    BY <1>2, <2>1 DEF OnceInPlace, FromDispatch
<1>4. CASE /\ step[u] = "deliver" /\ message'[u] = message[u]
           /\ ids'[u] \subseteq ids[u] /\ (enqueued[u] => enqueued'[u])
  <2>1. m \notin Has(c)
    BY <1>1, <1>4 DEF OnceInPlace, LiveForRest
  <2>2. ASSUME NEW t \in Dispatcher, message[t] = m, ids'[t] = ids[t] \ {c}, enqueued'[t]
        PROVE  FALSE
    <3>1. t = u
      BY <1>1, <1>4, <2>2 DEF OnceInPlace, OneDispatch
    <3> QED
      BY <2>2, <3>1
  <2>3. m \notin Range(snapshot[c])
    BY <1>1, <1>4 DEF OnceInPlace, BufferedForNew, Buffered, InPlace
  <2> QED
    BY <1>2, <2>1, <2>2, <2>3
<1> QED
  BY <1>3, <1>4, DispatcherSteps

LEMMA OnceInPlaceNext == TypeOK /\ OnceInPlace /\ [Next]_vars => OnceInPlace'
<1> SUFFICES ASSUME TypeOK, OnceInPlace, [Next]_vars
             PROVE  OnceInPlace'
  OBVIOUS
<1>1. SingleCopies' /\ BufferedForNew' /\ LiveForRest'
  BY SingleNext, BufferedNext, LiveNext
<1>2. OneDispatch' /\ FromDispatch' /\ DrainsInTurn'
  BY OneDispatchNext, FromDispatchNext, DrainsNext DEF OnceInPlace
<1>3. DrainIsNew'
  BY SessionSteps DEF OnceInPlace, DrainIsNew
<1>4. RequeuesFailed'
  BY SessionSteps, InPlaceShrinks DEF OnceInPlace, RequeuesFailed
<1> QED
  BY <1>1, <1>2, <1>3, <1>4 DEF OnceInPlace

LEMMA OnceInPlaceInit == Init => OnceInPlace
<1> SUFFICES ASSUME Init
             PROVE  OnceInPlace
  OBVIOUS
<1> USE TaskFacts, EmptySequence
<1>1. \A c \in Conn : Has(c) = {}
  BY DEF Init, Has
<1>2. \A s \in Subject : Texts(pending[s]) = {}
  BY DEF Init, Texts
<1>3. \A t \in Task : step[t] = "rest" /\ message[t] = Close
  BY DEF Init
<1>4. \A m : Single(<<>>, m)
  BY DEF Single
<1>5. SingleCopies
  BY <1>4, DeliveryAssumption DEF Init, SingleCopies, InPlace
<1>6. OneDispatch /\ LiveForRest /\ DrainIsNew /\ RequeuesFailed
  BY <1>3, DeliveryAssumption DEF OneDispatch, LiveForRest, DrainIsNew, RequeuesFailed
<1>7. BufferedForNew
  BY <1>1, <1>3 DEF BufferedForNew
<1>8. FromDispatch
  BY <1>1, <1>2, <1>3, DeliveryAssumption DEF Init, FromDispatch
<1>9. DrainsInTurn
  BY <1>3 DEF Init, DrainsInTurn
<1> QED
  BY <1>5, <1>6, <1>7, <1>8, <1>9 DEF OnceInPlace

LEMMA CopiesSingle ==
  ASSUME TypeOK, SingleCopies, NEW c \in Conn, NEW m \in InPlace
  PROVE  Single(Copies(c), m)
<1>1. /\ sent[c] \in Seq(Message \cup {Close}) /\ channel[c] \in Seq(Message \cup {Close})
      /\ writing[c] \in Message \cup {Close}
  BY DEF TypeOK
<1>2. /\ Single(sent[c], m) /\ Single(channel[c], m)
      /\ m \notin Range(sent[c]) \/ m \notin Range(channel[c])
      /\ writing[c] = m => m \notin Range(sent[c]) \cup Range(channel[c])
  BY DEF SingleCopies
<1>3. PICK w \in Seq(Message \cup {Close}) : w = <<writing[c]>>
  BY <1>1, AppendOne
<1>4. Single(w, m) /\ Range(w) = {writing[c]}
  BY <1>3, SingleOne, OneElement
<1>5. /\ sent[c] \o w \in Seq(Message \cup {Close})
      /\ Range(sent[c] \o w) = Range(sent[c]) \cup {writing[c]}
  BY <1>1, <1>4, ConcatRange
<1>6. Single(sent[c] \o w, m)
  BY <1>1, <1>2, <1>4, SingleConcat
<1>7. m \notin Range(sent[c] \o w) \/ m \notin Range(channel[c])
  BY <1>2, <1>5
<1>8. Single((sent[c] \o w) \o channel[c], m)
  BY <1>1, <1>2, <1>5, <1>6, <1>7, SingleConcat
<1> QED
  BY <1>3, <1>8 DEF Copies

(* No client has or will get a message twice; with more than one worker, *)
(* none that no session put back (state.rs:366-382, 783-789, 936-955).   *)
THEOREM NothingTwice == Spec => []NoDuplicates
<1>1. [Next]_vars => UNCHANGED workers
  BY DEF Next, Tick, Requeue, Requeued, Send, Deliver, Delivered, Register, Drain, Drained,
         Receive, Written, Failed, Leave, Unregister, Evict, vars
<1>2. TypeOK /\ (workers = 1 => Untaken) /\ [Next]_vars => (workers = 1 => Untaken)'
  BY <1>1, UntakenNext
<1>3. TypeOK /\ (workers = 1 => Untaken /\ Once) /\ [Next]_vars => (workers = 1 => Once)'
  BY <1>1, OnceNext
<1>4. TypeOK /\ Once => \A c \in Conn : Distinct(Copies(c))
  <2> SUFFICES ASSUME TypeOK, Once, NEW c \in Conn
               PROVE  Distinct(Copies(c))
    OBVIOUS
  <2>1. PICK w \in Seq(Message \cup {Close}) : w = <<writing[c]>>
    <3>1. sent[c] \in Seq(Message \cup {Close}) /\ writing[c] \in Message \cup {Close}
      BY DEF TypeOK
    <3> QED
      BY <3>1, AppendOne
  <2>2. Distinct(w) /\ Range(w) = {writing[c]}
    BY <2>1, OneElement
  <2>3. sent[c] \in Seq(Message \cup {Close}) /\ channel[c] \in Seq(Message \cup {Close})
    BY DEF TypeOK
  <2>4. writing[c] \in Message \cup {Close}
    BY DEF TypeOK
  <2>5. /\ Distinct(sent[c]) /\ Distinct(channel[c]) /\ Range(sent[c]) \cap Range(channel[c]) = {}
        /\ writing[c] = Close \/ writing[c] \notin Range(sent[c]) \cup Range(channel[c])
    BY <2>4 DEF Once, CopiesApart
  <2>6. /\ sent[c] \o w \in Seq(Message \cup {Close})
        /\ Range(sent[c] \o w) = Range(sent[c]) \cup {writing[c]}
    BY <2>2, <2>3, ConcatRange
  <2>7. Distinct(sent[c] \o w)
    <3>1. Range(sent[c]) \cap Range(w) \subseteq {Close}
      BY <2>2, <2>5
    <3> QED
      BY <2>2, <2>3, <2>5, <3>1, DistinctConcat
  <2>8. Range(sent[c] \o w) \cap Range(channel[c]) \subseteq {Close}
    BY <2>5, <2>6
  <2>9. Distinct((sent[c] \o w) \o channel[c])
    BY <2>3, <2>5, <2>6, <2>7, <2>8, DistinctConcat
  <2> QED
    BY <2>1, <2>9 DEF Copies
<1>5. TypeOK /\ (workers = 1 => Once) /\ OnceInPlace => NoDuplicates
  <2> SUFFICES ASSUME TypeOK, workers = 1 => Once, OnceInPlace, NEW c \in Conn,
                      NEW i \in DOMAIN Copies(c), NEW j \in DOMAIN Copies(c),
                      Copies(c)[i] = Copies(c)[j], Copies(c)[i] # Close,
                      ~(workers > 1 /\ Copies(c)[i] \in failed)
               PROVE  i = j
    BY DEF NoDuplicates
  <2>1. CASE workers = 1
    BY <1>4, <2>1 DEF Distinct
  <2>2. CASE Copies(c)[i] \in InPlace
    BY <2>2, CopiesSingle DEF OnceInPlace, Single
  <2>3. workers = 1 \/ workers > 1
    BY DeliveryAssumption DEF TypeOK
  <2>4. Copies(c)[i] \in Message
    <3>1. sent[c] \in Seq(Message \cup {Close}) /\ <<writing[c]>> \in Seq(Message \cup {Close})
          /\ channel[c] \in Seq(Message \cup {Close})
      BY DEF TypeOK
    <3>2. Copies(c) \in Seq(Message \cup {Close})
      BY <3>1 DEF Copies
    <3>3. \A k \in DOMAIN Copies(c) : Copies(c)[k] \in Message \cup {Close}
      BY <3>2
    <3> QED
      BY <3>3
  <2> QED
    BY <2>1, <2>2, <2>3, <2>4 DEF InPlace
<1> QED
  BY <1>2, <1>3, <1>5, InitType, NextType, UntakenInit, OnceInit, OnceInPlaceInit, OnceInPlaceNext,
     PTL DEF Spec
===============================================================================
