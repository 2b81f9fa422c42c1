----------------------- MODULE CommandRouting_proofs -----------------------
(***************************************************************************)
(* Proofs about CommandRouting, for every set of connections, request ids, *)
(* messages and registries, and any number of messages:                    *)
(*                                                                         *)
(*   TypeCorrect      Spec => []TypeOK                                     *)
(*   KeepsContract    Spec => ContractSpec                                 *)
(*   EffectsSeen      Spec => []BackendSeesEffects                         *)
(***************************************************************************)
EXTENDS CommandRouting, WellFoundedInduction, TLAPS

LEMMA InitType == Init => TypeOK
BY RoutingAssumption DEF Init, TypeOK, Handling

(* What the steps of a session do to its place and its message. *)
LEMMA GoType ==
  ASSUME TypeOK, NEW c \in Conn, at[c] \in Handling,
         NEW step \in {"idle"} \cup Handling, Go(c, step)
  PROVE  /\ at' \in [Conn -> {"new", "idle", "over"} \cup Handling]
         /\ command' \in [Conn -> Messages \cup {None}]
         /\ \A d \in Conn : at'[d] \in Handling <=> command'[d] # None
BY DEF TypeOK, Go, Handling

LEMMA RemovedType ==
  ASSUME TypeOK, NEW S, Removed(S)
  PROVE  registered' \subseteq Conn /\ routes' \in [RequestId -> Conn \cup {None}]
BY DEF TypeOK, Removed

LEMMA CommandType ==
  ASSUME TypeOK, NEW c \in Conn
  PROVE  <<c, taken[c]>> \in Command
BY DEF TypeOK, Command

LEMMA InboxType ==
  ASSUME TypeOK, NEW i \in DOMAIN inbox
  PROVE  /\ i \in Nat \ {0}
         /\ inbox[i].of \in Command
         /\ inbox[i].type \in Type
         /\ inbox[i].request \in RequestId \cup {None}
<1>1. inbox \in Seq(Published)
  BY DEF TypeOK
<1>2. inbox[i] \in Published /\ i \in Nat \ {0}
  BY <1>1
<1> QED
  BY <1>2 DEF Published

(* What is added to the end of a sequence leaves the rest in place. *)
LEMMA AppendEntries ==
  ASSUME NEW S, NEW s \in Seq(S), NEW e
  PROVE  /\ DOMAIN Append(s, e) = DOMAIN s \cup {Len(s) + 1}
         /\ Len(s) + 1 \notin DOMAIN s
         /\ \A i \in DOMAIN s : Append(s, e)[i] = s[i]
         /\ Append(s, e)[Len(s) + 1] = e
OBVIOUS

(* Every step keeps the types (gateway_core.rs:13-317). *)
LEMMA TypeStep ==
  ASSUME TypeOK, [Next]_vars
  PROVE  TypeOK'
<1> USE DEF static, handler, state, streams, history
<1>1. CASE Start
  BY <1>1 DEF Start, TypeOK
<1>2. ASSUME NEW c \in Conn, Connect(c)
      PROVE  TypeOK'
  BY <1>2 DEF Connect, TypeOK, Handling
<1>3. ASSUME NEW c \in Conn, Evict(c)
      PROVE  TypeOK'
  BY <1>3, RemovedType DEF Evict, TypeOK
<1>4. ASSUME NEW c \in Conn, End(c)
      PROVE  TypeOK'
  BY <1>4, RemovedType DEF End, TypeOK, Handling
<1>5. ASSUME NEW c \in Conn, Take(c)
      PROVE  TypeOK'
  <2>1. PICK m \in Message :
          /\ refused' = [refused EXCEPT ![c] = Unroutable(m)]
          /\ IF Unroutable(m) \/ Ignored(m)
               THEN UNCHANGED <<at, command>>
               ELSE /\ at' = [at EXCEPT ![c] = "bind"]
                    /\ command' = [command EXCEPT ![c] = m]
    BY <1>5 DEF Take
  <2>2. m \in Messages /\ m # None /\ Unroutable(m) \in BOOLEAN
    BY RoutingAssumption DEF Unroutable, Known
  <2>3. /\ at' \in [Conn -> {"new", "idle", "over"} \cup Handling]
        /\ command' \in [Conn -> Messages \cup {None}]
        /\ \A d \in Conn : at'[d] \in Handling <=> command'[d] # None
    BY <2>1, <2>2 DEF TypeOK, Handling
  <2>4. refused' \in [Conn -> BOOLEAN]
    BY <2>1, <2>2 DEF TypeOK
  <2>5. taken' \in [Conn -> Nat]
    BY <1>5 DEF Take, TypeOK
  <2> QED
    BY <1>5, <2>3, <2>4, <2>5 DEF Take, TypeOK
<1>6. ASSUME NEW c \in Conn, Bind(c)
      PROVE  TypeOK'
  <2>1. command[c] \in Messages
    BY <1>6 DEF Bind, TypeOK, Handling
  <2>2. /\ routes' \in [RequestId -> Conn \cup {None}]
        /\ binders' \in [RequestId -> SUBSET Command]
    <3>1. CASE Binds(command[c])
      <4>1. command[c].request \in RequestId
        BY <2>1, <3>1 DEF Binds, Messages
      <4>2. /\ routes' = [routes EXCEPT ![command[c].request] = c]
            /\ binders' = [binders EXCEPT ![command[c].request]
                                     = @ \cup {<<c, taken[c]>>}]
        BY <1>6, <3>1 DEF Bind
      <4>3. routes' \in [RequestId -> Conn \cup {None}]
        BY <4>1, <4>2 DEF TypeOK
      <4>4. binders' \in [RequestId -> SUBSET Command]
        BY <4>1, <4>2, CommandType DEF TypeOK
      <4> QED
        BY <4>3, <4>4
    <3>2. CASE ~Binds(command[c])
      BY <1>6, <3>2 DEF Bind, TypeOK
    <3> QED
      BY <3>1, <3>2
  <2> QED
    BY <1>6, <2>2, GoType DEF Bind, TypeOK, Handling
<1>7. ASSUME NEW c \in Conn, MarkReady(c)
      PROVE  TypeOK'
  <2>1. /\ registered' \subseteq Conn /\ ready' \subseteq Conn
        /\ routes' \in [RequestId -> Conn \cup {None}]
    BY <1>7, RemovedType DEF MarkReady, TypeOK
  <2> QED
    BY <1>7, <2>1, GoType DEF MarkReady, TypeOK, Handling
<1>8. ASSUME NEW c \in Conn, Relay(c)
      PROVE  TypeOK'
  <2>1. PICK step \in {"idle", "publish"} : Go(c, step)
    BY <1>8 DEF Relay, Refuse
  <2>2. relayed' \in Seq(Command) /\ refused' \in [Conn -> BOOLEAN]
    <3>1. /\ relayed' \in {relayed, Append(relayed, <<c, taken[c]>>)}
          /\ refused' \in {refused, [refused EXCEPT ![c] = TRUE]}
      BY <1>8 DEF Relay, Refuse
    <3>2. Append(relayed, <<c, taken[c]>>) \in Seq(Command)
      BY CommandType DEF TypeOK
    <3> QED
      BY <3>1, <3>2 DEF TypeOK
  <2> QED
    BY <1>8, <2>1, <2>2, GoType DEF Relay, TypeOK, Handling
<1>9. ASSUME NEW c \in Conn, Publish(c)
      PROVE  TypeOK'
  <2>1. PICK step \in {"idle", "answer"} : Go(c, step)
    BY <1>9 DEF Publish
  <2>2. command[c] \in Messages
    BY <1>9 DEF Publish, TypeOK, Handling
  <2>3. inbox' \in Seq(Published) /\ DOMAIN inbox \subseteq DOMAIN inbox'
    <3> DEFINE entry == [of      |-> <<c, taken[c]>>,
                         type    |-> command[c].type,
                         request |-> command[c].request]
    <3>1. inbox \in Seq(Published) /\ entry \in Published
      BY <2>2, CommandType DEF Published, Messages, TypeOK
    <3>2. inbox' = inbox \/ inbox' = Append(inbox, entry)
      BY <1>9 DEF Publish
    <3> HIDE DEF entry
    <3> QED
      BY <3>1, <3>2, AppendEntries
  <2> QED
    BY <1>9, <2>1, <2>3, GoType DEF Publish, TypeOK, Handling
<1>10. ASSUME NEW c \in Conn, Return(c)
       PROVE  TypeOK'
  BY <1>10, GoType DEF Return, TypeOK, Handling
<1>11. ASSUME NEW i \in DOMAIN inbox, Answer(i)
       PROVE  TypeOK'
  <2>1. inbox[i].request \in RequestId
    BY <1>11, InboxType DEF Answer
  <2> QED
    BY <1>11, <2>1 DEF Answer, TypeOK
<1>12. CASE UNCHANGED vars
  BY <1>12 DEF vars, TypeOK
<1> QED
  BY <1>1, <1>2, <1>3, <1>4, <1>5, <1>6, <1>7, <1>8, <1>9, <1>10, <1>11, <1>12 DEF Next

(***************************************************************************)
(* A session has a message in hand exactly while it is in the handler, and *)
(* the maps and streams keep their shape (gateway_core.rs:13-317).         *)
(***************************************************************************)
THEOREM TypeCorrect == Spec => []TypeOK
BY InitType, TypeStep, PTL DEF Spec

-----------------------------------------------------------------------------
(* The contract *)

InInbox(cmd) == \E i \in DOMAIN inbox : inbox[i].of = cmd

InRelayed(cmd) == \E i \in DOMAIN relayed : relayed[i] = cmd

(* No command is in a stream before it is taken, or before the handler has *)
(* come to the stream; and one that is handled has not been refused.       *)
NotAhead ==
  /\ \A c \in Conn, n \in Nat :
       n = 0 \/ n > taken[c] => ~InRelayed(<<c, n>>) /\ ~InInbox(<<c, n>>)
  /\ \A c \in Conn :
       /\ at[c] \in Handling => taken[c] > 0 /\ ~refused[c]
       /\ at[c] \in {"bind", "ready", "relay"} => ~InRelayed(<<c, taken[c]>>)
       /\ at[c] \in {"bind", "ready", "relay", "publish"} => ~InInbox(<<c, taken[c]>>)
       /\ at[c] = "new" => taken[c] = 0

LEMMA InitAhead == Init => NotAhead
BY DEF Init, NotAhead, InInbox, InRelayed, Handling

(* The steps that leave the streams and the counters alone. *)
LEMMA AheadMoves ==
  ASSUME TypeOK, NotAhead, UNCHANGED <<taken, relayed, inbox, refused>>, NEW c \in Conn,
         \/ at' = at
         \/ at[c] \in {"new", "idle"} /\ at' = [at EXCEPT ![c] = "idle"]
         \/ at[c] = "idle" /\ at' = [at EXCEPT ![c] = "over"]
         \/ at[c] = "bind" /\ at' = [at EXCEPT ![c] = "ready"]
         \/ at[c] = "ready" /\ at' = [at EXCEPT ![c] = "relay"]
         \/ at[c] \in Handling /\ at' = [at EXCEPT ![c] = "idle"]
         \/ at[c] = "relay" /\ at' = [at EXCEPT ![c] = "publish"]
  PROVE  NotAhead'
BY DEF TypeOK, NotAhead, InInbox, InRelayed, Handling

LEMMA AheadTake ==
  ASSUME TypeOK, NotAhead, NEW c \in Conn, Take(c)
  PROVE  NotAhead'
<1>1. /\ taken' = [taken EXCEPT ![c] = @ + 1] /\ UNCHANGED <<relayed, inbox>>
      /\ at[c] = "idle"
  BY DEF Take, streams
<1>2. PICK m \in Message :
        /\ refused' = [refused EXCEPT ![c] = Unroutable(m)]
        /\ IF Unroutable(m) \/ Ignored(m)
             THEN UNCHANGED <<at, command>>
             ELSE /\ at' = [at EXCEPT ![c] = "bind"]
                  /\ command' = [command EXCEPT ![c] = m]
  BY DEF Take
<1>3. taken[c] \in Nat /\ taken'[c] = taken[c] + 1
      /\ \A d \in Conn : d # c => taken'[d] = taken[d]
  BY <1>1 DEF TypeOK
<1>4. \A d \in Conn, n \in Nat :
        n = 0 \/ n > taken'[d] => ~InRelayed(<<d, n>>) /\ ~InInbox(<<d, n>>)
  BY <1>3 DEF NotAhead, TypeOK
<1>5. ~InRelayed(<<c, taken'[c]>>) /\ ~InInbox(<<c, taken'[c]>>)
  BY <1>3 DEF NotAhead
<1>6. \A d \in Conn : d # c => at'[d] = at[d] /\ refused'[d] = refused[d]
  BY <1>2 DEF TypeOK
<1>7. /\ at'[c] \in {"idle", "bind"}
      /\ at'[c] = "bind" => ~refused'[c]
  BY <1>1, <1>2 DEF TypeOK
<1>8. \A cmd : InRelayed(cmd)' = InRelayed(cmd) /\ InInbox(cmd)' = InInbox(cmd)
  BY <1>1 DEF InRelayed, InInbox
<1>9. ASSUME NEW d \in Conn
      PROVE  /\ at'[d] \in Handling => taken'[d] > 0 /\ ~refused'[d]
             /\ at'[d] \in {"bind", "ready", "relay"} => ~InRelayed(<<d, taken'[d]>>)
             /\ at'[d] \in {"bind", "ready", "relay", "publish"} => ~InInbox(<<d, taken'[d]>>)
             /\ at'[d] = "new" => taken'[d] = 0
  <2>1. CASE d = c
    BY <1>3, <1>5, <1>7, <2>1 DEF Handling
  <2>2. CASE d # c
    BY <1>3, <1>6, <2>2 DEF NotAhead
  <2> QED
    BY <2>1, <2>2
<1> QED
  BY <1>4, <1>8, <1>9 DEF NotAhead

(* One more command in a stream: the current one of a session. *)
LEMMA AheadRelay ==
  ASSUME TypeOK, NotAhead, NEW c \in Conn, at[c] = "relay",
         relayed' = Append(relayed, <<c, taken[c]>>),
         at' = [at EXCEPT ![c] = "publish"] \/ at' = [at EXCEPT ![c] = "idle"],
         UNCHANGED <<taken, inbox, refused>>
  PROVE  NotAhead'
<1>1. \A cmd : InRelayed(cmd)' <=> InRelayed(cmd) \/ cmd = <<c, taken[c]>>
  <2>1. relayed \in Seq(Command)
    BY DEF TypeOK
  <2>2. /\ DOMAIN relayed' = DOMAIN relayed \cup {Len(relayed) + 1}
        /\ \A i \in DOMAIN relayed : relayed'[i] = relayed[i]
        /\ relayed'[Len(relayed) + 1] = <<c, taken[c]>>
    BY <2>1, AppendEntries
  <2> QED
    BY <2>2 DEF InRelayed
<1>2. \A cmd : InInbox(cmd)' <=> InInbox(cmd)
  BY DEF InInbox
<1>3. \A d \in Conn : d # c => at'[d] = at[d]
  BY DEF TypeOK
<1>4. at'[c] \in {"publish", "idle"}
  BY DEF TypeOK
<1> QED
  BY <1>1, <1>2, <1>3, <1>4 DEF NotAhead, TypeOK, Handling

LEMMA AheadPublish ==
  ASSUME TypeOK, NotAhead, NEW c \in Conn, at[c] = "publish",
         NEW entry, entry.of = <<c, taken[c]>>, inbox' = Append(inbox, entry),
         at' = [at EXCEPT ![c] = "answer"], UNCHANGED <<taken, relayed, refused>>
  PROVE  NotAhead'
<1>1. \A cmd : InInbox(cmd)' <=> InInbox(cmd) \/ cmd = <<c, taken[c]>>
  <2>1. inbox \in Seq(Published)
    BY DEF TypeOK
  <2>2. /\ DOMAIN inbox' = DOMAIN inbox \cup {Len(inbox) + 1}
        /\ \A i \in DOMAIN inbox : inbox'[i] = inbox[i]
        /\ inbox'[Len(inbox) + 1] = entry
    BY <2>1, AppendEntries
  <2> QED
    BY <2>2 DEF InInbox
<1>2. \A cmd : InRelayed(cmd)' <=> InRelayed(cmd)
  BY DEF InRelayed
<1>3. \A d \in Conn : d # c => at'[d] = at[d]
  BY DEF TypeOK
<1>4. at'[c] = "answer"
  BY DEF TypeOK
<1>5. taken[c] > 0 /\ ~refused[c] /\ taken[c] \in Nat
  BY DEF NotAhead, TypeOK, Handling
<1>6. ASSUME NEW d \in Conn, NEW n \in Nat, n = 0 \/ n > taken[d]
      PROVE  ~InRelayed(<<d, n>>)' /\ ~InInbox(<<d, n>>)'
  <2>1. ~InRelayed(<<d, n>>) /\ ~InInbox(<<d, n>>)
    BY <1>6 DEF NotAhead
  <2>2. <<d, n>> # <<c, taken[c]>>
    BY <1>5, <1>6
  <2> QED
    BY <1>1, <1>2, <2>1, <2>2
<1>7. ASSUME NEW d \in Conn, d # c
      PROVE  <<d, taken[d]>> # <<c, taken[c]>>
  BY <1>7
<1>8. ASSUME NEW d \in Conn
      PROVE  /\ at'[d] \in Handling => taken[d] > 0 /\ ~refused[d]
             /\ at'[d] \in {"bind", "ready", "relay"} => ~InRelayed(<<d, taken[d]>>)'
             /\ at'[d] \in {"bind", "ready", "relay", "publish"}
                  => ~InInbox(<<d, taken[d]>>)'
             /\ at'[d] = "new" => taken[d] = 0
  BY <1>1, <1>2, <1>3, <1>4, <1>5, <1>7 DEF NotAhead
<1> QED
  BY <1>6, <1>8 DEF NotAhead

(* An error reply ends the handling. *)
LEMMA AheadRefuse ==
  ASSUME TypeOK, NotAhead, NEW c \in Conn, Refuse(c), UNCHANGED <<taken, relayed, inbox>>
  PROVE  NotAhead'
<1>1. /\ at' = [at EXCEPT ![c] = "idle"]
      /\ refused' = [refused EXCEPT ![c] = TRUE]
  BY DEF Refuse, Go
<1>2. at'[c] = "idle" /\ \A d \in Conn : d # c => at'[d] = at[d] /\ refused'[d] = refused[d]
  BY <1>1 DEF TypeOK
<1>3. \A cmd : (InInbox(cmd)' <=> InInbox(cmd)) /\ (InRelayed(cmd)' <=> InRelayed(cmd))
  BY DEF InInbox, InRelayed
<1> QED
  BY <1>2, <1>3 DEF NotAhead, Handling

LEMMA AheadStep ==
  ASSUME TypeOK, NotAhead, [Next]_vars
  PROVE  NotAhead'
<1> USE DEF static, handler, state, streams, history
<1>1. CASE Start
  BY <1>1 DEF Start, NotAhead, InInbox, InRelayed
<1>2. ASSUME NEW c \in Conn, Connect(c) \/ Evict(c) \/ End(c)
      PROVE  NotAhead'
  <2>1. /\ UNCHANGED <<taken, relayed, inbox, refused>>
        /\ \/ at' = at
           \/ at[c] \in {"new", "idle"} /\ at' = [at EXCEPT ![c] = "idle"]
           \/ at[c] = "idle" /\ at' = [at EXCEPT ![c] = "over"]
    BY <1>2 DEF Connect, Evict, End
  <2> QED
    BY <2>1, AheadMoves
<1>3. ASSUME NEW c \in Conn, Bind(c) \/ MarkReady(c) \/ Return(c)
      PROVE  NotAhead'
  <2>1. /\ UNCHANGED <<taken, relayed, inbox, refused>>
        /\ \/ at[c] = "bind" /\ at' = [at EXCEPT ![c] = "ready"]
           \/ at[c] = "ready" /\ at' = [at EXCEPT ![c] = "relay"]
           \/ at[c] \in Handling /\ at' = [at EXCEPT ![c] = "idle"]
    BY <1>3 DEF Bind, MarkReady, Return, Go, Handling
  <2> QED
    BY <2>1, AheadMoves
<1>4. ASSUME NEW c \in Conn, Relay(c)
      PROVE  NotAhead'
  <2>1. CASE Refuse(c) /\ UNCHANGED relayed
    BY <1>4, <2>1, AheadRefuse DEF Relay
  <2>2. CASE /\ relayed' = Append(relayed, <<c, taken[c]>>)
             /\ Go(c, "publish") \/ Go(c, "idle")
             /\ UNCHANGED refused
    BY <1>4, <2>2, AheadRelay DEF Relay, Go
  <2>3. CASE Go(c, "publish") /\ UNCHANGED <<relayed, refused>>
    BY <1>4, <2>3, AheadMoves DEF Relay, Go
  <2> QED
    BY <1>4, <2>1, <2>2, <2>3 DEF Relay
<1>5. ASSUME NEW c \in Conn, Publish(c)
      PROVE  NotAhead'
  <2>1. CASE Go(c, "idle") /\ UNCHANGED inbox
    BY <1>5, <2>1, AheadMoves DEF Publish, Go, Handling
  <2>2. CASE /\ Go(c, "answer")
             /\ inbox' = Append(inbox, [of      |-> <<c, taken[c]>>,
                                        type    |-> command[c].type,
                                        request |-> command[c].request])
    BY <1>5, <2>2, AheadPublish DEF Publish, Go
  <2> QED
    BY <1>5, <2>1, <2>2 DEF Publish
<1>6. ASSUME NEW i \in DOMAIN inbox, Answer(i)
      PROVE  NotAhead'
  BY <1>6 DEF Answer, NotAhead, InInbox, InRelayed
<1>7. CASE UNCHANGED vars
  BY <1>7 DEF vars, NotAhead, InInbox, InRelayed
<1> QED
  BY <1>1, <1>2, <1>3, <1>4, <1>5, <1>6, <1>7, AheadTake DEF Next

(* The commands of the inbox, as the contract sees them. *)
Of(s) == [i \in DOMAIN s |-> s[i].of]

LEMMA OfAppend ==
  ASSUME NEW s \in Seq(Published), NEW entry \in Published
  PROVE  Of(Append(s, entry)) = Append(Of(s), entry.of)
<1>1. Of(s) \in Seq(Command) /\ Len(Of(s)) = Len(s)
  <2>1. Len(s) \in Nat /\ DOMAIN s = 1..Len(s) /\ \A i \in 1..Len(s) : s[i] \in Published
    OBVIOUS
  <2>2. \A i \in 1..Len(s) : s[i].of \in Command
    BY <2>1 DEF Published
  <2>3. Of(s) \in [1..Len(s) -> Command]
    BY <2>1, <2>2 DEF Of
  <2> QED
    BY <2>1, <2>3
<1>2. /\ DOMAIN Append(s, entry) = 1..(Len(s) + 1)
      /\ \A i \in 1..Len(s) : Append(s, entry)[i] = s[i]
      /\ Append(s, entry)[Len(s) + 1] = entry
  OBVIOUS
<1>3. /\ DOMAIN Append(Of(s), entry.of) = 1..(Len(s) + 1)
      /\ \A i \in 1..Len(s) : Append(Of(s), entry.of)[i] = Of(s)[i]
      /\ Append(Of(s), entry.of)[Len(s) + 1] = entry.of
  BY <1>1
<1>4. Append(Of(s), entry.of) \in Seq(Command)
  BY <1>1 DEF Published
<1> QED
  BY <1>2, <1>3, <1>4 DEF Of

LEMMA ContractStep ==
  ASSUME TypeOK, NotAhead, [Next]_vars
  PROVE  [Contract!Next]_(Contract!vars)
<1> USE DEF static, handler, state, streams, history
<1> SUFFICES \/ \E c \in Conn : \/ Contract!Take(c) \/ Contract!Relay(c)
                                \/ Contract!Publish(c) \/ Contract!Refuse(c)
             \/ UNCHANGED <<taken, relayed, inbox, refused>>
  BY DEF Contract!Next, Contract!vars
<1>1. ASSUME NEW c \in Conn, at[c] \in Handling, at[c] # "answer"
      PROVE  Contract!Untouched(c)
  BY <1>1 DEF Contract!Untouched, Contract!In, Contract!Current, NotAhead, InInbox, Handling
<1>2. ASSUME NEW c \in Conn, Take(c)
      PROVE  Contract!Take(c)
  <2>1. PICK m \in Message : refused' = [refused EXCEPT ![c] = Unroutable(m)]
    BY <1>2 DEF Take
  <2>2. Unroutable(m) \in BOOLEAN
    BY DEF Unroutable, Known
  <2> QED
    BY <1>2, <2>1, <2>2 DEF Take, Contract!Take
<1>3. ASSUME NEW c \in Conn, Relay(c)
      PROVE  \/ Contract!Relay(c) \/ Contract!Refuse(c)
             \/ UNCHANGED <<taken, relayed, inbox, refused>>
  <2>1. /\ Contract!Untouched(c) /\ ~Contract!In(Contract!Current(c), relayed)
        /\ UNCHANGED <<taken, inbox>>
    BY <1>1, <1>3 DEF Relay, NotAhead, Contract!In, Contract!Current, InRelayed, Handling
  <2>2. CASE Refuse(c) /\ UNCHANGED relayed
    BY <2>1, <2>2 DEF Refuse, Contract!Refuse
  <2>3. CASE relayed' = Append(relayed, <<c, taken[c]>>) /\ UNCHANGED refused
    BY <2>1, <2>3 DEF Contract!Relay, Contract!Current
  <2>4. CASE UNCHANGED <<relayed, refused>>
    BY <2>1, <2>4
  <2> QED
    BY <1>3, <2>2, <2>3, <2>4 DEF Relay
<1>4. ASSUME NEW c \in Conn, Publish(c)
      PROVE  Contract!Publish(c) \/ UNCHANGED <<taken, relayed, inbox, refused>>
  <2> DEFINE entry == [of      |-> <<c, taken[c]>>,
                       type    |-> command[c].type,
                       request |-> command[c].request]
  <2>1. CASE inbox' = Append(inbox, entry)
    <3>1. command[c] \in Messages /\ inbox \in Seq(Published)
      BY <1>4 DEF Publish, TypeOK, Handling
    <3>2. entry \in Published /\ entry.of = <<c, taken[c]>>
      BY <3>1, CommandType DEF Published, Messages
    <3> HIDE DEF entry
    <3>3. Of(inbox') = Append(Of(inbox), <<c, taken[c]>>)
      BY <2>1, <3>1, <3>2, OfAppend
    <3>4. Contract!Untouched(c)
      BY <1>1, <1>4 DEF Publish, Handling
    <3> QED
      BY <1>4, <3>3, <3>4 DEF Publish, Of, Contract!Publish, Contract!Current
  <2>2. CASE UNCHANGED inbox
    BY <1>4, <2>2 DEF Publish
  <2> QED
    BY <1>4, <2>1, <2>2 DEF Publish
<1>5. ASSUME NEW c \in Conn,
             \/ Connect(c) \/ Evict(c) \/ End(c) \/ Bind(c) \/ MarkReady(c) \/ Return(c)
      PROVE  UNCHANGED <<taken, relayed, inbox, refused>>
  BY <1>5 DEF Connect, Evict, End, Bind, MarkReady, Return
<1> QED
  BY <1>2, <1>3, <1>4, <1>5 DEF Next, Start, Answer, vars

(***************************************************************************)
(* The handler implements the contract of commands: however the steps of   *)
(* sessions mix, and whatever Redis does, the peers and the backend get    *)
(* the commands of a session in order and at most once, and none that was  *)
(* answered with an error (gateway_core.rs:176-316).                       *)
(***************************************************************************)
THEOREM KeepsContract == Spec => ContractSpec
<1>1. Init => Contract!Init
  BY DEF Init, Contract!Init
<1> QED
  BY <1>1, InitType, TypeStep, InitAhead, AheadStep, ContractStep, PTL
     DEF Spec, ContractSpec, Contract!Spec

-----------------------------------------------------------------------------
(* What the backend finds *)

(* A name that is there is resolved to an entry of it (routes.rs:114-128). *)
LEMMA ResolveNamed ==
  ASSUME NEW S, NEW entries \in Seq(S), NEW name, Named(entries, name) # {}
  PROVE  Resolve(entries, name) \in S /\ Resolve(entries, name).name = name
<1>1. Named(entries, name) \subseteq Nat
  BY DEF Named
<1>2. PICK i \in Named(entries, name) :
        \A j \in Named(entries, name) : ~(<<j, i>> \in OpToRel(<, Nat))
  BY <1>1, NatLessThanWellFounded, WFMin
<1>3. ASSUME NEW j \in Named(entries, name)
      PROVE  i <= j
  <2>1. i \in Nat /\ j \in Nat
    BY <1>1
  <2>2. <<j, i>> \notin OpToRel(<, Nat)
    BY <1>2
  <2>3. <<j, i>> \in Nat \X Nat /\ <<j, i>>[1] = j /\ <<j, i>>[2] = i
    BY <2>1
  <2>4. ~(j < i)
    BY <2>2, <2>3 DEF OpToRel
  <2> QED
    BY <2>1, <2>4
<1>4. (CHOOSE k \in Named(entries, name) : \A j \in Named(entries, name) : k <= j)
        \in Named(entries, name)
  BY <1>3
<1> QED
  BY <1>4 DEF Resolve, Named

(* What the handler works on is a relay or a backend command, and what it  *)
(* publishes is for the backend.                                           *)
Routed ==
  \A c \in Conn :
    /\ at[c] \in Handling => SpecOf(command[c]).class \in {"relay_hotpath", "backend_control"}
    /\ at[c] = "publish" => ToBackend(command[c])

LEMMA TakeRouted ==
  ASSUME TypeOK, NEW m \in Message, ~Unroutable(m), ~Ignored(m)
  PROVE  SpecOf(m).class \in {"relay_hotpath", "backend_control"}
<1>1. Named(registry.commands, m.type) # {}
  BY DEF Unroutable, Known
<1>2. registry.commands \in Seq(CommandSpec(Type))
  BY RoutingAssumption DEF TypeOK, registry, Registry
<1>3. SpecOf(m) \in CommandSpec(Type)
  BY <1>1, <1>2, ResolveNamed DEF SpecOf
<1>4. SpecOf(m).class \in RoutingClass
  BY <1>3 DEF CommandSpec
<1> QED
  BY <1>4 DEF Unroutable, Ignored, RoutingClass

LEMMA Static == [Next]_vars => build' = build
BY DEF Next, Start, Connect, Evict, End, Take, Bind, MarkReady, Relay, Publish, Return, Answer,
       vars, static

LEMMA RoutedStep ==
  ASSUME TypeOK, Routed, [Next]_vars
  PROVE  Routed'
<1> USE DEF static, handler, Routed, SpecOf, ToBackend, Relays, registry
<1>0. build' = build
  BY Static
<1>1. ASSUME NEW c \in Conn, Take(c)
      PROVE  Routed'
  <2>1. PICK m \in Message :
          IF Unroutable(m) \/ Ignored(m)
            THEN UNCHANGED <<at, command>>
            ELSE /\ at' = [at EXCEPT ![c] = "bind"]
                 /\ command' = [command EXCEPT ![c] = m]
    BY <1>1 DEF Take
  <2>2. \A d \in Conn : d # c => at'[d] = at[d] /\ command'[d] = command[d]
    BY <2>1 DEF TypeOK
  <2>3. CASE Unroutable(m) \/ Ignored(m)
    BY <1>0, <2>1, <2>3
  <2>4. CASE ~Unroutable(m) /\ ~Ignored(m)
    <3>1. at'[c] = "bind" /\ command'[c] = m
      BY <2>1, <2>4 DEF TypeOK
    <3>2. SpecOf(m).class \in {"relay_hotpath", "backend_control"}
      BY <2>4, TakeRouted
    <3> QED
      BY <1>0, <2>2, <3>1, <3>2
  <2> QED
    BY <2>3, <2>4
<1>2. ASSUME NEW c \in Conn, Relay(c)
      PROVE  Routed'
  <2>1. PICK step \in {"idle", "publish"} :
          /\ Go(c, step)
          /\ step = "publish" => ~Relays(command[c]) \/ ToBackend(command[c])
    BY <1>2 DEF Relay, Refuse
  <2>2. at[c] \in Handling
    BY <1>2 DEF Relay, Handling
  <2> QED
    BY <1>0, <2>1, <2>2 DEF Go, Handling, TypeOK
<1>3. ASSUME NEW c \in Conn, Connect(c) \/ Evict(c) \/ End(c) \/ Bind(c) \/ MarkReady(c)
                             \/ Publish(c) \/ Return(c)
      PROVE  Routed'
  BY <1>0, <1>3 DEF Connect, Evict, End, Bind, MarkReady, Publish, Return, Go, Handling, TypeOK
<1>4. CASE UNCHANGED <<at, command>>
  BY <1>0, <1>4
<1> QED
  BY <1>1, <1>2, <1>3, <1>4 DEF Next, Start, Answer, vars

(* The commands a route was bound for are commands that were taken, and    *)
(* whoever has passed the bind, or is in the inbox, is among them.         *)
BoundFirst ==
  /\ \A r \in RequestId, c \in Conn, n \in Nat :
       <<c, n>> \in binders[r] => n > 0 /\ n <= taken[c]
  /\ \A c \in Conn :
       at[c] \in {"ready", "relay", "publish"} /\ Binds(command[c])
         => <<c, taken[c]>> \in binders[command[c].request]
  /\ \A i \in DOMAIN inbox :
       inbox[i].request # None => inbox[i].of \in binders[inbox[i].request]

LEMMA BoundStep ==
  ASSUME TypeOK, NotAhead, Routed, BoundFirst, [Next]_vars
  PROVE  BoundFirst'
<1> USE DEF static, handler, state, streams, history
<1> DEFINE Numbers == \A r \in RequestId, c \in Conn, n \in Nat :
                        <<c, n>> \in binders[r] => n > 0 /\ n <= taken[c]
           Passed == \A c \in Conn :
                       at[c] \in {"ready", "relay", "publish"} /\ Binds(command[c])
                         => <<c, taken[c]>> \in binders[command[c].request]
           Found == \A i \in DOMAIN inbox :
                      inbox[i].request # None => inbox[i].of \in binders[inbox[i].request]
<1> SUFFICES Numbers' /\ Passed' /\ Found'
  BY DEF BoundFirst
<1>0. build' = build /\ Numbers /\ Passed /\ Found
  BY Static DEF BoundFirst
<1>1. ASSUME NEW c \in Conn, Take(c)
      PROVE  Numbers' /\ Passed' /\ Found'
  <2>1. /\ taken' = [taken EXCEPT ![c] = @ + 1] /\ UNCHANGED <<inbox, binders>>
        /\ at'[c] \in {"idle", "bind"}
        /\ \A d \in Conn : d # c => at'[d] = at[d] /\ command'[d] = command[d]
    BY <1>1 DEF Take, TypeOK
  <2>2. \A d \in Conn : taken[d] \in Nat
    BY DEF TypeOK
  <2>3. Numbers'
    BY <1>0, <2>1, <2>2 DEF TypeOK
  <2>4. \A d \in Conn : d # c => taken'[d] = taken[d]
    BY <2>1 DEF TypeOK
  <2>5. Passed'
    BY <1>0, <2>1, <2>4 DEF Binds, ToBackend, Relays, SpecOf, registry
  <2> QED
    BY <1>0, <2>1, <2>3, <2>5
<1>2. ASSUME NEW c \in Conn, Bind(c)
      PROVE  Numbers' /\ Passed' /\ Found'
  <2>1. /\ at' = [at EXCEPT ![c] = "ready"] /\ UNCHANGED <<command, taken, inbox>>
        /\ at[c] = "bind" /\ taken[c] > 0 /\ taken[c] \in Nat
    BY <1>2 DEF Bind, Go, NotAhead, Handling, TypeOK
  <2>2. CASE Binds(command[c])
    <3>1. command[c].request \in RequestId
      BY <2>1, <2>2 DEF Binds, Messages, TypeOK, Handling
    <3>2. \A r \in RequestId : binders'[r] = IF r = command[c].request
                                               THEN binders[r] \cup {<<c, taken[c]>>}
                                               ELSE binders[r]
      BY <1>2, <2>2, <3>1 DEF Bind, TypeOK
    <3>3. Numbers'
      <4>1. SUFFICES ASSUME NEW r \in RequestId, NEW d \in Conn, NEW n \in Nat,
                            <<d, n>> \in binders'[r]
                     PROVE  n > 0 /\ n <= taken[d]
        BY <2>1
      <4>2. <<d, n>> \in binders[r] \/ <<d, n>> = <<c, taken[c]>>
        BY <3>2, <4>1
      <4>3. CASE <<d, n>> = <<c, taken[c]>>
        BY <2>1, <4>3
      <4> QED
        BY <1>0, <4>2, <4>3
    <3>4. \A r \in RequestId : binders[r] \subseteq binders'[r]
      BY <3>2
    <3>5. \A d \in Conn : at[d] \in Handling /\ Binds(command[d])
            => command[d].request \in RequestId
      BY DEF Binds, Messages, TypeOK
    <3>6. Passed'
      BY <1>0, <2>1, <3>1, <3>2, <3>4, <3>5, ZenonT(40)
         DEF Binds, ToBackend, Relays, SpecOf, registry, Handling, TypeOK
    <3>7. Found'
      BY <1>0, <2>1, <3>4, InboxType
    <3> QED
      BY <3>3, <3>6, <3>7
  <2>3. CASE ~Binds(command[c])
    <3>1. binders' = binders
      BY <1>2, <2>3 DEF Bind
    <3> QED
      BY <1>0, <2>1, <2>3, <3>1 DEF Binds, ToBackend, Relays, SpecOf, registry, TypeOK
  <2> QED
    BY <2>2, <2>3
<1>3. ASSUME NEW c \in Conn, Publish(c)
      PROVE  Numbers' /\ Passed' /\ Found'
  <2>1. UNCHANGED <<taken, binders>> /\ at'[c] \in {"answer", "idle"}
        /\ \A d \in Conn : d # c => at'[d] = at[d] /\ command'[d] = command[d]
    BY <1>3 DEF Publish, Go, TypeOK
  <2>2. Numbers' /\ Passed'
    BY <1>0, <2>1 DEF Binds, ToBackend, Relays, SpecOf, registry
  <2>3. Found'
    <3>1. CASE UNCHANGED inbox
      BY <1>0, <2>1, <3>1
    <3>2. CASE inbox' = Append(inbox, [of      |-> <<c, taken[c]>>,
                                       type    |-> command[c].type,
                                       request |-> command[c].request])
      <4>1. command[c].request # None => <<c, taken[c]>> \in binders[command[c].request]
        BY <1>0, <1>3 DEF Publish, Routed, Binds
      <4>2. inbox \in Seq(Published)
        BY DEF TypeOK
      <4>3. /\ DOMAIN inbox' = DOMAIN inbox \cup {Len(inbox) + 1}
            /\ \A i \in DOMAIN inbox : inbox'[i] = inbox[i]
            /\ inbox'[Len(inbox) + 1].of = <<c, taken[c]>>
            /\ inbox'[Len(inbox) + 1].request = command[c].request
        BY <3>2, <4>2, AppendEntries
      <4> QED
        BY <1>0, <2>1, <4>1, <4>3
    <3> QED
      BY <1>3, <3>1, <3>2 DEF Publish
  <2> QED
    BY <2>2, <2>3
<1>4. ASSUME NEW c \in Conn, Relay(c)
      PROVE  Numbers' /\ Passed' /\ Found'
  <2>1. UNCHANGED <<taken, binders, inbox>>
    BY <1>4 DEF Relay
  <2>2. /\ at'[c] = "publish" => command'[c] = command[c]
        /\ at'[c] \in {"idle", "publish"} /\ at[c] = "relay"
        /\ \A d \in Conn : d # c => at'[d] = at[d] /\ command'[d] = command[d]
    BY <1>4 DEF Relay, Refuse, Go, TypeOK
  <2> QED
    BY <1>0, <2>1, <2>2 DEF Binds, ToBackend, Relays, SpecOf, registry
<1>5. ASSUME NEW c \in Conn, Connect(c) \/ Evict(c) \/ End(c) \/ MarkReady(c) \/ Return(c)
      PROVE  Numbers' /\ Passed' /\ Found'
  <2>1. UNCHANGED <<taken, binders, inbox>>
    BY <1>5 DEF Connect, Evict, End, MarkReady, Return
  <2>2. /\ at'[c] \in {"ready", "relay", "publish"}
             => command'[c] = command[c] /\ at[c] \in {"ready", "relay", "publish"}
        /\ \A d \in Conn : d # c => at'[d] = at[d] /\ command'[d] = command[d]
    BY <1>5 DEF Connect, Evict, End, MarkReady, Return, Go, TypeOK
  <2> QED
    BY <1>0, <2>1, <2>2 DEF Binds, ToBackend, Relays, SpecOf, registry
<1>6. CASE UNCHANGED <<handler, inbox, binders>>
  BY <1>0, <1>6 DEF Binds, ToBackend, Relays, SpecOf, registry
<1> QED
  BY <1>1, <1>2, <1>3, <1>4, <1>5, <1>6 DEF Next, Start, Answer, vars

LEMMA PublishAppends ==
  ASSUME TypeOK, NEW c \in Conn, Publish(c), inbox' # inbox
  PROVE  /\ DOMAIN inbox' = DOMAIN inbox \cup {Len(inbox) + 1}
         /\ \A i \in DOMAIN inbox : inbox'[i] = inbox[i]
         /\ inbox'[Len(inbox) + 1].of = <<c, taken[c]>>
         /\ inbox'[Len(inbox) + 1].of[1] = c
         /\ inbox'[Len(inbox) + 1].type = command[c].type
<1>1. inbox \in Seq(Published)
  BY DEF TypeOK
<1>2. inbox' = Append(inbox, [of      |-> <<c, taken[c]>>,
                              type    |-> command[c].type,
                              request |-> command[c].request])
  BY DEF Publish
<1>3. /\ DOMAIN inbox' = DOMAIN inbox \cup {Len(inbox) + 1}
      /\ \A i \in DOMAIN inbox : inbox'[i] = inbox[i]
      /\ inbox'[Len(inbox) + 1] = [of      |-> <<c, taken[c]>>,
                                  type    |-> command[c].type,
                                  request |-> command[c].request]
  BY <1>1, <1>2, AppendEntries
<1> QED
  BY <1>3

(* No command is twice in the inbox. *)
InboxOnce ==
  \A i, j \in DOMAIN inbox : inbox[i].of = inbox[j].of => i = j

LEMMA OnceStep ==
  ASSUME TypeOK, NotAhead, InboxOnce, [Next]_vars
  PROVE  InboxOnce'
<1>1. ASSUME NEW c \in Conn, Publish(c), inbox' # inbox
      PROVE  InboxOnce'
  <2>1. ~InInbox(<<c, taken[c]>>)
    BY <1>1 DEF NotAhead, Publish
  <2>2. /\ DOMAIN inbox' = DOMAIN inbox \cup {Len(inbox) + 1}
        /\ \A i \in DOMAIN inbox : inbox'[i] = inbox[i]
        /\ inbox'[Len(inbox) + 1].of = <<c, taken[c]>>
    BY <1>1, PublishAppends
  <2> QED
    BY <2>1, <2>2 DEF InboxOnce, InInbox
<1>2. CASE UNCHANGED inbox
  BY <1>2 DEF InboxOnce
<1> QED
  BY <1>1, <1>2 DEF Next, Start, Connect, Evict, End, Take, Bind, MarkReady, Relay, Return,
                    Answer, vars, static, handler, state, streams, history

(* An id that one command was bound for, and that is not answered, leads   *)
(* to the session of that command, as long as it is connected.             *)
RouteOwned ==
  \A r \in RequestId, c \in Conn, n \in Nat :
    /\ binders[r] = {<<c, n>>} /\ c \in registered
    /\ \A i \in answered : inbox[i].request # r
    => routes[r] = c

(* Routes and connections are removed together. *)
LEMMA OwnedRemoved ==
  ASSUME TypeOK, RouteOwned, NEW S, Removed(S), UNCHANGED <<binders, inbox, answered>>
  PROVE  RouteOwned'
BY DEF Removed, RouteOwned

LEMMA OwnedStep ==
  ASSUME TypeOK, NotAhead, BoundFirst, RouteOwned, [Next]_vars
  PROVE  RouteOwned'
<1> USE DEF static, handler, state, streams, history
<1>1. ASSUME NEW c \in Conn, Connect(c)
      PROVE  RouteOwned'
  <2>1. taken[c] = 0
    BY <1>1 DEF Connect, NotAhead
  <2>2. ASSUME NEW r \in RequestId, NEW n \in Nat
        PROVE  <<c, n>> \notin binders[r]
    <3>1. <<c, n>> \in binders[r] => n > 0 /\ n <= taken[c]
      BY DEF BoundFirst
    <3> QED
      BY <2>1, <3>1
  <2> QED
    BY <1>1, <2>2 DEF Connect, RouteOwned
<1>2. ASSUME NEW c \in Conn, Evict(c) \/ End(c)
      PROVE  RouteOwned'
  BY <1>2, OwnedRemoved DEF Evict, End
<1>3. ASSUME NEW c \in Conn, MarkReady(c)
      PROVE  RouteOwned'
  <2>1. UNCHANGED <<binders, inbox, answered>>
    BY <1>3 DEF MarkReady
  <2>2. CASE UNCHANGED state
    BY <2>1, <2>2 DEF RouteOwned
  <2>3. CASE \E S : Removed(S)
    BY <2>1, <2>3, OwnedRemoved
  <2> QED
    BY <1>3, <2>2, <2>3 DEF MarkReady
<1>4. ASSUME NEW c \in Conn, Bind(c)
      PROVE  RouteOwned'
  <2>1. UNCHANGED <<registered, inbox, answered>>
    BY <1>4 DEF Bind
  <2>2. CASE Binds(command[c])
    <3>1. command[c].request \in RequestId
      BY <1>4, <2>2 DEF Bind, Binds, Messages, TypeOK, Handling
    <3>2. \A r \in RequestId :
            r # command[c].request => routes'[r] = routes[r] /\ binders'[r] = binders[r]
      BY <1>4, <2>2, <3>1 DEF Bind, TypeOK
    <3>3. routes'[command[c].request] = c /\ <<c, taken[c]>> \in binders'[command[c].request]
      BY <1>4, <2>2, <3>1 DEF Bind, TypeOK
    <3>4. ASSUME NEW d \in Conn, NEW n \in Nat, binders'[command[c].request] = {<<d, n>>}
          PROVE  d = c
      BY <3>3, <3>4
    <3> QED
      BY <2>1, <3>2, <3>3, <3>4 DEF RouteOwned
  <2>3. CASE UNCHANGED <<routes, binders>>
    BY <2>1, <2>3 DEF RouteOwned
  <2> QED
    BY <1>4, <2>2, <2>3 DEF Bind
<1>5. ASSUME NEW c \in Conn, Publish(c)
      PROVE  RouteOwned'
  <2>1. UNCHANGED <<routes, binders, registered, answered>>
    BY <1>5 DEF Publish
  <2>2. \A i \in answered : inbox'[i] = inbox[i]
    BY <1>5, PublishAppends DEF TypeOK
  <2> QED
    BY <2>1, <2>2 DEF RouteOwned
<1>6. ASSUME NEW i \in DOMAIN inbox, Answer(i)
      PROVE  RouteOwned'
  <2>1. /\ answered' = answered \cup {i} /\ UNCHANGED <<binders, inbox, registered>>
        /\ \A r \in RequestId : r # inbox[i].request => routes'[r] = routes[r]
    BY <1>6 DEF Answer, TypeOK
  <2> QED
    BY <2>1 DEF RouteOwned
<1>7. CASE UNCHANGED <<routes, binders, registered, inbox, answered>>
  BY <1>7 DEF RouteOwned
<1> QED
  BY <1>1, <1>2, <1>3, <1>4, <1>5, <1>6, <1>7 DEF Next, Start, Take, Relay, Return, vars

(* A connected session is among the ready ones from the step after the     *)
(* route to the inbox on, if its command says so.                          *)
ReadyFirst ==
  /\ \A c \in registered :
       at[c] \in {"relay", "publish"} /\ command[c].type = "session_ready" => c \in ready
  /\ ReadyKnown

LEMMA ReadyStep ==
  ASSUME TypeOK, NotAhead, ReadyFirst, [Next]_vars
  PROVE  ReadyFirst'
<1> USE DEF static, handler, state, streams, history, ReadyFirst, ReadyKnown
<1>1. ASSUME NEW c \in Conn, Connect(c)
      PROVE  ReadyFirst'
  <2>1. ASSUME NEW n \in Nat
        PROVE  ~InInbox(<<c, n>>)
    <3>1. taken[c] = 0
      BY <1>1 DEF Connect, NotAhead
    <3>2. n = 0 \/ n > taken[c]
      BY <3>1
    <3> QED
      BY <3>2 DEF NotAhead
  <2>2. \A i \in DOMAIN inbox : inbox[i].of[1] # c
    BY <2>1, InboxType DEF InInbox, Command
  <2> QED
    BY <1>1, <2>2 DEF Connect, TypeOK
<1>2. ASSUME NEW c \in Conn, Evict(c) \/ End(c)
      PROVE  ReadyFirst'
  BY <1>2 DEF Evict, End, Removed, TypeOK
<1>3. ASSUME NEW c \in Conn, Take(c)
      PROVE  ReadyFirst'
  <2>1. at'[c] \in {"idle", "bind"} /\ UNCHANGED <<registered, ready, inbox>>
        /\ \A d \in Conn : d # c => at'[d] = at[d] /\ command'[d] = command[d]
    BY <1>3 DEF Take, TypeOK
  <2> QED
    BY <2>1 DEF TypeOK
<1>4. ASSUME NEW c \in Conn, MarkReady(c)
      PROVE  ReadyFirst'
  <2>1. at[c] = "ready" /\ at'[c] = "relay" /\ UNCHANGED <<inbox, command>>
        /\ \A d \in Conn : d # c => at'[d] = at[d]
    BY <1>4 DEF MarkReady, Go, TypeOK
  <2>2. CASE command[c].type = "session_ready"
    <3>1. PICK evicted \in SUBSET ((ready \cap registered) \ {c}) :
            registered' = registered \ evicted /\ ready' = (ready \ evicted) \cup {c}
      BY <1>4, <2>2 DEF MarkReady, Removed
    <3> QED
      BY <2>1, <3>1 DEF TypeOK
  <2>3. CASE command[c].type # "session_ready"
    BY <1>4, <2>1, <2>3 DEF MarkReady, TypeOK
  <2> QED
    BY <2>2, <2>3
<1>5. ASSUME NEW c \in Conn, Publish(c)
      PROVE  ReadyFirst'
  <2>1. at[c] = "publish" /\ at'[c] \in {"answer", "idle"} /\ UNCHANGED <<registered, ready>>
        /\ \A d \in Conn : d # c => at'[d] = at[d] /\ command'[d] = command[d]
    BY <1>5 DEF Publish, Go, TypeOK
  <2>2. CASE UNCHANGED inbox
    BY <2>1, <2>2 DEF TypeOK
  <2>3. CASE inbox' # inbox
    <3>1. /\ DOMAIN inbox' = DOMAIN inbox \cup {Len(inbox) + 1}
          /\ \A i \in DOMAIN inbox : inbox'[i] = inbox[i]
          /\ inbox'[Len(inbox) + 1].of[1] = c
          /\ inbox'[Len(inbox) + 1].type = command[c].type
      BY <1>5, <2>3, PublishAppends
    <3> QED
      BY <2>1, <3>1, SMTT(20) DEF TypeOK
  <2> QED
    BY <2>2, <2>3
<1>6. ASSUME NEW c \in Conn, Bind(c) \/ Relay(c) \/ Return(c)
      PROVE  ReadyFirst'
  <2>1. /\ UNCHANGED <<registered, ready, inbox>>
        /\ at'[c] \in {"relay", "publish"} => at[c] = "relay" /\ command'[c] = command[c]
        /\ \A d \in Conn : d # c => at'[d] = at[d] /\ command'[d] = command[d]
    BY <1>6 DEF Bind, Relay, Return, Refuse, Go, TypeOK
  <2> QED
    BY <2>1 DEF TypeOK
<1>7. CASE UNCHANGED <<at, command, registered, ready, inbox>>
  BY <1>7
<1> QED
  BY <1>1, <1>2, <1>3, <1>4, <1>5, <1>6, <1>7 DEF Next, Start, Answer, vars

LEMMA Effects ==
  ASSUME TypeOK, BoundFirst, InboxOnce, RouteOwned, ReadyFirst
  PROVE  BackendSeesEffects
<1>1. ASSUME NEW i \in (DOMAIN inbox) \ answered,
             inbox[i].request # None, Unshared(i), inbox[i].of[1] \in registered
      PROVE  routes[inbox[i].request] = inbox[i].of[1]
  <2>1. inbox[i].request \in RequestId /\ inbox[i].of \in Command
    BY <1>1, InboxType
  <2>2. binders[inbox[i].request] = {inbox[i].of}
    BY <1>1 DEF BoundFirst, Unshared
  <2>3. ASSUME NEW j \in answered, inbox[j].request = inbox[i].request
        PROVE  FALSE
    <3>1. j \in DOMAIN inbox
      BY DEF TypeOK
    <3>2. inbox[j].of \in binders[inbox[i].request]
      BY <1>1, <2>3, <3>1 DEF BoundFirst
    <3>3. inbox[j].of = inbox[i].of
      BY <2>2, <3>2
    <3> QED
      BY <3>1, <3>3 DEF InboxOnce
  <2>4. PICK c \in Conn, n \in Nat : inbox[i].of = <<c, n>>
    BY <2>1 DEF Command
  <2>5. binders[inbox[i].request] = {<<c, n>>} /\ c \in registered
    BY <1>1, <2>2, <2>4
  <2>6. routes[inbox[i].request] = c
    BY <2>1, <2>3, <2>5 DEF RouteOwned
  <2> QED
    BY <2>4, <2>6
<1> QED
  BY <1>1 DEF BackendSeesEffects, AnswerRoutable, ReadyFirst

LEMMA InitEffects == Init => Routed /\ BoundFirst /\ InboxOnce /\ RouteOwned /\ ReadyFirst
BY DEF Init, Routed, BoundFirst, InboxOnce, RouteOwned, ReadyFirst, ReadyKnown, Handling

(***************************************************************************)
(* A command is in the inbox only after what the gateway does for it: the  *)
(* answer to its request finds its way, and a session that is announced as *)
(* ready is one of the ready connections (gateway_core.rs:98-127).         *)
(***************************************************************************)
THEOREM EffectsSeen == Spec => []BackendSeesEffects
<1> DEFINE IInv == /\ TypeOK /\ NotAhead /\ Routed /\ BoundFirst
                   /\ InboxOnce /\ RouteOwned /\ ReadyFirst
<1>1. Init => IInv
  BY InitType, InitAhead, InitEffects
<1>2. IInv /\ [Next]_vars => IInv'
  BY TypeStep, AheadStep, RoutedStep, BoundStep, OnceStep, OwnedStep, ReadyStep
<1>3. IInv => BackendSeesEffects
  BY Effects
<1> QED
  BY <1>1, <1>2, <1>3, PTL DEF Spec
=============================================================================
