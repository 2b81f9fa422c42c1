------------------------- MODULE ClientSession_proofs -------------------------
(***************************************************************************)
(* Proofs about ClientSession, for every set of connections, whatever      *)
(* their clients offer and the backend answers, and any number of worker   *)
(* threads:                                                                *)
(*                                                                         *)
(*   TypeCorrect         Spec => []TypeOK                                  *)
(*   LifecycleOnce       Spec => []OneLifecycle                            *)
(*   EndsAccounted       Spec => []EndAccounted                            *)
(*   AdmittedOnly        Spec => []OnlyAdmitted                            *)
(*                                                                         *)
(* They follow from one inductive invariant.  The right to publish         *)
(* disconnected is held once, by the registry, by the session that reports *)
(* or by the pruner, and is given up only by publishing, failing or        *)
(* dropping the info.  And what a session has in hand, payload, token and  *)
(* identity, is from one attempt of its client.                            *)
(***************************************************************************)
EXTENDS ClientSession, TLAPS

(* Who has the right to publish disconnected has not used it. *)
RightUnused ==
  \A c \in Conn :
    c \in registered \/ c \in pruned \/ phase[c] = "report" \/ phase[c] \in Handshake
      => ~Says(c, "disconnected")

(* The right is in one place. *)
RightOnce ==
  \A c \in Conn :
    /\ c \in registered => c \notin pruned /\ phase[c] \notin {"report", "done"}
    /\ c \in pruned => phase[c] # "report" /\ phase[c] \notin Handshake

(* A session announces itself at one point. *)
AnnouncedLater ==
  \A c \in Conn :
    Says(c, "connected") => phase[c] \notin Handshake \cup {"greet", "announce"}

(* From the greeting on the right exists until it is used or given up. *)
RightKept ==
  \A c \in Conn :
    phase[c] \in {"greet", "announce"} \/ Says(c, "connected")
      => \/ c \in registered \cup pruned \cup dropped \cup unpublished
         \/ phase[c] = "report"
         \/ Says(c, "disconnected")

(* What the client may send, and what it gave in its query. *)
Given(c) == Offers[c] \cup ({QueryOf[c]} \ {None})

(* The token goes with the payload. *)
TokenOf(p, t) == (GivesToken(p) /\ t = p.names) \/ (AsksBackend(p) /\ t \in Issued)

(* What a session has in hand is from one attempt. *)
OneAttempt ==
  \A c \in Conn :
    /\ payload[c] # None => payload[c] \in Given(c)
    /\ phase[c] = "backend" => payload[c] # None /\ AsksBackend(payload[c])
    /\ phase[c] = "verify" => payload[c] # None /\ TokenOf(payload[c], token[c])
    /\ phase[c] = "admitted" \/ c \in registered => VouchedFor(c)

Inv ==
  /\ TypeOK /\ OneLifecycle /\ RightUnused /\ RightOnce /\ AnnouncedLater /\ RightKept
  /\ OneAttempt

-----------------------------------------------------------------------------
(* The handshake *)

LEMMA GivenTyped ==
  ASSUME NEW c \in Conn, NEW p \in Given(c)
  PROVE  /\ p \in Payload /\ p # None
         /\ GivesToken(p) => p.names \in Token
         /\ VisitsDropbox(p) \/ PairsDevice(p) => p.names \in Name
<1>1. p \in Payload
  BY SessionAssumption DEF Given
<1> QED
  BY <1>1, SessionAssumption DEF Given

LEMMA GuestVouched ==
  ASSUME NEW c \in Conn, NEW p \in Given(c), NEW user \in GuestUsers(p)
  PROVE  [user |-> user, instance |-> Cleared(p)] \in Identity \cap Vouched(p, Issued)
<1>1. user \in User
  BY GivenTyped DEF GuestUsers, User
<1>2. Cleared(p) \in Instance \cup {""}
  BY DEF Cleared
<1> QED
  BY <1>1, <1>2 DEF Identity, Vouched

LEMMA TokenVouched ==
  ASSUME NEW c \in Conn, NEW p \in Given(c), NEW t, TokenOf(p, t)
  PROVE  /\ t \in Token
         /\ Admits(t) =>
              [user |-> UserOf(t), instance |-> Cleared(p)] \in Identity \cap Vouched(p, Issued)
<1>1. t \in Token
  BY GivenTyped, SessionAssumption DEF TokenOf
<1>2. t.user \in Claim
  BY <1>1 DEF Token
<1>3. UserOf(t) \in User
  BY <1>2 DEF UserOf, User
<1>4. Cleared(p) \in Instance \cup {""}
  BY DEF Cleared
<1>5. ~(GivesToken(p) /\ AsksBackend(p))
  BY DEF GivesToken, AsksBackend, HttpRoutes
<1>6. t \in IF GivesToken(p) THEN {p.names} ELSE IF AsksBackend(p) THEN Issued ELSE {}
  BY <1>5 DEF TokenOf
<1> QED
  BY <1>1, <1>3, <1>4, <1>6 DEF Identity, Vouched

(* The client is known, or refused. *)
LEMMA AdmitKeeps ==
  ASSUME TypeOK, OneAttempt, NEW c \in Conn, NEW p, NEW user, Admit(c, p, user),
         [user |-> user, instance |-> Cleared(p)] \in Identity \cap Vouched(p, Issued),
         p \in Given(c), UNCHANGED registered
  PROVE  /\ payload' \in [Conn -> Payload \cup {None}]
         /\ token' \in [Conn -> Token \cup {None}]
         /\ identity' \in [Conn -> Identity \cup {None}]
         /\ OneAttempt'
<1>1. VouchedFor(c)'
  BY DEF Admit, VouchedFor, TypeOK, Given
<1>2. ASSUME NEW d \in Conn, d # c
      PROVE  VouchedFor(d)' <=> VouchedFor(d)
  BY <1>2 DEF Admit, VouchedFor, TypeOK
<1> QED
  BY <1>1, <1>2 DEF Admit, Go, TypeOK, OneAttempt, Handshake, Phases

LEMMA RefusedKeeps ==
  ASSUME TypeOK, OneAttempt, NEW c \in Conn, Refused(c), UNCHANGED registered
  PROVE  /\ payload' \in [Conn -> Payload \cup {None}]
         /\ token' \in [Conn -> Token \cup {None}]
         /\ identity' \in [Conn -> Identity \cup {None}]
         /\ OneAttempt'
<1>1. \A d \in Conn : VouchedFor(d)' <=> VouchedFor(d)
  BY DEF Refused, VouchedFor
<1> QED
  BY <1>1 DEF Refused, Go, TypeOK, OneAttempt, Handshake, Phases

(* A later step adds nobody to the registry. *)
LEMMA LaterKeeps ==
  ASSUME OneAttempt, UNCHANGED auth, registered' \subseteq registered,
         \A c \in Conn : phase'[c] \in {"backend", "verify", "admitted"} => phase'[c] = phase[c]
  PROVE  OneAttempt'
<1>1. \A c \in Conn : VouchedFor(c)' <=> VouchedFor(c)
  BY DEF auth, VouchedFor
<1> QED
  BY <1>1 DEF OneAttempt, auth

-----------------------------------------------------------------------------
(* Publications *)

LEMMA AppendSays ==
  ASSUME NEW s \in Seq(Events), NEW e \in Events
  PROVE  /\ Append(s, e) \in Seq(Events)
         /\ \A x : (\E i \in DOMAIN Append(s, e) : Append(s, e)[i] = x)
                  <=> (x = e \/ \E i \in DOMAIN s : s[i] = x)
         /\ (\A i, j \in DOMAIN s : s[i] = s[j] => i = j) /\ (\A i \in DOMAIN s : s[i] # e)
              => \A i, j \in DOMAIN Append(s, e) : Append(s, e)[i] = Append(s, e)[j] => i = j
<1>1. /\ DOMAIN s = 1..Len(s) /\ Len(s) \in Nat
      /\ DOMAIN Append(s, e) = 1..(Len(s) + 1)
      /\ \A i \in 1..Len(s) : Append(s, e)[i] = s[i]
      /\ Append(s, e)[Len(s) + 1] = e
  OBVIOUS
<1>2. \A i \in 1..(Len(s) + 1) : i \in 1..Len(s) \/ i = Len(s) + 1
  BY <1>1
<1>3. ASSUME NEW x
      PROVE  (\E i \in DOMAIN Append(s, e) : Append(s, e)[i] = x)
               <=> (x = e \/ \E i \in DOMAIN s : s[i] = x)
  BY <1>1, <1>2
<1> QED
  BY <1>1, <1>2, <1>3

LEMMA PublishSays ==
  ASSUME TypeOK, NEW c \in Conn, NEW e \in Events, Publish(c, e)
  PROVE  /\ log' \in [Conn -> Seq(Events)]
         /\ unpublished' \subseteq Conn /\ unpublished \subseteq unpublished'
         /\ c \in unpublished' \/ Says(c, e)'
         /\ \A d \in Conn, x \in Events :
              /\ Says(d, x) => Says(d, x)'
              /\ Says(d, x)' => Says(d, x) \/ (d = c /\ x = e)
         /\ OneLifecycle /\ ~Says(c, e) => OneLifecycle'
<1>1. CASE unpublished' = unpublished \cup {c} /\ UNCHANGED log
  BY <1>1 DEF TypeOK, Says, OneLifecycle
<1>2. CASE log' = [log EXCEPT ![c] = Append(@, e)] /\ UNCHANGED unpublished
  <2>1. log[c] \in Seq(Events)
    BY DEF TypeOK
  <2>2. log'[c] = Append(log[c], e) /\ \A d \in Conn \ {c} : log'[d] = log[d]
    BY <1>2 DEF TypeOK
  <2>3. log' \in [Conn -> Seq(Events)]
    BY <1>2, <2>1, AppendSays DEF TypeOK
  <2>4. \A x : Says(c, x)' <=> x = e \/ Says(c, x)
    BY <2>1, <2>2, AppendSays, SMTT(20) DEF Says
  <2>5. \A d \in Conn \ {c} : \A x : Says(d, x)' <=> Says(d, x)
    BY <2>2 DEF Says
  <2>6. ASSUME OneLifecycle, ~Says(c, e)
        PROVE  OneLifecycle'
    <3>1. ASSUME NEW d \in Conn
          PROVE  \A i, j \in DOMAIN log'[d] : log'[d][i] = log'[d][j] => i = j
      <4>1. CASE d = c
        BY <4>1, <2>1, <2>2, <2>6, AppendSays DEF OneLifecycle, Says
      <4>2. CASE d # c
        BY <4>2, <2>2, <2>6 DEF OneLifecycle
      <4> QED
        BY <4>1, <4>2
    <3> QED
      BY <3>1 DEF OneLifecycle
  <2> QED
    BY <1>2, <2>3, <2>4, <2>5, <2>6 DEF TypeOK
<1> QED
  BY <1>1, <1>2 DEF Publish

-----------------------------------------------------------------------------
(* The invariant *)

LEMMA InitInv == Init => Inv
BY DEF Init, Inv, TypeOK, OneLifecycle, RightUnused, RightOnce, AnnouncedLater, RightKept,
       Says, Handshake, Phases, Events, OneAttempt

(* A step that publishes nothing *)
LEMMA QuietSays ==
  ASSUME UNCHANGED log
  PROVE  /\ \A c, e : Says(c, e)' <=> Says(c, e)
         /\ OneLifecycle => OneLifecycle'
BY DEF Says, OneLifecycle

LEMMA NextInv == Inv /\ [Next]_vars => Inv'
<1> SUFFICES ASSUME Inv, [Next]_vars
             PROVE  Inv'
  OBVIOUS
<1> USE DEF Inv, TypeOK, RightUnused, RightOnce, AnnouncedLater, RightKept, Handshake, Phases, Go
<1>1. ASSUME NEW c \in Conn, Open(c)
      PROVE  Inv'
  <2>1. QueryOf[c] \in Payload \cup {None}
    BY SessionAssumption
  <2>2. \A d \in Conn : VouchedFor(d)' <=> VouchedFor(d)
    BY <1>1 DEF Open, VouchedFor
  <2>3. OneAttempt'
    BY <1>1, <2>2 DEF Open, OneAttempt, Given
  <2> QED
    BY <1>1, <2>1, <2>3, QuietSays DEF Open
<1>2. ASSUME NEW c \in Conn, ResolveAuth(c)
      PROVE  Inv'
  <2>1. PICK p \in Offered(c) : Resolved(c, p)
    BY <1>2 DEF ResolveAuth
  <2>2. p \in Given(c)
    BY <2>1 DEF Offered, OneAttempt, Given
  <2>3. p \in Payload /\ p # None
    BY <2>2, GivenTyped
  <2>4. /\ payload' \in [Conn -> Payload \cup {None}]
        /\ token' \in [Conn -> Token \cup {None}]
        /\ identity' \in [Conn -> Identity \cup {None}]
        /\ OneAttempt'
    <3>1. CASE Refused(c)
      BY <3>1, <1>2, RefusedKeeps DEF ResolveAuth
    <3>2. ASSUME NEW user \in GuestUsers(p), Admit(c, p, user)
          PROVE  <2>4!1 /\ <2>4!2 /\ <2>4!3 /\ <2>4!4
      BY <3>2, <1>2, <2>2, GuestVouched, AdmitKeeps DEF ResolveAuth
    <3>3. CASE /\ GivesToken(p) /\ Go(c, "verify")
               /\ payload' = [payload EXCEPT ![c] = p]
               /\ token' = [token EXCEPT ![c] = p.names]
               /\ UNCHANGED identity
      <4>1. TokenOf(p, p.names) /\ p.names \in Token
        BY <3>3, <2>2, TokenVouched DEF TokenOf
      <4>2. \A d \in Conn : VouchedFor(d)' <=> VouchedFor(d)
        BY <3>3 DEF VouchedFor
      <4> QED
        BY <1>2, <3>3, <2>2, <2>3, <4>1, <4>2 DEF ResolveAuth, OneAttempt
    <3>4. CASE /\ AsksBackend(p) /\ Go(c, "backend")
               /\ payload' = [payload EXCEPT ![c] = p]
               /\ UNCHANGED <<token, identity>>
      <4>1. \A d \in Conn : VouchedFor(d)' <=> VouchedFor(d)
        BY <3>4 DEF VouchedFor
      <4> QED
        BY <1>2, <3>4, <2>2, <2>3, <4>1 DEF ResolveAuth, OneAttempt
    <3> QED
      BY <2>1, <3>1, <3>2, <3>3, <3>4 DEF Resolved
  <2>5. \E q \in {"auth", "admitted", "verify", "backend"} : Go(c, q)
    BY <2>1 DEF Resolved, Refused, Admit
  <2> QED
    BY <1>2, <2>4, <2>5, QuietSays DEF ResolveAuth
<1>3. ASSUME NEW c \in Conn, BackendAnswers(c)
      PROVE  Inv'
  <2>1. PICK t \in Issued : token' = [token EXCEPT ![c] = t]
    BY <1>3 DEF BackendAnswers
  <2>2. t \in Token
    BY SessionAssumption
  <2>3. payload[c] # None /\ AsksBackend(payload[c]) /\ TokenOf(payload[c], t)
    BY <1>3 DEF BackendAnswers, OneAttempt, TokenOf
  <2>4. \A d \in Conn : VouchedFor(d)' <=> VouchedFor(d)
    BY <1>3 DEF BackendAnswers, VouchedFor
  <2>5. OneAttempt'
    BY <1>3, <2>1, <2>3, <2>4 DEF BackendAnswers, OneAttempt
  <2> QED
    BY <1>3, <2>1, <2>2, <2>5, QuietSays DEF BackendAnswers
<1>4. ASSUME NEW c \in Conn, Verify(c)
      PROVE  Inv'
  <2>1. payload[c] \in Given(c) /\ TokenOf(payload[c], token[c])
    BY <1>4 DEF Verify, OneAttempt
  <2>2. /\ payload' \in [Conn -> Payload \cup {None}]
        /\ token' \in [Conn -> Token \cup {None}]
        /\ identity' \in [Conn -> Identity \cup {None}]
        /\ OneAttempt'
    BY <1>4, <2>1, TokenVouched, AdmitKeeps DEF Verify
  <2> QED
    BY <1>4, <2>2, QuietSays DEF Verify, Admit
<1>5. ASSUME NEW c \in Conn, Refuse(c)
      PROVE  Inv'
  <2>1. /\ payload' \in [Conn -> Payload \cup {None}]
        /\ token' \in [Conn -> Token \cup {None}]
        /\ identity' \in [Conn -> Identity \cup {None}]
        /\ OneAttempt'
    BY <1>5, RefusedKeeps DEF Refuse
  <2> QED
    BY <1>5, <2>1, QuietSays DEF Refuse, Refused
<1>6. ASSUME NEW c \in Conn, Register(c)
      PROVE  Inv'
  <2>1. \A d \in Conn : VouchedFor(d)' <=> VouchedFor(d)
    BY <1>6 DEF Register, VouchedFor, auth
  <2>2. OneAttempt'
    BY <1>6, <2>1 DEF Register, OneAttempt, Replaced, auth
  <2> QED
    BY <1>6, <2>2, QuietSays DEF Register, Replaced, auth
<1>7. ASSUME NEW c \in Conn, Greet(c)
      PROVE  Inv'
  <2>1. OneAttempt'
    BY <1>7, LaterKeeps DEF Greet
  <2> QED
    BY <1>7, <2>1, QuietSays DEF Greet, auth
<1>8. ASSUME NEW c \in Conn, Ready(c)
      PROVE  Inv'
  <2>1. OneAttempt'
    BY <1>8, LaterKeeps DEF Ready
  <2> QED
    BY <1>8, <2>1, QuietSays DEF Ready, auth
<1>9. ASSUME NEW c \in Conn, Abort(c)
      PROVE  Inv'
  <2>1. OneAttempt'
    BY <1>9, LaterKeeps DEF Abort, Fails
  <2> QED
    BY <1>9, <2>1, QuietSays DEF Abort, Fails, auth
<1>10. ASSUME NEW c \in Conn, Break(c)
      PROVE  Inv'
  <2>1. OneAttempt'
    BY <1>10, LaterKeeps DEF Break
  <2> QED
    BY <1>10, <2>1, QuietSays DEF Break, auth
<1>11. ASSUME NEW c \in Conn, Unregister(c)
      PROVE  Inv'
  <2>1. OneAttempt'
    BY <1>11, LaterKeeps DEF Unregister, Owns
  <2> QED
    BY <1>11, <2>1, QuietSays DEF Unregister, Owns, auth
<1>12. ASSUME NEW c \in Conn, DeadReceiver(c)
      PROVE  Inv'
  <2>1. OneAttempt'
    BY <1>12, LaterKeeps DEF DeadReceiver
  <2> QED
    BY <1>12, <2>1, QuietSays DEF DeadReceiver, auth
<1>13. ASSUME Prune
      PROVE  Inv'
  <2>1. OneAttempt'
    BY <1>13, LaterKeeps DEF Prune
  <2> QED
    BY <1>13, <2>1, QuietSays DEF Prune, auth
<1>14. ASSUME NEW c \in Conn, Announce(c)
      PROVE  Inv'
  <2>1. Publish(c, "connected") /\ "connected" \in Events /\ {"connected", "disconnected"} = Events
    BY <1>14 DEF Announce, Events
  <2>2. ~Says(c, "connected")
    BY <1>14 DEF Announce
  <2>3. OneAttempt'
    BY <1>14, LaterKeeps DEF Announce
  <2> QED
    BY <1>14, <2>1, <2>2, <2>3, PublishSays DEF Announce, auth
<1>15. ASSUME NEW c \in Conn, Report(c)
      PROVE  Inv'
  <2>1. Publish(c, "disconnected") /\ "disconnected" \in Events /\ {"connected", "disconnected"} = Events
    BY <1>15 DEF Report, Events
  <2>2. ~Says(c, "disconnected")
    BY <1>15 DEF Report
  <2>3. OneAttempt'
    BY <1>15, LaterKeeps DEF Report
  <2> QED
    BY <1>15, <2>1, <2>2, <2>3, PublishSays DEF Report, auth
<1>16. ASSUME NEW c \in Conn, PrunerReport(c)
      PROVE  Inv'
  <2>1. Publish(c, "disconnected") /\ "disconnected" \in Events /\ {"connected", "disconnected"} = Events
    BY <1>16 DEF PrunerReport, Events
  <2>2. ~Says(c, "disconnected")
    BY <1>16 DEF PrunerReport
  <2>3. OneAttempt'
    BY <1>16, LaterKeeps DEF PrunerReport
  <2> QED
    BY <1>16, <2>1, <2>2, <2>3, PublishSays DEF PrunerReport, Left, auth
<1>17. ASSUME UNCHANGED vars
      PROVE  Inv'
  <2>1. OneAttempt'
    BY <1>17, LaterKeeps DEF vars
  <2> QED
    BY <1>17, <2>1, QuietSays DEF vars, auth
<1> QED
  BY <1>1, <1>2, <1>3, <1>4, <1>5, <1>6, <1>7, <1>8, <1>9, <1>10, <1>11, <1>12, <1>13, <1>14, <1>15, <1>16, <1>17 DEF Next, Session

(* The right to publish disconnected is held once, in every reachable state. *)
THEOREM Invariant == Spec => []Inv
BY InitInv, NextInv, PTL DEF Spec

-----------------------------------------------------------------------------
(* TypeOK: the state variables keep their types, and a session that has    *)
(* not authenticated has no connection.                                    *)
THEOREM TypeCorrect == Spec => []TypeOK
<1>1. Inv => TypeOK
  BY DEF Inv
<1> QED
  BY <1>1, Invariant, PTL

(* Nobody publishes connected or disconnected a second time. *)
THEOREM LifecycleOnce == Spec => []OneLifecycle
<1>1. Inv => OneLifecycle
  BY DEF Inv
<1> QED
  BY <1>1, Invariant, PTL

(* The disconnected of an announced session that is over is published, or  *)
(* it is known who has given it up.                                        *)
THEOREM EndsAccounted == Spec => []EndAccounted
<1>1. Inv => EndAccounted
  BY DEF Inv, EndAccounted, RightKept, RightOnce
<1> QED
  BY <1>1, Invariant, PTL

(* Whom the gateway serves is who one payload of its client vouches for, *)
(* and a session that is over has left no connection in the registry.    *)
THEOREM AdmittedOnly == Spec => []OnlyAdmitted
<1>1. Inv => OnlyAdmitted
  BY DEF Inv, TypeOK, OnlyAdmitted, RightOnce, OneAttempt
<1> QED
  BY <1>1, Invariant, PTL
===============================================================================
