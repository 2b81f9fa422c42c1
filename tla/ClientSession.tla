---------------------------- MODULE ClientSession ----------------------------
(***************************************************************************)
(* The life of a client session (src/src/transport/websocket.rs and        *)
(* webtransport.rs) and the lifecycle events the gateway adds to the       *)
(* events stream: a session authenticates, registers its connection,       *)
(* greets the client, publishes connected, serves the connection,          *)
(* unregisters it and publishes disconnected.  Others unregister           *)
(* connections too: the pruner (src/src/main.rs:54-81), which publishes    *)
(* disconnected itself, sessions that register or become ready, and a      *)
(* dispatch that meets a dead receiver.  unregister_connection returns the *)
(* connection's info to the first of them, and only who has it can         *)
(* publish disconnected.                                                   *)
(*                                                                         *)
(* What a payload or a token is worth is in PreAuth.  How the registry     *)
(* works inside, and which of the ready ones a ready session evicts, is in *)
(* ConnectionRegistry; here a call of it is one step.  A session gives up  *)
(* its worker thread where it awaits, so that every phase but "over" is an *)
(* await.                                                                  *)
(***************************************************************************)
EXTENDS PreAuth, Integers, FiniteSets

CONSTANTS
  Conn,          \* connection ids, each used by one session
  QueryOf,       \* the payload made of the query of the URL, or None
  Offers,        \* the payloads the client of a connection may send
  Issued,        \* the tokens the auth backend may answer with
  Workers        \* worker threads of the runtime

ASSUME SessionAssumption ==
  /\ Workers \in Nat \ {0}
  /\ QueryOf \in [Conn -> Payload \cup {None}]
  /\ Offers \in [Conn -> SUBSET Payload]
  /\ Issued \subseteq Token
  /\ None \notin Payload \cup Identity \cup Token
  /\ \A c \in Conn : \A p \in Offers[c] \cup ({QueryOf[c]} \ {None}) :
       /\ GivesToken(p) => p.names \in Token
       /\ VisitsDropbox(p) \/ PairsDevice(p) => p.names \in Name

VARIABLES
  phase,         \* where a session is
  payload,       \* the auth payload it has in hand, or None
  token,         \* the token it verifies, or None
  identity,      \* who its client is, None before that is known
  registered,    \* the keys of GatewayState.connections
  log,           \* the events of a connection, in the order of the stream
  pruned,        \* the infos the pruner has still to publish
  dropped,       \* history: connections whose info was returned and dropped
  unpublished    \* history: connections with an event that failed to publish

auth == <<payload, token, identity>>
vars == <<phase, auth, registered, log, pruned, dropped, unpublished>>

Handshake == {"new", "auth", "backend", "verify", "admitted"}

Phases == Handshake \cup {"greet", "announce", "serve", "over", "report", "done"}

Events == {"connected", "disconnected"}

(* Type invariant; the phases before the registration have no handle. *)
TypeOK ==
  /\ phase \in [Conn -> Phases]
  /\ payload \in [Conn -> Payload \cup {None}]
  /\ token \in [Conn -> Token \cup {None}]
  /\ identity \in [Conn -> Identity \cup {None}]
  /\ registered \subseteq Conn
  /\ \A c \in registered : phase[c] \notin Handshake
  /\ log \in [Conn -> Seq(Events)]
  /\ pruned \subseteq Conn
  /\ dropped \subseteq Conn
  /\ unpublished \subseteq Conn

Init ==
  /\ phase = [c \in Conn |-> "new"]
  /\ payload = [c \in Conn |-> None]
  /\ token = [c \in Conn |-> None]
  /\ identity = [c \in Conn |-> None]
  /\ registered = {}
  /\ log = [c \in Conn |-> <<>>]
  /\ pruned = {}
  /\ dropped = {}
  /\ unpublished = {}

Go(c, p) == phase' = [phase EXCEPT ![c] = p]

WorkerFree == Cardinality({c \in Conn : phase[c] = "over"}) < Workers

(* publish_event, whose result everybody ignores: the event is added to *)
(* the stream or not.                                                   *)
Publish(c, event) ==
  \/ log' = [log EXCEPT ![c] = Append(@, event)] /\ UNCHANGED unpublished
  \/ unpublished' = unpublished \cup {c} /\ UNCHANGED log

-----------------------------------------------------------------------------
(* authenticate_socket, authenticate_connection *)

(* A token in the query of the URL is tried first. *)
Open(c) ==
  /\ phase[c] = "new"
  /\ WorkerFree
  /\ Go(c, "auth")
  /\ payload' = [payload EXCEPT ![c] = QueryOf[c]]
  /\ UNCHANGED <<token, identity, registered, log, pruned, dropped, unpublished>>

Offered(c) == IF payload[c] = None THEN Offers[c] ELSE {payload[c]}

(* The client is known: of the payload only the instance id is left. *)
Admit(c, p, user) ==
  /\ Go(c, "admitted")
  /\ identity' = [identity EXCEPT ![c] = [user |-> user, instance |-> Cleared(p)]]
  /\ payload' = [payload EXCEPT ![c] = None]
  /\ token' = [token EXCEPT ![c] = None]

(* An auth_error; the client may try again, without end. *)
Refused(c) ==
  /\ Go(c, "auth")
  /\ payload' = [payload EXCEPT ![c] = None]
  /\ token' = [token EXCEPT ![c] = None]
  /\ UNCHANGED identity

(* A payload is resolved: a guest needs no token, the token of an auth     *)
(* payload is verified at once, and the other requests get one from the    *)
(* backend first.                                                          *)
Resolved(c, p) ==
  \/ ~Accepts(p) /\ Refused(c)
  \/ Accepts(p) /\ \E user \in GuestUsers(p) : Admit(c, p, user)
  \/ /\ Accepts(p) /\ GivesToken(p)
     /\ Go(c, "verify")
     /\ payload' = [payload EXCEPT ![c] = p]
     /\ token' = [token EXCEPT ![c] = p.names]
     /\ UNCHANGED identity
  \/ /\ Accepts(p) /\ AsksBackend(p)
     /\ Go(c, "backend")
     /\ payload' = [payload EXCEPT ![c] = p]
     /\ UNCHANGED <<token, identity>>

ResolveAuth(c) ==
  /\ phase[c] = "auth"
  /\ WorkerFree
  /\ \E p \in Offered(c) : Resolved(c, p)
  /\ UNCHANGED <<registered, log, pruned, dropped, unpublished>>

BackendTrusted(c) ==  \* mutant: the token of the backend is not verified
  /\ phase[c] = "backend"
  /\ WorkerFree
  /\ \E t \in Issued : Admit(c, payload[c], UserOf(t))
  /\ UNCHANGED <<registered, log, pruned, dropped, unpublished>>

(* authenticate_via_http returns a token. *)
BackendAnswers(c) ==
  /\ phase[c] = "backend"
  /\ WorkerFree
  /\ Go(c, "verify")
  /\ \E t \in Issued : token' = [token EXCEPT ![c] = t]
  /\ UNCHANGED <<payload, identity, registered, log, pruned, dropped, unpublished>>

(* verify_jwt, which may fetch the key set, finds a user. *)
Verify(c) ==
  /\ phase[c] = "verify"
  /\ WorkerFree
  /\ Admits(token[c])
  /\ Admit(c, payload[c], UserOf(token[c]))
  /\ UNCHANGED <<registered, log, pruned, dropped, unpublished>>

(* The backend refuses or does not answer, the key set does not come, or   *)
(* the token is not valid.                                                 *)
Refuse(c) ==
  /\ phase[c] \in {"backend", "verify"}
  /\ WorkerFree
  /\ Refused(c)
  /\ UNCHANGED <<registered, log, pruned, dropped, unpublished>>

(* The user is known: register_connection, which unregisters those of the  *)
(* same client instance; its caller at most logs how many.                 *)
Replaced(c) ==
  {d \in registered : identity[c].instance # "" /\ identity[d] = identity[c]}

Register(c) ==
  /\ phase[c] = "admitted"
  /\ WorkerFree
  /\ registered' = (registered \ Replaced(c)) \cup {c}
  /\ dropped' = dropped \cup Replaced(c)
  /\ Go(c, "greet")
  /\ UNCHANGED <<auth, log, pruned, unpublished>>

-----------------------------------------------------------------------------
(* handle_socket_impl, handle_incoming_session *)

(* The success payload and auth_ok have been sent. *)
Greet(c) ==
  /\ phase[c] = "greet"
  /\ WorkerFree
  /\ Go(c, "announce")
  /\ UNCHANGED <<auth, registered, log, pruned, dropped, unpublished>>

Announce(c) ==
  /\ phase[c] = "announce"
  /\ WorkerFree
  /\ Publish(c, "connected")
  /\ Go(c, "serve")
  /\ UNCHANGED <<auth, registered, pruned, dropped>>

(* session_ready with a limit: mark_session_ready evicts others that are   *)
(* ready; its caller drops their infos.  (One that is not registered any   *)
(* more does not count, and evicts nobody.)                                *)
Ready(c) ==
  /\ phase[c] = "serve" /\ c \in registered
  /\ WorkerFree
  /\ \E d \in registered \ {c} :
       /\ identity[d].user = identity[c].user /\ phase[d] \in {"serve", "over"}
       /\ registered' = registered \ {d}
       /\ dropped' = dropped \cup {d}
  /\ UNCHANGED <<phase, auth, log, pruned, unpublished>>

FailsRetry(c) == Go(c, "auth")  \* mutant: back to the handshake

FailsOnly(c) == Go(c, "done")  \* mutant: the error skips the end

Fails(c) == Go(c, "over")

(* The client is gone, or says what is no JSON: a read of the handshake or *)
(* a write of the greeting fails, and the error is returned.               *)
Abort(c) ==
  /\ phase[c] = "greet" \/ (phase[c] = "auth" /\ payload[c] = None)
  /\ WorkerFree
  /\ Fails(c)
  /\ UNCHANGED <<auth, registered, log, pruned, dropped, unpublished>>

(* The loop breaks: the client has closed, a read or a write has failed,   *)
(* or the channel says that the handle is gone.  The receiver is dropped.  *)
Break(c) ==
  /\ phase[c] = "serve"
  /\ WorkerFree
  /\ Go(c, "over")
  /\ UNCHANGED <<auth, registered, log, pruned, dropped, unpublished>>

OwnsAlways(c) == phase[c] = "over"  \* mutant: publishes whatever unregister returns

(* unregister_connection returns Some *)
Owns(c) == c \in registered

Unregister(c) ==
  /\ phase[c] = "over"
  /\ Go(c, IF Owns(c) THEN "report" ELSE "done")
  /\ registered' = registered \ {c}
  /\ UNCHANGED <<auth, log, pruned, dropped, unpublished>>

Report(c) ==
  /\ phase[c] = "report"
  /\ WorkerFree
  /\ Publish(c, "disconnected")
  /\ Go(c, "done")
  /\ UNCHANGED <<auth, registered, pruned, dropped>>

-----------------------------------------------------------------------------
(* Others *)

(* send_to_subjects and send_to_connection drop the info of a connection *)
(* whose receiver is dead.                                               *)
DeadReceiver(c) ==
  /\ phase[c] = "over"
  /\ c \in registered
  /\ WorkerFree
  /\ registered' = registered \ {c}
  /\ dropped' = dropped \cup {c}
  /\ UNCHANGED <<phase, auth, log, pruned, unpublished>>

(* prune_stale_connections; the next tick comes after the last event. *)
Prune ==
  /\ pruned = {}
  /\ WorkerFree
  /\ \E stale \in (SUBSET registered) \ {{}} :
       /\ pruned' = stale
       /\ registered' = registered \ stale
  /\ UNCHANGED <<phase, auth, log, dropped, unpublished>>

LeftIfPublished(c) == IF c \in unpublished' THEN {} ELSE pruned \ {c}  \* mutant: ? for let _ =

Left(c) == pruned \ {c}

PrunerReport(c) ==
  /\ c \in pruned
  /\ WorkerFree
  /\ Publish(c, "disconnected")
  /\ pruned' = Left(c)
  /\ UNCHANGED <<phase, auth, registered, dropped>>

-----------------------------------------------------------------------------
Session(c) ==
  \/ Open(c) \/ ResolveAuth(c) \/ BackendAnswers(c) \/ Verify(c) \/ Refuse(c) \/ Register(c)
  \/ Greet(c) \/ Announce(c) \/ Ready(c)
  \/ Abort(c) \/ Break(c) \/ Unregister(c) \/ Report(c)

Next ==
  \/ \E c \in Conn : Session(c) \/ DeadReceiver(c) \/ PrunerReport(c)
  \/ Prune

Spec == Init /\ [][Next]_vars

(* Fairness: a thread that is in a method keeps running it, and the pruner *)
(* publishes what it has in hand: a publication is answered or fails.  No  *)
(* write to a client is assumed to end.                                    *)
FairSpec ==
  /\ Spec
  /\ \A c \in Conn : WF_vars(Unregister(c)) /\ WF_vars(PrunerReport(c))

-----------------------------------------------------------------------------
Says(c, event) == \E i \in DOMAIN log[c] : log[c][i] = event

(***************************************************************************)
(* However sessions, the pruner, evicting sessions and dispatches meet in  *)
(* unregister_connection, the events of a connection hold at most one      *)
(* connected and one disconnected (src/src/state.rs:793-820).              *)
(***************************************************************************)
OneLifecycle ==
  \A c \in Conn : \A i, j \in DOMAIN log[c] : log[c][i] = log[c][j] => i = j

(***************************************************************************)
(* The end of an announced session is published, unless somebody has       *)
(* dropped the info, the publication has failed, or the pruner has it      *)
(* still in hand (src/src/transport/websocket.rs:95-106, src/src/main.rs:  *)
(* 54-81).                                                                 *)
(***************************************************************************)
EndAccounted ==
  \A c \in Conn :
    phase[c] = "done" /\ Says(c, "connected")
      => Says(c, "disconnected") \/ c \in pruned \cup dropped \cup unpublished

(* A payload the client has or may send makes it who it is taken for. *)
VouchedFor(c) ==
  \E p \in Offers[c] \cup ({QueryOf[c]} \ {None}) : identity[c] \in Vouched(p, Issued)

(***************************************************************************)
(* Whatever attempts a client has made, and on whatever path its session   *)
(* ends, the gateway serves a connection only while the session lasts, and *)
(* as somebody one payload of the client vouches for, under the client     *)
(* instance of that payload: a guest, or the user of a token that has been *)
(* verified, wherever it came from (src/src/transport/websocket.rs:93-95,  *)
(* 229-314).                                                               *)
(***************************************************************************)
OnlyAdmitted == \A c \in registered : phase[c] # "done" /\ VouchedFor(c)

(***************************************************************************)
(* A connection that was taken out of the registry while its session ran   *)
(* is reported by the pruner that took it, sooner or later, even when      *)
(* publications fail (src/src/main.rs:67-81).                              *)
(***************************************************************************)
PrunedReported ==
  \A c \in Conn : c \in pruned ~> Says(c, "disconnected") \/ c \in unpublished

(***************************************************************************)
(* README.md:23 and 59-60: the lifecycle of a connection goes to the       *)
(* events stream, as connected and disconnected.  So for a session that    *)
(* was announced and is over, if no publication fails, disconnected        *)
(* follows in the end.                                                     *)
(***************************************************************************)
EndPublished ==
  \A c \in Conn :
    phase[c] = "done" /\ Says(c, "connected")
      ~> Says(c, "disconnected") \/ c \in unpublished
==============================================================================
