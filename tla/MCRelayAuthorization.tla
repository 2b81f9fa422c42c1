------------------------ MODULE MCRelayAuthorization ------------------------
(***************************************************************************)
(* Small instances of RelayAuthorization: one user with two sessions, one  *)
(* transfer whose context the backend grants to bob, revokes, and grants   *)
(* again under a new context_id.                                           *)
(***************************************************************************)
EXTENDS RelayAuthorization, TLC

CONSTANTS alice, mallory, bob, carol, transfer, chunk, s1, s2, nonce1, nonce2, id1, id2

BothAlice == [t \in Session |-> alice]

Grant(user, id, active, version, granted, expires) ==
  [owner |-> user, op |-> transfer, id |-> id, active |-> active, peers |-> {bob},
   version |-> version, grantVersion |-> granted, expires |-> expires]

Granted == Grant(alice, id1, TRUE, 1, 1, 3)
Revoked == Grant(alice, id1, FALSE, 1, 1, 3)
Renewed == Grant(alice, id2, TRUE, 2, 2, 0)     \* expires first
Foreign == Grant(mallory, id1, TRUE, 1, 1, 3)   \* another subject's
Torn    == Grant(alice, id2, TRUE, 2, 1, 3)     \* of an outdated grant

Snapshots == {Granted, Revoked, Renewed, Torn, Foreign}
LongLived == {Granted, Revoked}

(***************************************************************************)
(* The two settings of RelayThreads.cfg.  On two workers the steps         *)
(* interleave, within two seconds and with one nonce.  On one they do not, *)
(* and the time and the nonces suffice for the cache to forget.            *)
(***************************************************************************)
Nonces == {request[t].nonce : t \in {s \in Session : request[s] # Idle}}
Known  == contexts[alice] \cup (IF outbox = Idle THEN {} ELSE outbox.contexts)

Bounded ==
  IF workers = 1 THEN Known \subseteq LongLived /\ policy[alice] <= 1
                 ELSE now <= 1 /\ nonce2 \notin Nonces
=============================================================================
