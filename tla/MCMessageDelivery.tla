------------------------- MODULE MCMessageDelivery -------------------------
(***************************************************************************)
(* Small instances of MessageDelivery: a user whose id and normalized id   *)
(* differ, and so is found under two subjects, with a tab that reconnects. *)
(***************************************************************************)
EXTENDS MessageDelivery, TLC

CONSTANTS outbox, c1, c2, raw, normal, tab1, tab2

BothSubjects == [c \in Conn |-> <<raw, normal>>]
Tabs         == [c \in Conn |-> IF c = c1 THEN tab1 ELSE tab2]
RelayOrRaw   == {{raw, normal}, {raw}}   \* append_target_variants names both

(* On two workers two messages are dispatched within the first second: the *)
(* full queues and the clock are explored on one.                          *)
Bounded == workers = 1 \/ (addressed[3] = {} /\ now = 0)
=============================================================================
