--------------------------- MODULE CommandContract ---------------------------
(***************************************************************************)
(* What the gateway promises of the commands of its clients: a session     *)
(* takes them one by one; what the peers and the backend's inbox get of a  *)
(* session is in the order it was taken, each command at most once on      *)
(* either way, a mirrored one at the peers first; and a command that is    *)
(* answered with an error has reached neither.                             *)
(***************************************************************************)
EXTENDS Naturals, Sequences

CONSTANTS Conn   \* sessions, by their connection

VARIABLES
  taken,         \* how many commands a session has taken
  relayed,       \* the commands dispatched to peers, <<session, number>>
  inbox,         \* the commands in the backend's inbox
  refused        \* the current command of a session was answered with an error

vars == <<taken, relayed, inbox, refused>>

Current(c) == <<c, taken[c]>>

In(command, s) == \E i \in DOMAIN s : s[i] = command

Init ==
  /\ taken = [c \in Conn |-> 0]
  /\ relayed = <<>>
  /\ inbox = <<>>
  /\ refused = [c \in Conn |-> FALSE]

(* A command may be refused as it is taken. *)
Take(c) ==
  /\ taken' = [taken EXCEPT ![c] = @ + 1]
  /\ refused' \in {[refused EXCEPT ![c] = now] : now \in BOOLEAN}
  /\ UNCHANGED <<relayed, inbox>>

Untouched(c) == taken[c] > 0 /\ ~In(Current(c), inbox) /\ ~refused[c]

Relay(c) ==
  /\ Untouched(c) /\ ~In(Current(c), relayed)
  /\ relayed' = Append(relayed, Current(c))
  /\ UNCHANGED <<taken, inbox, refused>>

Publish(c) ==
  /\ Untouched(c)
  /\ inbox' = Append(inbox, Current(c))
  /\ UNCHANGED <<taken, relayed, refused>>

Refuse(c) ==
  /\ Untouched(c) /\ ~In(Current(c), relayed)
  /\ refused' = [refused EXCEPT ![c] = TRUE]
  /\ UNCHANGED <<taken, relayed, inbox>>

Next == \E c \in Conn : Take(c) \/ Relay(c) \/ Publish(c) \/ Refuse(c)

Spec == Init /\ [][Next]_vars
=============================================================================
