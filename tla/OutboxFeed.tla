------------------------------ MODULE OutboxFeed ------------------------------
(***************************************************************************)
(* What the outbox consumer promises of the stream it follows: entries are *)
(* handled in the order of the stream, none twice, whatever restarts; and  *)
(* once an incarnation of the consumer has got hold of one entry, it       *)
(* passes over none after it.  Where it gets hold is not promised.         *)
(***************************************************************************)
EXTENDS Integers, Sequences

CONSTANTS
  Kind,          \* kinds of entries
  Bad,           \* the kinds that cannot be handled
  Loose          \* no position

VARIABLES
  stream,        \* the kinds of the entries; an entry is its position
  handled,       \* the entries handled, in the order they were
  cursor         \* the last entry this incarnation has seen, or Loose

feed == <<stream, handled, cursor>>

Init ==
  /\ stream = <<>>
  /\ handled = <<>>
  /\ cursor = Loose

Add(k) ==
  /\ stream' = Append(stream, k)
  /\ UNCHANGED <<handled, cursor>>

(* The first entry after a start may be any later than all handled before. *)
Follows(n) ==
  IF cursor = Loose THEN \A i \in DOMAIN handled : handled[i] < n ELSE n = cursor + 1

See(n) ==
  /\ n \in DOMAIN stream
  /\ Follows(n)
  /\ cursor' = n
  /\ handled' = IF stream[n] \in Bad THEN handled ELSE Append(handled, n)
  /\ UNCHANGED stream

Restart ==
  /\ cursor' = Loose
  /\ UNCHANGED <<stream, handled>>

Next ==
  \/ \E k \in Kind : Add(k)
  \/ \E n \in DOMAIN stream : See(n)
  \/ Restart

Spec == Init /\ [][Next]_feed
===============================================================================
