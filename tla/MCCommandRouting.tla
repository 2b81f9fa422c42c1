-------------------------- MODULE MCCommandRouting --------------------------
(***************************************************************************)
(* A small instance of CommandRouting: the registry of the gateway and     *)
(* three that must not start, and a message of each kind the handler       *)
(* tells apart.                                                            *)
(***************************************************************************)
EXTENDS CommandRouting, CommandTable

CONSTANTS c1, c2, r1

Types ==
  {"raw", "echo"} \cup {Table.commands[i].name : i \in DOMAIN Table.commands}

Say(type, request) == [type |-> type, request |-> request, targets |-> FALSE, key |-> FALSE]

Send(type, request, targets, key) ==
  [type |-> type, request |-> request, targets |-> targets, key |-> key]

Samples ==
  {Say("raw", None), Say("ping", None), Say("auth", None), Say("session_ready", None),
   Say("chat_message_send", r1), Say("file_transfer_chunk", None),
   Send("file_transfer_offer", r1, TRUE, TRUE), Send("file_transfer_offer", None, FALSE, TRUE),
   Send("file_transfer_accept", r1, TRUE, TRUE), Send("file_transfer_chunk", None, TRUE, TRUE),
   Send("file_transfer_chunk", None, TRUE, FALSE)}

TwoAndOne == [c \in Conn |-> IF c = c1 THEN 2 ELSE 1]

Builds == {"released", "twice", "unchecked", "mirrored"}

RegistryOfBuild ==
  [released  |-> Table,
   twice     |-> [Table EXCEPT !.commands = @ \o GuestCommands],
   unchecked |-> [Table EXCEPT !.relay = Tail(@)],
   mirrored  |-> [Table EXCEPT !.commands =
                    @ \o Rows("backend_control", "query", TRUE, <<"echo">>)]]
=============================================================================
