------------------------ MODULE MCConnectionRegistry ------------------------
(***************************************************************************)
(* Small instances of ConnectionRegistry.                                  *)
(*                                                                         *)
(* Tabs: user "Alice", indexed under "user:Alice" and "user:alice"         *)
(* (websocket.rs:123); c1 and c2 are connections of one browser tab, c3    *)
(* and c4 have no client_instance_id.                                      *)
(* OneUser: one user; every connection has its own tab.                    *)
(***************************************************************************)
EXTENDS ConnectionRegistry, TLC

CONSTANTS c1, c2, c3, c4, Alice, alice, tab

Two   == {c1, c2}
Four  == {c1, c2, c3, c4}

TabsUser     == [c \in Conn |-> Alice]
TabsInstance == [c \in Conn |-> IF c \in {c1, c2} THEN tab ELSE NoInstance]
TabsSubjects == [c \in Conn |-> Subject]

OneUserUser     == [c \in Conn |-> alice]
OneUserInstance == [c \in Conn |-> c]
OneUserSubjects == [c \in Conn |-> {alice}]

(* Sound for OneUser: its constants treat all connections alike. *)
Alike == Permutations(Conn)

(* Sound for Tabs: they treat c1 like c2 and c3 like c4. *)
TabsAlike == {p @@ q : p \in Permutations({c1, c2}), q \in Permutations({c3, c4})}

(* At most three of the four are opened: both of the tab and another, or   *)
(* one of the tab and two others, all of which may be ready at once.       *)
ThreeOpened == Cardinality({c \in Conn : session[c] # "new"}) <= 3
=============================================================================
