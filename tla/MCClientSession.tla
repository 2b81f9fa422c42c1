---------------------------- MODULE MCClientSession ----------------------------
(***************************************************************************)
(* A small instance of ClientSession: three clients, two of them of one    *)
(* tab. The first one has a token without a key id in the query of the     *)
(* URL, then registers with a part of an identity key, or logs in; the     *)
(* backend may give it a token the gateway refuses. The second one has a   *)
(* token that names nobody and a good one. The third one logs in with a    *)
(* key and without a client instance, as the same user, or visits a        *)
(* dropbox, or pairs a device without a token, or says what is no pre-auth *)
(* type.                                                                   *)
(***************************************************************************)
EXTENDS ClientSession, CommandTable

CONSTANTS c1, c2, c3, code, now

Jwt(user, kid, valid) == [user |-> user, kid |-> kid, valid |-> valid]

Offer(type, fields, names, instance) ==
  [type |-> type, fields |-> fields, names |-> names, instance |-> instance]

Gives(jwt, instance) == Offer("auth", {"token"}, jwt, instance)

Asks(type, fields, instance) == Offer(type, fields, None, instance)

Visits(type, field) == Offer(type, {field}, code, "no instance id")

QueryOfClient ==
  [c \in Conn |-> IF c = c1 THEN Gives(Jwt("ann", FALSE, TRUE), "tab") ELSE None]

OffersOfClient ==
  [c \in Conn |->
     IF c = c1 THEN {Asks("auth_register_request", {"name", "email", "password", "key_id"}, "tab"),
                     Asks("auth_login_request", {"email", "password"}, "tab")}
     ELSE IF c = c2 THEN {Gives(Jwt("", TRUE, TRUE), "tab"),
                          Gives(Jwt("ann", TRUE, TRUE), "tab")}
     ELSE {Asks("auth_identity_request", IdentityFields, ""),
           Visits("ping", "slug"), Visits("dropbox_public_auth", "slug"),
           Visits("device_pairing_auth", "slug")}]

IssuedTokens == {Jwt("ann", TRUE, TRUE), Jwt("bob", TRUE, FALSE)}

TableCommands == Table.commands
================================================================================
