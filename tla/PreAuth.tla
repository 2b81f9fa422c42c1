------------------------------- MODULE PreAuth -------------------------------
(***************************************************************************)
(* What a client can prove itself with: the payloads the handshake accepts *)
(* (src/src/preauth.rs, src/src/project/preauth_config.rs) and the tokens  *)
(* verify_jwt accepts (src/src/auth.rs).                                   *)
(*                                                                         *)
(* A payload is what these look at: its type, the fields that are not      *)
(* blank (a slug or pairing token that is too long or holds other than the *)
(* allowed characters counts as blank), the token, slug or pairing token   *)
(* it names, and the client instance id.                                   *)
(***************************************************************************)
EXTENDS CommandRegistry

CONSTANTS
  Commands,      \* COMMAND_REGISTRY
  Name,          \* slugs and pairing tokens
  Instance,      \* well-formed client instance ids
  Claim,         \* values of the user id claim of tokens; "" names nobody
  JwtSource,     \* what is configured to verify with: "jwks", "key" or "none"
  Moment,        \* timestamps of guests, in microseconds
  None           \* no token, no payload

IdentityFields == {"key_id", "algorithm", "public_key", "challenge", "signature"}

Fields ==
  {"token", "email", "password", "name", "slug", "pairing_endpoint_token"} \cup IdentityFields

(* A token has a key id or not, and is signed, for this gateway and in time. *)
Token == [user : Claim, kid : BOOLEAN, valid : BOOLEAN]

Payload ==
  [type : STRING, fields : SUBSET Fields, names : Token \cup Name \cup {None},
   instance : STRING]

User == {<<claim>> : claim \in Claim} \cup {<<"pairing", n>> : n \in Name}
          \cup {<<"public-dropbox", n, m>> : n \in Name, m \in Moment}

Identity == [user : User, instance : Instance \cup {""}]

-----------------------------------------------------------------------------
(* resolve_initial_auth *)

IsPreAuth(type) == Named(Commands, type) # {} /\ Resolve(Commands, type).class = "no_auth"

GivesToken(p) == p.type = "auth" /\ "token" \in p.fields

AsksLogin(p) == p.type = "auth_login_request" /\ {"email", "password"} \subseteq p.fields

(* With an identity key or without, but not with a part of one. *)
AsksRegister(p) ==
  /\ p.type = "auth_register_request"
  /\ {"name", "email", "password"} \subseteq p.fields
  /\ p.fields \cap IdentityFields \in {{}, IdentityFields}

AsksIdentity(p) == p.type = "auth_identity_request" /\ IdentityFields \subseteq p.fields

(* resolve_http_path *)
HttpRoutes == {"auth_login_request", "auth_register_request", "auth_identity_request"}

AsksBackend(p) ==
  (AsksLogin(p) \/ AsksRegister(p) \/ AsksIdentity(p)) /\ p.type \in HttpRoutes

VisitsDropbox(p) == p.type = "dropbox_public_auth" /\ "slug" \in p.fields

PairsDevice(p) == p.type = "device_pairing_auth" /\ "pairing_endpoint_token" \in p.fields

(* Guests need no token; the user id of a dropbox guest has the time in it. *)
GuestUsers(p) ==
  IF VisitsDropbox(p) THEN {<<"public-dropbox", p.names, m>> : m \in Moment}
  ELSE IF PairsDevice(p) THEN {<<"pairing", p.names>>}
  ELSE {}

Accepts(p) ==
  IsPreAuth(p.type) /\ (GivesToken(p) \/ AsksBackend(p) \/ GuestUsers(p) # {})

(* What the handshake makes of the client instance id. *)
Cleared(p) == IF p.instance \in Instance THEN p.instance ELSE ""

-----------------------------------------------------------------------------
(* verify_jwt, and the claim that must name somebody. *)

VerifyJwt(t) ==
  /\ t.valid
  /\ JwtSource = "key" \/ (JwtSource = "jwks" /\ t.kid)

UserOf(t) == <<t.user>>

Admits(t) == VerifyJwt(t) /\ t.user # ""

(* Who a client may be by a payload, the backend answering with any token. *)
Vouched(p, issued) ==
  {[user |-> u, instance |-> Cleared(p)] :
     u \in GuestUsers(p)
             \cup {UserOf(t) : t \in {x \in IF GivesToken(p) THEN {p.names}
                                            ELSE IF AsksBackend(p) THEN issued
                                            ELSE {} : Admits(x)}}}
=============================================================================
