-------------------------- MODULE CommandRegistry --------------------------
(***************************************************************************)
(* The command registry (src/src/routes.rs): what a command spec and the   *)
(* relay authorization metadata of a command say, how they are found, and  *)
(* what validate_command_registry accepts at startup.  A registry is a     *)
(* sequence of specs and one of authorization entries, as in the code.     *)
(*                                                                         *)
(* There is one relay context type, one audience mode in use and one guard *)
(* class, so those fields of the metadata distinguish nothing.             *)
(***************************************************************************)
EXTENDS Naturals, Sequences

RoutingClass == {"no_auth", "gateway_local", "relay_hotpath", "backend_control"}

SemanticType == {"command", "query", "event", "signal", "technical"}

CommandSpec(Name) ==
  [name : Name, class : RoutingClass, type : SemanticType, mirror : BOOLEAN]

RelayAuthorization(Name) ==
  [name : Name, context : BOOLEAN, family : STRING, key : STRING]

Registry(Name) ==
  [commands : Seq(CommandSpec(Name)), relay : Seq(RelayAuthorization(Name))]

(* The entries of a name. *)
Named(entries, name) == {i \in DOMAIN entries : entries[i].name = name}

(* resolve_command_spec, resolve_relay_authorization_spec: the first. *)
Resolve(entries, name) ==
  entries[CHOOSE i \in Named(entries, name) : \A j \in Named(entries, name) : i <= j]

(***************************************************************************)
(* validate_command_registry, one rule per check of the code.              *)
(***************************************************************************)
NamesUnique(commands) ==
  \A i \in DOMAIN commands : commands[i].name # "" /\ Named(commands, commands[i].name) = {i}

ClassConsistent(spec) ==
  /\ spec.type # "event"
  /\ spec.class \in {"no_auth", "gateway_local"} <=> spec.type = "technical"
  /\ spec.mirror => spec.class = "relay_hotpath"

RelayAuthorized(spec, relay) ==
  IF spec.class # "relay_hotpath" THEN Named(relay, spec.name) = {}
  ELSE /\ Named(relay, spec.name) # {}
       /\ Resolve(relay, spec.name).family # ""
       /\ Resolve(relay, spec.name).key # ""

Valid(registry) ==
  /\ NamesUnique(registry.commands)
  /\ \A i \in DOMAIN registry.commands :
       /\ ClassConsistent(registry.commands[i])
       /\ RelayAuthorized(registry.commands[i], registry.relay)
=============================================================================
