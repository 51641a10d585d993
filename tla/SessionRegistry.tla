-------------------------- MODULE SessionRegistry --------------------------
(***************************************************************************)
(* What Plexio's session store promises to the clients of its HTTP API,    *)
(* said without a database, a lock or a connection: a registry of install  *)
(* configurations that only ever contains what survives a crash.           *)
(*                                                                         *)
(* Every step is atomic and durable.  SessionStore is shown to implement   *)
(* this module under the mapping given there.                              *)
(***************************************************************************)
EXTENDS Integers, FiniteSets

CONSTANTS
  Ids,          (* session ids that can ever be minted                      *)
  Configs,      (* addon configurations                                     *)
  MaxSessions,  (* settings.max_sessions                                    *)
  Legacy        (* ids stored by releases that did not deduplicate          *)

VARIABLES
  sessions,     (* id -> configuration, for the sessions that are durable   *)
  spent,        (* ids that may not be handed out (again)                   *)
  doomed,       (* ids whose revocation was attempted                       *)
  told,         (* [id, cfg] pairs a client has been answered with          *)
  revoked       (* ids whose revocation was answered with success           *)

rvars == <<sessions, spent, doomed, told, revoked>>

RegistryInit ==
  /\ sessions \in [Legacy -> Configs]
  /\ spent = Legacy
  /\ doomed = {}
  /\ told = {}
  /\ revoked = {}

(* What is durable changes: sessions whose revocation was attempted leave,  *)
(* and at most one session joins, under an id never used before, for a      *)
(* configuration no other deduplicated session holds, below the capacity.   *)
Persist ==
  LET joined == DOMAIN sessions' \ DOMAIN sessions
      left   == DOMAIN sessions \ DOMAIN sessions'
  IN  /\ left \subseteq doomed
      /\ \A i \in DOMAIN sessions \cap DOMAIN sessions' : sessions'[i] = sessions[i]
      /\ \A i, j \in joined : i = j
      /\ \A i \in joined :
           /\ i \in Ids \ spent
           /\ sessions'[i] \in Configs
           /\ Cardinality(DOMAIN sessions') =< MaxSessions
           /\ \A j \in DOMAIN sessions' \ (Legacy \cup {i}) :
                sessions'[j] # sessions'[i]
      /\ spent' = spent \cup joined

(* A client learns that id i stands for configuration c.                    *)
Tell(i, c) ==
  /\ i \in DOMAIN sessions' \/ i \in doomed
  /\ i \in DOMAIN sessions' => sessions'[i] = c
  /\ told' = told \cup {[id |-> i, cfg |-> c]}
  /\ UNCHANGED revoked

(* An administrator learns that id i is gone.                               *)
Confirm(i) ==
  /\ i \in doomed
  /\ i \notin DOMAIN sessions'
  /\ revoked' = revoked \cup {i}
  /\ UNCHANGED told

TellNothing == UNCHANGED <<told, revoked>>

(* Any request may make what is pending durable, and is then answered.      *)
Commit ==
  /\ Persist
  /\ \/ \E i \in Ids, c \in Configs : Tell(i, c)
     \/ \E i \in Ids : Confirm(i)
     \/ TellNothing
  /\ UNCHANGED doomed

(* A revocation is attempted; nothing durable changes yet.                  *)
Doom ==
  /\ \E i \in Ids : doomed' = doomed \cup {i}
  /\ spent \subseteq spent'
  /\ UNCHANGED <<sessions, told, revoked>>

(* Ids that were drawn but whose session was lost are never used again.     *)
Waste ==
  /\ spent \subseteq spent'
  /\ UNCHANGED <<sessions, doomed, told, revoked>>

RegistryNext == Commit \/ Doom \/ Waste

RegistrySpec == RegistryInit /\ [][RegistryNext]_rvars
=============================================================================
