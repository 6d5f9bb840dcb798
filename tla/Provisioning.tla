---------------------------- MODULE Provisioning ----------------------------
(***************************************************************************)
(* The registration of a resource and the messages of its source, in       *)
(* parallel: ResourceRegistry.register may come at any step between        *)
(* require, the normalization of a message and the upsert of its offers.   *)
(* The registry of PostgreSQL (Durable) takes the stored offers of the     *)
(* resource away with the record they were made from, the one in memory    *)
(* does not know the offers.                                               *)
(***************************************************************************)
EXTENDS PebcNormalization

CONSTANTS
  Durable,
  Records,     \* what may be registered for the resource
  Owners,      \* tenant and zone, as a record and a message name them
  MaxMessages  \* bound on the messages of the source

ASSUME ProvisioningAssumption ==
  /\ Durable \in BOOLEAN /\ MaxMessages \in Nat
  /\ Records \subseteq [version : Nat \ {0}, owner : Owners,
                        enabled : BOOLEAN, envelope : Envelopes]
  /\ None \notin Records

VARIABLES
  registry,     \* the record of the resource, or None
  message,      \* number of messages received; the source's position
  required,     \* the record the running normalization has read
  handed,       \* starts of its offers that have been stored
  shelf,        \* the stored offers: start, version and position
  position,     \* of the stored offers, 0 before the first
  disconnected,
  registered,   \* ghost: every record that was ever current
  overtaken     \* ghost: registered after require and before the first upsert

ingestion == <<message, required, handed>>
store == <<shelf, position, disconnected>>
all == <<vars, registry, ingestion, store, registered, overtaken>>

ProvisioningInit ==
  /\ Init
  /\ registry = None /\ message = 0 /\ required = None /\ handed = {}
  /\ shelf = {} /\ position = 0 /\ disconnected = FALSE
  /\ registered = {} /\ overtaken = FALSE

-----------------------------------------------------------------------------
(* Mutant of Accepted: a version may be registered again with new content. *)
AcceptedAgain(r) == registry # None => r.version >= registry.version

(* Otherwise the record is stale, in conflict, or the same again. *)
Accepted(r) == registry # None => r.version > registry.version

(* Mutant of Withdrawn: the registry leaves the offers alone. *)
WithdrawnNever == FALSE

Withdrawn == Durable /\ registry # None

Register(r) ==
  /\ Accepted(r)
  /\ registry' = r
  /\ registered' = registered \cup {r}
  /\ IF Withdrawn
       THEN /\ shelf' = {}
            /\ disconnected' = (disconnected \/ shelf # {})
       ELSE UNCHANGED <<shelf, disconnected>>
  /\ overtaken' = (overtaken \/ (phase # "idle" /\ handed = {}))
  /\ UNCHANGED <<vars, ingestion, position>>

-----------------------------------------------------------------------------
(* Unknown, disabled, or of another tenant or zone otherwise: an error. *)
Provisioned(owner) ==
  registry # None /\ registry.enabled /\ registry.owner = owner

Receive(owner, m) ==
  /\ message < MaxMessages
  /\ Provisioned(owner)
  /\ Begin(registry.envelope, m)
  /\ message' = message + 1
  /\ required' = registry
  /\ overtaken' = FALSE
  /\ UNCHANGED <<registry, handed, store, registered>>

Step == Normalize /\ UNCHANGED <<registry, ingestion, store, registered, overtaken>>

Waiting == {o.start : o \in offers} \ handed

(* A withdrawal at this position ends the loop of the caller. *)
Refused == disconnected /\ message <= position

(* Mutant of Remaining: offers of earlier positions are left. *)
RemainingAll == shelf

Remaining == {o \in shelf : o.position = message}

Upsert ==
  /\ phase = "done" /\ Waiting # {} /\ ~Refused
  /\ LET o == [start |-> Min(Waiting), version |-> required.version,
               position |-> message, overtaken |-> overtaken]
     IN  /\ shelf' = Remaining \cup {o}
         /\ handed' = handed \cup {o.start}
  /\ position' = message
  /\ disconnected' = FALSE
  /\ UNCHANGED <<vars, registry, message, required, registered, overtaken>>

Return ==
  /\ phase \in {"done", "refused"}
  /\ Waiting = {} \/ Refused
  /\ Leave("idle")
  /\ required' = None /\ handed' = {}
  /\ UNCHANGED <<registry, message, store, registered, overtaken>>

ProvisioningNext ==
  \/ \E r \in Records : Register(r)
  \/ \E owner \in Owners, m \in Messages : Receive(owner, m)
  \/ Step
  \/ Upsert
  \/ Return

ProvisioningSpec == ProvisioningInit /\ [][ProvisioningNext]_all

-----------------------------------------------------------------------------
(* Types of the state; no offer is stored by a position to come.           *)
ProvisioningTypeOK ==
  /\ TypeOK
  /\ registry \in Records \cup {None}
  /\ required \in Records \cup {None}
  /\ (required = None) = (phase = "idle")
  /\ message \in 0..MaxMessages /\ position \in 0..message
  /\ handed \subseteq Nat
  /\ disconnected \in BOOLEAN /\ overtaken \in BOOLEAN
  /\ registered \subseteq Records
  /\ shelf \subseteq [start : Nat, version : Nat, position : {position},
                      overtaken : BOOLEAN]

(* Whoever has read a version of the resource knows its envelope: no two   *)
(* records are ever current under one version, and none comes back         *)
(* (resources.py:91-104, postgres.py:221-235).                             *)
VersionNamesOneRecord ==
  /\ \A r, s \in registered : r.version = s.version => r = s
  /\ \A r \in registered : r.version <= registry.version

(* On PostgreSQL an offer made from a record that has been replaced is     *)
(* stored only if the replacement came between require and the first       *)
(* upsert of its message: later ones take the stored offers away, and the  *)
(* rest of the message is refused (postgres.py:221-262, 446-452).          *)
StaleOffersWereOvertaken ==
  Durable => \A o \in shelf : o.version = registry.version \/ o.overtaken
=============================================================================
