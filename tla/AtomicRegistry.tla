--------------------------- MODULE AtomicRegistry ---------------------------
(***************************************************************************)
(* What the topology promises its users, without locks, guards or          *)
(* batches: a registry that changes in one step per batch of mutations,    *)
(* readers that each see one version of it for as long as they read        *)
(* ("consistent reads across multiple queries"), and announcements that    *)
(* account for every entity of every version a reader can see.             *)
(***************************************************************************)
CONSTANTS Readers, EntityRefs

VARIABLES
  registry,   \* its current version: the entities, and how they are related
  seen,       \* the version each reader reads, none while it does not
  announced   \* the entities announced and not announced as removed since

registryVars == <<registry, seen, announced>>

None == <<>>

AtomicInit ==
  /\ registry.entities = {}
  /\ seen = [r \in Readers |-> None]
  /\ announced = {}

(* A whole batch, with all its announcements.                               *)
Commit ==
  /\ registry'.entities \in SUBSET EntityRefs
  /\ announced' = registry'.entities
  /\ UNCHANGED seen

BeginRead(r) ==
  /\ seen[r] = None
  /\ seen' = [seen EXCEPT ![r] = <<registry>>]
  /\ UNCHANGED <<registry, announced>>

EndRead(r) ==
  /\ seen[r] # None
  /\ seen' = [seen EXCEPT ![r] = None]
  /\ UNCHANGED <<registry, announced>>

AtomicNext == Commit \/ \E r \in Readers : BeginRead(r) \/ EndRead(r)

AtomicSpec == AtomicInit /\ [][AtomicNext]_registryVars

=============================================================================
