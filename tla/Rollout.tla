------------------------------- MODULE Rollout -------------------------------
(***************************************************************************)
(* From a migration to a server that runs on it.  Production processes only  *)
(* verify the ledger of migrations; a workflow authorizes, applies and       *)
(* records one migration at a time, another promotes and rolls back images.  *)
(* One workflow runs at a time, and each may stop between two steps.  A       *)
(* process elsewhere than in production migrates its database itself.        *)
(* A process that runs also links the interactions that images of before     *)
(* customers left, in batches, whether or not an older image still serves.   *)
(***************************************************************************)
EXTENDS Integers

CONSTANTS
    LastVersion,    \* migrations are 1 .. LastVersion
    Marker,         \* migration 39, whose file was changed after some had applied it
    Linking,        \* images from this one on link interactions to customers
    MaxUnlinked,    \* bound: interactions without one
    LinkSize,       \* interactions linked at once
    NoImage,
    Unset           \* EPODE_ADDITIVE_MIGRATION_MAX_VERSION is not set

ASSUME RolloutAssumption ==
    /\ LastVersion \in Nat /\ Marker \in 1 .. LastVersion /\ Linking \in 1 .. LastVersion
    /\ MaxUnlinked \in Nat /\ LinkSize \in Nat \ {0} /\ Unset = 0

VARIABLES
    production,     \* whether this is the production environment
    ledger,         \* _sqlx_migrations: the checksum of each applied version
    allowed,        \* the service's variable
    evidence,       \* the migration whose expansion is verified, or 0
    active,         \* the process that serves
    coming,         \* the process a deployment starts
    workflow,       \* the workflow that runs
    unlinked,       \* interactions with a customerRef and no customer
    missed          \* history: those stored after the last backfill had ended

rolloutVars == <<production, ledger, allowed, evidence, active, coming, workflow, unlinked, missed>>

Migrations == 1 .. LastVersion

Checksums == {"canonical", "pre_marker", "edited"}

(* An image is built from a commit: its newest migration, and whether the     *)
(* commit changed an older one.                                              *)
Image == [last : Migrations, edited : BOOLEAN]

Embedded(image) ==
    [v \in 1 .. image.last |-> IF image.edited /\ v = Marker THEN "edited" ELSE "canonical"]

AppliedMax == CHOOSE v \in {0} \cup DOMAIN ledger : \A w \in DOMAIN ledger : w <= v

NoProcess == [image |-> NoImage, allowed |-> Unset, up |-> FALSE, linking |-> FALSE]

Process(image) == [image |-> image, allowed |-> allowed, up |-> FALSE, linking |-> FALSE]

NoWorkflow == [kind |-> "none", step |-> "none", version |-> 0, previous |-> NoImage]

Processes ==
    [image : Image, allowed : Migrations \cup {Unset}, up : BOOLEAN, linking : BOOLEAN]

Workflows ==
    [kind : {"none", "expand", "promote", "restore"},
     step : {"none", "authorized", "deploying", "deployed", "failed"},
     version : Migrations \cup {0}, previous : Image \cup {NoImage}]

RolloutTypeOK ==
    /\ production \in BOOLEAN
    /\ DOMAIN ledger \subseteq Migrations /\ \A v \in DOMAIN ledger : ledger[v] \in Checksums
    /\ allowed \in Migrations \cup {Unset} /\ evidence \in Migrations \cup {0}
    /\ active \in Processes \cup {NoProcess} /\ coming \in Processes \cup {NoProcess}
    /\ workflow \in Workflows
    /\ unlinked \in 0 .. MaxUnlinked /\ missed \in 0 .. unlinked

-----------------------------------------------------------------------------
(* What a process makes of the ledger.                                       *)

(* verify_ledger: known versions as they are known, newer ones if allowed.    *)
VerifiesLedger(image, max) ==
    LET own == Embedded(image)
        ceiling == IF max > image.last THEN max ELSE image.last
    IN  \A v \in DOMAIN ledger :
            IF v \in DOMAIN own THEN ledger[v] = own[v] ELSE v <= ceiling

(* normalize_pre_marker_migration_39_checksum, whose image has the marker.   *)
Normalized(image) ==
    [v \in DOMAIN ledger |->
        IF v = Marker /\ ledger[v] = "pre_marker" /\ Embedded(image)[v] = "canonical"
        THEN "canonical" ELSE ledger[v]]

RolloutInit ==
    /\ production \in BOOLEAN
    /\ \E n \in Migrations :
          /\ ledger \in [1 .. n -> Checksums]
          /\ \A v \in 1 .. n : v # Marker => ledger[v] = "canonical"
          /\ production => \A v \in 1 .. n : ledger[v] = "canonical"
          /\ active = IF production
                      THEN [NoProcess EXCEPT !.image = [last |-> n, edited |-> FALSE], !.up = TRUE]
                      ELSE NoProcess
    /\ allowed = Unset
    /\ evidence = 0
    /\ coming = NoProcess
    /\ workflow = NoWorkflow
    /\ unlinked \in IF active.image # NoImage /\ active.image.last < Linking
                    THEN 0 .. MaxUnlinked ELSE {0}
    /\ missed = 0

-----------------------------------------------------------------------------
(* Elsewhere than in production a process migrates: a ledger it does not      *)
(* know is refused by the migrator, pending migrations are applied.          *)
MigrateAndServe(image) ==
    LET own == Embedded(image)
        clean == IF Marker \in DOMAIN own THEN Normalized(image) ELSE ledger
        known == \A v \in DOMAIN clean : v \in DOMAIN own /\ clean[v] = own[v]
        refused == Marker \notin DOMAIN own \/ own[Marker] # "canonical"
    IN  /\ ~production
        /\ ledger' = IF refused THEN ledger ELSE IF known THEN own ELSE clean
        /\ active' = [NoProcess EXCEPT !.image = image, !.up = ~refused /\ known]
        /\ UNCHANGED <<production, allowed, evidence, coming, workflow, unlinked, missed>>

-----------------------------------------------------------------------------
(* Processes in production.                                                  *)

(* A deployment's process verifies, begins to link what is there, and serves; *)
(* the old one stops when it is healthy.  One that fails leaves the old one.  *)
Boots ==
    /\ coming # NoProcess /\ ~coming.up
    /\ VerifiesLedger(coming.image, coming.allowed)
    /\ coming' = [coming EXCEPT !.up = TRUE, !.linking = coming.image.last >= Linking]
    /\ UNCHANGED <<production, ledger, allowed, evidence, active, workflow, unlinked, missed>>

TakesOver ==
    /\ coming.up
    /\ active' = coming
    /\ coming' = NoProcess
    /\ workflow' = [workflow EXCEPT !.step = "deployed"]
    /\ UNCHANGED <<production, ledger, allowed, evidence, unlinked, missed>>

DeploymentFails ==
    /\ coming # NoProcess
    /\ coming' = NoProcess
    /\ workflow' = [workflow EXCEPT !.step = "failed"]
    /\ UNCHANGED <<production, ledger, allowed, evidence, active, unlinked, missed>>

(* A process that crashed is started again, with the variables of its         *)
(* deployment or with today's.                                               *)
Restarts(max) ==
    /\ production /\ active.image # NoImage
    /\ max \in {active.allowed, allowed}
    /\ LET up == VerifiesLedger(active.image, max)
       IN  active' = [active EXCEPT !.up = up, !.linking = up /\ active.image.last >= Linking]
    /\ UNCHANGED <<production, ledger, allowed, evidence, coming, workflow, unlinked, missed>>

(* An image of before customers stores an interaction of a customer.         *)
StoresUnlinked ==
    /\ production /\ active.up /\ active.image.last < Linking
    /\ unlinked < MaxUnlinked
    /\ unlinked' = unlinked + 1
    /\ missed' = IF coming.up /\ ~coming.linking THEN missed + 1 ELSE missed
    /\ UNCHANGED <<production, ledger, allowed, evidence, active, coming, workflow>>

(* One transaction links one batch, under a lock; a batch that is not full is *)
(* the last.  One that fails is tried again.                                 *)
Linked == IF unlinked < LinkSize THEN unlinked ELSE LinkSize

LinksBatch ==
    /\ unlinked' = unlinked - Linked
    /\ missed' = IF missed > unlinked' THEN unlinked' ELSE missed
    /\ \/ /\ active.up /\ active.linking
          /\ active' = [active EXCEPT !.linking = Linked = LinkSize]
          /\ UNCHANGED coming
       \/ /\ coming.up /\ coming.linking
          /\ coming' = [coming EXCEPT !.linking = Linked = LinkSize]
          /\ UNCHANGED active
    /\ UNCHANGED <<production, ledger, allowed, evidence, workflow>>

(* main --backfill-customer-intelligence, which verifies first.              *)
LinksByCommand(image) ==
    /\ production /\ image.last >= Linking
    /\ VerifiesLedger(image, allowed)
    /\ unlinked' = 0 /\ missed' = 0
    /\ UNCHANGED <<production, ledger, allowed, evidence, active, coming, workflow>>

-----------------------------------------------------------------------------
(* Workflows.                                                                *)

Stops ==
    /\ workflow # NoWorkflow /\ coming = NoProcess
    /\ workflow' = NoWorkflow
    /\ UNCHANGED <<production, ledger, allowed, evidence, active, coming, unlinked, missed>>

(* Mutant: the migration is applied before its suffix is authorized.         *)
AuthorizeLate(v) ==
    /\ production /\ workflow = NoWorkflow
    /\ allowed <= v
    /\ evidence' = 0
    /\ workflow' = [kind |-> "expand", step |-> "authorized", version |-> v,
                    previous |-> active.image]
    /\ UNCHANGED <<production, ledger, allowed, active, coming, unlinked, missed>>

(* An expansion by v: the suffix is authorized, never lowered, the migration  *)
(* applied unless it is, and the image that served is deployed again.        *)
Authorize(v) ==
    /\ production /\ workflow = NoWorkflow
    /\ allowed <= v
    /\ allowed' = v
    /\ evidence' = 0
    /\ workflow' = [kind |-> "expand", step |-> "authorized", version |-> v,
                    previous |-> active.image]
    /\ UNCHANGED <<production, ledger, active, coming, unlinked, missed>>

Apply ==
    /\ workflow.step = "authorized"
    /\ \A v \in DOMAIN ledger : v <= workflow.version /\ ledger[v] = "canonical"
    /\ workflow.version \in {AppliedMax, AppliedMax + 1}
    /\ ledger' = [v \in 1 .. workflow.version |-> "canonical"]
    /\ coming' = Process(workflow.previous)
    /\ workflow' = [workflow EXCEPT !.step = "deploying"]
    /\ UNCHANGED <<production, allowed, evidence, active, unlinked, missed>>

RecordEvidence ==
    /\ workflow.kind = "expand" /\ workflow.step = "deployed"
    /\ evidence' = workflow.version
    /\ workflow' = NoWorkflow
    /\ UNCHANGED <<production, ledger, allowed, active, coming, unlinked, missed>>

(* A release crosses at most one migration, whose expansion is the one that   *)
(* is verified, and changes none.                                            *)
MayReplace(image, target) ==
    LET first == IF image.last < target.last THEN image.last ELSE target.last
        longer == IF image.last < target.last THEN target ELSE image
        last == longer.last
    IN  /\ [v \in 1 .. first |-> Embedded(image)[v]] = [v \in 1 .. first |-> Embedded(target)[v]]
        /\ last - first <= 1
        /\ last # first =>
              evidence = last /\ allowed >= last /\ Embedded(longer)[last] = "canonical"

(* Promotion and rollback.                                                   *)
Promote(target) ==
    /\ production /\ workflow = NoWorkflow
    /\ MayReplace(active.image, target)
    /\ coming' = Process(target)
    /\ workflow' = [kind |-> "promote", step |-> "deploying", version |-> target.last,
                    previous |-> active.image]
    /\ UNCHANGED <<production, ledger, allowed, evidence, active, unlinked, missed>>

(* The deployment, the smoke test or the observation failed.                 *)
Restore ==
    /\ workflow.kind = "promote" /\ workflow.step \in {"deployed", "failed"}
    /\ coming' = Process(workflow.previous)
    /\ workflow' = [workflow EXCEPT !.kind = "restore", !.step = "deploying"]
    /\ UNCHANGED <<production, ledger, allowed, evidence, active, unlinked, missed>>

RolloutNext ==
    \/ \E image \in Image :
          MigrateAndServe(image) \/ Promote(image) \/ LinksByCommand(image)
    \/ \E v \in Migrations : Authorize(v)
    \/ \E max \in {active.allowed, allowed} : Restarts(max)
    \/ Boots \/ TakesOver \/ DeploymentFails \/ Stops
    \/ StoresUnlinked \/ LinksBatch
    \/ Apply \/ RecordEvidence \/ Restore

-----------------------------------------------------------------------------
RolloutSpec == RolloutInit /\ [][RolloutNext]_rolloutVars

(* A crash never takes production down: whatever the workflows did and        *)
(* wherever they stopped, the process that serves comes up again with the     *)
(* variables of today, and with those of its deployment too unless an         *)
(* expansion stopped between the migration and its verification.             *)
ProductionServes ==
    production =>
        /\ VerifiesLedger(active.image, allowed)
        /\ active.up \/ (allowed # Unset /\ evidence = 0)

(* What a promotion would restore still starts.                              *)
PreviousStarts ==
    workflow.kind \in {"promote", "restore"} => VerifiesLedger(workflow.previous, allowed)

(* A process that serves finds every migration it was built with, as it was   *)
(* when it was built.                                                        *)
SchemaIsThere ==
    \A p \in {active, coming} : p.up =>
        \A v \in DOMAIN Embedded(p.image) :
            v \in DOMAIN ledger /\ ledger[v] = Embedded(p.image)[v]

(* When a process that links has ended doing so, what is not linked was       *)
(* stored by an older image that still served.                               *)
LinkedButForLate ==
    active.up /\ active.image.last >= Linking /\ ~active.linking /\ production => unlinked <= missed

ReleasesFit ==
    ProductionServes /\ PreviousStarts /\ SchemaIsThere /\ LinkedButForLate

=============================================================================
