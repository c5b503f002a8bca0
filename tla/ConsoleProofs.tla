----------------------------- MODULE ConsoleProofs -----------------------------
(***************************************************************************)
(* What holds of the sides of the dashboard whose state is theirs alone:      *)
(* of the releases of the service for any number of migrations and images,   *)
(* of products and their keys for any number of editors, products and keys   *)
(* and for all lengths of the overlap and of the life of a capability, of a   *)
(* GitHub installation for any number of teams, callbacks, flows and          *)
(* webhooks, of signing in for any number of calls and tokens, and of who    *)
(* may do what in a team for any number of people, requests and invitations;  *)
(* and the types of all of them together.                                    *)
(***************************************************************************)
EXTENDS ConsoleSystem, DashboardProofs, SequenceTheorems, FiniteSetTheorems,
        NaturalsInduction, WellFoundedInduction, TLAPS

-----------------------------------------------------------------------------
(* Releases.                                                                 *)

(* An image that was built with migrations that are applied by now, 1 .. n,   *)
(* none of them changed, and is authorized to run on those it does not know. *)
Suits(image, n) ==
    /\ image \in Image
    /\ image.last <= n /\ (image.edited => image.last < Marker)
    /\ n <= allowed \/ n = image.last

(* A deployment goes with the variable of the day it was started, and the     *)
(* workflow that started it is still there.                                  *)
ComingFits(n) ==
    coming # NoProcess =>
        /\ Suits(coming.image, n) /\ coming.allowed = allowed
        /\ workflow # NoWorkflow /\ workflow.step = "deploying"

WorkflowFits(n) ==
    /\ workflow # NoWorkflow => Suits(workflow.previous, n) /\ workflow.kind # "none"
    /\ workflow.step = "authorized" => workflow.kind = "expand"
    /\ workflow.kind = "expand" =>
          /\ allowed = workflow.version /\ evidence = 0
          /\ workflow.step # "authorized" => workflow.version = n
          /\ workflow.step = "deployed" => active.up /\ active.allowed = allowed

(* Only from an authorization until its verification may the process that     *)
(* serves be one that cannot start again with its own variables.             *)
ActiveFits(n) ==
    /\ Suits(active.image, n)
    /\ allowed = Unset \/ evidence # 0 =>
          active.up /\ (n <= active.allowed \/ n = active.image.last)

ProductionInv(n) ==
    /\ ledger = [v \in 1 .. n |-> "canonical"]
    /\ evidence <= n
    /\ ActiveFits(n) /\ ComingFits(n) /\ WorkflowFits(n)

HasLinked(process) ==
    process.up /\ process.image.last >= Linking /\ ~process.linking => unlinked <= missed

RolloutInv ==
    /\ RolloutTypeOK
    /\ production =>
          /\ \E n \in Migrations : ProductionInv(n)
          /\ HasLinked(active) /\ HasLinked(coming)
    /\ ~production =>
          /\ coming = NoProcess /\ workflow = NoWorkflow /\ allowed = Unset /\ evidence = 0
          /\ active.up => ledger = Embedded(active.image)

-----------------------------------------------------------------------------
(* Operators.                                                                *)

LEMMA VersionTypes ==
  /\ LastVersion \in Nat /\ Marker \in Nat /\ Linking \in Nat /\ Unset = 0
  /\ MaxUnlinked \in Nat /\ LinkSize \in Nat \ {0}
  /\ Migrations = 1 .. LastVersion
BY RolloutAssumption DEF Migrations

LEMMA ImageType ==
  ASSUME NEW image \in Image
  PROVE  image.last \in 1 .. LastVersion /\ image.edited \in BOOLEAN
BY VersionTypes DEF Image

LEMMA CleanEmbedded ==
  ASSUME NEW image \in Image, image.edited => image.last < Marker
  PROVE  Embedded(image) = [v \in 1 .. image.last |-> "canonical"]
BY ImageType, VersionTypes DEF Embedded

LEMMA SuitsVerifies ==
  ASSUME NEW n \in Migrations, ledger = [v \in 1 .. n |-> "canonical"],
         NEW image, Suits(image, n), NEW max \in Migrations \cup {0},
         n <= max \/ n = image.last
  PROVE  VerifiesLedger(image, max)
<1>1. Embedded(image) = [v \in 1 .. image.last |-> "canonical"]
  BY CleanEmbedded DEF Suits
<1>2. image.last \in 1 .. LastVersion
  BY ImageType DEF Suits
<1>3. DOMAIN ledger = 1 .. n /\ DOMAIN Embedded(image) = 1 .. image.last
  BY <1>1
<1>4. ASSUME NEW v \in DOMAIN ledger
      PROVE  IF v \in DOMAIN Embedded(image) THEN ledger[v] = Embedded(image)[v]
             ELSE v <= (IF max > image.last THEN max ELSE image.last)
  BY <1>1, <1>2, <1>3, VersionTypes
<1> QED
  BY <1>4 DEF VerifiesLedger

LEMMA SuitsToday ==
  ASSUME RolloutTypeOK, NEW n \in Migrations, ledger = [v \in 1 .. n |-> "canonical"],
         NEW image, Suits(image, n)
  PROVE  VerifiesLedger(image, allowed)
BY SuitsVerifies, VersionTypes DEF Suits, RolloutTypeOK

LEMMA LastApplied ==
  ASSUME NEW n \in Migrations, ledger = [v \in 1 .. n |-> "canonical"]
  PROVE  AppliedMax = n
<1>1. DOMAIN ledger = 1 .. n
  OBVIOUS
<1>2. n \in {0} \cup DOMAIN ledger /\ \A w \in DOMAIN ledger : w <= n
  BY <1>1, VersionTypes
<1>3. \A v \in {0} \cup DOMAIN ledger : (\A w \in DOMAIN ledger : w <= v) => v = n
  BY <1>1, VersionTypes
<1>4. PICK max : max = AppliedMax
  OBVIOUS
<1>5. max \in {0} \cup DOMAIN ledger /\ \A w \in DOMAIN ledger : w <= max
  BY <1>2, <1>4 DEF AppliedMax
<1> QED
  BY <1>3, <1>4, <1>5

(* What may replace an image that suits suits too.                           *)
LEMMA ReplacementSuits ==
  ASSUME NEW n \in Migrations, evidence <= n, RolloutTypeOK,
         NEW image, Suits(image, n), NEW target \in Image, MayReplace(image, target)
  PROVE  Suits(target, n)
<1>1. image \in Image /\ image.last \in 1 .. LastVersion /\ target.last \in 1 .. LastVersion
  BY ImageType DEF Suits
<1>2. image.edited \in BOOLEAN /\ target.edited \in BOOLEAN /\ n \in 1 .. LastVersion
  BY <1>1, ImageType, VersionTypes
<1>3. Embedded(image) = [v \in 1 .. image.last |-> "canonical"]
  BY CleanEmbedded DEF Suits
<1>4. CASE target.last <= image.last
  <2>1. [v \in 1 .. target.last |-> Embedded(image)[v]]
          = [v \in 1 .. target.last |-> Embedded(target)[v]]
    <3>1. CASE target.last = image.last
      BY <3>1, <1>1 DEF MayReplace
    <3>2. CASE target.last < image.last
      BY <3>2, <1>1 DEF MayReplace
    <3> QED
      BY <3>1, <3>2, <1>4, <1>1
  <2>2. \A v \in 1 .. target.last : Embedded(target)[v] = "canonical"
    BY <2>1, <1>3, <1>1, <1>4
  <2>3. target.edited => target.last < Marker
    <3> SUFFICES ASSUME target.edited, Marker <= target.last PROVE FALSE
      BY <1>1, VersionTypes
    <3>1. Marker \in 1 .. target.last
      BY RolloutAssumption, <1>1
    <3>2. Embedded(target)[Marker] = "edited"
      BY <3>1 DEF Embedded
    <3> QED
      BY <2>2, <3>1, <3>2
  <2>4. n <= allowed \/ n = target.last
    <3>1. CASE target.last = image.last
      BY <3>1 DEF Suits
    <3>2. CASE target.last < image.last
      <4>1. evidence = image.last /\ allowed >= image.last
        BY <3>2, <1>1 DEF MayReplace
      <4> QED
        BY <4>1, <1>1, <1>2, VersionTypes DEF Suits, RolloutTypeOK
    <3> QED
      BY <3>1, <3>2, <1>4, <1>1
  <2> QED
    BY <2>3, <2>4, <1>1, <1>2, <1>4 DEF Suits
<1>5. CASE image.last < target.last
  <2>1. /\ evidence = target.last /\ allowed >= target.last
        /\ target.last - image.last <= 1
        /\ [v \in 1 .. image.last |-> Embedded(image)[v]]
             = [v \in 1 .. image.last |-> Embedded(target)[v]]
        /\ Embedded(target)[target.last] = "canonical"
    BY <1>5, <1>1 DEF MayReplace
  <2>2. target.last = image.last + 1
    BY <2>1, <1>1, <1>5
  <2>3. \A v \in 1 .. image.last : Embedded(target)[v] = "canonical"
    BY <2>1, <1>3
  <2>4. \A v \in 1 .. target.last : Embedded(target)[v] = "canonical"
    BY <2>1, <2>2, <2>3, <1>1
  <2>5. target.edited => target.last < Marker
    <3> SUFFICES ASSUME target.edited, Marker <= target.last PROVE FALSE
      BY <1>1, VersionTypes
    <3>1. Marker \in 1 .. target.last
      BY RolloutAssumption, <1>1
    <3>2. Embedded(target)[Marker] = "edited"
      BY <3>1 DEF Embedded
    <3> QED
      BY <2>4, <3>1, <3>2
  <2>6. target.last <= n /\ (n <= allowed \/ n = target.last)
    BY <2>1, <2>2, <1>1, <1>2, VersionTypes DEF Suits, RolloutTypeOK
  <2> QED
    BY <2>5, <2>6 DEF Suits
<1> QED
  BY <1>4, <1>5, <1>1

(* The invariant says what is promised.                                      *)
LEMMA InvFits == RolloutInv => ReleasesFit
<1> SUFFICES ASSUME RolloutInv PROVE ReleasesFit
  OBVIOUS
<1> USE DEF RolloutInv
<1>1. ProductionServes
  <2> SUFFICES ASSUME production
               PROVE  /\ VerifiesLedger(active.image, allowed)
                      /\ active.up \/ (allowed # Unset /\ evidence = 0)
    BY DEF ProductionServes
  <2>1. PICK n \in Migrations : ProductionInv(n)
    OBVIOUS
  <2> QED
    BY <2>1, SuitsToday DEF ProductionInv, ActiveFits
<1>2. PreviousStarts
  <2> SUFFICES ASSUME workflow.kind \in {"promote", "restore"}
               PROVE  VerifiesLedger(workflow.previous, allowed)
    BY DEF PreviousStarts
  <2>1. workflow # NoWorkflow
    BY DEF NoWorkflow
  <2>2. production
    BY <2>1 DEF RolloutTypeOK
  <2>3. PICK n \in Migrations : ProductionInv(n)
    BY <2>2
  <2> QED
    BY <2>1, <2>3, SuitsToday DEF ProductionInv, WorkflowFits
<1>3. SchemaIsThere
  <2> SUFFICES ASSUME NEW p \in {active, coming}, p.up, NEW v \in DOMAIN Embedded(p.image)
               PROVE  v \in DOMAIN ledger /\ ledger[v] = Embedded(p.image)[v]
    BY DEF SchemaIsThere
  <2>1. CASE ~production
    BY <2>1 DEF NoProcess
  <2>2. CASE production
    <3>1. PICK n \in Migrations : ProductionInv(n)
      BY <2>2
    <3>2. Suits(p.image, n)
      BY <3>1 DEF ProductionInv, ActiveFits, ComingFits, NoProcess
    <3>3. Embedded(p.image) = [w \in 1 .. p.image.last |-> "canonical"]
      BY <3>2, CleanEmbedded DEF Suits
    <3>4. p.image.last \in 1 .. LastVersion /\ p.image.last <= n
      BY <3>2, ImageType DEF Suits
    <3>5. ledger = [w \in 1 .. n |-> "canonical"]
      BY <3>1 DEF ProductionInv
    <3>6. v \in 1 .. p.image.last
      BY <3>3
    <3>7. v \in 1 .. n
      BY <3>4, <3>6, VersionTypes
    <3> QED
      BY <3>3, <3>5, <3>6, <3>7
  <2> QED
    BY <2>1, <2>2
<1>4. LinkedButForLate
  BY DEF LinkedButForLate, HasLinked
<1> QED
  BY <1>1, <1>2, <1>3, <1>4 DEF ReleasesFit

-----------------------------------------------------------------------------
(* The invariant holds at first and is kept.                                 *)

LEMMA InitInv == RolloutInit => RolloutInv
<1> SUFFICES ASSUME RolloutInit PROVE RolloutInv
  OBVIOUS
<1>1. PICK n \in Migrations :
        /\ ledger \in [1 .. n -> Checksums]
        /\ production => \A v \in 1 .. n : ledger[v] = "canonical"
        /\ active = IF production
                    THEN [NoProcess EXCEPT !.image = [last |-> n, edited |-> FALSE], !.up = TRUE]
                    ELSE NoProcess
  BY DEF RolloutInit
<1>2. /\ production \in BOOLEAN /\ allowed = 0 /\ evidence = 0 /\ coming = NoProcess
      /\ workflow = NoWorkflow /\ missed = 0 /\ unlinked \in 0 .. MaxUnlinked
      /\ unlinked # 0 => active.image.last < Linking
  BY VersionTypes DEF RolloutInit
<1>3. PICK image \in Image : image = [last |-> n, edited |-> FALSE]
  BY DEF Image
<1>4. production => active = [image |-> image, allowed |-> 0, up |-> TRUE, linking |-> FALSE]
  BY <1>1, <1>3, VersionTypes DEF NoProcess
<1>5. ~production => active = NoProcess
  BY <1>1
<1>6. RolloutTypeOK
  <2>1. DOMAIN ledger \subseteq Migrations /\ \A v \in DOMAIN ledger : ledger[v] \in Checksums
    BY <1>1, VersionTypes
  <2>2. active \in Processes \cup {NoProcess}
    <3>1. 0 \in Migrations \cup {Unset} /\ image \in Image
      BY VersionTypes
    <3>2. [image |-> image, allowed |-> 0, up |-> TRUE, linking |-> FALSE] \in Processes
      BY ONLY <3>1 DEF Processes
    <3> QED
      BY ONLY <1>4, <1>5, <3>2
  <2>3. workflow \in Workflows
    BY <1>2 DEF NoWorkflow, Workflows
  <2> QED
    BY <1>2, <2>1, <2>2, <2>3, VersionTypes DEF RolloutTypeOK
<1>7. ASSUME production
      PROVE  ProductionInv(n) /\ HasLinked(active) /\ HasLinked(coming)
  <2>1. ledger = [v \in 1 .. n |-> "canonical"]
    BY <1>1, <1>7
  <2>2. ActiveFits(n)
    <3>1. active.image = image /\ active.up /\ image.last = n /\ ~image.edited
      BY <1>3, <1>4, <1>7
    <3> QED
      BY <3>1, VersionTypes DEF ActiveFits, Suits
  <2>3. ComingFits(n) /\ WorkflowFits(n)
    BY <1>2 DEF ComingFits, WorkflowFits, NoWorkflow
  <2>4. HasLinked(active)
    <3>1. CASE unlinked = 0
      BY <3>1, <1>2 DEF HasLinked
    <3>2. CASE unlinked # 0
      <4>1. active.image.last < Linking /\ active.image.last \in Nat
        BY <3>2, <1>2, <1>3, <1>4, <1>7, VersionTypes
      <4> QED
        BY <4>1, VersionTypes DEF HasLinked
    <3> QED
      BY <3>1, <3>2
  <2>5. HasLinked(coming)
    BY <1>2 DEF HasLinked, NoProcess
  <2> QED
    BY <1>2, <2>1, <2>2, <2>3, <2>4, <2>5, VersionTypes DEF ProductionInv
<1>8. ~production => ~active.up
  BY <1>5 DEF NoProcess
<1> QED
  BY <1>2, <1>6, <1>7, <1>8, VersionTypes DEF RolloutInv

LEMMA NoProcessIs ==
  /\ NoProcess = [image |-> NoImage, allowed |-> 0, up |-> FALSE, linking |-> FALSE]
  /\ NoProcess.up = FALSE
BY VersionTypes DEF NoProcess

LEMMA ProcessType ==
  ASSUME RolloutTypeOK, NEW image \in Image
  PROVE  /\ Process(image) \in Processes
         /\ Process(image) = [image |-> image, allowed |-> allowed, up |-> FALSE, linking |-> FALSE]
BY DEF Process, Processes, RolloutTypeOK

(* Steps elsewhere than in production.                                       *)
LEMMA MigrateInv ==
  ASSUME RolloutInv, NEW image \in Image, MigrateAndServe(image)
  PROVE  RolloutInv'
<1> USE DEF RolloutInv
<1>1. PICK own : own = Embedded(image)
  OBVIOUS
<1>2. PICK clean : clean = IF Marker \in DOMAIN own THEN Normalized(image) ELSE ledger
  OBVIOUS
<1>3. PICK known \in BOOLEAN :
        known = \A v \in DOMAIN clean : v \in DOMAIN own /\ clean[v] = own[v]
  OBVIOUS
<1>4. PICK declined \in BOOLEAN : declined = (Marker \notin DOMAIN own \/ own[Marker] # "canonical")
  OBVIOUS
<1>5. /\ ~production
      /\ ledger' = IF declined THEN ledger ELSE IF known THEN own ELSE clean
      /\ active' = [NoProcess EXCEPT !.image = image, !.up = ~declined /\ known]
      /\ UNCHANGED <<production, allowed, evidence, coming, workflow, unlinked, missed>>
  BY <1>1, <1>2, <1>3, <1>4 DEF MigrateAndServe
<1>6. own \in [1 .. image.last -> Checksums] /\ 1 .. image.last \subseteq Migrations
  BY <1>1, ImageType, VersionTypes DEF Embedded, Checksums
<1>7. DOMAIN clean \subseteq Migrations /\ \A v \in DOMAIN clean : clean[v] \in Checksums
  <2>1. CASE clean = ledger
    BY <2>1 DEF RolloutTypeOK
  <2>2. CASE clean = Normalized(image)
    <3>1. DOMAIN clean = DOMAIN ledger
      BY <2>2 DEF Normalized
    <3>2. \A v \in DOMAIN clean : clean[v] \in {"canonical", ledger[v]}
      BY <2>2 DEF Normalized
    <3> QED
      BY <3>1, <3>2 DEF RolloutTypeOK, Checksums
  <2> QED
    BY <2>1, <2>2, <1>2
<1>8. DOMAIN ledger' \subseteq Migrations /\ \A v \in DOMAIN ledger' : ledger'[v] \in Checksums
  BY <1>5, <1>6, <1>7 DEF RolloutTypeOK
<1>9. PICK up \in BOOLEAN : up = (~declined /\ known)
  BY <1>3, <1>4
<1>10. active' = [image |-> image, allowed |-> 0, up |-> up, linking |-> FALSE]
  BY <1>5, <1>9, NoProcessIs
<1>11. RolloutTypeOK'
  <2>1. active' \in Processes
    <3>1. 0 \in Migrations \cup {Unset} /\ image \in Image
      BY VersionTypes
    <3> QED
      BY ONLY <3>1, <1>9, <1>10 DEF Processes
  <2> QED
    BY <1>5, <1>8, <2>1 DEF RolloutTypeOK
<1>12. active'.up => ledger' = Embedded(active'.image)
  BY <1>1, <1>5, <1>9, <1>10
<1> QED
  BY <1>5, <1>11, <1>12 DEF Embedded

-----------------------------------------------------------------------------
(* Steps of processes in production.                                         *)

LEMMA InProduction ==
  ASSUME RolloutInv, coming # NoProcess \/ workflow # NoWorkflow \/ production
  PROVE  /\ production
         /\ \E n \in Migrations : ProductionInv(n)
         /\ HasLinked(active) /\ HasLinked(coming)
BY DEF RolloutInv, RolloutTypeOK

LEMMA BootsInv ==
  ASSUME RolloutInv, Boots
  PROVE  RolloutInv'
<1>1. PICK n \in Migrations : ProductionInv(n)
  BY InProduction DEF Boots
<1>2. production /\ HasLinked(active)
  BY InProduction DEF Boots
<1>3. coming \in Processes
  BY DEF Boots, RolloutInv, RolloutTypeOK
<1>4. coming' = [image |-> coming.image, allowed |-> coming.allowed, up |-> TRUE,
                 linking |-> coming.image.last >= Linking]
  BY <1>3 DEF Boots, Processes
<1>5. (coming.image.last >= Linking) \in BOOLEAN
  OBVIOUS
<1>6. coming' \in Processes
  BY <1>3, <1>4, <1>5 DEF Processes
<1>7. UNCHANGED <<production, ledger, allowed, evidence, active, workflow, unlinked, missed>>
  BY DEF Boots
<1>8. RolloutTypeOK'
  BY <1>6, <1>7 DEF RolloutInv, RolloutTypeOK
<1>9. ComingFits(n)'
  BY <1>1, <1>4, <1>7 DEF ProductionInv, ComingFits, Suits, Boots
<1>10. ActiveFits(n)' /\ WorkflowFits(n)'
  BY <1>1, <1>7 DEF ProductionInv, ActiveFits, WorkflowFits, Suits
<1>11. ProductionInv(n)'
  BY <1>1, <1>7, <1>9, <1>10 DEF ProductionInv
<1>12. HasLinked(active)' /\ HasLinked(coming)'
  BY <1>2, <1>4, <1>7 DEF HasLinked
<1> QED
  BY <1>2, <1>7, <1>8, <1>11, <1>12 DEF RolloutInv

LEMMA TakesOverInv ==
  ASSUME RolloutInv, TakesOver
  PROVE  RolloutInv'
<1>0. coming # NoProcess
  BY NoProcessIs DEF TakesOver
<1>1. PICK n \in Migrations : ProductionInv(n)
  BY <1>0, InProduction
<1>2. production /\ HasLinked(coming)
  BY <1>0, InProduction
<1>3. /\ active' = coming /\ coming' = NoProcess /\ coming.up
      /\ UNCHANGED <<production, ledger, allowed, evidence, unlinked, missed>>
  BY DEF TakesOver
<1>4. /\ workflow \in Workflows /\ workflow # NoWorkflow
      /\ workflow' = [kind |-> workflow.kind, step |-> "deployed", version |-> workflow.version,
                      previous |-> workflow.previous]
  BY <1>0, <1>1 DEF TakesOver, RolloutInv, RolloutTypeOK, Workflows, ProductionInv, ComingFits
<1>5. workflow' \in Workflows
  BY <1>4 DEF Workflows
<1>6. RolloutTypeOK'
  BY <1>3, <1>5 DEF RolloutInv, RolloutTypeOK
<1>7. Suits(coming.image, n) /\ coming.allowed = allowed /\ workflow.step = "deploying"
  BY <1>0, <1>1 DEF ProductionInv, ComingFits
<1>8. ActiveFits(n)'
  BY <1>3, <1>7 DEF ActiveFits, Suits
<1>9. ComingFits(n)'
  BY <1>3 DEF ComingFits
<1>10. WorkflowFits(n)'
  BY <1>1, <1>3, <1>4, <1>7 DEF ProductionInv, WorkflowFits, Suits
<1>11. ProductionInv(n)'
  BY <1>1, <1>3, <1>8, <1>9, <1>10 DEF ProductionInv
<1>12. HasLinked(active)' /\ HasLinked(coming)'
  BY <1>2, <1>3, NoProcessIs DEF HasLinked
<1> QED
  BY <1>2, <1>3, <1>6, <1>11, <1>12 DEF RolloutInv

LEMMA DeploymentFailsInv ==
  ASSUME RolloutInv, DeploymentFails
  PROVE  RolloutInv'
<1>1. PICK n \in Migrations : ProductionInv(n)
  BY InProduction DEF DeploymentFails
<1>2. production /\ HasLinked(active)
  BY InProduction DEF DeploymentFails
<1>3. /\ coming # NoProcess /\ coming' = NoProcess
      /\ UNCHANGED <<production, ledger, allowed, evidence, active, unlinked, missed>>
  BY DEF DeploymentFails
<1>4. /\ workflow \in Workflows /\ workflow # NoWorkflow /\ workflow.step = "deploying"
      /\ workflow' = [kind |-> workflow.kind, step |-> "failed", version |-> workflow.version,
                      previous |-> workflow.previous]
  BY <1>1, <1>3 DEF DeploymentFails, RolloutInv, RolloutTypeOK, Workflows, ProductionInv, ComingFits
<1>5. workflow' \in Workflows
  BY <1>4 DEF Workflows
<1>6. RolloutTypeOK'
  BY <1>3, <1>5 DEF RolloutInv, RolloutTypeOK
<1>7. ActiveFits(n)' /\ ComingFits(n)'
  BY <1>1, <1>3 DEF ProductionInv, ActiveFits, ComingFits, Suits
<1>8. WorkflowFits(n)'
  BY <1>1, <1>3, <1>4 DEF ProductionInv, WorkflowFits, Suits
<1>9. ProductionInv(n)'
  BY <1>1, <1>3, <1>7, <1>8 DEF ProductionInv
<1>10. HasLinked(active)' /\ HasLinked(coming)'
  BY <1>2, <1>3, NoProcessIs DEF HasLinked
<1> QED
  BY <1>2, <1>3, <1>6, <1>9, <1>10 DEF RolloutInv

LEMMA RestartsInv ==
  ASSUME RolloutInv, NEW max \in {active.allowed, allowed}, Restarts(max)
  PROVE  RolloutInv'
<1>1. PICK n \in Migrations : ProductionInv(n)
  BY InProduction DEF Restarts
<1>2. production /\ HasLinked(coming)
  BY InProduction DEF Restarts
<1>3. active \in Processes
  BY NoProcessIs DEF Restarts, RolloutInv, RolloutTypeOK
<1>4. PICK up \in BOOLEAN : up = VerifiesLedger(active.image, max)
  BY DEF VerifiesLedger
<1>5. PICK linking \in BOOLEAN : linking = (up /\ active.image.last >= Linking)
  BY <1>4
<1>6. /\ active' = [image |-> active.image, allowed |-> active.allowed, up |-> up,
                    linking |-> linking]
      /\ UNCHANGED <<production, ledger, allowed, evidence, coming, workflow, unlinked, missed>>
  BY <1>3, <1>4, <1>5 DEF Restarts, Processes
<1>7. active' \in Processes
  BY <1>3, <1>6 DEF Processes
<1>8. RolloutTypeOK'
  BY <1>6, <1>7 DEF RolloutInv, RolloutTypeOK
<1>9. Suits(active.image, n) /\ ledger = [v \in 1 .. n |-> "canonical"]
  BY <1>1 DEF ProductionInv, ActiveFits
<1>10. max \in Migrations \cup {0}
  BY <1>3, VersionTypes DEF RolloutInv, RolloutTypeOK, Processes
<1>11. ASSUME n <= max \/ n = active.image.last PROVE up
  BY <1>4, <1>9, <1>10, <1>11, SuitsVerifies
<1>12. ASSUME allowed = Unset \/ evidence # 0
       PROVE  up /\ (n <= active.allowed \/ n = active.image.last)
  <2>1. n <= active.allowed \/ n = active.image.last
    BY <1>1, <1>12 DEF ProductionInv, ActiveFits
  <2>2. n <= allowed \/ n = active.image.last
    BY <1>9 DEF Suits
  <2> QED
    BY <2>1, <2>2, <1>11
<1>13. ActiveFits(n)'
  BY <1>6, <1>9, <1>12 DEF ActiveFits, Suits
<1>14. ComingFits(n)'
  BY <1>1, <1>6 DEF ProductionInv, ComingFits, Suits
<1>15. WorkflowFits(n)'
  <2>1. ASSUME workflow.kind = "expand", workflow.step = "deployed"
        PROVE  up /\ active.allowed = allowed
    BY <2>1, <1>1, <1>9, <1>11 DEF ProductionInv, WorkflowFits, Suits
  <2> QED
    BY <2>1, <1>1, <1>6 DEF ProductionInv, WorkflowFits, Suits
<1>16. ProductionInv(n)'
  BY <1>1, <1>6, <1>13, <1>14, <1>15 DEF ProductionInv
<1>17. HasLinked(active)' /\ HasLinked(coming)'
  BY <1>2, <1>5, <1>6 DEF HasLinked
<1> QED
  BY <1>2, <1>6, <1>8, <1>16, <1>17 DEF RolloutInv

LEMMA StoresUnlinkedInv ==
  ASSUME RolloutInv, StoresUnlinked
  PROVE  RolloutInv'
<1>1. PICK n \in Migrations : ProductionInv(n)
  BY InProduction DEF StoresUnlinked
<1>2. production /\ HasLinked(coming)
  BY InProduction DEF StoresUnlinked
<1>3. /\ active.image.last < Linking
      /\ unlinked \in 0 .. MaxUnlinked /\ missed \in 0 .. unlinked /\ unlinked < MaxUnlinked
      /\ unlinked' = unlinked + 1
      /\ missed' = IF coming.up /\ ~coming.linking THEN missed + 1 ELSE missed
      /\ UNCHANGED <<production, ledger, allowed, evidence, active, coming, workflow>>
  BY DEF StoresUnlinked, RolloutInv, RolloutTypeOK
<1>4. unlinked' \in 0 .. MaxUnlinked /\ missed' \in 0 .. unlinked'
  BY <1>3, VersionTypes
<1>5. RolloutTypeOK'
  BY <1>3, <1>4 DEF RolloutInv, RolloutTypeOK
<1>6. ProductionInv(n)'
  BY <1>1, <1>3 DEF ProductionInv, ActiveFits, ComingFits, WorkflowFits, Suits
<1>7. HasLinked(active)'
  <2>1. active.image.last \in Nat
    BY <1>1, ImageType, VersionTypes DEF ProductionInv, ActiveFits, Suits
  <2> QED
    BY <2>1, <1>3, VersionTypes DEF HasLinked
<1>8. HasLinked(coming)'
  BY <1>2, <1>3, VersionTypes DEF HasLinked
<1> QED
  BY <1>2, <1>3, <1>5, <1>6, <1>7, <1>8 DEF RolloutInv

(* A process that ends a batch, where it is.                                 *)
LEMMA LinkedOn ==
  ASSUME NEW process \in Processes
  PROVE  LET after == [process EXCEPT !.linking = Linked = LinkSize]
         IN  /\ after = [image |-> process.image, allowed |-> process.allowed,
                         up |-> process.up, linking |-> Linked = LinkSize]
             /\ after \in Processes
<1>1. (Linked = LinkSize) \in BOOLEAN
  OBVIOUS
<1>2. [process EXCEPT !.linking = Linked = LinkSize]
        = [image |-> process.image, allowed |-> process.allowed,
           up |-> process.up, linking |-> Linked = LinkSize]
  BY DEF Processes
<1>3. [image |-> process.image, allowed |-> process.allowed,
       up |-> process.up, linking |-> Linked = LinkSize] \in Processes
  BY <1>1 DEF Processes
<1> QED
  BY <1>2, <1>3

LEMMA LinksBatchInv ==
  ASSUME RolloutInv, LinksBatch
  PROVE  RolloutInv'
<1>1. /\ unlinked \in 0 .. MaxUnlinked /\ missed \in 0 .. unlinked
      /\ Linked \in 0 .. unlinked /\ (Linked # LinkSize => Linked = unlinked)
  BY VersionTypes DEF RolloutInv, RolloutTypeOK, Linked
<1>2. /\ unlinked' = unlinked - Linked
      /\ missed' = IF missed > unlinked' THEN unlinked' ELSE missed
      /\ UNCHANGED <<production, ledger, allowed, evidence, workflow>>
  BY DEF LinksBatch
<1>3. unlinked' \in 0 .. MaxUnlinked /\ missed' \in 0 .. unlinked'
  BY <1>1, <1>2, VersionTypes
<1>4. /\ unlinked <= missed => unlinked' <= missed'
      /\ Linked # LinkSize => unlinked' <= missed'
  BY <1>1, <1>2, VersionTypes
<1>5. CASE /\ active.up /\ active.linking
           /\ active' = [active EXCEPT !.linking = Linked = LinkSize]
           /\ UNCHANGED coming
  <2>1. active \in Processes
    BY <1>5, NoProcessIs DEF RolloutInv, RolloutTypeOK
  <2>2. /\ active' = [image |-> active.image, allowed |-> active.allowed, up |-> active.up,
                      linking |-> Linked = LinkSize]
        /\ active' \in Processes
    BY <1>5, <2>1, LinkedOn
  <2>3. RolloutTypeOK'
    BY <1>2, <1>3, <1>5, <2>2 DEF RolloutInv, RolloutTypeOK
  <2>4. ASSUME NEW n \in Migrations, ProductionInv(n) PROVE ProductionInv(n)'
    BY <2>2, <2>4, <1>2, <1>5 DEF ProductionInv, ActiveFits, ComingFits, WorkflowFits, Suits
  <2>5. ASSUME production PROVE HasLinked(active)' /\ HasLinked(coming)'
    <3>1. HasLinked(active)'
      BY <2>2, <1>4 DEF HasLinked
    <3>2. HasLinked(coming)'
      BY <2>5, <1>4, <1>5 DEF RolloutInv, HasLinked
    <3> QED
      BY <3>1, <3>2
  <2>6. ~production => (active'.up => ledger' = Embedded(active'.image))
    BY <2>2, <1>2 DEF RolloutInv
  <2> QED
    BY <1>2, <1>5, <2>3, <2>4, <2>5, <2>6 DEF RolloutInv, Embedded
<1>6. CASE /\ coming.up /\ coming.linking
           /\ coming' = [coming EXCEPT !.linking = Linked = LinkSize]
           /\ UNCHANGED active
  <2>1. coming \in Processes /\ coming # NoProcess
    BY <1>6, NoProcessIs DEF RolloutInv, RolloutTypeOK
  <2>2. /\ coming' = [image |-> coming.image, allowed |-> coming.allowed, up |-> coming.up,
                      linking |-> Linked = LinkSize]
        /\ coming' \in Processes
    BY <1>6, <2>1, LinkedOn
  <2>3. RolloutTypeOK'
    BY <1>2, <1>3, <1>6, <2>2 DEF RolloutInv, RolloutTypeOK
  <2>4. PICK n \in Migrations : ProductionInv(n)
    BY <2>1, InProduction
  <2>5. ProductionInv(n)'
    BY <2>1, <2>2, <2>4, <1>2, <1>6 DEF ProductionInv, ActiveFits, ComingFits, WorkflowFits, Suits
  <2>6. production /\ HasLinked(active)
    BY <2>1, InProduction
  <2>7. HasLinked(active)'
    BY <2>6, <1>4, <1>6 DEF HasLinked
  <2>8. HasLinked(coming)'
    BY <2>2, <1>4 DEF HasLinked
  <2> QED
    BY <1>2, <2>3, <2>5, <2>6, <2>7, <2>8 DEF RolloutInv
<1> QED
  BY <1>5, <1>6 DEF LinksBatch

LEMMA LinksByCommandInv ==
  ASSUME RolloutInv, NEW image \in Image, LinksByCommand(image)
  PROVE  RolloutInv'
<1>1. PICK n \in Migrations : ProductionInv(n)
  BY InProduction DEF LinksByCommand
<1>2. /\ production /\ unlinked' = 0 /\ missed' = 0
      /\ UNCHANGED <<production, ledger, allowed, evidence, active, coming, workflow>>
  BY DEF LinksByCommand
<1>3. RolloutTypeOK'
  BY <1>2, VersionTypes DEF RolloutInv, RolloutTypeOK
<1>4. ProductionInv(n)'
  BY <1>1, <1>2 DEF ProductionInv, ActiveFits, ComingFits, WorkflowFits, Suits
<1>5. HasLinked(active)' /\ HasLinked(coming)'
  BY <1>2 DEF HasLinked
<1> QED
  BY <1>2, <1>3, <1>4, <1>5 DEF RolloutInv

-----------------------------------------------------------------------------
(* Steps of workflows.                                                       *)

LEMMA StopsInv ==
  ASSUME RolloutInv, Stops
  PROVE  RolloutInv'
<1>1. PICK n \in Migrations : ProductionInv(n)
  BY InProduction DEF Stops
<1>2. production /\ HasLinked(active) /\ HasLinked(coming)
  BY InProduction DEF Stops
<1>3. /\ workflow' = NoWorkflow /\ coming = NoProcess
      /\ UNCHANGED <<production, ledger, allowed, evidence, active, coming, unlinked, missed>>
  BY DEF Stops
<1>4. workflow' \in Workflows
  BY <1>3 DEF NoWorkflow, Workflows
<1>5. RolloutTypeOK'
  BY <1>3, <1>4 DEF RolloutInv, RolloutTypeOK
<1>6. ActiveFits(n)' /\ ComingFits(n)'
  BY <1>1, <1>3 DEF ProductionInv, ActiveFits, ComingFits, Suits
<1>7. WorkflowFits(n)'
  BY <1>3 DEF WorkflowFits, NoWorkflow
<1>8. ProductionInv(n)'
  BY <1>1, <1>3, <1>6, <1>7 DEF ProductionInv
<1>9. HasLinked(active)' /\ HasLinked(coming)'
  BY <1>2, <1>3 DEF HasLinked
<1> QED
  BY <1>2, <1>3, <1>5, <1>8, <1>9 DEF RolloutInv

LEMMA AuthorizeInv ==
  ASSUME RolloutInv, NEW v \in Migrations, Authorize(v)
  PROVE  RolloutInv'
<1>1. PICK n \in Migrations : ProductionInv(n)
  BY InProduction DEF Authorize
<1>2. production /\ HasLinked(active) /\ HasLinked(coming)
  BY InProduction DEF Authorize
<1>3. /\ workflow = NoWorkflow /\ allowed <= v /\ allowed' = v /\ evidence' = 0
      /\ workflow' = [kind |-> "expand", step |-> "authorized", version |-> v,
                      previous |-> active.image]
      /\ UNCHANGED <<production, ledger, active, coming, unlinked, missed>>
  BY DEF Authorize
<1>4. coming = NoProcess
  BY <1>1, <1>3 DEF ProductionInv, ComingFits
<1>5. Suits(active.image, n) /\ allowed \in Nat /\ v \in Nat /\ n \in Nat /\ v # 0
  BY <1>1, VersionTypes DEF ProductionInv, ActiveFits, RolloutInv, RolloutTypeOK
<1>6. Suits(active.image, n)'
  BY <1>3, <1>5 DEF Suits
<1>7. workflow' \in Workflows
  BY <1>3, <1>5 DEF Workflows, Suits
<1>8. RolloutTypeOK'
  BY <1>3, <1>7 DEF RolloutInv, RolloutTypeOK
<1>9. ActiveFits(n)'
  BY <1>3, <1>5, <1>6, VersionTypes DEF ActiveFits
<1>10. ComingFits(n)'
  BY <1>3, <1>4, NoProcessIs DEF ComingFits, NoProcess
<1>11. WorkflowFits(n)'
  BY <1>3, <1>6 DEF WorkflowFits, Suits
<1>12. ProductionInv(n)'
  BY <1>1, <1>3, <1>5, <1>9, <1>10, <1>11 DEF ProductionInv
<1>13. HasLinked(active)' /\ HasLinked(coming)'
  BY <1>2, <1>3 DEF HasLinked
<1> QED
  BY <1>2, <1>3, <1>8, <1>12, <1>13 DEF RolloutInv

(* The process that a workflow deploys.                                      *)
LEMMA Deploys ==
  ASSUME RolloutInv, NEW n \in Migrations, NEW image \in Image,
         coming' = Process(image), UNCHANGED allowed, Suits(image, n)',
         workflow'.step = "deploying"
  PROVE  coming' \in Processes /\ ComingFits(n)' /\ HasLinked(coming)'
<1>1. /\ coming' = [image |-> image, allowed |-> allowed, up |-> FALSE, linking |-> FALSE]
      /\ coming' \in Processes
  BY ProcessType DEF RolloutInv
<1>2. workflow' # NoWorkflow
  BY DEF NoWorkflow
<1>3. ComingFits(n)'
  BY <1>1, <1>2 DEF ComingFits, Suits
<1> QED
  BY <1>1, <1>3 DEF HasLinked

LEMMA ApplyInv ==
  ASSUME RolloutInv, Apply
  PROVE  RolloutInv'
<1>0. workflow # NoWorkflow
  BY DEF Apply, NoWorkflow
<1>1. PICK n \in Migrations : ProductionInv(n)
  BY <1>0, InProduction
<1>2. production /\ HasLinked(active) /\ HasLinked(coming)
  BY <1>0, InProduction
<1>3. PICK m : m = workflow.version
  OBVIOUS
<1>4. /\ workflow.kind = "expand" /\ workflow.step = "authorized"
      /\ allowed = m /\ Suits(workflow.previous, n)
  BY <1>0, <1>1, <1>3 DEF Apply, ProductionInv, WorkflowFits
<1>5. m \in {n, n + 1} /\ m \in Migrations
  <2>1. AppliedMax = n
    BY <1>1, LastApplied DEF ProductionInv
  <2>2. m \in {n, n + 1}
    BY <2>1, <1>3 DEF Apply
  <2>3. m \in Migrations \cup {0}
    BY <1>4, VersionTypes DEF RolloutInv, RolloutTypeOK
  <2> QED
    BY <2>2, <2>3, VersionTypes
<1>6. /\ ledger' = [v \in 1 .. m |-> "canonical"]
      /\ coming' = Process(workflow.previous)
      /\ workflow' = [kind |-> "expand", step |-> "deploying", version |-> m,
                      previous |-> workflow.previous]
      /\ UNCHANGED <<production, allowed, evidence, active, unlinked, missed>>
  BY <1>3, <1>4 DEF Apply, RolloutInv, RolloutTypeOK, Workflows
<1>7. ASSUME NEW image, Suits(image, n) PROVE Suits(image, m)'
  <2>1. image.last \in Nat /\ n \in Nat /\ m \in Nat
    BY <1>5, <1>7, ImageType, VersionTypes DEF Suits
  <2> QED
    BY <2>1, <1>4, <1>5, <1>6, <1>7 DEF Suits
<1>8. coming' \in Processes /\ ComingFits(m)' /\ HasLinked(coming)'
  <2>1. workflow.previous \in Image
    BY <1>4 DEF Suits
  <2> QED
    BY <2>1, <1>4, <1>5, <1>6, <1>7, Deploys
<1>9. workflow' \in Workflows
  BY <1>4, <1>5, <1>6 DEF Workflows, Suits
<1>10. DOMAIN ledger' \subseteq Migrations /\ \A v \in DOMAIN ledger' : ledger'[v] \in Checksums
  BY <1>5, <1>6, VersionTypes DEF Checksums
<1>11. RolloutTypeOK'
  BY <1>6, <1>8, <1>9, <1>10 DEF RolloutInv, RolloutTypeOK
<1>12. evidence = 0 /\ allowed # Unset
  BY <1>0, <1>1, <1>4, <1>5, VersionTypes DEF ProductionInv, WorkflowFits
<1>13. ActiveFits(m)'
  BY <1>1, <1>6, <1>7, <1>12 DEF ProductionInv, ActiveFits
<1>14. WorkflowFits(m)'
  BY <1>4, <1>6, <1>7, <1>12 DEF WorkflowFits, Suits
<1>15. evidence' <= m
  BY <1>5, <1>6, <1>12, VersionTypes
<1>16. ProductionInv(m)'
  BY <1>6, <1>8, <1>13, <1>14, <1>15 DEF ProductionInv
<1>17. HasLinked(active)'
  BY <1>2, <1>6 DEF HasLinked
<1> QED
  BY <1>2, <1>5, <1>6, <1>8, <1>11, <1>16, <1>17 DEF RolloutInv

LEMMA RecordEvidenceInv ==
  ASSUME RolloutInv, RecordEvidence
  PROVE  RolloutInv'
<1>0. workflow # NoWorkflow
  BY DEF RecordEvidence, NoWorkflow
<1>1. PICK n \in Migrations : ProductionInv(n)
  BY <1>0, InProduction
<1>2. production /\ HasLinked(active) /\ HasLinked(coming)
  BY <1>0, InProduction
<1>3. /\ workflow.kind = "expand" /\ workflow.step = "deployed"
      /\ evidence' = workflow.version /\ workflow' = NoWorkflow
      /\ UNCHANGED <<production, ledger, allowed, active, coming, unlinked, missed>>
  BY DEF RecordEvidence
<1>4. /\ workflow.version = n /\ allowed = n
      /\ active.up /\ active.allowed = allowed
  BY <1>1, <1>3 DEF ProductionInv, WorkflowFits
<1>5. coming = NoProcess
  BY <1>1, <1>3 DEF ProductionInv, ComingFits
<1>6. RolloutTypeOK'
  <2>1. workflow' \in Workflows
    BY <1>3 DEF NoWorkflow, Workflows
  <2> QED
    BY <2>1, <1>3, <1>4 DEF RolloutInv, RolloutTypeOK
<1>7. ActiveFits(n)'
  BY <1>1, <1>3, <1>4, VersionTypes DEF ProductionInv, ActiveFits, Suits
<1>8. ComingFits(n)' /\ WorkflowFits(n)'
  BY <1>3, <1>5, NoProcessIs DEF ComingFits, WorkflowFits, NoWorkflow, NoProcess
<1>9. ProductionInv(n)'
  BY <1>1, <1>3, <1>4, <1>7, <1>8, VersionTypes DEF ProductionInv
<1>10. HasLinked(active)' /\ HasLinked(coming)'
  BY <1>2, <1>3 DEF HasLinked
<1> QED
  BY <1>2, <1>3, <1>6, <1>9, <1>10 DEF RolloutInv

(* A deployment that a workflow other than an expansion begins.              *)
LEMMA DeploysOther ==
  ASSUME RolloutInv, NEW n \in Migrations, ProductionInv(n), production,
         NEW target, Suits(target, n), NEW kind \in {"promote", "restore"},
         NEW version \in Migrations \cup {0}, NEW previous, Suits(previous, n),
         coming' = Process(target),
         workflow' = [kind |-> kind, step |-> "deploying", version |-> version,
                      previous |-> previous],
         UNCHANGED <<production, ledger, allowed, evidence, active, unlinked, missed>>
  PROVE  RolloutInv'
<1>1. Suits(target, n)' /\ Suits(previous, n)'
  BY DEF Suits
<1>2. coming' \in Processes /\ ComingFits(n)' /\ HasLinked(coming)'
  <2>1. target \in Image /\ workflow'.step = "deploying"
    BY DEF Suits
  <2> QED
    BY <2>1, <1>1, Deploys
<1>3. workflow' \in Workflows
  BY DEF Workflows, Suits
<1>4. RolloutTypeOK'
  BY <1>2, <1>3 DEF RolloutInv, RolloutTypeOK
<1>5. ActiveFits(n)'
  BY DEF ProductionInv, ActiveFits, Suits
<1>6. WorkflowFits(n)'
  BY <1>1 DEF WorkflowFits
<1>7. ProductionInv(n)'
  BY <1>2, <1>5, <1>6 DEF ProductionInv
<1>8. HasLinked(active)'
  BY DEF RolloutInv, HasLinked
<1> QED
  BY <1>2, <1>4, <1>7, <1>8 DEF RolloutInv

LEMMA PromoteInv ==
  ASSUME RolloutInv, NEW target \in Image, Promote(target)
  PROVE  RolloutInv'
<1>1. PICK n \in Migrations : ProductionInv(n)
  BY InProduction DEF Promote
<1>2. Suits(active.image, n) /\ evidence <= n
  BY <1>1 DEF ProductionInv, ActiveFits
<1>3. Suits(target, n)
  BY <1>2, ReplacementSuits DEF Promote, RolloutInv
<1>4. target.last \in Migrations \cup {0}
  BY ImageType, VersionTypes
<1> QED
  BY <1>1, <1>2, <1>3, <1>4, DeploysOther DEF Promote

LEMMA RestoreInv ==
  ASSUME RolloutInv, Restore
  PROVE  RolloutInv'
<1>0. workflow # NoWorkflow
  BY DEF Restore, NoWorkflow
<1>1. PICK n \in Migrations : ProductionInv(n)
  BY <1>0, InProduction
<1>2. production
  BY <1>0, InProduction
<1>3. Suits(workflow.previous, n)
  BY <1>0, <1>1 DEF ProductionInv, WorkflowFits
<1>4. /\ workflow.version \in Migrations \cup {0}
      /\ workflow' = [kind |-> "restore", step |-> "deploying", version |-> workflow.version,
                      previous |-> workflow.previous]
  BY DEF Restore, RolloutInv, RolloutTypeOK, Workflows
<1> QED
  BY <1>1, <1>2, <1>3, <1>4, DeploysOther DEF Restore

LEMMA NextInv ==
  RolloutInv /\ [RolloutNext]_rolloutVars => RolloutInv'
<1> SUFFICES ASSUME RolloutInv, [RolloutNext]_rolloutVars PROVE RolloutInv'
  OBVIOUS
<1>1. CASE \E image \in Image : MigrateAndServe(image)
  BY <1>1, MigrateInv
<1>2. CASE \E image \in Image : Promote(image)
  BY <1>2, PromoteInv
<1>3. CASE \E image \in Image : LinksByCommand(image)
  BY <1>3, LinksByCommandInv
<1>4. CASE \E v \in Migrations : Authorize(v)
  BY <1>4, AuthorizeInv
<1>5. CASE \E max \in {active.allowed, allowed} : Restarts(max)
  BY <1>5, RestartsInv
<1>6. CASE Boots
  BY <1>6, BootsInv
<1>7. CASE TakesOver
  BY <1>7, TakesOverInv
<1>8. CASE DeploymentFails
  BY <1>8, DeploymentFailsInv
<1>9. CASE Stops
  BY <1>9, StopsInv
<1>10. CASE StoresUnlinked
  BY <1>10, StoresUnlinkedInv
<1>11. CASE LinksBatch
  BY <1>11, LinksBatchInv
<1>12. CASE Apply
  BY <1>12, ApplyInv
<1>13. CASE RecordEvidence
  BY <1>13, RecordEvidenceInv
<1>14. CASE Restore
  BY <1>14, RestoreInv
<1>15. CASE UNCHANGED rolloutVars
  <2>1. UNCHANGED <<production, ledger, allowed, evidence, active, coming, workflow, unlinked,
                    missed>>
    BY <1>15 DEF rolloutVars
  <2>2. RolloutTypeOK'
    BY <2>1 DEF RolloutInv, RolloutTypeOK
  <2>3. ASSUME production
        PROVE  (\E n \in Migrations : ProductionInv(n)') /\ HasLinked(active)' /\ HasLinked(coming)'
    <3>1. PICK n \in Migrations : ProductionInv(n)
      BY <2>3 DEF RolloutInv
    <3>2. ProductionInv(n)'
      BY <2>1, <3>1 DEF ProductionInv, ActiveFits, ComingFits, WorkflowFits, Suits
    <3>3. HasLinked(active)' /\ HasLinked(coming)'
      BY <2>1, <2>3 DEF RolloutInv, HasLinked
    <3> QED
      BY <3>2, <3>3
  <2>4. ~production => (active'.up => ledger' = Embedded(active'.image))
    BY <2>1 DEF RolloutInv
  <2> QED
    BY <2>1, <2>2, <2>3, <2>4 DEF RolloutInv, Embedded
<1> QED
  BY <1>1, <1>2, <1>3, <1>4, <1>5, <1>6, <1>7, <1>8, <1>9, <1>10, <1>11, <1>12, <1>13, <1>14,
     <1>15 DEF RolloutNext

-----------------------------------------------------------------------------
(* verify_ledger, the migration gate and the release workflows: for any       *)
(* number of migrations and wherever a workflow stops, the process that       *)
(* serves starts again, what a promotion would restore starts, a process      *)
(* finds the schema it was built with, and no interaction of before customers *)
(* is left unlinked but those stored while an older image still served.       *)
THEOREM ReleasesAreSafe == RolloutSpec => []ReleasesFit
<1> QED
  BY InvFits, InitInv, NextInv, PTL DEF RolloutSpec

-----------------------------------------------------------------------------
(* Products and their keys: the caps hold, no team is locked out, and a      *)
(* rotation leaves agents their overlap.                                     *)

USE KeysAssumption

(* Keys an editor added that count against the cap.                          *)
Chosen(p, kind) == {k \in ActiveKeys(p, kind) : keys[k].chosen}

(* An expiry moves only to the end of the overlap of the first rotation.      *)
Expiry(key) ==
    /\ key.rotated = Forever => key.expires = key.until
    /\ key.rotated # Forever => key.rotated <= clock /\ key.expires <= key.rotated + Overlap
    /\ key.expires = key.until \/ key.expires = key.rotated + Overlap

KeysInv ==
    /\ keys \in Seq(Key)
    /\ \A k \in KeyIds : keys[k].product \in live \cup deleted /\ Expiry(keys[k])

(* What was counted still holds when it is added to.                         *)
ProductLock ==
    /\ IsFiniteSet(live) /\ Cardinality(live) <= MaxProducts
    /\ \A e, f \in Adds("product") : e = f
    /\ \A e \in Adds("product") : Free(editing[e].product) /\ Cardinality(live) < MaxProducts

KeyLock ==
    /\ \A p \in live, kind \in Kinds : Cardinality(Chosen(p, kind)) <= MaxActive
    /\ \A e, f \in Adds("key") : editing[e].product = editing[f].product => e = f
    /\ \A e \in Adds("key") :
         /\ editing[e].product \in live
         /\ Cardinality(Chosen(editing[e].product, editing[e].kind)) < MaxActive

(* A product whose keys were never revoked has a write key for good.          *)
DoorInv ==
    \A p \in live :
        (\A k \in KeyIds : keys[k].product = p => ~keys[k].revoked) =>
            \E k \in KeyIds :
                keys[k].product = p /\ keys[k].kind = "write" /\ keys[k].expires = Forever

SignedInv == \A c \in signed : c.key \in KeyIds /\ c.at \in 1 .. clock

IInv == KeysTypeOK /\ KeysInv /\ ProductLock /\ KeyLock /\ DoorInv /\ SignedInv /\ MilestonesInOrder

-----------------------------------------------------------------------------
(* Counting.                                                                 *)

LEMMA Fewer ==
  ASSUME NEW n \in Nat, NEW S \in SUBSET (1 .. n), NEW T \in SUBSET S
  PROVE  /\ Cardinality(S) \in Nat /\ Cardinality(T) \in Nat
         /\ Cardinality(T) <= Cardinality(S)
<1>1. IsFiniteSet(1 .. n)
  BY FS_Interval
<1>2. IsFiniteSet(S)
  BY <1>1, FS_Subset
<1> QED
  BY <1>2, FS_Subset, FS_CardinalityType

LEMMA OneMore ==
  ASSUME NEW n \in Nat, NEW S \in SUBSET (1 .. n), NEW T \in SUBSET (S \cup {n + 1})
  PROVE  Cardinality(S) \in Nat /\ Cardinality(T) \in Nat /\ Cardinality(T) <= Cardinality(S) + 1
<1>1. IsFiniteSet(1 .. n)
  BY FS_Interval
<1>2. IsFiniteSet(S)
  BY <1>1, FS_Subset
<1>3. n + 1 \notin S
  OBVIOUS
<1>4. IsFiniteSet(S \cup {n + 1}) /\ Cardinality(S \cup {n + 1}) = Cardinality(S) + 1
  BY <1>2, <1>3, FS_AddElement
<1> QED
  BY <1>2, <1>4, FS_Subset, FS_CardinalityType

LEMMA KeyFacts ==
  ASSUME IInv
  PROVE  /\ Len(keys) \in Nat /\ KeyIds = 1 .. Len(keys)
         /\ \A k \in KeyIds : keys[k] \in Key
         /\ \A p, kind : Chosen(p, kind) \subseteq 1 .. Len(keys)
BY DEF IInv, KeysInv, KeyIds, Chosen, ActiveKeys

LEMMA EditFacts ==
  ASSUME IInv, NEW what, NEW e \in Adds(what)
  PROVE  e \in Editing /\ editing[e] \in Edit /\ editing[e] # Idle /\ editing[e].adds = what
BY DEF IInv, KeysTypeOK, Adds

(* The caps on keys hold on when no key becomes active.                      *)
LEMMA KeyLockKept ==
  ASSUME IInv,
         \A p \in live', kind \in Kinds : p \in live /\ Chosen(p, kind)' \subseteq Chosen(p, kind),
         \A e \in Adds("key")' : /\ e \in Adds("key") /\ editing'[e] = editing[e]
                                 /\ editing[e].product \in live'
  PROVE  KeyLock'
<1>1. \A p \in live', kind \in Kinds :
         /\ Cardinality(Chosen(p, kind)) \in Nat /\ Cardinality(Chosen(p, kind)') \in Nat
         /\ Cardinality(Chosen(p, kind)') <= Cardinality(Chosen(p, kind))
  BY KeyFacts, Fewer
<1>2. \A p \in live', kind \in Kinds : Cardinality(Chosen(p, kind)') <= MaxActive
  BY <1>1 DEF IInv, KeyLock
<1>3. \A e, f \in Adds("key")' : editing'[e].product = editing'[f].product => e = f
  BY DEF IInv, KeyLock
<1>4. ASSUME NEW e \in Adds("key")'
      PROVE  /\ editing'[e].product \in live'
             /\ Cardinality(Chosen(editing[e].product, editing[e].kind)') < MaxActive
  <2>1. editing[e].product \in live' /\ editing[e].kind \in Kinds /\ e \in Adds("key")
    BY EditFacts DEF Edit
  <2> QED
    BY <1>1, <2>1 DEF IInv, KeyLock
<1> QED
  BY <1>2, <1>3, <1>4 DEF KeyLock

-----------------------------------------------------------------------------
(* One lemma for each action.                                                *)

LEMMA CountProductsKeeps ==
  ASSUME IInv, NEW e \in Editing, NEW p \in Products, CountProducts(e, p)
  PROVE  IInv'
<1> USE DEF IInv
<1> DEFINE new == [adds |-> "product", product |-> p, kind |-> "write", until |-> Forever]
<1>1. /\ editing[e] = Idle /\ Adds("product") = {} /\ Free(p) /\ Cardinality(live) < MaxProducts
      /\ editing' = [editing EXCEPT ![e] = new]
      /\ UNCHANGED <<live, deleted, keys, signed, firsts, clock>>
  BY DEF CountProducts
<1>2. new \in Edit /\ new.adds = "product" /\ new.product = p
  BY DEF Edit, Kinds
<1> HIDE DEF new
<1>3. /\ editing' \in [Editing -> Edit \cup {Idle}] /\ editing'[e] = new
      /\ \A f \in Editing \ {e} : editing'[f] = editing[f]
  BY <1>1, <1>2 DEF KeysTypeOK
<1>4. KeysTypeOK' /\ KeysInv' /\ DoorInv' /\ SignedInv' /\ MilestonesInOrder'
  BY <1>1, <1>3 DEF KeysTypeOK, KeysInv, Expiry, DoorInv, SignedInv, MilestonesInOrder, KeyIds
<1>5. Adds("product")' \subseteq {e}
  BY <1>1, <1>2, <1>3 DEF Adds
<1>6. ProductLock'
  BY <1>1, <1>2, <1>3, <1>5 DEF ProductLock, Free
<1>7. \A f \in Adds("key")' : f \in Adds("key") /\ editing'[f] = editing[f]
  BY <1>2, <1>3 DEF Adds
<1>8. \A q, kind : Chosen(q, kind)' = Chosen(q, kind)
  BY <1>1 DEF Chosen, ActiveKeys, Active, KeyIds
<1>9. KeyLock'
  BY <1>1, <1>7, <1>8, KeyLockKept DEF KeyLock
<1> QED
  BY <1>4, <1>6, <1>9

LEMMA CountKeysKeeps ==
  ASSUME IInv, NEW e \in Editing, NEW p \in Products, NEW kind \in Kinds,
         NEW until \in {clock + ShortLife, Forever}, CountKeys(e, p, kind, until)
  PROVE  IInv'
<1> USE DEF IInv
<1> DEFINE new == [adds |-> "key", product |-> p, kind |-> kind, until |-> until]
<1>1. /\ editing[e] = Idle /\ p \in live /\ ~EnvironmentLocked(p)
      /\ Cardinality(ActiveKeys(p, kind)) < MaxActive
      /\ editing' = [editing EXCEPT ![e] = new]
      /\ UNCHANGED <<live, deleted, keys, signed, firsts, clock>>
  BY DEF CountKeys
<1>2. new \in Edit /\ new.adds = "key" /\ new.product = p /\ new.kind = kind
  BY DEF Edit, KeysTypeOK
<1> HIDE DEF new
<1>3. /\ editing' \in [Editing -> Edit \cup {Idle}] /\ editing'[e] = new
      /\ \A f \in Editing \ {e} : editing'[f] = editing[f]
  BY <1>1, <1>2 DEF KeysTypeOK
<1>4. KeysTypeOK' /\ KeysInv' /\ DoorInv' /\ SignedInv' /\ MilestonesInOrder'
  BY <1>1, <1>3 DEF KeysTypeOK, KeysInv, Expiry, DoorInv, SignedInv, MilestonesInOrder, KeyIds
<1>5. \A f \in Adds("product")' : f \in Adds("product") /\ editing'[f] = editing[f]
  BY <1>2, <1>3 DEF Adds
<1>6. ProductLock'
  BY <1>1, <1>5 DEF ProductLock, Free
<1>7. \A f \in Adds("key")' :
         f = e \/ (f \in Adds("key") /\ editing'[f] = editing[f] /\ editing[f].product # p)
  BY <1>1, <1>3 DEF Adds, EnvironmentLocked
<1>8. \A q, k : Chosen(q, k)' = Chosen(q, k)
  BY <1>1 DEF Chosen, ActiveKeys, Active, KeyIds
<1>9. Cardinality(Chosen(p, kind)) < MaxActive
  <2>1. Chosen(p, kind) \subseteq ActiveKeys(p, kind) /\ ActiveKeys(p, kind) \subseteq 1 .. Len(keys)
    BY KeyFacts DEF Chosen, ActiveKeys
  <2>2. /\ Cardinality(ActiveKeys(p, kind)) \in Nat /\ Cardinality(Chosen(p, kind)) \in Nat
        /\ Cardinality(Chosen(p, kind)) <= Cardinality(ActiveKeys(p, kind))
    BY <2>1, KeyFacts, Fewer
  <2> QED
    BY <1>1, <2>2
<1>10. KeyLock'
  <2>1. \A q \in live', k \in Kinds : Cardinality(Chosen(q, k)') <= MaxActive
    BY <1>1, <1>8 DEF KeyLock
  <2>2. \A f, g \in Adds("key")' : editing'[f].product = editing'[g].product => f = g
    BY <1>2, <1>3, <1>7 DEF KeyLock
  <2>3. \A f \in Adds("key")' :
          /\ editing'[f].product \in live'
          /\ Cardinality(Chosen(editing'[f].product, editing'[f].kind)) < MaxActive
    BY <1>1, <1>2, <1>3, <1>7, <1>9 DEF KeyLock
  <2> QED
    BY <1>8, <2>1, <2>2, <2>3 DEF KeyLock
<1> QED
  BY <1>4, <1>6, <1>10

LEMMA AbandonKeeps ==
  ASSUME IInv, NEW e \in Editing, Abandon(e)
  PROVE  IInv'
<1> USE DEF IInv
<1>1. /\ editing' \in [Editing -> Edit \cup {Idle}] /\ editing'[e] = Idle
      /\ \A f \in Editing \ {e} : editing'[f] = editing[f]
      /\ UNCHANGED <<live, deleted, keys, signed, firsts, clock>>
  BY DEF Abandon, KeysTypeOK
<1>2. KeysTypeOK' /\ KeysInv' /\ DoorInv' /\ SignedInv' /\ MilestonesInOrder'
  BY <1>1 DEF KeysTypeOK, KeysInv, Expiry, DoorInv, SignedInv, MilestonesInOrder, KeyIds
<1>3. \A what : \A f \in Adds(what)' : f \in Adds(what) /\ editing'[f] = editing[f]
  BY <1>1 DEF Adds
<1>4. ProductLock'
  BY <1>1, <1>3 DEF ProductLock, Free
<1>5. \A q, kind : Chosen(q, kind)' = Chosen(q, kind)
  BY <1>1 DEF Chosen, ActiveKeys, Active, KeyIds
<1>6. KeyLock'
  BY <1>1, <1>3, <1>5, KeyLockKept DEF KeyLock
<1> QED
  BY <1>2, <1>4, <1>6

(* A key is appended and the edit that counted for it, if any, is over.       *)
LEMMA Appended ==
  ASSUME NEW old \in Seq(Key), NEW new \in Key, NEW all, all = Append(old, new),
         NEW n, n = Len(old) + 1
  PROVE  /\ all \in Seq(Key)
         /\ DOMAIN all = DOMAIN old \cup {n}
         /\ n \notin DOMAIN old
         /\ \A k \in DOMAIN old : all[k] = old[k]
         /\ all[n] = new
OBVIOUS

LEMMA InsertProductKeeps ==
  ASSUME IInv, NEW e \in Editing, InsertProduct(e)
  PROVE  IInv'
<1> USE DEF IInv
<1>1. /\ e \in Adds("product") /\ editing[e].product \in Products
      /\ Free(editing[e].product) /\ Cardinality(live) < MaxProducts
  BY EditFacts DEF InsertProduct, Edit, ProductLock
<1> PICK p \in Products : p = editing[e].product
  BY <1>1
<1> PICK new : new = NewKey(p, "write", Forever, TRUE)
  OBVIOUS
<1> PICK n \in Nat : n = Len(keys) + 1
  BY KeyFacts
<1>2. /\ live' = live \cup {p} /\ keys' = Append(keys, new)
      /\ firsts' = [firsts EXCEPT ![p] = {}] /\ editing' = [editing EXCEPT ![e] = Idle]
      /\ UNCHANGED <<deleted, signed, clock>>
  BY DEF InsertProduct
<1>0. p \notin live /\ p \notin deleted
  BY <1>1 DEF Free
<1>3. new \in Key /\ new.product = p /\ new.kind = "write" /\ new.expires = Forever
      /\ Expiry(new)
  BY DEF NewKey, Key, Kinds, Expiry
<1>4. /\ keys' \in Seq(Key) /\ KeyIds' = KeyIds \cup {n} /\ n \notin KeyIds
      /\ \A k \in KeyIds : keys'[k] = keys[k]
      /\ keys'[n] = new
  <2>1. keys \in Seq(Key) /\ keys' = Append(keys, new) /\ n = Len(keys) + 1
    BY <1>2 DEF KeysInv
  <2>2. keys' \in Seq(Key)
    BY <1>3, <2>1, Appended
  <2>3. DOMAIN keys' = DOMAIN keys \cup {n} /\ n \notin DOMAIN keys
    BY <1>3, <2>1, Appended
  <2>4. \A k \in DOMAIN keys : keys'[k] = keys[k]
    BY ONLY <1>3, <2>1, Appended
  <2>5. keys'[n] = new
    BY ONLY <1>3, <2>1, Appended
  <2> QED
    BY <2>2, <2>3, <2>4, <2>5 DEF KeyIds
<1>5. /\ editing' \in [Editing -> Edit \cup {Idle}] /\ editing'[e] = Idle
      /\ \A f \in Editing \ {e} : editing'[f] = editing[f]
  BY <1>2 DEF KeysTypeOK
<1>6. firsts' \in [Products -> SUBSET Milestones] /\ firsts'[p] = {}
      /\ \A q \in Products \ {p} : firsts'[q] = firsts[q]
  BY <1>2 DEF KeysTypeOK
<1>7. KeysTypeOK'
  <2>1. \A k \in KeyIds' : keys'[k] \in Key
    BY <1>3, <1>4 DEF KeysTypeOK
  <2>2. live' \cap deleted' = {} /\ live' \cup deleted' \subseteq Products
    BY <1>0, <1>2 DEF KeysTypeOK
  <2>3. \A c \in signed' : c.key \in KeyIds' /\ c.at \in 1 .. MaxClock
    BY <1>2, <1>4 DEF KeysTypeOK
  <2>4. clock' \in 1 .. MaxClock
    BY <1>2 DEF KeysTypeOK
  <2> QED
    BY <1>5, <1>6, <2>1, <2>2, <2>3, <2>4 DEF KeysTypeOK
<1>8. KeysInv'
  BY <1>2, <1>3, <1>4 DEF KeysInv, Expiry
<1>9. \A what : \A f \in Adds(what)' : f # e /\ f \in Adds(what) /\ editing'[f] = editing[f]
  BY <1>5 DEF Adds
<1>10. Adds("product")' = {}
  BY <1>1, <1>9 DEF ProductLock
<1>11. ProductLock'
  <2>1. IsFiniteSet(live') /\ Cardinality(live') = Cardinality(live) + 1
    BY <1>0, <1>2, FS_AddElement DEF ProductLock
  <2>2. Cardinality(live) \in Nat
    BY FS_CardinalityType DEF ProductLock
  <2> QED
    BY <1>1, <1>10, <2>1, <2>2 DEF ProductLock
<1>12. KeyLock'
  <2>1. \A q \in live, kind \in Kinds : q # p /\ Chosen(q, kind)' = Chosen(q, kind)
    <3> SUFFICES ASSUME NEW q \in live, NEW kind \in Kinds
                 PROVE  q # p /\ Chosen(q, kind)' = Chosen(q, kind)
      OBVIOUS
    <3>1. q # p
      BY <1>0
    <3>2. \A k \in KeyIds : keys[k].product = q => (Active(k)' <=> Active(k))
      BY <1>2, <1>4, <3>1 DEF Active
    <3> QED
      BY <1>3, <1>4, <3>1, <3>2 DEF Chosen, ActiveKeys
  <2>2. \A kind \in Kinds : Chosen(p, kind)' \subseteq {n}
    BY <1>0, <1>4 DEF Chosen, ActiveKeys, KeysInv
  <2>3. Cardinality({n}) = 1 /\ IsFiniteSet({n})
    BY FS_Singleton
  <2>4. \A kind \in Kinds : Cardinality(Chosen(p, kind)') <= MaxActive
    BY <2>2, <2>3, FS_Subset, FS_CardinalityType
  <2>5. \A q \in live', kind \in Kinds : Cardinality(Chosen(q, kind)') <= MaxActive
    BY <1>2, <2>1, <2>4 DEF KeyLock
  <2>6. \A f, g \in Adds("key")' : editing'[f].product = editing'[g].product => f = g
    BY <1>9 DEF KeyLock
  <2>7. \A f \in Adds("key")' :
          /\ editing'[f].product \in live'
          /\ Cardinality(Chosen(editing[f].product, editing[f].kind)') < MaxActive
    <3> SUFFICES ASSUME NEW f \in Adds("key")'
                 PROVE  /\ editing'[f].product \in live'
                        /\ Cardinality(Chosen(editing[f].product, editing[f].kind)') < MaxActive
      OBVIOUS
    <3>1. f \in Adds("key") /\ editing'[f] = editing[f]
      BY <1>9
    <3>2. editing[f].product \in live /\ editing[f].kind \in Kinds
      BY <3>1, EditFacts DEF KeyLock, Edit
    <3> QED
      BY <1>2, <2>1, <3>1, <3>2 DEF KeyLock
  <2> QED
    BY <1>9, <2>5, <2>6, <2>7 DEF KeyLock
<1>13. DoorInv'
  <2> SUFFICES ASSUME NEW q \in live', \A k \in KeyIds' : keys'[k].product = q => ~keys'[k].revoked
               PROVE  \E k \in KeyIds' : /\ keys'[k].product = q /\ keys'[k].kind = "write"
                                        /\ keys'[k].expires = Forever
    BY DEF DoorInv
  <2>1. CASE q = p
    BY <1>3, <1>4, <2>1
  <2>2. CASE q # p
    <3>1. q \in live /\ \A k \in KeyIds : keys[k].product = q => ~keys[k].revoked
      BY <1>2, <1>4, <2>2
    <3>2. PICK k \in KeyIds : /\ keys[k].product = q /\ keys[k].kind = "write"
                              /\ keys[k].expires = Forever
      BY <3>1 DEF DoorInv
    <3> QED
      BY <1>4, <3>2
  <2> QED
    BY <2>1, <2>2
<1>14. SignedInv' /\ MilestonesInOrder'
  BY <1>2, <1>4, <1>6 DEF SignedInv, MilestonesInOrder
<1> QED
  BY <1>7, <1>8, <1>11, <1>12, <1>13, <1>14

LEMMA InsertKeyKeeps ==
  ASSUME IInv, NEW e \in Editing, InsertKey(e)
  PROVE  IInv'
<1> USE DEF IInv
<1>1. /\ e \in Adds("key") /\ editing[e].product \in Products /\ editing[e].kind \in Kinds
      /\ editing[e].until \in Nat /\ editing[e].product \in live
      /\ Cardinality(Chosen(editing[e].product, editing[e].kind)) < MaxActive
  BY EditFacts DEF InsertKey, Edit, KeyLock
<1> PICK p \in Products : p = editing[e].product
  BY <1>1
<1> PICK kind \in Kinds : kind = editing[e].kind
  BY <1>1
<1> PICK new : new = NewKey(p, kind, editing[e].until, TRUE)
  OBVIOUS
<1> PICK n \in Nat : n = Len(keys) + 1
  BY KeyFacts
<1>2. /\ keys' = Append(keys, new) /\ editing' = [editing EXCEPT ![e] = Idle]
      /\ UNCHANGED <<live, deleted, signed, firsts, clock>>
  BY DEF InsertKey
<1>3. new \in Key /\ new.product = p /\ new.kind = kind /\ Expiry(new)
  BY <1>1 DEF NewKey, Key, Expiry
<1>4. /\ keys' \in Seq(Key) /\ KeyIds' = KeyIds \cup {n} /\ n \notin KeyIds
      /\ \A k \in KeyIds : keys'[k] = keys[k]
      /\ keys'[n] = new
  <2>1. keys \in Seq(Key) /\ keys' = Append(keys, new) /\ n = Len(keys) + 1
    BY <1>2 DEF KeysInv
  <2> QED
    BY ONLY <1>3, <2>1, Appended DEF KeyIds
<1>5. /\ editing' \in [Editing -> Edit \cup {Idle}] /\ editing'[e] = Idle
      /\ \A f \in Editing \ {e} : editing'[f] = editing[f]
  BY <1>2 DEF KeysTypeOK
<1>6. KeysTypeOK'
  <2>1. \A k \in KeyIds' : keys'[k] \in Key
    BY <1>3, <1>4 DEF KeysTypeOK
  <2>2. \A c \in signed' : c.key \in KeyIds' /\ c.at \in 1 .. MaxClock
    BY <1>2, <1>4 DEF KeysTypeOK
  <2> QED
    BY <1>2, <1>5, <2>1, <2>2 DEF KeysTypeOK
<1>7. KeysInv'
  <2>1. \A k \in KeyIds' : keys'[k].product \in live \cup deleted /\ Expiry(keys'[k])
    BY <1>1, <1>3, <1>4 DEF KeysInv
  <2>2. \A key : Expiry(key)' <=> Expiry(key)
    BY <1>2 DEF Expiry
  <2> QED
    BY <1>2, <1>4, <2>1, <2>2 DEF KeysInv, Expiry
<1>8. \A what : \A f \in Adds(what)' : f # e /\ f \in Adds(what) /\ editing'[f] = editing[f]
  BY <1>5 DEF Adds
<1>9. ProductLock'
  BY <1>2, <1>8 DEF ProductLock, Free
<1>10. ASSUME NEW q \in live, NEW k \in Kinds
       PROVE  /\ Chosen(q, k)' \subseteq Chosen(q, k) \cup {n}
              /\ q # p \/ k # kind => Chosen(q, k)' \subseteq Chosen(q, k)
  <2>1. \A j \in KeyIds : Active(j)' <=> Active(j)
    BY <1>2, <1>4 DEF Active
  <2>2. \A j \in Chosen(q, k)' : j \in Chosen(q, k) \/ (j = n /\ q = p /\ k = kind)
    BY <1>3, <1>4, <2>1 DEF Chosen, ActiveKeys
  <2> QED
    BY <2>2
<1>11. KeyLock'
  <2>1. ASSUME NEW q \in live, NEW k \in Kinds
        PROVE  /\ Cardinality(Chosen(q, k)') <= MaxActive
               /\ q # p => Cardinality(Chosen(q, k)') <= Cardinality(Chosen(q, k))
    <3>1. Chosen(q, k) \subseteq 1 .. Len(keys) /\ Len(keys) \in Nat
      BY KeyFacts
    <3>2. /\ Cardinality(Chosen(q, k)) \in Nat /\ Cardinality(Chosen(q, k)') \in Nat
          /\ Cardinality(Chosen(q, k)') <= Cardinality(Chosen(q, k)) + 1
      BY <1>10, <3>1, OneMore
    <3>3. q # p \/ k # kind => Cardinality(Chosen(q, k)') <= Cardinality(Chosen(q, k))
      BY <1>10, <3>1, Fewer
    <3>4. Cardinality(Chosen(q, k)) <= MaxActive
      BY DEF KeyLock
    <3> QED
      BY <1>1, <3>2, <3>3, <3>4
  <2>2. \A f, g \in Adds("key")' : editing'[f].product = editing'[g].product => f = g
    BY <1>8 DEF KeyLock
  <2>3. ASSUME NEW f \in Adds("key")'
        PROVE  /\ editing'[f].product \in live'
               /\ Cardinality(Chosen(editing[f].product, editing[f].kind)') < MaxActive
    <3>1. f # e /\ f \in Adds("key") /\ editing'[f] = editing[f]
      BY <1>8
    <3>2. editing[f].product \in live /\ editing[f].kind \in Kinds /\ editing[f].product # p
      BY <1>1, <3>1, EditFacts DEF KeyLock, Edit
    <3>3. /\ Cardinality(Chosen(editing[f].product, editing[f].kind)) \in Nat
          /\ Cardinality(Chosen(editing[f].product, editing[f].kind)) < MaxActive
      BY <3>1, KeyFacts, Fewer DEF KeyLock
    <3>4. /\ Chosen(editing[f].product, editing[f].kind) \subseteq 1 .. Len(keys)
          /\ Len(keys) \in Nat
          /\ Chosen(editing[f].product, editing[f].kind)'
               \subseteq Chosen(editing[f].product, editing[f].kind)
      BY <1>10, <3>1, <3>2, KeyFacts
    <3>5. /\ Cardinality(Chosen(editing[f].product, editing[f].kind)') \in Nat
          /\ Cardinality(Chosen(editing[f].product, editing[f].kind)')
               <= Cardinality(Chosen(editing[f].product, editing[f].kind))
      BY <3>4, Fewer
    <3> QED
      BY <1>2, <3>1, <3>2, <3>3, <3>5
  <2> QED
    BY <1>2, <1>8, <2>1, <2>2, <2>3 DEF KeyLock
<1>12. DoorInv'
  <2> SUFFICES ASSUME NEW q \in live', \A k \in KeyIds' : keys'[k].product = q => ~keys'[k].revoked
               PROVE  \E k \in KeyIds' : /\ keys'[k].product = q /\ keys'[k].kind = "write"
                                        /\ keys'[k].expires = Forever
    BY DEF DoorInv
  <2>1. q \in live /\ \A k \in KeyIds : keys[k].product = q => ~keys[k].revoked
    BY <1>2, <1>4
  <2>2. PICK k \in KeyIds : keys[k].product = q /\ keys[k].kind = "write" /\ keys[k].expires = Forever
    BY <2>1 DEF DoorInv
  <2> QED
    BY <1>4, <2>2
<1>13. SignedInv' /\ MilestonesInOrder'
  BY <1>2, <1>4 DEF SignedInv, MilestonesInOrder
<1> QED
  BY <1>6, <1>7, <1>9, <1>11, <1>12, <1>13

LEMMA RevokeKeyKeeps ==
  ASSUME IInv, NEW k \in KeyIds, RevokeKey(k)
  PROVE  IInv'
<1> USE DEF IInv
<1>1. keys' = [keys EXCEPT ![k].revoked = TRUE]
      /\ UNCHANGED <<live, deleted, editing, signed, firsts, clock>>
  BY DEF RevokeKey
<1> PICK new : new = [keys[k] EXCEPT !.revoked = TRUE]
  OBVIOUS
<1>2. /\ new \in Key /\ new.revoked = TRUE /\ new.product = keys[k].product
      /\ new.expires = keys[k].expires /\ new.until = keys[k].until
      /\ new.rotated = keys[k].rotated
  BY KeyFacts DEF Key
<1>3. /\ keys' \in Seq(Key) /\ KeyIds' = KeyIds
      /\ keys'[k] = new /\ \A j \in KeyIds \ {k} : keys'[j] = keys[j]
  BY <1>1, <1>2 DEF KeysInv, KeyIds
<1>4. KeysTypeOK'
  <2>1. \A j \in KeyIds' : keys'[j] \in Key
    BY <1>2, <1>3, KeyFacts
  <2> QED
    BY <1>1, <1>3, <2>1 DEF KeysTypeOK
<1>5. KeysInv'
  BY <1>1, <1>2, <1>3 DEF KeysInv, Expiry
<1>6. ProductLock' /\ SignedInv' /\ MilestonesInOrder'
  BY <1>1, <1>3 DEF ProductLock, SignedInv, MilestonesInOrder, Adds, Free
<1>7. \A q, kind : Chosen(q, kind)' \subseteq Chosen(q, kind)
  BY <1>1, <1>2, <1>3 DEF Chosen, ActiveKeys, Active
<1>8. KeyLock'
  BY <1>1, <1>7, KeyLockKept DEF KeyLock, Adds
<1>9. DoorInv'
  <2> SUFFICES ASSUME NEW q \in live, \A j \in KeyIds : keys'[j].product = q => ~keys'[j].revoked
               PROVE  \E j \in KeyIds : /\ keys'[j].product = q /\ keys'[j].kind = "write"
                                       /\ keys'[j].expires = Forever
    BY <1>1, <1>3 DEF DoorInv
  <2>1. keys[k].product # q
    BY <1>2, <1>3
  <2>2. \A j \in KeyIds : keys[j].product = q => ~keys[j].revoked
    BY <1>3, <2>1
  <2>3. PICK j \in KeyIds : keys[j].product = q /\ keys[j].kind = "write" /\ keys[j].expires = Forever
    BY <2>2 DEF DoorInv
  <2> QED
    BY <1>3, <2>1, <2>3
<1> QED
  BY <1>4, <1>5, <1>6, <1>8, <1>9

LEMMA RotateKeyKeeps ==
  ASSUME IInv, NEW k \in KeyIds, RotateKey(k)
  PROVE  IInv'
<1> USE DEF IInv
<1>1. keys[k] \in Key /\ Active(k) /\ keys[k].product \in live \cup deleted
      /\ Expiry(keys[k]) /\ clock \in 1 .. MaxClock
  BY KeyFacts DEF RotateKey, KeysInv, KeysTypeOK
<1>a. PICK late : late = IF keys[k].expires > clock + Overlap THEN clock + Overlap
                       ELSE keys[k].expires
  OBVIOUS
<1>b. PICK first : first = IF keys[k].rotated > clock THEN clock ELSE keys[k].rotated
  OBVIOUS
<1> PICK turned : turned = [keys[k] EXCEPT !.expires = late, !.rotated = first]
  OBVIOUS
<1> PICK mid : mid = [keys EXCEPT ![k] = turned]
  OBVIOUS
<1> PICK new : new = NewKey(keys[k].product, keys[k].kind,
                            IF keys[k].kind = "read" THEN clock + ReadLife ELSE Forever, FALSE)
  OBVIOUS
<1> PICK n \in Nat : n = Len(keys) + 1
  BY KeyFacts
<1>2. UNCHANGED <<live, deleted, editing, signed, firsts, clock>>
  BY DEF RotateKey
<1>3. keys' = Append(mid, new)
  BY <1>a, <1>b DEF RotateKey
<1>4. /\ late \in Nat /\ first \in 0 .. Forever /\ late <= keys[k].expires
      /\ first # Forever /\ first <= clock /\ late <= first + Overlap
      /\ late = keys[k].until \/ late = first + Overlap
  <2>1. /\ Overlap \in Nat /\ Forever \in Nat /\ clock \in Nat /\ clock < Forever
    BY <1>1
  <2>2. /\ keys[k].expires \in Nat /\ keys[k].until \in Nat
        /\ keys[k].rotated \in Nat /\ keys[k].rotated <= Forever
    BY ONLY <1>1, <2>1 DEF Key
  <2>3. /\ keys[k].rotated = Forever => keys[k].expires = keys[k].until
        /\ keys[k].rotated # Forever =>
             keys[k].rotated <= clock /\ keys[k].expires <= keys[k].rotated + Overlap
        /\ keys[k].expires = keys[k].until \/ keys[k].expires = keys[k].rotated + Overlap
    BY <1>1 DEF Expiry
  <2> QED
    BY ONLY <1>a, <1>b, <2>1, <2>2, <2>3
<1>5. /\ turned \in Key /\ turned.expires = late /\ turned.rotated = first
      /\ turned.product = keys[k].product /\ turned.kind = keys[k].kind
      /\ turned.revoked = keys[k].revoked /\ turned.until = keys[k].until
      /\ turned.chosen = keys[k].chosen
  BY <1>1, <1>4 DEF Key
<1>6. Expiry(turned)
  BY <1>4, <1>5 DEF Expiry
<1>7. /\ new \in Key /\ new.product = keys[k].product /\ new.chosen = FALSE /\ Expiry(new)
      /\ new.kind = keys[k].kind /\ (new.kind # "read" => new.expires = Forever)
  <2>1. (IF keys[k].kind = "read" THEN clock + ReadLife ELSE Forever) \in Nat
    BY <1>1
  <2>2. keys[k].product \in Products /\ keys[k].kind \in Kinds
    BY <1>1 DEF Key
  <2> QED
    BY <2>1, <2>2 DEF NewKey, Key, Expiry
<1>8. /\ mid \in Seq(Key) /\ DOMAIN mid = KeyIds /\ Len(mid) = Len(keys) /\ mid[k] = turned
      /\ \A j \in KeyIds \ {k} : mid[j] = keys[j]
  BY <1>5 DEF KeysInv, KeyIds
<1>9. /\ keys' \in Seq(Key) /\ KeyIds' = KeyIds \cup {n} /\ n \notin KeyIds
      /\ \A j \in KeyIds : keys'[j] = mid[j]
      /\ keys'[n] = new
  <2>1. n = Len(mid) + 1
    BY <1>8
  <2> QED
    BY ONLY <1>3, <1>7, <1>8, <2>1, Appended DEF KeyIds
<1>10. KeysTypeOK'
  <2>1. \A j \in KeyIds' : keys'[j] \in Key
    BY <1>5, <1>7, <1>8, <1>9, KeyFacts
  <2>2. \A c \in signed' : c.key \in KeyIds' /\ c.at \in 1 .. MaxClock
    BY <1>2, <1>9 DEF KeysTypeOK
  <2> QED
    BY <1>2, <2>1, <2>2 DEF KeysTypeOK
<1>11. KeysInv'
  <2>1. \A j \in KeyIds' : keys'[j].product \in live \cup deleted
    BY <1>1, <1>5, <1>7, <1>8, <1>9 DEF KeysInv
  <2>2. \A j \in KeyIds' : Expiry(keys'[j])
    BY <1>6, <1>7, <1>8, <1>9 DEF KeysInv
  <2>3. \A key : Expiry(key)' <=> Expiry(key)
    BY <1>2 DEF Expiry
  <2> QED
    BY <1>2, <1>9, <2>1, <2>2, <2>3 DEF KeysInv, Expiry
<1>12. ProductLock' /\ SignedInv' /\ MilestonesInOrder'
  BY <1>2, <1>9 DEF ProductLock, SignedInv, MilestonesInOrder, Adds, Free
<1>13. KeyLock'
  <2>1. \A j \in KeyIds : /\ keys'[j].product = keys[j].product /\ keys'[j].kind = keys[j].kind
                          /\ keys'[j].revoked = keys[j].revoked /\ keys'[j].chosen = keys[j].chosen
                          /\ keys'[j].expires > clock => keys[j].expires > clock
    <3> SUFFICES ASSUME NEW j \in KeyIds
                 PROVE  /\ keys'[j].product = keys[j].product /\ keys'[j].kind = keys[j].kind
                        /\ keys'[j].revoked = keys[j].revoked
                        /\ keys'[j].chosen = keys[j].chosen
                        /\ keys'[j].expires > clock => keys[j].expires > clock
      OBVIOUS
    <3>1. CASE j = k
      <4>1. keys[k].expires \in Nat /\ clock \in Nat
        BY <1>1 DEF Key
      <4>2. keys'[j] = turned
        BY <1>8, <1>9, <3>1
      <4>3. late > clock => keys[k].expires > clock
        BY ONLY <1>4, <4>1
      <4> QED
        BY <1>5, <3>1, <4>2, <4>3
    <3>2. CASE j # k
      BY <1>8, <1>9, <3>2
    <3> QED
      BY <3>1, <3>2
  <2>2. \A q, kind : Chosen(q, kind)' \subseteq Chosen(q, kind)
    BY <1>2, <1>7, <1>9, <2>1 DEF Chosen, ActiveKeys, Active
  <2> QED
    BY <1>2, <2>2, KeyLockKept DEF KeyLock, Adds
<1>14. DoorInv'
  <2> SUFFICES ASSUME NEW q \in live, \A j \in KeyIds' : keys'[j].product = q => ~keys'[j].revoked
               PROVE  \E j \in KeyIds' : /\ keys'[j].product = q /\ keys'[j].kind = "write"
                                        /\ keys'[j].expires = Forever
    BY <1>2 DEF DoorInv
  <2>1. ASSUME NEW j \in KeyIds, keys[j].product = q PROVE ~keys[j].revoked
    <3>1. keys'[j].product = keys[j].product /\ keys'[j].revoked = keys[j].revoked
      <4>1. CASE j = k
        BY <1>5, <1>8, <1>9, <4>1
      <4>2. CASE j # k
        BY <1>8, <1>9, <4>2
      <4> QED
        BY <4>1, <4>2
    <3> QED
      BY <1>9, <2>1, <3>1
  <2>2. PICK j \in KeyIds : keys[j].product = q /\ keys[j].kind = "write" /\ keys[j].expires = Forever
    BY <2>1 DEF DoorInv
  <2>3. CASE j = k
    BY <1>7, <1>9, <2>2, <2>3
  <2>4. CASE j # k
    BY <1>8, <1>9, <2>2, <2>4
  <2> QED
    BY <2>3, <2>4
<1> QED
  BY <1>10, <1>11, <1>12, <1>13, <1>14

LEMMA DeleteProductKeeps ==
  ASSUME IInv, NEW p \in Products, DeleteProduct(p)
  PROVE  IInv'
<1> USE DEF IInv
<1>1. /\ p \in live /\ ~EnvironmentLocked(p)
      /\ live' = live \ {p} /\ deleted' = deleted \cup {p} /\ firsts' = [firsts EXCEPT ![p] = {}]
      /\ UNCHANGED <<keys, editing, signed, clock>>
  BY DEF DeleteProduct
<1>2. firsts' \in [Products -> SUBSET Milestones] /\ firsts'[p] = {}
      /\ \A q \in Products \ {p} : firsts'[q] = firsts[q]
  BY <1>1 DEF KeysTypeOK
<1>3. KeysTypeOK'
  BY <1>1, <1>2 DEF KeysTypeOK, KeyIds
<1>4. KeysInv' /\ SignedInv' /\ MilestonesInOrder'
  BY <1>1, <1>2 DEF KeysInv, Expiry, SignedInv, MilestonesInOrder, KeyIds
<1>5. Adds("product")' = Adds("product") /\ Adds("key")' = Adds("key")
  BY <1>1 DEF Adds
<1>6. ProductLock'
  <2>1. IsFiniteSet(live') /\ Cardinality(live') <= Cardinality(live)
        /\ Cardinality(live) \in Nat /\ Cardinality(live') \in Nat
    BY <1>1, FS_Subset, FS_CardinalityType DEF ProductLock
  <2>2. \A e \in Adds("product") : Free(editing[e].product)'
    BY <1>1 DEF ProductLock, Free
  <2>3. Cardinality(live') <= MaxProducts
        /\ (Cardinality(live) < MaxProducts => Cardinality(live') < MaxProducts)
    BY <2>1 DEF ProductLock
  <2> QED
    BY <1>5, <2>1, <2>2, <2>3 DEF ProductLock
<1>7. \A q \in live', kind \in Kinds : Chosen(q, kind)' \subseteq Chosen(q, kind)
  BY <1>1 DEF Chosen, ActiveKeys, Active, KeyIds
<1>8. KeyLock'
  <2>1. \A e \in Adds("key") : editing[e].product \in live'
    BY <1>1 DEF KeyLock, EnvironmentLocked
  <2> QED
    BY <1>1, <1>5, <1>7, <2>1, KeyLockKept
<1>9. DoorInv'
  BY <1>1 DEF DoorInv, KeyIds
<1> QED
  BY <1>3, <1>4, <1>6, <1>8, <1>9

(* Steps that change neither products nor keys nor edits.                     *)
LEMMA RestKept ==
  ASSUME IInv, UNCHANGED <<live, deleted, keys, editing>>, clock' \in clock .. MaxClock,
         \A c \in signed' : c.key \in KeyIds /\ c.at \in 1 .. clock',
         firsts' \in [Products -> SUBSET Milestones], MilestonesInOrder'
  PROVE  IInv'
<1> USE DEF IInv
<1>1. KeyIds' = KeyIds /\ \A what : Adds(what)' = Adds(what)
  BY DEF KeyIds, Adds
<1>2. clock \in 1 .. MaxClock
  BY DEF KeysTypeOK
<1>3. KeysTypeOK' /\ SignedInv'
  BY <1>1, <1>2 DEF KeysTypeOK, SignedInv
<1>4. KeysInv'
  <2>1. \A k \in KeyIds : Expiry(keys[k])'
    <3> SUFFICES ASSUME NEW k \in KeyIds PROVE Expiry(keys[k])'
      OBVIOUS
    <3>1. keys[k] \in Key /\ Expiry(keys[k])
      BY KeyFacts DEF KeysInv
    <3> QED
      BY <1>2, <3>1 DEF Expiry, Key
  <2> QED
    BY <1>1, <2>1 DEF KeysInv
<1>5. ProductLock' /\ DoorInv'
  BY <1>1 DEF ProductLock, DoorInv, Free
<1>6. \A p, kind : Chosen(p, kind)' \subseteq Chosen(p, kind)
  <2>1. ASSUME NEW k \in KeyIds, Active(k)' PROVE Active(k)
    <3>1. keys[k].expires \in Nat /\ keys' = keys /\ live' = live
      BY KeyFacts DEF Key
    <3>2. keys[k].expires > clock' /\ clock' \in Nat /\ clock \in Nat /\ clock' >= clock
      BY <1>2, <2>1, <3>1 DEF Active
    <3>3. keys[k].expires > clock
      BY ONLY <3>1, <3>2
    <3> QED
      BY <2>1, <3>1, <3>3 DEF Active
  <2> QED
    BY <1>1, <2>1 DEF Chosen, ActiveKeys
<1>7. KeyLock'
  BY <1>1, <1>6, KeyLockKept DEF KeyLock
<1> QED
  BY <1>3, <1>4, <1>5, <1>7

LEMMA RecordKeeps ==
  ASSUME IInv, NEW p \in Products, NEW m \in Milestones, Record(p, m)
  PROVE  firsts' \in [Products -> SUBSET Milestones] /\ MilestonesInOrder'
<1>1. /\ Reached(m) \subseteq Milestones
      /\ "report" \in Reached(m) => "confirmed" \in Reached(m)
      /\ "confirmed" \in Reached(m) => "opportunity" \in Reached(m)
  BY DEF Reached, Milestones
<1>2. firsts \in [Products -> SUBSET Milestones]
  BY DEF IInv, KeysTypeOK
<1>3. /\ firsts' \in [Products -> SUBSET Milestones]
      /\ firsts'[p] = firsts[p] \cup Reached(m)
      /\ \A q \in Products \ {p} : firsts'[q] = firsts[q]
  BY <1>1, <1>2 DEF Record
<1> QED
  BY <1>1, <1>3 DEF IInv, MilestonesInOrder

LEMMA ProductOf ==
  ASSUME IInv, NEW k \in KeyIds
  PROVE  keys[k].product \in Products
BY KeyFacts DEF Key

LEMMA IngestBatchKeeps ==
  ASSUME IInv, NEW k \in KeyIds, NEW m \in {"opportunity", "confirmed"}, IngestBatch(k, m)
  PROVE  IInv'
<1>1. m \in Milestones /\ clock \in 1 .. MaxClock
  BY DEF Milestones, IInv, KeysTypeOK
<1>2. firsts' \in [Products -> SUBSET Milestones] /\ MilestonesInOrder'
  BY <1>1, ProductOf, RecordKeeps DEF IngestBatch
<1> QED
  BY <1>1, <1>2, RestKept DEF IngestBatch, IInv, SignedInv

LEMMA SignKeeps ==
  ASSUME IInv, NEW k \in KeyIds, Sign(k)
  PROVE  IInv'
<1>1. clock \in 1 .. MaxClock /\ firsts \in [Products -> SUBSET Milestones]
  BY DEF IInv, KeysTypeOK
<1>2. MilestonesInOrder'
  BY DEF IInv, MilestonesInOrder, Sign
<1> QED
  BY <1>1, <1>2, RestKept DEF Sign, IInv, SignedInv

LEMMA SubmitKeeps ==
  ASSUME IInv, NEW c \in signed, Submit(c)
  PROVE  IInv'
<1>1. clock \in 1 .. MaxClock /\ c.key \in KeyIds /\ "report" \in Milestones
  BY DEF IInv, KeysTypeOK, Milestones
<1>2. firsts' \in [Products -> SUBSET Milestones] /\ MilestonesInOrder'
  BY <1>1, ProductOf, RecordKeeps DEF Submit
<1> QED
  BY <1>1, <1>2, RestKept DEF Submit, IInv, SignedInv

LEMMA TockKeeps ==
  ASSUME IInv, Tock
  PROVE  IInv'
<1>1. clock \in 1 .. MaxClock /\ firsts \in [Products -> SUBSET Milestones]
  BY DEF IInv, KeysTypeOK
<1>2. MilestonesInOrder' /\ clock' \in clock .. MaxClock /\ clock' = clock + 1
  BY <1>1 DEF IInv, MilestonesInOrder, Tock
<1>3. \A c \in signed' : c.key \in KeyIds /\ c.at \in 1 .. clock'
  BY <1>1, <1>2 DEF Tock, IInv, SignedInv
<1> QED
  BY <1>1, <1>2, <1>3, RestKept DEF Tock

-----------------------------------------------------------------------------

LEMMA InitKeys == KeysInit => IInv
<1> SUFFICES ASSUME KeysInit PROVE IInv
  OBVIOUS
<1>1. keys = <<>> /\ KeyIds = {}
  BY DEF KeysInit, KeyIds
<1>2. \A what : Adds(what) = {}
  BY DEF KeysInit, Adds
<1>3. KeysTypeOK
  BY <1>1 DEF KeysInit, KeysTypeOK
<1>4. KeysInv /\ DoorInv /\ SignedInv /\ MilestonesInOrder
  BY <1>1 DEF KeysInit, KeysInv, DoorInv, SignedInv, MilestonesInOrder
<1>5. ProductLock
  BY <1>2, FS_EmptySet DEF KeysInit, ProductLock
<1>6. KeyLock
  BY <1>2 DEF KeysInit, KeyLock
<1> QED
  BY <1>3, <1>4, <1>5, <1>6 DEF IInv

LEMMA KeysStep == IInv /\ [KeysNext]_keysVars => IInv'
<1> SUFFICES ASSUME IInv, [KeysNext]_keysVars PROVE IInv'
  OBVIOUS
<1>1. ASSUME NEW e \in Editing, InsertProduct(e) \/ InsertKey(e) \/ Abandon(e) PROVE IInv'
  BY <1>1, InsertProductKeeps, InsertKeyKeeps, AbandonKeeps
<1>2. ASSUME NEW e \in Editing, NEW p \in Products, CountProducts(e, p) PROVE IInv'
  BY <1>2, CountProductsKeeps
<1>3. ASSUME NEW e \in Editing, NEW p \in Products, NEW kind \in Kinds,
             NEW until \in {clock + ShortLife, Forever}, CountKeys(e, p, kind, until)
      PROVE  IInv'
  BY <1>3, CountKeysKeeps
<1>4. ASSUME NEW k \in KeyIds, RevokeKey(k) \/ RotateKey(k) \/ Sign(k) PROVE IInv'
  BY <1>4, RevokeKeyKeeps, RotateKeyKeeps, SignKeeps
<1>5. ASSUME NEW p \in Products, DeleteProduct(p) PROVE IInv'
  BY <1>5, DeleteProductKeeps
<1>6. ASSUME NEW k \in KeyIds, NEW m \in {"opportunity", "confirmed"}, IngestBatch(k, m)
      PROVE  IInv'
  BY <1>6, IngestBatchKeeps
<1>7. ASSUME NEW c \in signed, Submit(c) PROVE IInv'
  BY <1>7, SubmitKeeps
<1>8. CASE Tock
  BY <1>8, TockKeeps
<1>9. CASE UNCHANGED keysVars
  <2>1. clock \in 1 .. MaxClock /\ firsts \in [Products -> SUBSET Milestones]
    BY DEF IInv, KeysTypeOK
  <2>2. MilestonesInOrder'
    BY <1>9 DEF IInv, MilestonesInOrder, keysVars
  <2> QED
    BY <1>9, <2>1, <2>2, RestKept DEF keysVars, IInv, SignedInv
<1> QED
  BY <1>1, <1>2, <1>3, <1>4, <1>5, <1>6, <1>7, <1>8, <1>9 DEF KeysNext

(* The parts of KeysServe.                                                   *)

LEMMA Limits == IInv => LimitsHold
BY DEF IInv, ProductLock, KeyLock, LimitsHold, Chosen

LEMMA Doors == IInv => NeverLockedOut
<1> SUFFICES ASSUME IInv, NEW chosen \in Products
             PROVE  /\ live # {} => Landing(chosen) # {}
                    /\ \A shown \in Landing(chosen) :
                          (\A k \in KeyIds : keys[k].product = shown.product => ~keys[k].revoked) =>
                             \E k \in shown.keys : keys[k].kind = "write" /\ keys[k].expires = Forever
  BY DEF NeverLockedOut
<1>1. live # {} => Landing(chosen) # {}
  <2>1. live # {} => (IF chosen \in live THEN {chosen} ELSE live) # {}
    OBVIOUS
  <2> QED
    BY <2>1 DEF Landing
<1>2. ASSUME NEW shown \in Landing(chosen),
             \A k \in KeyIds : keys[k].product = shown.product => ~keys[k].revoked
      PROVE  \E k \in shown.keys : keys[k].kind = "write" /\ keys[k].expires = Forever
  <2>1. shown.product \in live
        /\ shown.keys = {k \in KeyIds : keys[k].product = shown.product /\ Active(k)}
    BY DEF Landing
  <2>2. PICK k \in KeyIds : /\ keys[k].product = shown.product /\ keys[k].kind = "write"
                            /\ keys[k].expires = Forever
    BY <1>2, <2>1 DEF IInv, DoorInv
  <2>3. Forever > clock
    BY DEF IInv, KeysTypeOK
  <2> QED
    BY <1>2, <2>1, <2>2, <2>3 DEF Active
<1> QED
  BY <1>1, <1>2

LEMMA Rotations == IInv => RotationIsSafe
<1> SUFFICES ASSUME IInv, NEW c \in signed, c.at <= keys[c.key].rotated,
                    clock < keys[c.key].rotated + Overlap, keys[c.key].product \in live,
                    ~keys[c.key].revoked, keys[c.key].until > clock
             PROVE  Active(c.key)
  BY DEF RotationIsSafe
<1>1. c.key \in KeyIds /\ Expiry(keys[c.key])
  BY DEF IInv, SignedInv, KeysInv
<1> QED
  BY <1>1 DEF Expiry, Active

(* What a team can rely on when its keys change under the traffic: the caps   *)
(* hold, none is locked out, a rotation leaves the agents their overlap and   *)
(* the milestones of a product are in order (KeysServe).                     *)
THEOREM KeysAlwaysServe == KeysSpec => []KeysServe
<1>1. IInv => KeysServe
  BY Limits, Doors, Rotations DEF KeysServe, IInv
<1> QED
  BY <1>1, InitKeys, KeysStep, PTL DEF KeysSpec

(* Products and keys are typed (KeysTypeOK, a part of ConsoleTypeOK).         *)
THEOREM KeysTyped == KeysSpec => []KeysTypeOK
<1>1. IInv => KeysTypeOK
  BY DEF IInv
<1> QED
  BY <1>1, InitKeys, KeysStep, PTL DEF KeysSpec

-----------------------------------------------------------------------------
(* The GitHub installation.                                                  *)

(* GitHub announces each of its changes, and what is heard is in newest.      *)
NewsFit ==
    /\ \A d \in deliveries :
          d.version \in 1 .. github.version /\ (d.done => d.version <= row.newest)
    /\ \A d, e \in deliveries : d.version = e.version => d.action = e.action
    /\ github.version > 0 =>
          \E d \in deliveries :
             d.version = github.version /\ (d.action \in Revocations <=> github.state # "active")

(* A row that no callback wrote last says what the webhook it knows said.     *)
RowFits ==
    /\ row.newest <= github.version
    /\ row.team # NoTeam /\ ~row.callback =>
          \E d \in deliveries :
             d.version = row.known /\ (row.active <=> d.action \notin Revocations)

(* A callback goes on for the team whose flow it came back from.              *)
ReturningFit ==
    \A c \in Callbacks :
        returning[c] # NoCallback =>
           /\ returning[c].flow \in FlowIds /\ flows[returning[c].flow] = returning[c].team
           /\ returning[c].known <= github.version

InstallInv == InstallTypeOK /\ NewsFit /\ RowFits /\ ReturningFit /\ MapsOwn

-----------------------------------------------------------------------------
LEMMA InstallTypes ==
  ASSUME InstallTypeOK
  PROVE  /\ github.version \in Nat /\ github.version <= MaxVersion /\ MaxVersion \in Nat
         /\ github.state \in {"none", "active", "suspended", "deleted"}
         /\ row.newest \in Nat /\ row.known \in Nat /\ row.active \in BOOLEAN
         /\ row.callback \in BOOLEAN /\ row.team \in Teams \cup {NoTeam}
         /\ row.newest <= MaxVersion /\ row.known <= MaxVersion
         /\ \A d \in deliveries :
               /\ d.version \in Nat /\ d.version <= MaxVersion /\ d.done \in BOOLEAN
               /\ d.action \in {"created", "unsuspend"} \cup Revocations
BY InstallAssumption DEF InstallTypeOK, Row, Versions, Delivery

LEMMA InstallBegins == InstallInit => InstallInv
<1> SUFFICES ASSUME InstallInit PROVE InstallInv
  OBVIOUS
<1>1. InstallTypeOK
  <2>1. flows \in [1 .. 0 -> Teams] /\ 0 \in 0 .. MaxFlows /\ 0 \in Versions
    BY InstallAssumption DEF InstallInit, Versions
  <2>2. deliveries \subseteq Delivery /\ mapped \subseteq Teams /\ editors \subseteq Teams
    BY DEF InstallInit
  <2>3. row \in Row /\ github \in [state : {"none", "active", "suspended", "deleted"},
                                   version : Versions]
    BY <2>1 DEF InstallInit, Row
  <2>4. returning \in [Callbacks -> Callback \cup {NoCallback}] /\ flow \in 0 .. MaxFlows
    BY <2>1 DEF InstallInit
  <2> QED
    BY <2>1, <2>2, <2>3, <2>4 DEF InstallTypeOK
<1>2. NewsFit /\ RowFits /\ ReturningFit /\ MapsOwn
  BY DEF InstallInit, NewsFit, RowFits, ReturningFit, MapsOwn
<1> QED
  BY <1>1, <1>2 DEF InstallInv

(* What GitHub does is news: it came after all that was heard.                *)
LEMMA BecomesKeeps ==
  ASSUME InstallInv, NEW state, NEW action, Becomes(state, action),
         state \in {"active", "suspended", "deleted"},
         action \in {"created", "unsuspend"} \cup Revocations,
         action \in Revocations <=> state # "active"
  PROVE  InstallInv'
<1> DEFINE v == github.version + 1
           d == [version |-> v, action |-> action, done |-> FALSE]
<1>1. /\ github' = [state |-> state, version |-> v] /\ deliveries' = deliveries \cup {d}
      /\ UNCHANGED <<flows, flow, editors, returning, row, mapped>>
  BY DEF Becomes
<1>2. v \in 1 .. MaxVersion /\ v > github.version
  BY InstallTypes DEF InstallInv, Becomes
<1>3. InstallTypeOK'
  <2>1. github' \in [state : {"none", "active", "suspended", "deleted"}, version : Versions]
    BY <1>1, <1>2 DEF Versions
  <2>2. d \in Delivery
    BY <1>2 DEF Delivery, Versions
  <2> QED
    BY <1>1, <2>1, <2>2 DEF InstallInv, InstallTypeOK, FlowIds
<1>4. NewsFit'
  <2>1. ASSUME NEW e \in deliveries' 
        PROVE  e.version \in 1 .. v /\ (e.done => e.version <= row.newest)
    BY <1>1, <1>2, InstallTypes DEF InstallInv, NewsFit
  <2>2. \A e \in deliveries : e.version # v
    BY <1>2, InstallTypes DEF InstallInv, NewsFit
  <2>3. \A e, f \in deliveries' : e.version = f.version => e.action = f.action
    BY <1>1, <2>2 DEF InstallInv, NewsFit
  <2>4. d \in deliveries' /\ d.version = v /\ d.action = action
    BY <1>1
  <2> QED
    BY <1>1, <2>1, <2>3, <2>4 DEF NewsFit
<1>5. RowFits' /\ ReturningFit' /\ MapsOwn'
  <2>1. row.newest <= v
    BY <1>2, InstallTypes DEF InstallInv, RowFits
  <2>2. ASSUME NEW c \in Callbacks, returning[c] # NoCallback PROVE returning[c].known <= v
    <3>1. returning[c].known \in Nat /\ returning[c].known <= github.version
      BY <2>2, InstallAssumption DEF InstallInv, InstallTypeOK, Callback, Versions, ReturningFit
    <3> QED
      BY <3>1, <1>2, InstallTypes DEF InstallInv
  <2> QED
    BY <1>1, <2>1, <2>2 DEF InstallInv, RowFits, ReturningFit, MapsOwn, FlowIds
<1> QED
  BY <1>3, <1>4, <1>5 DEF InstallInv

LEMMA StartInstallKeeps ==
  ASSUME InstallInv, NEW team \in Teams, StartInstall(team)
  PROVE  InstallInv'
<1>1. PICK k \in 0 .. MaxFlows : flows \in [1 .. k -> Teams]
  BY DEF InstallInv, InstallTypeOK
<1>2. k \in Nat /\ FlowIds = 1 .. k
  BY <1>1, InstallAssumption DEF FlowIds
<1>3. Cardinality(FlowIds) = k
  BY <1>2, FS_Interval
<1>4. /\ k + 1 \in 1 .. MaxFlows /\ flow' = k + 1
      /\ flows' = [i \in 1 .. k + 1 |-> IF i = k + 1 THEN team ELSE flows[i]]
      /\ UNCHANGED <<editors, github, returning, deliveries, row, mapped>>
  BY <1>2, <1>3, InstallAssumption DEF StartInstall
<1>5. InstallTypeOK'
  <2>1. \A i \in 1 .. k + 1 : i # k + 1 => i \in 1 .. k
    BY <1>2
  <2>2. \A i \in 1 .. k + 1 : (IF i = k + 1 THEN team ELSE flows[i]) \in Teams
    BY <1>1, <2>1
  <2>3. flows' \in [1 .. k + 1 -> Teams]
    BY <1>4, <2>2
  <2>4. k + 1 \in 0 .. MaxFlows
    BY <1>2, <1>4, InstallAssumption
  <2> QED
    BY <1>4, <2>3, <2>4 DEF InstallInv, InstallTypeOK
<1>6. ReturningFit'
  <2>1. \A i \in FlowIds : i \in FlowIds' /\ flows'[i] = flows[i]
    BY <1>1, <1>2, <1>4 DEF FlowIds
  <2> QED
    BY <1>4, <2>1 DEF InstallInv, ReturningFit
<1> QED
  BY <1>4, <1>5, <1>6 DEF InstallInv, NewsFit, RowFits, MapsOwn

LEMMA ReturnFromGithubKeeps ==
  ASSUME InstallInv, NEW c \in Callbacks, NEW f \in FlowIds, ReturnFromGithub(c, f)
  PROVE  InstallInv'
<1> DEFINE call == [flow |-> f, team |-> flows[f], known |-> github.version]
<1>1. /\ UNCHANGED <<flows, editors, github, deliveries, row, mapped>>
      /\ \/ returning' = [returning EXCEPT ![c] = call] /\ flow' = flow
         \/ returning' = returning /\ flow' = 0
  BY DEF ReturnFromGithub
<1>2. call \in Callback
  <2>1. flows[f] \in Teams /\ f \in 1 .. MaxFlows /\ github.version \in Versions
    BY InstallAssumption DEF InstallInv, InstallTypeOK, FlowIds
  <2> QED
    BY <2>1 DEF Callback
<1>3. InstallTypeOK'
  <2>1. returning' \in [Callbacks -> Callback \cup {NoCallback}]
    BY <1>1, <1>2 DEF InstallInv, InstallTypeOK
  <2>2. flow' \in 0 .. MaxFlows
    BY <1>1, InstallAssumption DEF InstallInv, InstallTypeOK
  <2> QED
    BY <1>1, <2>1, <2>2 DEF InstallInv, InstallTypeOK
<1>4. ReturningFit'
  <2> SUFFICES ASSUME NEW b \in Callbacks, returning'[b] # NoCallback
               PROVE  /\ returning'[b].flow \in FlowIds
                      /\ flows[returning'[b].flow] = returning'[b].team
                      /\ returning'[b].known <= github.version
    BY <1>1 DEF ReturningFit, FlowIds
  <2>1. returning'[b] = returning[b] \/ returning'[b] = call
    BY <1>1 DEF InstallInv, InstallTypeOK
  <2> QED
    BY <2>1, InstallTypes DEF InstallInv, ReturningFit
<1> QED
  BY <1>1, <1>3, <1>4 DEF InstallInv, NewsFit, RowFits, MapsOwn

(* What a write of the row leaves in order; the rest is up to the writer.     *)
LEMMA BindKeeps ==
  ASSUME InstallInv, NEW team \in Teams, NEW known \in Nat, known <= github.version,
         NEW callback \in BOOLEAN, Bind(team, known, callback)
  PROVE  /\ row' \in Row /\ row'.newest >= row.newest /\ row'.newest <= github.version
         /\ row.team # NoTeam => row'.team = row.team
         /\ row'.team # row.team => row'.team = team
         /\ \/ row' = row
            \/ /\ row'.known = known /\ row'.active = TRUE /\ row'.callback = callback
               /\ row'.newest >= known /\ row'.team = team
         /\ row.team = team => row'.newest >= known
<1>1. known \in Versions /\ row.newest \in Versions /\ github.version \in Nat
      /\ row.newest <= github.version
  BY InstallTypes DEF Versions, InstallInv, RowFits
<1>2. /\ NewestHeard(known) \in Versions /\ NewestHeard(known) <= github.version
      /\ NewestHeard(known) >= known /\ NewestHeard(known) >= row.newest
  BY <1>1, InstallAssumption DEF NewestHeard, Versions
<1>3. CASE row.team \in {NoTeam, team}
  <2>1. row' = [team |-> team, active |-> TRUE, known |-> known, newest |-> NewestHeard(known),
                callback |-> callback]
    BY <1>3 DEF Bind
  <2> QED
    BY <1>1, <1>2, <1>3, <2>1 DEF Row
<1>4. CASE row.team \notin {NoTeam, team}
  <2>1. row' = row
    BY <1>4 DEF Bind
  <2>2. row.newest \in Nat
    BY <1>1, InstallAssumption DEF Versions
  <2> QED
    BY <1>1, <1>4, <2>1, <2>2 DEF InstallInv, InstallTypeOK
<1> QED
  BY <1>3, <1>4

(* FALSE for the flag of a write no callback made.                            *)
LEMMA HeardFits ==
  ASSUME InstallInv, NEW known \in Nat, known <= github.version
  PROVE  /\ NewestHeard(known) \in Versions /\ NewestHeard(known) <= github.version
         /\ NewestHeard(known) >= known /\ NewestHeard(known) >= row.newest
         /\ Heard(known) \in Row /\ Heard(known).newest = NewestHeard(known)
         /\ Heard(known).team = row.team /\ Heard(known).callback = row.callback
         /\ Heard(known).known = row.known /\ Heard(known).active = row.active
<1>1. known \in Versions /\ row.newest \in Versions /\ github.version \in Nat
      /\ row.newest <= github.version
  BY InstallTypes DEF Versions, InstallInv, RowFits
<1>2. /\ NewestHeard(known) \in Versions /\ NewestHeard(known) <= github.version
      /\ NewestHeard(known) >= known /\ NewestHeard(known) >= row.newest
  BY <1>1, InstallAssumption DEF NewestHeard, Versions
<1> QED
  BY <1>1, <1>2 DEF Heard, Row, InstallInv, InstallTypeOK

LEMMA FinishCallbackKeeps ==
  ASSUME InstallInv, NEW c \in Callbacks, FinishCallback(c)
  PROVE  InstallInv'
<1>1. /\ returning[c] # NoCallback /\ Bind(returning[c].team, returning[c].known, TRUE)
      /\ returning' = [returning EXCEPT ![c] = NoCallback] /\ flow' = 0
      /\ UNCHANGED <<flows, editors, github, deliveries, mapped>>
  BY DEF FinishCallback
<1>2. returning[c].team \in Teams /\ returning[c].known \in Nat
      /\ returning[c].known <= github.version
  BY <1>1, InstallAssumption DEF InstallInv, InstallTypeOK, Callback, Versions, ReturningFit
<1>3. /\ row' \in Row /\ row'.newest >= row.newest /\ row'.newest <= github.version
      /\ row.team # NoTeam => row'.team = row.team
      /\ row' = row \/ row'.callback = TRUE
  BY <1>1, <1>2, BindKeeps
<1>4. InstallTypeOK'
  <2>1. returning' \in [Callbacks -> Callback \cup {NoCallback}]
    BY <1>1 DEF InstallInv, InstallTypeOK
  <2>2. flow' \in 0 .. MaxFlows
    BY <1>1, InstallAssumption
  <2> QED
    BY <1>1, <1>3, <2>1, <2>2 DEF InstallInv, InstallTypeOK
<1>5. NewsFit'
  <2>1. \A d \in deliveries : d.done => d.version <= row'.newest
    BY <1>3, InstallTypes DEF InstallInv, NewsFit, Row, Versions
  <2> QED
    BY <1>1, <2>1 DEF InstallInv, NewsFit
<1>6. RowFits'
  BY <1>1, <1>3 DEF InstallInv, RowFits
<1>7. ReturningFit' /\ MapsOwn'
  BY <1>1, <1>3, InstallAssumption DEF InstallInv, InstallTypeOK, ReturningFit, MapsOwn, FlowIds
<1> QED
  BY <1>4, <1>5, <1>6, <1>7 DEF InstallInv

(* A webhook is written as it is, whenever it comes.                          *)
LEMMA DeliverRow ==
  ASSUME InstallInv, NEW d \in deliveries, Deliver(d)
  PROVE  /\ row' \in Row /\ row'.newest >= row.newest /\ row'.newest <= github.version
         /\ row'.newest >= d.version /\ row'.team = row.team
         /\ \/ row.team = NoTeam
            \/ /\ row'.known = d.version /\ row'.callback = FALSE
               /\ row'.active <=> d.action \notin Revocations
<1>1. d.version \in Nat /\ d.version <= github.version
  BY InstallTypes DEF InstallInv, NewsFit
<1>2. CASE d.action \in Revocations
  <2>1. CASE row.team = NoTeam
    <3>1. row' = Heard(d.version)
      BY <1>2, <2>1 DEF Deliver, Unbind
    <3> QED
      BY <1>1, <2>1, <3>1, HeardFits
  <2>2. CASE row.team # NoTeam
    <3>1. row' = [team |-> row.team, active |-> FALSE, known |-> d.version,
                  newest |-> NewestHeard(d.version), callback |-> FALSE]
      BY <1>2, <2>2 DEF Deliver, Unbind
    <3>2. row.team \in Teams \cup {NoTeam} /\ d.version \in Versions
      BY <1>1, InstallTypes DEF InstallInv, Versions
    <3> QED
      BY <1>1, <1>2, <3>1, <3>2, HeardFits DEF Row
  <2> QED
    BY <2>1, <2>2
<1>3. CASE d.action \notin Revocations
  <2>1. CASE row.team = NoTeam
    <3>1. row' = Heard(d.version)
      BY <1>3, <2>1 DEF Deliver
    <3> QED
      BY <1>1, <2>1, <3>1, HeardFits
  <2>2. CASE row.team # NoTeam
    <3>1. row' = [team |-> row.team, active |-> TRUE, known |-> d.version,
                  newest |-> NewestHeard(d.version), callback |-> FALSE]
      BY <1>3, <2>2 DEF Deliver, Bind
    <3>2. row.team \in Teams \cup {NoTeam} /\ d.version \in Versions
      BY <1>1, InstallTypes DEF InstallInv, Versions
    <3> QED
      BY <1>1, <1>3, <3>1, <3>2, HeardFits DEF Row
  <2> QED
    BY <2>1, <2>2
<1> QED
  BY <1>2, <1>3

LEMMA DeliverKeeps ==
  ASSUME InstallInv, NEW d \in deliveries, Deliver(d)
  PROVE  InstallInv'
<1> DEFINE done == [d EXCEPT !.done = TRUE]
<1>1. /\ deliveries' = (deliveries \ {d}) \cup {done}
      /\ UNCHANGED <<flows, flow, editors, github, returning, mapped>>
  BY DEF Deliver
<1>2. /\ done \in Delivery /\ done.version = d.version /\ done.action = d.action
  BY DEF InstallInv, InstallTypeOK, Delivery
<1>3. /\ row' \in Row /\ row'.newest >= row.newest /\ row'.newest <= github.version
      /\ row'.newest >= d.version /\ row'.team = row.team
      /\ \/ row.team = NoTeam
         \/ /\ row'.known = d.version /\ row'.callback = FALSE
            /\ row'.active <=> d.action \notin Revocations
  BY DeliverRow
<1>4. InstallTypeOK'
  BY <1>1, <1>2, <1>3 DEF InstallInv, InstallTypeOK
<1>5. ASSUME NEW e \in deliveries'
      PROVE  \E g \in deliveries : /\ g.version = e.version /\ g.action = e.action
                                   /\ g = e \/ e = done
  BY <1>1, <1>2
<1>6. ASSUME NEW e \in deliveries
      PROVE  \E g \in deliveries' : g.version = e.version /\ g.action = e.action
  BY <1>1, <1>2
<1>7. NewsFit'
  <2>1. ASSUME NEW e \in deliveries'
        PROVE  e.version \in 1 .. github.version /\ (e.done => e.version <= row'.newest)
    <3>1. CASE e = done
      BY <3>1, <1>2, <1>3 DEF InstallInv, NewsFit
    <3>2. CASE e \in deliveries
      BY <3>2, <1>3, InstallTypes DEF InstallInv, NewsFit, Row, Versions
    <3> QED
      BY <3>1, <3>2, <1>1
  <2>2. \A e, g \in deliveries' : e.version = g.version => e.action = g.action
    BY <1>5 DEF InstallInv, NewsFit
  <2> QED
    BY <1>1, <1>6, <2>1, <2>2 DEF InstallInv, NewsFit
<1>8. RowFits'
  <2>1. done \in deliveries'
    BY <1>1
  <2> QED
    BY <1>1, <1>2, <1>3, <2>1 DEF RowFits
<1>9. ReturningFit' /\ MapsOwn'
  BY <1>1, <1>3 DEF InstallInv, ReturningFit, MapsOwn, FlowIds
<1> QED
  BY <1>4, <1>7, <1>8, <1>9 DEF InstallInv

LEMMA InstallStays ==
  ASSUME InstallInv, [InstallNext]_installVars
  PROVE  InstallInv'
<1>1. CASE Install \/ Suspend \/ Unsuspend \/ Uninstall
  BY <1>1, BecomesKeeps DEF Install, Suspend, Unsuspend, Uninstall, Revocations
<1>2. ASSUME NEW team \in Teams, StartInstall(team) PROVE InstallInv'
  BY <1>2, StartInstallKeeps
<1>3. ASSUME NEW team \in Teams,
             ChangeEditor(team) \/ MapRepository(team) \/ ClearRepository(team)
      PROVE  InstallInv'
  <2>1. /\ UNCHANGED <<flows, flow, github, returning, deliveries, row>>
        /\ editors' \subseteq Teams
        /\ mapped' \subseteq Teams /\ (\A t \in mapped' : row.team = t)
    BY <1>3 DEF ChangeEditor, MapRepository, ClearRepository, InstallInv, InstallTypeOK, MapsOwn
  <2> QED
    BY <2>1 DEF InstallInv, InstallTypeOK, NewsFit, RowFits, ReturningFit, MapsOwn, FlowIds
<1>4. ASSUME NEW c \in Callbacks, NEW f \in FlowIds, ReturnFromGithub(c, f) PROVE InstallInv'
  BY <1>4, ReturnFromGithubKeeps
<1>5. ASSUME NEW c \in Callbacks, FinishCallback(c) PROVE InstallInv'
  BY <1>5, FinishCallbackKeeps
<1>6. ASSUME NEW c \in Callbacks, CallbackFails(c) PROVE InstallInv'
  BY <1>6 DEF CallbackFails, InstallInv, InstallTypeOK, NewsFit, RowFits, ReturningFit, MapsOwn,
              FlowIds
<1>7. ASSUME NEW d \in deliveries, Deliver(d) PROVE InstallInv'
  BY <1>7, DeliverKeeps
<1>8. CASE UNCHANGED installVars
  BY <1>8 DEF installVars, InstallInv, InstallTypeOK, NewsFit, RowFits, ReturningFit, MapsOwn,
              FlowIds
<1> QED
  BY <1>1, <1>2, <1>3, <1>4, <1>5, <1>6, <1>7, <1>8 DEF InstallNext

LEMMA Follows == InstallInv => FollowsGithub
<1> SUFFICES ASSUME InstallInv, row.team # NoTeam, ~row.callback, row.known = row.newest
             PROVE  \/ row.active <=> github.state = "active"
                    \/ \E d \in deliveries : ~d.done /\ d.version > row.known
  BY DEF FollowsGithub
<1>1. PICK d \in deliveries : d.version = row.known /\ (row.active <=> d.action \notin Revocations)
  BY DEF InstallInv, RowFits
<1>2. github.version > 0
  BY <1>1, InstallTypes DEF InstallInv, NewsFit
<1>3. PICK e \in deliveries :
         e.version = github.version /\ (e.action \in Revocations <=> github.state # "active")
  BY <1>2 DEF InstallInv, NewsFit
<1>4. CASE row.known = github.version
  BY <1>1, <1>3, <1>4 DEF InstallInv, NewsFit
<1>5. CASE row.known # github.version
  <2>1. e.version > row.known
    BY <1>3, <1>5, InstallTypes DEF InstallInv, RowFits
  <2>2. ~e.done
    BY <2>1, InstallTypes DEF InstallInv, NewsFit
  <2> QED
    BY <2>1, <2>2
<1> QED
  BY <1>4, <1>5

LEMMA Binds == ASSUME InstallInv, [InstallNext]_installVars PROVE [BindsFlowsTeam]_installVars
<1> SUFFICES ASSUME InstallNext, row'.team # row.team
             PROVE  /\ row.team = NoTeam
                    /\ \E c \in Callbacks :
                          /\ returning[c] # NoCallback /\ returning'[c] = NoCallback
                          /\ flows[returning[c].flow] = row'.team
  BY DEF BindsFlowsTeam
<1>1. \A d \in deliveries : ~Deliver(d)
  BY DeliverRow
<1>2. PICK c \in Callbacks : FinishCallback(c)
  BY <1>1 DEF InstallNext, Install, Suspend, Unsuspend, Uninstall, Becomes, StartInstall,
              ChangeEditor, MapRepository, ClearRepository, ReturnFromGithub, CallbackFails
<1>3. /\ returning[c] # NoCallback /\ Bind(returning[c].team, returning[c].known, TRUE)
      /\ returning' = [returning EXCEPT ![c] = NoCallback]
  BY <1>2 DEF FinishCallback
<1>4. /\ returning[c].team \in Teams /\ returning[c].known \in Nat
      /\ returning[c].known <= github.version
      /\ flows[returning[c].flow] = returning[c].team
  BY <1>3, InstallAssumption DEF InstallInv, InstallTypeOK, Callback, Versions, ReturningFit
<1>5. row.team = NoTeam /\ row'.team = returning[c].team
  BY <1>3, <1>4, BindKeeps
<1>6. returning'[c] = NoCallback
  BY <1>3 DEF InstallInv, InstallTypeOK
<1> QED
  BY <1>3, <1>4, <1>5, <1>6

(* However late, often and out of order the webhooks come, and whatever       *)
(* callbacks are in flight: a row that none of them wrote says what GitHub    *)
(* says or something it has not heard is on its way, products map what is     *)
(* their team's own, and the installation goes, once, to the team of the      *)
(* flow it came back from (InstallationIsOurs).                              *)
THEOREM InstallationStaysOurs == InstallSpec => InstallationIsOurs
<1>1. InstallInv => FollowsGithub /\ MapsOwn
  BY Follows DEF InstallInv
<1>2. InstallInv /\ [InstallNext]_installVars => [BindsFlowsTeam]_installVars
  BY Binds
<1> QED
  BY <1>1, <1>2, InstallBegins, InstallStays, PTL DEF InstallSpec, InstallationIsOurs

-----------------------------------------------------------------------------
(* Signing in.                                                               *)

HIDE KeysAssumption

(* What a call in flight relies on.                                          *)
CallFits(call) ==
    /\ call.token <= account.issued /\ call.new <= account.issued
    /\ call.pc # "exchange" => call.token # 0
    /\ call.pc \in {"who", "join", "post", "wait"} => call.new = 0
    /\ call.pc \in {"post", "answered", "wait"} =>
          \E f \in Flights : f.token = call.token /\ f.outcome = "none"
    /\ call.pc = "answered" /\ call.new = 0 => call.token \in spoiled

CallsFit == \A c \in Calls : calls[c] # NoCall => CallFits(calls[c])

Posting(call) == call # NoCall /\ call.pc \in {"post", "answered"}

OnePosts ==
    \A c, d \in Calls :
        Posting(calls[c]) /\ Posting(calls[d]) /\ calls[c].token = calls[d].token => c = d

FlightFits(f) ==
    /\ f.token <= account.issued /\ f.new <= account.issued
    /\ f.outcome = "unauthorized" => f.token \in spoiled

FlightsFit == \A f \in Flights : FlightFits(f)

(* A token has one flight.                                                   *)
Apart(entries) ==
    \A i, j \in 1 .. Len(entries) : entries[i].token = entries[j].token => i = j

KnowsNext(token) ==
    \/ \E f \in Flights : f.token = token /\ f.outcome = "success"
    \/ \E c \in Calls : Is(c, "answered") /\ calls[c].token = token /\ calls[c].new # 0

Traced == {token \in Tokens : KnowsNext(token)}

(* A token that is not in use any more has not been forgotten, or is spoiled. *)
Tracked ==
    \A token \in 1 .. account.issued :
        token = account.token \/ token \in spoiled \/ KnowsNext(token)

SessionInv ==
    /\ SignInTypeOK
    /\ account.token <= account.issued /\ jar.token <= account.issued
    /\ CallsFit /\ OnePosts
    /\ FlightsFit /\ Apart(flights)
    /\ Tracked
    /\ refused \subseteq spoiled

-----------------------------------------------------------------------------
(* Operators.                                                                *)

LEMMA Types ==
  ASSUME SignInTypeOK
  PROVE  /\ MaxToken \in Nat \ {0} /\ MaxFlights \in Nat \ {0} /\ MaxSignIn \in Nat
         /\ account.token \in 0 .. MaxToken /\ account.issued \in 1 .. MaxToken
         /\ account.expired \subseteq Tokens /\ account.started \in 0 .. MaxSignIn
         /\ jar.token \in 0 .. MaxToken /\ jar.access \in 0 .. MaxToken
         /\ jar.flow \in 0 .. MaxSignIn
         /\ flights \in Seq(Flight) /\ Len(flights) \in Nat /\ Len(flights) <= MaxFlights
         /\ calls \in [Calls -> Call \cup {NoCall}]
         /\ refused \subseteq Tokens /\ spoiled \subseteq Tokens
BY SignInAssumption DEF SignInTypeOK, Tokens, SignIns

LEMMA CallType ==
  ASSUME SignInTypeOK, NEW c \in Calls, calls[c] # NoCall
  PROVE  /\ calls[c] \in Call
         /\ calls[c].token \in 0 .. MaxToken /\ calls[c].access \in 0 .. MaxToken
         /\ calls[c].new \in 0 .. MaxToken
BY Types DEF Call

LEMMA FlightType ==
  ASSUME NEW f \in Flight
  PROVE  /\ f.token \in 1 .. MaxToken /\ f.new \in 0 .. MaxToken
         /\ f.outcome \in {"none", "success", "unauthorized", "unavailable"}
         /\ f = [token |-> f.token, outcome |-> f.outcome, new |-> f.new]
BY DEF Flight, Tokens

LEMMA FlightsAre ==
  ASSUME flights \in Seq(Flight)
  PROVE  /\ Flights = {flights[i] : i \in 1 .. Len(flights)}
         /\ Flights \subseteq Flight
BY DEF Flights, ToSet

LEMMA FlightsAreNext ==
  ASSUME flights' \in Seq(Flight)
  PROVE  /\ Flights' = {flights'[i] : i \in 1 .. Len(flights')}
         /\ Flights' \subseteq Flight
BY DEF Flights, ToSet

LEMMA OneFlight ==
  ASSUME flights \in Seq(Flight), Apart(flights), NEW f \in Flights, NEW g \in Flights,
         f.token = g.token
  PROVE  f = g
BY FlightsAre DEF Apart

LEMMA RemovedAt ==
  ASSUME NEW S, NEW s \in Seq(S), NEW i \in 1 .. Len(s)
  PROVE  /\ RemoveAt(s, i) \in Seq(S)
         /\ Len(RemoveAt(s, i)) = Len(s) - 1
         /\ \A j \in 1 .. Len(s) - 1 :
              RemoveAt(s, i)[j] = IF j < i THEN s[j] ELSE s[j + 1]
<1>1. PICK head \in Seq(S) :
        /\ head = SubSeq(s, 1, i - 1)
        /\ Len(head) = i - 1 /\ \A j \in 1 .. i - 1 : head[j] = s[j]
  <2>1. \A j \in 1 .. i - 1 : s[j] \in S
    OBVIOUS
  <2>2. /\ SubSeq(s, 1, i - 1) \in Seq(S)
        /\ Len(SubSeq(s, 1, i - 1)) = IF 1 <= i - 1 THEN (i - 1) - 1 + 1 ELSE 0
        /\ \A j \in 1 .. (i - 1) - 1 + 1 : SubSeq(s, 1, i - 1)[j] = s[1 + j - 1]
    BY <2>1, SubSeqProperties
  <2>3. Len(SubSeq(s, 1, i - 1)) = i - 1
    BY ONLY <2>2, i \in 1 .. Len(s), s \in Seq(S)
  <2>4. ASSUME NEW j \in 1 .. i - 1 PROVE SubSeq(s, 1, i - 1)[j] = s[j]
    <3>1. j \in 1 .. (i - 1) - 1 + 1 /\ 1 + j - 1 = j
      BY ONLY i \in 1 .. Len(s), s \in Seq(S), j \in 1 .. i - 1
    <3> QED
      BY ONLY <2>2, <3>1
  <2> QED
    BY ONLY <2>2, <2>3, <2>4
<1>2. PICK tail \in Seq(S) :
        /\ tail = SubSeq(s, i + 1, Len(s))
        /\ Len(tail) = Len(s) - i /\ \A j \in 1 .. Len(s) - i : tail[j] = s[i + j]
  <2>1. \A j \in i + 1 .. Len(s) : s[j] \in S
    OBVIOUS
  <2>2. /\ SubSeq(s, i + 1, Len(s)) \in Seq(S)
        /\ Len(SubSeq(s, i + 1, Len(s))) =
             IF i + 1 <= Len(s) THEN Len(s) - (i + 1) + 1 ELSE 0
        /\ \A j \in 1 .. Len(s) - (i + 1) + 1 :
             SubSeq(s, i + 1, Len(s))[j] = s[(i + 1) + j - 1]
    BY <2>1, SubSeqProperties
  <2>3. Len(SubSeq(s, i + 1, Len(s))) = Len(s) - i
    BY ONLY <2>2, i \in 1 .. Len(s), s \in Seq(S)
  <2>4. ASSUME NEW j \in 1 .. Len(s) - i PROVE SubSeq(s, i + 1, Len(s))[j] = s[i + j]
    <3>1. j \in 1 .. Len(s) - (i + 1) + 1 /\ (i + 1) + j - 1 = i + j
      BY ONLY i \in 1 .. Len(s), s \in Seq(S), j \in 1 .. Len(s) - i
    <3> QED
      BY ONLY <2>2, <3>1
  <2> QED
    BY ONLY <2>2, <2>3, <2>4
<1>3. PICK both \in Seq(S) :
        /\ both = head \o tail
        /\ Len(both) = Len(head) + Len(tail)
        /\ \A j \in 1 .. Len(head) + Len(tail) :
             both[j] = IF j <= Len(head) THEN head[j] ELSE tail[j - Len(head)]
  <2>1. /\ head \o tail \in Seq(S)
        /\ Len(head \o tail) = Len(head) + Len(tail)
        /\ \A j \in 1 .. Len(head) + Len(tail) :
             (head \o tail)[j] = IF j <= Len(head) THEN head[j] ELSE tail[j - Len(head)]
    BY ConcatProperties, Zenon
  <2> QED
    BY <2>1, Zenon
<1>4. RemoveAt(s, i) = both
  BY <1>1, <1>2, <1>3 DEF RemoveAt
<1>5. Len(s) \in Nat /\ i \in Nat /\ 1 <= i /\ i <= Len(s)
  OBVIOUS
<1>6. Len(head) + Len(tail) = Len(s) - 1 /\ Len(RemoveAt(s, i)) = Len(s) - 1
  <2>1. Len(head) + Len(tail) = Len(s) - 1
    <3>1. Len(head) = i - 1
      BY <1>1
    <3>2. Len(tail) = Len(s) - i
      BY <1>2
    <3> QED
      BY ONLY <3>1, <3>2, <1>5
  <2> QED
    BY <2>1, <1>3, <1>4
<1>7. ASSUME NEW j \in 1 .. Len(s) - 1
      PROVE  RemoveAt(s, i)[j] = IF j < i THEN s[j] ELSE s[j + 1]
  <2>1. RemoveAt(s, i)[j] = IF j <= i - 1 THEN head[j] ELSE tail[j - (i - 1)]
    <3>1. both[j] = IF j <= Len(head) THEN head[j] ELSE tail[j - Len(head)]
      BY <1>3, <1>6
    <3> QED
      BY <3>1, <1>1, <1>4
  <2>2. CASE j < i
    BY ONLY <2>1, <2>2, <1>1, <1>5, <1>7
  <2>3. CASE ~(j < i)
    <3>1. j - (i - 1) \in 1 .. Len(s) - i /\ i + (j - (i - 1)) = j + 1
      BY ONLY <2>3, <1>5, <1>7
    <3>2. tail[j - (i - 1)] = s[i + (j - (i - 1))]
      BY ONLY <3>1, <1>2
    <3> QED
      BY ONLY <2>1, <2>3, <3>1, <3>2, <1>5, <1>7
  <2> QED
    BY <2>2, <2>3
<1> QED
  BY <1>4, <1>6, <1>7

LEMMA Shorter ==
  ASSUME NEW entries \in Seq(Flight), Apart(entries), NEW i \in 1 .. Len(entries)
  PROVE  /\ RemoveAt(entries, i) \in Seq(Flight)
         /\ Len(RemoveAt(entries, i)) = Len(entries) - 1
         /\ ToSet(RemoveAt(entries, i)) = ToSet(entries) \ {entries[i]}
         /\ Apart(RemoveAt(entries, i))
<1>1. PICK rest \in Seq(Flight) :
        /\ rest = RemoveAt(entries, i)
        /\ Len(rest) = Len(entries) - 1
        /\ \A j \in 1 .. Len(entries) - 1 : rest[j] = IF j < i THEN entries[j] ELSE entries[j + 1]
  BY RemovedAt
<1>2. Len(entries) \in Nat /\ i \in Nat /\ 1 <= i /\ i <= Len(entries)
  OBVIOUS
<1>3. Apart(rest)
  <2> SUFFICES ASSUME NEW j \in 1 .. Len(rest), NEW k \in 1 .. Len(rest),
                      rest[j].token = rest[k].token
               PROVE  j = k
    BY DEF Apart
  <2>1. PICK m \in 1 .. Len(entries) : rest[j] = entries[m] /\ m = IF j < i THEN j ELSE j + 1
    BY <1>1, <1>2
  <2>2. PICK n \in 1 .. Len(entries) : rest[k] = entries[n] /\ n = IF k < i THEN k ELSE k + 1
    BY <1>1, <1>2
  <2>3. m = n
    BY <2>1, <2>2 DEF Apart
  <2> QED
    BY ONLY <2>1, <2>2, <2>3, <1>1, <1>2
<1>4. ToSet(rest) = {rest[j] : j \in 1 .. Len(rest)}
      /\ ToSet(entries) = {entries[j] : j \in 1 .. Len(entries)}
  BY DEF ToSet
<1>5. ASSUME NEW j \in 1 .. Len(rest) PROVE rest[j] \in ToSet(entries) \ {entries[i]}
  <2>1. PICK m \in 1 .. Len(entries) : rest[j] = entries[m] /\ m # i
    BY <1>1, <1>2
  <2> QED
    BY <2>1, <1>4 DEF Apart
<1>6. ASSUME NEW j \in 1 .. Len(entries), entries[j] # entries[i] PROVE entries[j] \in ToSet(rest)
  <2>1. CASE j < i
    BY ONLY <2>1, <1>1, <1>2, <1>4, j \in 1 .. Len(entries)
  <2>2. CASE j > i
    <3>1. j - 1 \in 1 .. Len(rest) /\ ~(j - 1 < i) /\ j - 1 + 1 = j
      BY ONLY <2>2, <1>1, <1>2, j \in 1 .. Len(entries)
    <3>2. rest[j - 1] = entries[j]
      BY ONLY <3>1, <1>1
    <3> QED
      BY <3>1, <3>2, <1>4
  <2> QED
    BY <1>6, <1>2, <2>1, <2>2
<1>7. ToSet(rest) = ToSet(entries) \ {entries[i]}
  BY ONLY <1>4, <1>5, <1>6
<1> QED
  BY <1>1, <1>3, <1>7

LEMMA Longer ==
  ASSUME NEW entries \in Seq(Flight), Apart(entries), NEW f \in Flight,
         \A g \in ToSet(entries) : g.token # f.token
  PROVE  /\ Append(entries, f) \in Seq(Flight)
         /\ Len(Append(entries, f)) = Len(entries) + 1
         /\ ToSet(Append(entries, f)) = ToSet(entries) \cup {f}
         /\ Apart(Append(entries, f))
<1>1. PICK all \in Seq(Flight) :
        /\ all = Append(entries, f)
        /\ Len(all) = Len(entries) + 1
        /\ \A j \in 1 .. Len(entries) : all[j] = entries[j]
        /\ all[Len(entries) + 1] = f
  BY AppendProperties, Zenon
<1>2. Len(entries) \in Nat
  OBVIOUS
<1>3. ToSet(all) = {all[j] : j \in 1 .. Len(all)}
      /\ ToSet(entries) = {entries[j] : j \in 1 .. Len(entries)}
  BY DEF ToSet
<1>4. ToSet(all) = ToSet(entries) \cup {f}
  BY ONLY <1>1, <1>2, <1>3
<1>5. Apart(all)
  BY <1>1, <1>2, <1>3 DEF Apart
<1> QED
  BY <1>1, <1>4, <1>5

(* make_room takes out nothing, or one entry that is over.                   *)
LEMMA RoomIsMade ==
  ASSUME SignInTypeOK
  PROVE  \/ MadeRoom(flights) = flights
         \/ \E i \in 1 .. Len(flights) :
              flights[i].outcome # "none" /\ MadeRoom(flights) = RemoveAt(flights, i)
<1> DEFINE over == {i \in 1 .. Len(flights) : flights[i].outcome # "none"}
<1>1. flights \in Seq(Flight) /\ DOMAIN flights = 1 .. Len(flights)
  BY Types
<1>2. SUFFICES ASSUME over # {}
               PROVE  \E i \in over : MadeRoom(flights) = flights \/ MadeRoom(flights) = RemoveAt(flights, i)
  BY <1>1 DEF MadeRoom
<1>3. over \subseteq Nat
  BY <1>1
<1>4. PICK first \in over : \A j \in over : ~ (<<j, first>> \in OpToRel(<, Nat))
  BY <1>2, <1>3, NatLessThanWellFounded, WFMin
<1>5. ASSUME NEW j \in over PROVE first <= j
  <2>1. OpToRel(<, Nat) = {ss \in Nat \X Nat : ss[1] < ss[2]}
    BY Zenon DEF OpToRel
  <2>2. <<j, first>> \notin {ss \in Nat \X Nat : ss[1] < ss[2]}
    BY <1>4, <2>1, Zenon
  <2> QED
    BY <1>3, <2>2
<1>6. (CHOOSE i \in over : \A j \in over : i <= j) \in over
  BY <1>5
<1> QED
  BY <1>1, <1>6 DEF MadeRoom

-----------------------------------------------------------------------------
(* What carries the invariant over a step.                                   *)

LEMMA CallsKept ==
  ASSUME SessionInv, SignInTypeOK', NEW c \in Calls, NEW call \in Call \cup {NoCall},
         calls' = [calls EXCEPT ![c] = call],
         \A f \in Flights : f.outcome = "none" => f \in Flights',
         account.issued <= account'.issued, spoiled \subseteq spoiled',
         call # NoCall => CallFits(call)',
         Posting(call) =>
            \/ Posting(calls[c]) /\ calls[c].token = call.token
            \/ \A d \in Calls : Posting(calls[d]) => calls[d].token # call.token
  PROVE  CallsFit' /\ OnePosts'
<1>1. calls \in [Calls -> Call \cup {NoCall}] /\ account.issued \in Nat
  BY Types DEF SessionInv
<1>6. account'.issued \in Nat
  BY SignInAssumption DEF SignInTypeOK, Tokens
<1>2. \A d \in Calls : calls'[d] = IF d = c THEN call ELSE calls[d]
  BY <1>1
<1>3. ASSUME NEW d \in Calls, d # c, calls[d] # NoCall PROVE CallFits(calls[d])'
  <2>1. PICK other : other = calls[d]
    OBVIOUS
  <2>2. other.token \in Nat /\ other.new \in Nat
    BY <1>3, <2>1, CallType, Types DEF SessionInv
  <2>3. CallFits(other)
    BY <1>3, <2>1 DEF SessionInv, CallsFit
  <2>4. CallFits(other)'
    BY <1>1, <1>6, <2>2, <2>3 DEF CallFits
  <2>5. calls'[d] = other
    BY <1>2, <1>3, <2>1
  <2> QED
    BY <2>4, <2>5 DEF CallFits
<1>4. CallsFit'
  <2> SUFFICES ASSUME NEW d \in Calls, calls'[d] # NoCall PROVE CallFits(calls[d])'
    BY DEF CallsFit
  <2>1. CASE d = c
    BY <1>2, <2>1 DEF CallFits
  <2>2. CASE d # c
    BY <1>2, <1>3, <2>2
  <2> QED
    BY <2>1, <2>2
<1>5. OnePosts'
  <2>1. ASSUME NEW a \in Calls, NEW b \in Calls, Posting(calls'[a]), Posting(calls'[b]),
               calls'[a].token = calls'[b].token
        PROVE  a = b
    BY <1>2, <2>1 DEF SessionInv, OnePosts
  <2> QED
    BY <2>1 DEF OnePosts, Posting
<1> QED
  BY <1>4, <1>5

LEMMA TrackedKept ==
  ASSUME SessionInv, SignInTypeOK',
         \A token \in 1 .. account'.issued : token \in 1 .. account.issued \cup {account'.token},
         account.token \in {0, account'.token} \cup spoiled' \cup Traced',
         spoiled \subseteq spoiled',
         \A f \in Flights : f.outcome = "success" => f \in Flights' \/ f.token \in spoiled',
         \A d \in Calls : Is(d, "answered") /\ calls[d].new # 0 =>
            \/ calls'[d] = calls[d]
            \/ calls[d].token \in spoiled'
            \/ \E f \in Flights' : f.token = calls[d].token /\ f.outcome = "success"
  PROVE  Tracked'
<1>1. account.issued \in Nat
  BY Types DEF SessionInv
<1>6. account'.issued \in Nat
  BY SignInAssumption DEF SignInTypeOK, Tokens
<1>2. SUFFICES ASSUME NEW token \in 1 .. account'.issued, token # account'.token,
                      token \notin spoiled'
               PROVE  KnowsNext(token)'
  BY DEF Tracked, KnowsNext
<1>3. token \in 1 .. account.issued
  BY <1>2
<1>4. CASE token = account.token
  BY <1>2, <1>4 DEF Traced, KnowsNext
<1>5. CASE token # account.token
  <2>1. KnowsNext(token)
    BY <1>2, <1>3, <1>5 DEF SessionInv, Tracked
  <2>2. CASE \E f \in Flights : f.token = token /\ f.outcome = "success"
    BY <1>2, <2>2 DEF KnowsNext
  <2>3. CASE \E d \in Calls : Is(d, "answered") /\ calls[d].token = token /\ calls[d].new # 0
    <3>1. PICK d \in Calls : Is(d, "answered") /\ calls[d].token = token /\ calls[d].new # 0
      BY <2>3
    <3>2. CASE calls'[d] = calls[d]
      BY <3>1, <3>2 DEF KnowsNext, Is
    <3>3. CASE \E f \in Flights' : f.token = calls[d].token /\ f.outcome = "success"
      BY <3>1, <3>3 DEF KnowsNext
    <3> QED
      BY <1>2, <3>1, <3>2, <3>3
  <2> QED
    BY <2>1, <2>2, <2>3 DEF KnowsNext
<1> QED
  BY <1>4, <1>5

LEMMA FlightsStay ==
  ASSUME SessionInv, SignInTypeOK', UNCHANGED flights,
         account.issued <= account'.issued, spoiled \subseteq spoiled'
  PROVE  FlightsFit' /\ Apart(flights)' /\ Flights' = Flights
<1>1. account.issued \in Nat /\ Flights \subseteq Flight
  BY Types, FlightsAre DEF SessionInv
<1>2. account'.issued \in Nat
  BY SignInAssumption DEF SignInTypeOK, Tokens
<1>3. Flights' = Flights
  BY DEF Flights
<1>4. ASSUME NEW f \in Flights PROVE FlightFits(f)'
  <2>1. FlightFits(f)
    BY DEF SessionInv, FlightsFit
  <2>2. f.token \in Nat /\ f.new \in Nat
    BY <1>1, FlightType, SignInAssumption
  <2> QED
    BY <1>1, <1>2, <2>1, <2>2 DEF FlightFits
<1>5. FlightsFit'
  BY <1>3, <1>4 DEF FlightsFit
<1>6. Apart(flights)'
  BY DEF SessionInv, Apart
<1> QED
  BY <1>3, <1>5, <1>6

LEMMA MovesOn ==
  ASSUME SignInTypeOK, NEW c \in Calls, calls[c] # NoCall,
         NEW pc \in {"who", "join", "post", "answered", "wait", "who_again", "handle", "reply",
                     "exchange"}
  PROVE  \E call \in Call :
            /\ [calls[c] EXCEPT !.pc = pc] = call
            /\ call # NoCall /\ call.pc = pc /\ call.token = calls[c].token /\ call.new = calls[c].new
<1>1. PICK call : call = calls[c]
  OBVIOUS
<1>2. call \in Call
  BY <1>1, CallType
<1>3. [call EXCEPT !.pc = pc] =
        [pc |-> pc, token |-> call.token, access |-> call.access, new |-> call.new]
  BY <1>2 DEF Call
<1>4. [pc |-> pc, token |-> call.token, access |-> call.access, new |-> call.new] \in Call
  BY <1>2 DEF Call
<1> QED
  BY <1>1, <1>3, <1>4, NoCallAssumption

(* A step that moves one call and leaves the flights and OS Accounts alone.  *)
LEMMA CallMoves ==
  ASSUME SessionInv, NEW c \in Calls, NEW call \in Call \cup {NoCall},
         calls' = [calls EXCEPT ![c] = call], UNCHANGED <<flights, account>>,
         spoiled \subseteq spoiled', spoiled' \subseteq Tokens, refused' \subseteq spoiled',
         jar' \in [token : 0 .. MaxToken, access : 0 .. MaxToken, flow : 0 .. MaxSignIn],
         jar'.token <= account.issued,
         call # NoCall => CallFits(call),
         Posting(call) =>
            \/ Posting(calls[c]) /\ calls[c].token = call.token
            \/ \A d \in Calls : Posting(calls[d]) => calls[d].token # call.token,
         Is(c, "answered") /\ calls[c].new # 0 => calls[c].token \in spoiled'
  PROVE  SessionInv'
<1>1. SignInTypeOK /\ account.issued \in Nat /\ calls \in [Calls -> Call \cup {NoCall}]
  BY Types DEF SessionInv
<1>2. SignInTypeOK'
  BY <1>1 DEF SignInTypeOK
<1>3. FlightsFit' /\ Apart(flights)' /\ Flights' = Flights
  BY <1>1, <1>2, FlightsStay
<1>4. call # NoCall => CallFits(call)'
  BY <1>3 DEF CallFits
<1>7. account' = account /\ account.issued <= account'.issued
  BY <1>1
<1>8. \A f \in Flights : f \in Flights'
  BY <1>3
<1>5. CallsFit' /\ OnePosts'
  BY <1>2, <1>4, <1>7, <1>8, CallsKept
<1>6. Tracked'
  <2>1. \A d \in Calls : calls'[d] = IF d = c THEN call ELSE calls[d]
    BY <1>1
  <2>2. ASSUME NEW d \in Calls, Is(d, "answered"), calls[d].new # 0
        PROVE  calls'[d] = calls[d] \/ calls[d].token \in spoiled'
    BY <2>1, <2>2
  <2>3. \A token \in 1 .. account'.issued : token \in 1 .. account.issued \cup {account'.token}
    BY <1>7
  <2>4. account.token \in {0, account'.token} \cup spoiled' \cup Traced'
    BY <1>7
  <2>5. \A f \in Flights : f.outcome = "success" => f \in Flights' \/ f.token \in spoiled'
    BY <1>8
  <2>6. \A d \in Calls : Is(d, "answered") /\ calls[d].new # 0 =>
           \/ calls'[d] = calls[d]
           \/ calls[d].token \in spoiled'
           \/ \E f \in Flights' : f.token = calls[d].token /\ f.outcome = "success"
    BY <2>2
  <2>7. spoiled \subseteq spoiled'
    OBVIOUS
  <2> QED
    BY ONLY SessionInv, <1>2, <2>3, <2>4, <2>5, <2>6, <2>7, TrackedKept
<1> QED
  BY <1>2, <1>3, <1>5, <1>6, <1>7 DEF SessionInv

-----------------------------------------------------------------------------
(* The steps.                                                                *)

LEMMA JarType ==
  ASSUME SessionInv
  PROVE  /\ jar \in [token : 0 .. MaxToken, access : 0 .. MaxToken, flow : 0 .. MaxSignIn]
         /\ jar.token \in Nat /\ jar.token <= account.issued
         /\ spoiled \subseteq Tokens /\ refused \subseteq spoiled /\ SignInTypeOK
BY SignInAssumption, Types DEF SessionInv, SignInTypeOK

LEMMA SendStep ==
  ASSUME SessionInv, NEW c \in Calls, Send(c)
  PROVE  SessionInv'
<1>1. PICK call : call = [pc |-> "who", token |-> jar.token, access |-> jar.access, new |-> 0]
  OBVIOUS
<1>2. call \in Call
  BY <1>1, JarType, SignInAssumption DEF Call
<1>3. CallFits(call)
  BY <1>1, JarType, Types DEF CallFits, Send, SessionInv
<1> QED
  BY <1>1, <1>2, <1>3, JarType, CallMoves DEF Send, Is, Posting

LEMMA AskWhoStep ==
  ASSUME SessionInv, NEW c \in Calls, AskWho(c)
  PROVE  SessionInv'
<1>1. calls[c] # NoCall /\ CallFits(calls[c]) /\ calls \in [Calls -> Call \cup {NoCall}]
  BY Types DEF AskWho, Is, SessionInv, CallsFit
<1>2. PICK pc \in {"handle", "join"} : calls' = [calls EXCEPT ![c].pc = pc]
  BY DEF AskWho
<1>3. PICK call \in Call :
        /\ [calls[c] EXCEPT !.pc = pc] = call
        /\ call # NoCall /\ call.pc = pc /\ call.token = calls[c].token /\ call.new = calls[c].new
  BY <1>1, MovesOn DEF SessionInv
<1>4. calls' = [calls EXCEPT ![c] = call]
  BY <1>1, <1>2, <1>3
<1>5. CallFits(call) /\ ~ Posting(call)
  BY <1>1, <1>3 DEF CallFits, Posting, AskWho, Is
<1> QED
  BY <1>4, <1>5, JarType, CallMoves DEF AskWho, Is

LEMMA PostStep ==
  ASSUME SessionInv, NEW c \in Calls, Post(c)
  PROVE  SessionInv'
<1>1. calls[c] # NoCall /\ CallFits(calls[c]) /\ calls \in [Calls -> Call \cup {NoCall}]
  BY Types DEF Post, Is, SessionInv, CallsFit
<1>2. PICK call \in Call :
        /\ [calls[c] EXCEPT !.pc = "post"] = call
        /\ call # NoCall /\ call.pc = "post" /\ call.token = calls[c].token /\ call.new = calls[c].new
  BY <1>1, MovesOn DEF SessionInv
<1>3. calls' = [calls EXCEPT ![c] = call]
  BY <1>1, <1>2 DEF Post
<1>4. CallFits(call)
  BY <1>1, <1>2 DEF CallFits, Post, Is
<1>5. \A d \in Calls : Posting(calls[d]) => calls[d].token # call.token
  BY <1>2 DEF Post, Posting, AtFlight, Is
<1> QED
  BY <1>3, <1>4, <1>5, JarType, CallMoves DEF Post, Is

LEMMA HandlerStep ==
  ASSUME SessionInv, NEW c \in Calls, AskWhoAgain(c) \/ Handle(c)
  PROVE  SessionInv'
<1>1. calls[c] # NoCall /\ CallFits(calls[c]) /\ calls \in [Calls -> Call \cup {NoCall}]
  BY Types DEF AskWhoAgain, Handle, Is, SessionInv, CallsFit
<1>2. PICK pc \in {"handle", "reply"} : calls' = [calls EXCEPT ![c].pc = pc]
  BY DEF AskWhoAgain, Handle
<1>3. PICK call \in Call :
        /\ [calls[c] EXCEPT !.pc = pc] = call
        /\ call # NoCall /\ call.pc = pc /\ call.token = calls[c].token /\ call.new = calls[c].new
  BY <1>1, MovesOn DEF SessionInv
<1>4. calls' = [calls EXCEPT ![c] = call]
  BY <1>1, <1>2, <1>3
<1>5. CallFits(call) /\ ~ Posting(call)
  BY <1>1, <1>3 DEF CallFits, Posting, AskWhoAgain, Handle, Is
<1> QED
  BY <1>4, <1>5, JarType, CallMoves DEF AskWhoAgain, Handle, Is

LEMMA LostWithType ==
  ASSUME SessionInv, NEW c \in Calls
  PROVE  /\ LostWith(c) \subseteq Tokens
         /\ Is(c, "answered") /\ calls[c].new # 0 => calls[c].token \in LostWith(c)
<1>1. CASE Is(c, "answered") /\ calls[c].new # 0
  <2>1. calls[c] # NoCall /\ calls[c].token \in 0 .. MaxToken /\ CallFits(calls[c])
    BY <1>1, CallType DEF Is, SessionInv, CallsFit
  <2>2. calls[c].token # 0
    BY <1>1, <2>1 DEF CallFits, Is
  <2>3. calls[c].token \in Tokens
    BY <2>1, <2>2, SignInAssumption DEF Tokens
  <2> QED
    BY <1>1, <2>3 DEF LostWith
<1>2. CASE ~(Is(c, "answered") /\ calls[c].new # 0)
  BY <1>2 DEF LostWith
<1> QED
  BY <1>1, <1>2

LEMMA FailStep ==
  ASSUME SessionInv, NEW c \in Calls, Fail(c)
  PROVE  SessionInv'
BY JarType, LostWithType, CallMoves DEF Fail, Posting

LEMMA ReplyStep ==
  ASSUME SessionInv, NEW c \in Calls, Reply(c)
  PROVE  SessionInv'
<1>1. calls[c] # NoCall /\ calls[c].new \in 0 .. MaxToken /\ calls[c].new <= account.issued
  BY CallType DEF Reply, Is, SessionInv, CallsFit, CallFits
<1>2. PICK new \in 0 .. MaxToken : new = calls[c].new
  BY <1>1
<1>4. /\ jar' \in [token : 0 .. MaxToken, access : 0 .. MaxToken, flow : 0 .. MaxSignIn]
      /\ jar'.token <= account.issued
  BY <1>1, <1>2, JarType DEF Reply
<1> QED
  BY <1>4, JarType, CallMoves DEF Reply, Posting, Is

LEMMA ReturnStep ==
  ASSUME SessionInv, NEW c \in Calls, NEW asked \in SignIns, ReturnFrom(c, asked)
  PROVE  SessionInv'
<1>1. calls \in [Calls -> Call \cup {NoCall}] /\ account.issued \in Nat
  BY Types DEF SessionInv
<1>2. CASE asked = jar.flow
  <2>1. PICK call : call = [pc |-> "exchange", token |-> jar.token, access |-> 0, new |-> 0]
    OBVIOUS
  <2>2. call \in Call
    BY <2>1, JarType, SignInAssumption DEF Call
  <2>3. CallFits(call)
    BY <1>1, <2>1, JarType DEF CallFits
  <2> QED
    BY <1>2, <2>1, <2>2, <2>3, JarType, CallMoves DEF ReturnFrom, Is, Posting
<1>3. CASE asked # jar.flow
  <2>1. calls' = [calls EXCEPT ![c] = NoCall]
    BY <1>1, <1>3 DEF ReturnFrom
  <2>2. /\ jar' \in [token : 0 .. MaxToken, access : 0 .. MaxToken, flow : 0 .. MaxSignIn]
        /\ jar'.token <= account.issued
    BY <1>1, <1>3, SignInAssumption DEF ReturnFrom, SignedOut
  <2> QED
    BY <1>3, <2>1, <2>2, JarType, CallMoves DEF ReturnFrom, Is, Posting
<1> QED
  BY <1>2, <1>3

LEMMA ExchangeFailsStep ==
  ASSUME SessionInv, NEW c \in Calls, ExchangeFails(c)
  PROVE  SessionInv'
<1>1. account.issued \in Nat
  BY Types DEF SessionInv
<1>2. /\ jar' \in [token : 0 .. MaxToken, access : 0 .. MaxToken, flow : 0 .. MaxSignIn]
      /\ jar'.token <= account.issued
  BY <1>1, SignInAssumption DEF ExchangeFails, SignedOut
<1> QED
  BY <1>2, JarType, CallMoves DEF ExchangeFails, Is, Posting

LEMMA Learned ==
  ASSUME NEW call \in Call, NEW new \in 0 .. MaxToken, NEW outcome
  PROVE  /\ Learn(call, outcome, new) \in Call \cup {NoCall}
         /\ Learn(call, outcome, new) # NoCall =>
              /\ Learn(call, outcome, new).pc = "who_again"
              /\ Learn(call, outcome, new).token = call.token
              /\ Learn(call, outcome, new).new = new
BY DEF Learn, Call

(* The outcome of the call that posts is that of everybody at its flight.    *)
LEMMA Finished ==
  ASSUME SessionInv, NEW c \in Calls, Posting(calls[c]),
         NEW token, token = calls[c].token,
         NEW outcome \in {"success", "unauthorized", "unavailable"},
         NEW new \in 0 .. MaxToken, new <= account.issued,
         Finish(token, outcome, new), UNCHANGED <<jar, account>>,
         spoiled \subseteq spoiled', spoiled' \subseteq Tokens,
         outcome = "unauthorized" => token \in spoiled',
         Is(c, "answered") /\ calls[c].new # 0 => outcome = "success" \/ token \in spoiled'
  PROVE  SessionInv'
<1> DEFINE done == [token |-> token, outcome |-> outcome, new |-> new]
<1>1. /\ SignInTypeOK /\ account.issued \in Nat /\ flights \in Seq(Flight)
      /\ calls \in [Calls -> Call \cup {NoCall}] /\ Len(flights) <= MaxFlights
  BY Types DEF SessionInv
<1>2. calls[c] # NoCall /\ CallFits(calls[c]) /\ calls[c].pc \in {"post", "answered"}
  BY DEF Posting, SessionInv, CallsFit
<1>3. token \in Tokens /\ token \in Nat /\ token # 0 /\ token <= account.issued
  <2>1. token \in 0 .. MaxToken
    BY <1>1, <1>2, CallType
  <2> QED
    BY <1>2, <2>1, SignInAssumption DEF CallFits, Tokens
<1>4. PICK f0 \in Flights : f0.token = token /\ f0.outcome = "none"
  BY <1>2 DEF CallFits
<1>5. done \in Flight /\ done.token = token /\ done.outcome = outcome /\ done.new = new
  BY <1>3 DEF Flight
<1>6. /\ flights' \in Seq(Flight) /\ Len(flights') = Len(flights)
      /\ \A i \in 1 .. Len(flights) :
           flights'[i] = IF flights[i].token = token THEN done ELSE flights[i]
  <2>1. flights' = [i \in 1 .. Len(flights) |->
                      IF flights[i].token = token THEN done ELSE flights[i]]
    BY <1>1 DEF Finish
  <2>2. \A i \in 1 .. Len(flights) : flights[i] \in Flight
    BY <1>1
  <2> HIDE DEF done
  <2>3. flights' \in [1 .. Len(flights) -> Flight]
    BY <1>5, <2>1, <2>2
  <2> QED
    BY <1>1, <2>1, <2>3
<1> HIDE DEF done
<1>7. Apart(flights)'
  BY <1>5, <1>6 DEF Apart, SessionInv
<1>8. /\ Flights = {flights[i] : i \in 1 .. Len(flights)}
      /\ Flights' = {flights'[i] : i \in 1 .. Len(flights')}
      /\ Flights \subseteq Flight
  BY <1>1, <1>6, FlightsAre, FlightsAreNext
<1>9. \A f \in Flights' : f = done \/ f \in Flights
  BY <1>6, <1>8
<1>10. \A f \in Flights : f.token # token => f \in Flights'
  BY <1>6, <1>8
<1>11. done \in Flights'
  BY <1>4, <1>6, <1>8
<1>12. FlightsFit'
  <2>1. ASSUME NEW f \in Flights' PROVE FlightFits(f)'
    <3>1. CASE f = done
      BY <1>3, <1>5, <3>1 DEF FlightFits
    <3>2. CASE f \in Flights
      BY <3>2 DEF SessionInv, FlightsFit, FlightFits
    <3> QED
      BY <1>9, <3>1, <3>2
  <2> QED
    BY <2>1 DEF FlightsFit
<1>13. \A d \in Calls : calls'[d] = IF AtFlight(d, token) THEN Learn(calls[d], outcome, new)
                                   ELSE calls[d]
  BY DEF Finish
<1>14. ASSUME NEW d \in Calls, AtFlight(d, token)
       PROVE  /\ calls'[d] \in Call \cup {NoCall}
              /\ calls'[d] # NoCall =>
                   calls'[d].pc = "who_again" /\ calls'[d].token = token /\ calls'[d].new = new
  BY <1>1, <1>13, <1>14, Learned DEF AtFlight
<1>15. calls' \in [Calls -> Call \cup {NoCall}]
  <2>1. \A d \in Calls : calls'[d] \in Call \cup {NoCall}
    BY <1>1, <1>13, <1>14
  <2>2. calls' = [d \in Calls |-> calls'[d]]
    BY DEF Finish
  <2> QED
    BY <2>1, <2>2
<1>16. refused' \subseteq spoiled'
  BY DEF Finish, SessionInv
<1>17. SignInTypeOK'
  BY <1>1, <1>6, <1>15, <1>16 DEF SignInTypeOK
<1>18. ASSUME NEW d \in Calls, calls'[d] # NoCall PROVE CallFits(calls[d])'
  <2>1. CASE AtFlight(d, token)
    <3>1. calls'[d].pc = "who_again" /\ calls'[d].token = token /\ calls'[d].new = new
      BY <1>14, <1>18, <2>1
    <3>2. account' = account
      OBVIOUS
    <3> QED
      BY <1>3, <3>1, <3>2 DEF CallFits
  <2>2. CASE ~ AtFlight(d, token)
    <3>1. calls'[d] = calls[d] /\ CallFits(calls[d])
      BY <1>13, <1>18, <2>2 DEF SessionInv, CallsFit
    <3>2. calls[d].pc \in {"post", "answered", "wait"} =>
             \E f \in Flights' : f.token = calls[d].token /\ f.outcome = "none"
      BY <1>10, <1>18, <2>2, <3>1 DEF AtFlight, CallFits
    <3> QED
      BY <3>1, <3>2 DEF CallFits
  <2> QED
    BY <2>1, <2>2
<1>19. CallsFit'
  BY <1>18 DEF CallsFit
<1>20. OnePosts'
  <2>1. ASSUME NEW d \in Calls, Posting(calls'[d]) PROVE calls'[d] = calls[d]
    BY <1>13, <1>14, <2>1 DEF Posting
  <2>2. ASSUME NEW a \in Calls, NEW b \in Calls, Posting(calls'[a]), Posting(calls'[b]),
               calls'[a].token = calls'[b].token
        PROVE  a = b
    BY <2>1, <2>2 DEF SessionInv, OnePosts
  <2> QED
    BY <2>2 DEF OnePosts, Posting
<1>21. Tracked'
  <2>1. \A t \in 1 .. account'.issued : t \in 1 .. account.issued \cup {account'.token}
    OBVIOUS
  <2>2. account.token \in {0, account'.token} \cup spoiled' \cup Traced'
    OBVIOUS
  <2>3. \A f \in Flights : f.outcome = "success" => f \in Flights' \/ f.token \in spoiled'
    <3>1. \A f \in Flights : f.token = token => f = f0
      BY <1>1, <1>4, OneFlight DEF SessionInv
    <3> QED
      BY <1>4, <1>10, <3>1
  <2>4. ASSUME NEW d \in Calls, Is(d, "answered"), calls[d].new # 0
        PROVE  \/ calls'[d] = calls[d]
               \/ calls[d].token \in spoiled'
               \/ \E f \in Flights' : f.token = calls[d].token /\ f.outcome = "success"
    <3>1. CASE ~ AtFlight(d, token)
      BY <1>13, <3>1
    <3>2. CASE AtFlight(d, token)
      <4>1. d = c
        BY <2>4, <3>2 DEF AtFlight, Is, Posting, SessionInv, OnePosts
      <4> QED
        BY <1>5, <1>11, <2>4, <4>1
    <3> QED
      BY <3>1, <3>2
  <2> QED
    BY <1>17, <2>1, <2>2, <2>3, <2>4, TrackedKept
<1> QED
  BY <1>7, <1>12, <1>16, <1>17, <1>19, <1>20, <1>21 DEF SessionInv

LEMMA ReceiveStep ==
  ASSUME SessionInv, NEW c \in Calls, Receive(c)
  PROVE  SessionInv'
<1>1. calls[c] # NoCall /\ calls[c].pc = "answered" /\ CallFits(calls[c])
  BY DEF Receive, Is, SessionInv, CallsFit
<1>2. PICK token, new : token = calls[c].token /\ new = calls[c].new
  OBVIOUS
<1>3. new \in 0 .. MaxToken /\ new <= account.issued
  BY <1>1, <1>2, CallType DEF SessionInv, CallFits
<1>4. CASE new # 0
  <2>1. Finish(token, "success", new)
    BY <1>2, <1>4 DEF Receive
  <2> QED
    BY <1>1, <1>2, <1>3, <2>1, JarType, Finished DEF Receive, Posting
<1>5. CASE new = 0
  <2>1. Finish(token, "unauthorized", new) /\ token \in spoiled
    BY <1>1, <1>2, <1>5 DEF Receive, CallFits
  <2> QED
    BY <1>1, <1>2, <1>3, <1>5, <2>1, JarType, Finished DEF Receive, Posting
<1> QED
  BY <1>4, <1>5

LEMMA LoseAnswerStep ==
  ASSUME SessionInv, NEW c \in Calls, LoseAnswer(c)
  PROVE  SessionInv'
<1>1. Posting(calls[c])
  BY DEF LoseAnswer, Is, Posting
<1>2. PICK token : token = calls[c].token
  OBVIOUS
<1>3. Finish(token, "unavailable", 0)
  BY <1>2 DEF LoseAnswer
<1>4. 0 \in 0 .. MaxToken /\ 0 <= account.issued
  BY Types DEF SessionInv
<1>5. spoiled \subseteq spoiled' /\ spoiled' \subseteq Tokens
  BY JarType, LostWithType DEF LoseAnswer
<1>6. Is(c, "answered") /\ calls[c].new # 0 => token \in spoiled'
  BY <1>2, LostWithType DEF LoseAnswer
<1> QED
  BY <1>1, <1>2, <1>3, <1>4, <1>5, <1>6, Finished DEF LoseAnswer

LEMMA CallsStay ==
  ASSUME SessionInv, SignInTypeOK', UNCHANGED calls,
         \A f \in Flights : f.outcome = "none" => f \in Flights',
         account.issued <= account'.issued, spoiled \subseteq spoiled'
  PROVE  CallsFit' /\ OnePosts'
<1>1. account.issued \in Nat
  BY Types DEF SessionInv
<1>2. account'.issued \in Nat
  BY SignInAssumption DEF SignInTypeOK, Tokens
<1>3. ASSUME NEW d \in Calls, calls'[d] # NoCall PROVE CallFits(calls[d])'
  <2>1. calls'[d] = calls[d] /\ CallFits(calls[d])
    BY <1>3 DEF SessionInv, CallsFit
  <2>2. calls[d].token \in Nat /\ calls[d].new \in Nat
    BY <1>3, CallType, Types DEF SessionInv
  <2> QED
    BY <1>1, <1>2, <2>1, <2>2 DEF CallFits
<1>4. OnePosts'
  <2>1. ASSUME NEW a \in Calls, NEW b \in Calls, Posting(calls'[a]), Posting(calls'[b]),
               calls'[a].token = calls'[b].token
        PROVE  a = b
    BY <2>1 DEF SessionInv, OnePosts
  <2> QED
    BY <2>1 DEF OnePosts, Posting
<1> QED
  BY <1>3, <1>4 DEF CallsFit

LEMMA IssueType ==
  ASSUME SessionInv, account.issued < MaxToken
  PROVE  /\ Issue \in [token : 0 .. MaxToken, issued : Tokens, expired : SUBSET Tokens,
                       started : 0 .. MaxSignIn]
         /\ Issue.token = account.issued + 1 /\ Issue.issued = account.issued + 1
         /\ account.issued + 1 \in Tokens
<1>1. /\ account.issued \in 1 .. MaxToken /\ account.started \in 0 .. MaxSignIn
      /\ account.expired \subseteq Tokens /\ MaxToken \in Nat
  BY Types DEF SessionInv
<1>2. account.issued + 1 \in 1 .. MaxToken /\ account.issued + 1 \in 0 .. MaxToken
  BY <1>1
<1> QED
  BY <1>1, <1>2 DEF Issue, Tokens

LEMMA RotateStep ==
  ASSUME SessionInv, NEW c \in Calls, Rotate(c)
  PROVE  SessionInv'
<1>1. /\ calls[c] # NoCall /\ calls[c].pc = "post" /\ CallFits(calls[c])
      /\ calls[c] \in Call /\ calls \in [Calls -> Call \cup {NoCall}]
      /\ SignInTypeOK /\ account.issued \in 1 .. MaxToken /\ MaxToken \in Nat
  BY Types, CallType DEF Rotate, Is, SessionInv, CallsFit
<1>2. PICK f0 \in Flights : f0.token = calls[c].token /\ f0.outcome = "none"
  BY <1>1 DEF CallFits
<1>3. CASE calls[c].token = account.token
  <2>1. account.issued < MaxToken /\ account' = Issue
    BY <1>3 DEF Rotate
  <2>2. PICK next : next = account.issued + 1
    OBVIOUS
  <2>3. PICK call : call = [pc |-> "answered", token |-> calls[c].token,
                            access |-> calls[c].access, new |-> next]
    OBVIOUS
  <2>4. next \in 0 .. MaxToken /\ account'.issued = next /\ account'.token = next
    BY <1>1, <2>1, <2>2, IssueType
  <2>5. call \in Call /\ call # NoCall
    BY <1>1, <2>3, <2>4, CallType, NoCallAssumption DEF Call
  <2>6. calls' = [calls EXCEPT ![c] = call]
    BY <1>3, <2>2, <2>3 DEF Rotate
  <2>7. SignInTypeOK'
    <3>1. account' \in [token : 0 .. MaxToken, issued : Tokens, expired : SUBSET Tokens,
                        started : 0 .. MaxSignIn]
      BY <2>1, IssueType
    <3>2. calls' \in [Calls -> Call \cup {NoCall}]
      BY <1>1, <2>5, <2>6
    <3> QED
      BY <1>1, <3>1, <3>2 DEF SignInTypeOK, Rotate
  <2>8. account.issued <= account'.issued
    BY <1>1, <2>2, <2>4
  <2>9. FlightsFit' /\ Apart(flights)' /\ Flights' = Flights
    BY <2>7, <2>8, FlightsStay DEF Rotate
  <2>10. CallFits(call)'
    <3>1. call.token \in Nat /\ call.token <= account.issued /\ call.token # 0
      BY <1>1, <2>3, CallType DEF CallFits
    <3>2. call.token <= account'.issued /\ call.new <= account'.issued
      BY <1>1, <2>2, <2>3, <2>4, <3>1
    <3>3. call.pc = "answered" /\ call.new # 0
      BY <1>1, <2>2, <2>3
    <3>4. \E f \in Flights' : f.token = call.token /\ f.outcome = "none"
      BY <1>2, <2>3, <2>9
    <3> QED
      BY <3>1, <3>2, <3>3, <3>4 DEF CallFits
  <2>11. Posting(calls[c]) /\ calls[c].token = call.token
    BY <1>1, <2>3 DEF Posting
  <2>12. CallsFit' /\ OnePosts'
    BY <2>5, <2>6, <2>7, <2>8, <2>9, <2>10, <2>11, CallsKept DEF Rotate
  <2>13. Tracked'
    <3>1. \A t \in 1 .. account'.issued : t \in 1 .. account.issued \cup {account'.token}
      BY <1>1, <2>2, <2>4
    <3>2. \A d \in Calls : calls'[d] = IF d = c THEN call ELSE calls[d]
      BY <1>1, <2>6
    <3>3. account.token \in Tokens
      BY <1>1, <1>3, CallType, SignInAssumption DEF CallFits, Tokens
    <3>4. call.pc = "answered" /\ call.new # 0 /\ call.token = account.token
      BY <1>1, <1>3, <2>2, <2>3
    <3>5. \E d \in Calls : calls'[d] # NoCall /\ calls'[d].pc = "answered"
                           /\ calls'[d].token = account.token /\ calls'[d].new # 0
      BY <2>5, <3>2, <3>4
    <3>6. account.token \in {0, account'.token} \cup spoiled' \cup Traced'
      BY <3>3, <3>5 DEF Traced, KnowsNext, Is
    <3>7. \A f \in Flights : f.outcome = "success" => f \in Flights' \/ f.token \in spoiled'
      BY <2>9
    <3>8. ASSUME NEW d \in Calls, Is(d, "answered"), calls[d].new # 0
          PROVE  calls'[d] = calls[d]
      BY <1>1, <3>2, <3>8 DEF Is
    <3>9. spoiled \subseteq spoiled'
      BY DEF Rotate
    <3> QED
      BY <2>7, <3>1, <3>6, <3>7, <3>8, <3>9, TrackedKept
  <2>14. /\ account'.token <= account'.issued /\ jar'.token <= account'.issued
         /\ refused' \subseteq spoiled'
    BY <1>1, <2>2, <2>4, JarType DEF Rotate
  <2> QED
    BY <2>7, <2>9, <2>12, <2>13, <2>14 DEF SessionInv
<1>4. CASE calls[c].token # account.token
  <2>1. PICK call \in Call :
          /\ [calls[c] EXCEPT !.pc = "answered"] = call
          /\ call # NoCall /\ call.pc = "answered" /\ call.token = calls[c].token
          /\ call.new = calls[c].new
    BY <1>1, MovesOn
  <2>2. calls' = [calls EXCEPT ![c] = call] /\ UNCHANGED account
    BY <1>1, <1>4, <2>1 DEF Rotate
  <2>3. calls[c].token \in 1 .. account.issued
    BY <1>1, CallType DEF CallFits
  <2>4. ~ KnowsNext(calls[c].token)
    <3>1. \A f \in Flights : f.token = calls[c].token => f.outcome = "none"
      BY <1>1, <1>2, Types, OneFlight DEF SessionInv
    <3>2. \A d \in Calls : Is(d, "answered") => calls[d].token # calls[c].token
      BY <1>1 DEF Is, Posting, SessionInv, OnePosts
    <3> QED
      BY <3>1, <3>2 DEF KnowsNext
  <2>5. calls[c].token \in spoiled
    BY <1>4, <2>3, <2>4 DEF SessionInv, Tracked
  <2>6. CallFits(call)
    BY <1>1, <2>1, <2>5 DEF CallFits
  <2>7. Posting(calls[c]) /\ calls[c].token = call.token
    BY <1>1, <2>1 DEF Posting
  <2> QED
    BY <1>1, <2>2, <2>6, <2>7, JarType, CallMoves DEF Rotate, Is
<1> QED
  BY <1>3, <1>4

LEMMA ExchangeStep ==
  ASSUME SessionInv, NEW c \in Calls, Exchange(c)
  PROVE  SessionInv'
<1>1. /\ calls \in [Calls -> Call \cup {NoCall}] /\ SignInTypeOK
      /\ account.issued \in 1 .. MaxToken /\ account.token \in 0 .. MaxToken
      /\ account.token <= account.issued /\ MaxToken \in Nat /\ MaxSignIn \in Nat
  BY Types DEF SessionInv
<1>2. account.issued < MaxToken /\ account' = Issue
  BY DEF Exchange
<1>3. PICK next : next = account.issued + 1
  OBVIOUS
<1>4. next \in 0 .. MaxToken /\ account'.issued = next /\ account'.token = next
  BY <1>1, <1>2, <1>3, IssueType
<1>5. jar' = [token |-> next, access |-> next, flow |-> 0] /\ jar'.token = next
  BY <1>3 DEF Exchange
<1>6. jar' \in [token : 0 .. MaxToken, access : 0 .. MaxToken, flow : 0 .. MaxSignIn]
  BY <1>1, <1>4, <1>5
<1>7. spoiled' \subseteq Tokens /\ spoiled \subseteq spoiled' /\ 1 .. account.issued \subseteq spoiled'
      /\ refused' \subseteq spoiled'
  BY <1>1, JarType DEF Exchange, Tokens
<1>8. SignInTypeOK'
  <2>1. account' \in [token : 0 .. MaxToken, issued : Tokens, expired : SUBSET Tokens,
                      started : 0 .. MaxSignIn]
    BY <1>2, IssueType
  <2>2. calls' \in [Calls -> Call \cup {NoCall}]
    BY <1>1 DEF Exchange
  <2> QED
    BY <1>1, <1>6, <1>7, <2>1, <2>2 DEF SignInTypeOK, Exchange
<1>9. account.issued <= account'.issued
  BY <1>1, <1>3, <1>4
<1>10. FlightsFit' /\ Apart(flights)' /\ Flights' = Flights
  BY <1>7, <1>8, <1>9, FlightsStay DEF Exchange
<1>11. CallsFit' /\ OnePosts'
  BY <1>7, <1>8, <1>9, <1>10, CallsKept DEF Exchange, Posting
<1>12. Tracked'
  BY <1>1, <1>3, <1>4, <1>7 DEF Tracked
<1> QED
  BY <1>1, <1>4, <1>5, <1>7, <1>8, <1>10, <1>11, <1>12 DEF SessionInv

(* A step of OS Accounts, or of the cookies, that no call takes part in.     *)
LEMMA AccountMoves ==
  ASSUME SessionInv, UNCHANGED <<flights, calls, refused>>,
         account' \in [token : 0 .. MaxToken, issued : Tokens, expired : SUBSET Tokens,
                       started : 0 .. MaxSignIn],
         jar' \in [token : 0 .. MaxToken, access : 0 .. MaxToken, flow : 0 .. MaxSignIn],
         jar'.token \in {0, jar.token}, account'.issued = account.issued,
         account'.token \in {0, account.token},
         account.token \in {0, account'.token} \cup spoiled',
         spoiled \subseteq spoiled', spoiled' \subseteq Tokens
  PROVE  SessionInv'
<1>1. SignInTypeOK /\ account.issued \in Nat
  BY Types DEF SessionInv
<1>2. SignInTypeOK'
  BY <1>1 DEF SignInTypeOK
<1>3. account.issued <= account'.issued
  BY <1>1
<1>4. FlightsFit' /\ Apart(flights)' /\ Flights' = Flights
  BY <1>2, <1>3, FlightsStay
<1>5. CallsFit' /\ OnePosts'
  BY <1>2, <1>3, <1>4, CallsStay
<1>6. Tracked'
  <2>1. \A t \in 1 .. account'.issued : t \in 1 .. account.issued \cup {account'.token}
    OBVIOUS
  <2>2. account.token \in {0, account'.token} \cup spoiled' \cup Traced'
    OBVIOUS
  <2>3. \A f \in Flights : f.outcome = "success" => f \in Flights' \/ f.token \in spoiled'
    BY <1>4
  <2>4. \A d \in Calls : calls'[d] = calls[d]
    OBVIOUS
  <2> QED
    BY <1>2, <2>1, <2>2, <2>3, <2>4, TrackedKept
<1>7. account'.token <= account'.issued /\ jar'.token <= account'.issued /\ refused' \subseteq spoiled'
  BY <1>1 DEF SessionInv
<1> QED
  BY <1>2, <1>4, <1>5, <1>6, <1>7 DEF SessionInv

LEMMA ExpireStep ==
  ASSUME SessionInv, NEW token \in Tokens, ExpireAccess(token)
  PROVE  SessionInv'
<1>1. account \in [token : 0 .. MaxToken, issued : Tokens, expired : SUBSET Tokens,
                   started : 0 .. MaxSignIn]
  BY DEF SessionInv, SignInTypeOK
<1>2. PICK expired \in SUBSET Tokens : expired = account.expired \cup {token}
  BY <1>1
<1>3. account' = [account EXCEPT !.expired = expired]
  BY <1>2 DEF ExpireAccess
<1>4. /\ account' \in [token : 0 .. MaxToken, issued : Tokens, expired : SUBSET Tokens,
                       started : 0 .. MaxSignIn]
      /\ account'.token = account.token /\ account'.issued = account.issued
  BY <1>1, <1>3
<1> QED
  BY <1>4, JarType, AccountMoves DEF ExpireAccess

LEMMA StartStep ==
  ASSUME SessionInv, StartSignIn
  PROVE  SessionInv'
<1>1. account \in [token : 0 .. MaxToken, issued : Tokens, expired : SUBSET Tokens,
                   started : 0 .. MaxSignIn]
  BY DEF SessionInv, SignInTypeOK
<1>2. PICK started \in 0 .. MaxSignIn : started = account.started + 1
  BY Types, SignInAssumption DEF SessionInv, StartSignIn
<1>3. account' = [account EXCEPT !.started = started] /\ jar' = [jar EXCEPT !.flow = started]
  BY <1>2 DEF StartSignIn
<1>4. /\ account' \in [token : 0 .. MaxToken, issued : Tokens, expired : SUBSET Tokens,
                       started : 0 .. MaxSignIn]
      /\ account'.token = account.token /\ account'.issued = account.issued
  BY <1>1, <1>3
<1>5. jar' \in [token : 0 .. MaxToken, access : 0 .. MaxToken, flow : 0 .. MaxSignIn]
      /\ jar'.token = jar.token
  BY <1>3, JarType
<1> QED
  BY <1>4, <1>5, JarType, AccountMoves DEF StartSignIn

LEMMA SignOutStep ==
  ASSUME SessionInv, NEW heard \in BOOLEAN, SignOut(heard)
  PROVE  SessionInv'
<1>1. account \in [token : 0 .. MaxToken, issued : Tokens, expired : SUBSET Tokens,
                   started : 0 .. MaxSignIn]
  BY DEF SessionInv, SignInTypeOK
<1>2. /\ jar' \in [token : 0 .. MaxToken, access : 0 .. MaxToken, flow : 0 .. MaxSignIn]
      /\ jar'.token = 0
  <2>1. jar.flow \in 0 .. MaxSignIn /\ MaxToken \in Nat
    BY Types DEF SessionInv
  <2> QED
    BY <2>1 DEF SignOut
<1>3. CASE heard /\ account.token = jar.token
  <2>1. account' = [account EXCEPT !.token = 0] /\ spoiled' = spoiled \cup {jar.token}
    BY <1>3 DEF SignOut
  <2>2. 0 \in 0 .. MaxToken
    BY SignInAssumption
  <2>3. /\ account' \in [token : 0 .. MaxToken, issued : Tokens, expired : SUBSET Tokens,
                         started : 0 .. MaxSignIn]
        /\ account'.token = 0 /\ account'.issued = account.issued
    BY <1>1, <2>1, <2>2
  <2>4. jar.token \in Tokens
    BY Types DEF SignOut, SessionInv, Tokens
  <2> QED
    BY <1>2, <1>3, <2>1, <2>3, <2>4, JarType, AccountMoves DEF SignOut
<1>4. CASE ~(heard /\ account.token = jar.token)
  BY <1>1, <1>2, <1>4, JarType, AccountMoves DEF SignOut
<1> QED
  BY <1>3, <1>4

(* Entries that are over leave the table, others come in.                    *)
LEMMA FlightsChange ==
  ASSUME SessionInv, SignInTypeOK', UNCHANGED <<account, jar>>, Apart(flights'),
         \A f \in Flights' : f \in Flights \/ FlightFits(f)',
         \A f \in Flights : f \in Flights' \/ f.outcome # "none",
         \A f \in Flights : f \in Flights' \/ f.outcome # "success" \/ f.token \in spoiled',
         spoiled \subseteq spoiled', refused' \subseteq spoiled',
         \A d \in Calls : Is(d, "answered") /\ calls[d].new # 0 =>
            calls'[d] = calls[d] \/ calls[d].token \in spoiled',
         CallsFit', OnePosts'
  PROVE  SessionInv'
<1>1. FlightsFit'
  BY DEF SessionInv, FlightsFit, FlightFits
<1>2. Tracked'
  <2>1. \A t \in 1 .. account'.issued : t \in 1 .. account.issued \cup {account'.token}
    OBVIOUS
  <2>2. account.token \in {0, account'.token} \cup spoiled' \cup Traced'
    OBVIOUS
  <2> QED
    BY <2>1, <2>2, TrackedKept
<1>3. Apart(flights)'
  BY DEF Apart
<1> QED
  BY <1>1, <1>2, <1>3 DEF SessionInv

LEMMA ForgetStep ==
  ASSUME SessionInv, NEW i \in DOMAIN flights, Forget(i)
  PROVE  SessionInv'
<1>1. /\ SignInTypeOK /\ flights \in Seq(Flight) /\ Apart(flights)
      /\ DOMAIN flights = 1 .. Len(flights) /\ Len(flights) \in Nat /\ Len(flights) <= MaxFlights
      /\ MaxFlights \in Nat
  BY Types DEF SessionInv
<1>2. /\ flights' \in Seq(Flight) /\ Len(flights') = Len(flights) - 1
      /\ ToSet(flights') = ToSet(flights) \ {flights[i]} /\ Apart(flights')
  BY <1>1, Shorter DEF Forget
<1>3. Flights' = Flights \ {flights[i]} /\ flights[i] \in Flights
  BY <1>1, <1>2, FlightsAre DEF Flights
<1>4. spoiled' \subseteq Tokens /\ spoiled \subseteq spoiled' /\ refused' \subseteq spoiled'
      /\ (flights[i].outcome = "success" => flights[i].token \in spoiled')
  <2>1. flights[i].token \in Tokens
    BY <1>1, <1>3, FlightsAre, FlightType DEF Tokens
  <2> QED
    BY <2>1, JarType DEF Forget
<1>5. SignInTypeOK'
  BY <1>1, <1>2, <1>4 DEF SignInTypeOK, Forget
<1>6. account.issued <= account'.issued
  BY Types DEF SessionInv, Forget
<1>7. CallsFit' /\ OnePosts'
  BY <1>3, <1>4, <1>5, <1>6, CallsStay DEF Forget
<1> QED
  BY <1>2, <1>3, <1>4, <1>5, <1>7, FlightsChange DEF Forget

LEMMA RestartStep ==
  ASSUME SessionInv, Restart
  PROVE  SessionInv'
<1>1. SignInTypeOK /\ flights \in Seq(Flight) /\ MaxFlights \in Nat
  BY Types DEF SessionInv
<1>2. /\ flights' \in Seq(Flight) /\ Len(flights') = 0 /\ Flights' = {} /\ Apart(flights')
  <2>1. flights' = <<>>
    BY DEF Restart
  <2> QED
    BY <2>1, EmptySeq DEF Flights, ToSet, Apart
<1>3. \A c \in Calls : calls'[c] = NoCall
  BY DEF Restart
<1>4. Dropped(flights, <<>>) = {f.token : f \in {e \in Flights : e.outcome = "success"}}
  BY DEF Dropped, Flights, ToSet
<1>5. \A f \in Flights : f.token \in Tokens
  BY <1>1, FlightsAre DEF Flight
<1>6. /\ spoiled' \subseteq Tokens /\ spoiled \subseteq spoiled' /\ refused' \subseteq spoiled'
      /\ \A f \in Flights : f.outcome = "success" => f.token \in spoiled'
      /\ \A c \in Calls : LostWith(c) \subseteq spoiled'
  <2>1. spoiled' = spoiled \cup Dropped(flights, <<>>) \cup UNION {LostWith(c) : c \in Calls}
    BY DEF Restart
  <2>2. Dropped(flights, <<>>) \subseteq Tokens
    BY <1>4, <1>5
  <2>3. UNION {LostWith(c) : c \in Calls} \subseteq Tokens
    BY LostWithType
  <2> QED
    BY <1>4, <2>1, <2>2, <2>3, JarType DEF Restart
<1>7. SignInTypeOK'
  <2>1. calls' \in [Calls -> Call \cup {NoCall}]
    BY DEF Restart
  <2> QED
    BY <1>1, <1>2, <1>6, <2>1 DEF SignInTypeOK, Restart
<1>8. CallsFit' /\ OnePosts'
  BY <1>3 DEF CallsFit, OnePosts, Posting
<1>9. FlightsFit' /\ Apart(flights)'
  BY <1>2 DEF FlightsFit, Apart
<1>10. Tracked'
  <2>1. \A t \in 1 .. account'.issued : t \in 1 .. account.issued \cup {account'.token}
    BY DEF Restart
  <2>2. account.token \in {0, account'.token} \cup spoiled' \cup Traced'
    BY DEF Restart
  <2>3. \A d \in Calls : Is(d, "answered") /\ calls[d].new # 0 => calls[d].token \in spoiled'
    BY <1>6, LostWithType
  <2> QED
    BY <1>6, <1>7, <2>1, <2>2, <2>3, TrackedKept
<1> QED
  BY <1>6, <1>7, <1>8, <1>9, <1>10 DEF Restart, SessionInv

(* What make_room leaves.                                                    *)
LEMMA Roomy ==
  ASSUME SessionInv
  PROVE  /\ MadeRoom(flights) \in Seq(Flight) /\ Apart(MadeRoom(flights))
         /\ Len(MadeRoom(flights)) <= MaxFlights
         /\ ToSet(MadeRoom(flights)) \subseteq Flights
         /\ \A f \in Flights : f \in ToSet(MadeRoom(flights)) \/ f.outcome # "none"
         /\ Dropped(flights, MadeRoom(flights)) \subseteq Tokens
         /\ \A f \in Flights : \/ f \in ToSet(MadeRoom(flights)) \/ f.outcome # "success"
                               \/ f.token \in Dropped(flights, MadeRoom(flights))
<1>1. /\ SignInTypeOK /\ flights \in Seq(Flight) /\ Apart(flights)
      /\ Len(flights) \in Nat /\ Len(flights) <= MaxFlights /\ MaxFlights \in Nat
  BY Types DEF SessionInv
<1>2. \A f \in Flights : f.token \in Tokens
  BY <1>1, FlightsAre, FlightType DEF Tokens
<1>3. Dropped(flights, MadeRoom(flights)) =
        {f.token : f \in {e \in Flights \ ToSet(MadeRoom(flights)) : e.outcome = "success"}}
  BY DEF Dropped, Flights
<1>4. CASE MadeRoom(flights) = flights
  BY <1>1, <1>2, <1>3, <1>4 DEF Flights
<1>5. ASSUME NEW i \in 1 .. Len(flights), flights[i].outcome # "none",
             MadeRoom(flights) = RemoveAt(flights, i)
      PROVE  /\ MadeRoom(flights) \in Seq(Flight) /\ Apart(MadeRoom(flights))
             /\ Len(MadeRoom(flights)) <= MaxFlights
             /\ ToSet(MadeRoom(flights)) \subseteq Flights
             /\ \A f \in Flights : f \in ToSet(MadeRoom(flights)) \/ f.outcome # "none"
  <2>1. PICK rest \in Seq(Flight) :
          /\ rest = RemoveAt(flights, i) /\ Len(rest) = Len(flights) - 1
          /\ ToSet(rest) = ToSet(flights) \ {flights[i]} /\ Apart(rest)
    BY <1>1, Shorter
  <2>2. MadeRoom(flights) = rest /\ Len(rest) <= MaxFlights
    BY <1>1, <1>5, <2>1
  <2> QED
    BY <1>5, <2>1, <2>2 DEF Flights
<1> QED
  BY <1>1, <1>2, <1>3, <1>4, <1>5, RoomIsMade

LEMMA JoinStep ==
  ASSUME SessionInv, NEW c \in Calls, Join(c)
  PROVE  SessionInv'
<1>1. /\ calls[c] # NoCall /\ calls[c].pc = "join" /\ CallFits(calls[c])
      /\ calls[c] \in Call /\ calls \in [Calls -> Call \cup {NoCall}] /\ calls[c].new = 0
      /\ SignInTypeOK /\ account.issued \in Nat /\ MaxToken \in Nat /\ MaxFlights \in Nat
  BY Types, CallType DEF Join, Is, SessionInv, CallsFit, CallFits
<1>2. PICK token : token = calls[c].token
  OBVIOUS
<1>3. token \in 1 .. MaxToken /\ token <= account.issued
  BY <1>1, <1>2, CallType DEF CallFits
<1>4. UNCHANGED <<jar, account>>
  BY DEF Join
<1>5. CASE {f \in Flights : f.token = calls[c].token} = {}
  <2>1. PICK kept \in Seq(Flight) :
          /\ kept = MadeRoom(flights) /\ Apart(kept) /\ Len(kept) <= MaxFlights
          /\ ToSet(kept) \subseteq Flights
          /\ \A f \in Flights : f \in ToSet(kept) \/ f.outcome # "none"
          /\ Dropped(flights, kept) \subseteq Tokens
          /\ \A f \in Flights : \/ f \in ToSet(kept) \/ f.outcome # "success"
                                \/ f.token \in Dropped(flights, kept)
    BY Roomy
  <2>2. /\ spoiled' = spoiled \cup Dropped(flights, kept) /\ UNCHANGED refused
        /\ IF Len(kept) < MaxFlights
           THEN /\ flights' = Append(kept, [token |-> token, outcome |-> "none", new |-> 0])
                /\ calls' = [calls EXCEPT ![c].pc = "wait"]
           ELSE flights' = kept /\ calls' = [calls EXCEPT ![c] = NoCall]
    BY <1>2, <1>5, <2>1 DEF Join
  <2>3. /\ spoiled \subseteq spoiled' /\ spoiled' \subseteq Tokens /\ refused' \subseteq spoiled'
        /\ refused' \subseteq Tokens
    BY <2>1, <2>2, JarType
  <2>4. account.issued <= account'.issued
    BY <1>1, <1>4
  <2>5. CASE Len(kept) < MaxFlights
    <3>1. PICK entry \in Flight : entry = [token |-> token, outcome |-> "none", new |-> 0]
      <4>1. PICK entry : entry = [token |-> token, outcome |-> "none", new |-> 0]
        OBVIOUS
      <4>2. 0 \in 0 .. MaxToken /\ token \in Tokens
        BY <1>1, <1>3 DEF Tokens
      <4>3. entry \in Flight
        BY <4>1, <4>2 DEF Flight
      <4> QED
        BY <4>1, <4>3
    <3>2. /\ flights' \in Seq(Flight) /\ Len(flights') = Len(kept) + 1
          /\ ToSet(flights') = ToSet(kept) \cup {entry} /\ Apart(flights')
      BY <1>2, <1>5, <2>1, <2>2, <2>5, <3>1, Longer
    <3>3. Flights' = ToSet(kept) \cup {entry}
      BY <3>2 DEF Flights
    <3>4. PICK call \in Call :
            /\ [calls[c] EXCEPT !.pc = "wait"] = call
            /\ call # NoCall /\ call.pc = "wait" /\ call.token = calls[c].token
            /\ call.new = calls[c].new
      BY <1>1, MovesOn
    <3>5. calls' = [calls EXCEPT ![c] = call]
      BY <1>1, <2>2, <2>5, <3>4
    <3>6. SignInTypeOK'
      <4>1. calls' \in [Calls -> Call \cup {NoCall}]
        BY <1>1, <3>5
      <4>2. Len(flights') <= MaxFlights
        BY <1>1, <2>5, <3>2
      <4> QED
        BY <1>1, <1>4, <2>3, <3>2, <4>1, <4>2 DEF SignInTypeOK
    <3>7. FlightFits(entry)'
      BY <1>1, <1>3, <1>4, <3>1 DEF FlightFits
    <3>8. CallFits(call)'
      <4>1. call.token <= account'.issued /\ call.new <= account'.issued /\ call.token # 0
            /\ call.new = 0 /\ call.pc = "wait"
        BY <1>1, <1>2, <1>3, <1>4, <3>4
      <4>2. \E f \in Flights' : f.token = call.token /\ f.outcome = "none"
        BY <1>2, <3>1, <3>3, <3>4
      <4> QED
        BY <4>1, <4>2 DEF CallFits
    <3>9. \A f \in Flights : f.outcome = "none" => f \in Flights'
      BY <2>1, <3>3
    <3>10. ~ Posting(call)
      BY <3>4 DEF Posting
    <3>11. CallsFit' /\ OnePosts'
      BY <2>3, <2>4, <3>4, <3>5, <3>6, <3>8, <3>9, <3>10, CallsKept
    <3>12. \A d \in Calls : Is(d, "answered") => calls'[d] = calls[d]
      BY <1>1, <3>5 DEF Is
    <3> QED
      BY <1>4, <2>1, <2>2, <2>3, <3>2, <3>3, <3>6, <3>7, <3>11, <3>12, FlightsChange
  <2>6. CASE ~ (Len(kept) < MaxFlights)
    <3>1. flights' = kept /\ calls' = [calls EXCEPT ![c] = NoCall]
      BY <2>2, <2>6
    <3>2. Flights' = ToSet(kept) /\ Apart(flights')
      BY <2>1, <3>1 DEF Flights
    <3>3. SignInTypeOK'
      <4>1. calls' \in [Calls -> Call \cup {NoCall}]
        BY <1>1, <3>1
      <4> QED
        BY <1>1, <1>4, <2>1, <2>3, <3>1, <4>1 DEF SignInTypeOK
    <3>4. \A f \in Flights : f.outcome = "none" => f \in Flights'
      BY <2>1, <3>2
    <3>5. CallsFit' /\ OnePosts'
      BY <2>3, <2>4, <3>1, <3>3, <3>4, CallsKept DEF Posting
    <3>6. \A d \in Calls : Is(d, "answered") => calls'[d] = calls[d]
      BY <1>1, <3>1 DEF Is
    <3> QED
      BY <1>4, <2>1, <2>2, <2>3, <3>2, <3>3, <3>5, <3>6, FlightsChange
  <2> QED
    BY <2>5, <2>6
<1>6. CASE {f \in Flights : f.token = calls[c].token} # {}
  <2>1. PICK f \in Flights :
          /\ f.token = token
          /\ calls' = [calls EXCEPT ![c] =
                          IF f.outcome = "none" THEN [calls[c] EXCEPT !.pc = "wait"]
                          ELSE Learn(calls[c], f.outcome, f.new)]
          /\ refused' = refused \cup (IF f.outcome = "unauthorized" THEN {token} ELSE {})
          /\ UNCHANGED <<flights, spoiled>>
    <3>1. (CHOOSE f \in {f \in Flights : f.token = calls[c].token} : TRUE)
            \in {f \in Flights : f.token = calls[c].token}
      BY <1>6
    <3> QED
      BY <1>2, <1>6, <3>1 DEF Join
  <2>2. FlightFits(f) /\ f.new \in 0 .. MaxToken
    BY <1>1, Types, FlightsAre, FlightType DEF SessionInv, FlightsFit
  <2>3. refused' \subseteq spoiled'
    BY <2>1, <2>2, JarType DEF FlightFits
  <2>4. CASE f.outcome = "none"
    <3>1. PICK call \in Call :
            /\ [calls[c] EXCEPT !.pc = "wait"] = call
            /\ call # NoCall /\ call.pc = "wait" /\ call.token = calls[c].token
            /\ call.new = calls[c].new
      BY <1>1, MovesOn
    <3>2. calls' = [calls EXCEPT ![c] = call]
      BY <2>1, <2>4, <3>1
    <3>3. CallFits(call) /\ ~ Posting(call)
      BY <1>1, <1>2, <2>1, <2>4, <3>1 DEF CallFits, Posting
    <3> QED
      BY <1>1, <1>4, <2>1, <2>3, <3>2, <3>3, JarType, CallMoves DEF Is
  <2>5. CASE f.outcome # "none"
    <3>1. PICK call \in Call \cup {NoCall} :
            /\ call = Learn(calls[c], f.outcome, f.new)
            /\ call # NoCall => call.pc = "who_again" /\ call.token = token /\ call.new = f.new
      BY <1>1, <1>2, <2>2, Learned
    <3>2. calls' = [calls EXCEPT ![c] = call]
      BY <2>1, <2>5, <3>1
    <3>3. (call # NoCall => CallFits(call)) /\ ~ Posting(call)
      BY <1>3, <2>2, <3>1 DEF CallFits, FlightFits, Posting
    <3> QED
      BY <1>1, <1>4, <2>1, <2>3, <3>2, <3>3, JarType, CallMoves DEF Is
  <2> QED
    BY <2>4, <2>5
<1> QED
  BY <1>5, <1>6

-----------------------------------------------------------------------------
LEMMA SessionBegins ==
  ASSUME SignInInit
  PROVE  SessionInv
<1>1. /\ 1 \in 1 .. MaxToken /\ 1 \in 0 .. MaxToken /\ 0 \in 0 .. MaxSignIn /\ MaxFlights \in Nat
  BY SignInAssumption
<1>2. Len(flights) = 0 /\ flights \in Seq(Flight) /\ Flights = {}
  BY EmptySeq DEF SignInInit, Flights, ToSet
<1>3. SignInTypeOK
  <2>1. account \in [token : 0 .. MaxToken, issued : Tokens, expired : SUBSET Tokens,
                     started : 0 .. MaxSignIn]
    BY <1>1 DEF SignInInit, Tokens
  <2>2. jar \in [token : 0 .. MaxToken, access : 0 .. MaxToken, flow : 0 .. MaxSignIn]
    BY <1>1 DEF SignInInit
  <2> QED
    BY <1>1, <1>2, <2>1, <2>2 DEF SignInInit, SignInTypeOK
<1>4. CallsFit /\ OnePosts
  BY DEF SignInInit, CallsFit, OnePosts, Posting
<1>5. FlightsFit /\ Apart(flights)
  BY <1>2 DEF FlightsFit, Apart
<1>6. Tracked
  BY DEF Tracked, SignInInit
<1> QED
  BY <1>1, <1>3, <1>4, <1>5, <1>6 DEF SessionInv, SignInInit

LEMMA SessionStays ==
  ASSUME SessionInv, [SignInNext]_signInVars
  PROVE  SessionInv'
<1>1. CASE UNCHANGED signInVars
  BY <1>1 DEF signInVars, SessionInv, SignInTypeOK, CallsFit, CallFits, OnePosts, Posting,
              FlightsFit, FlightFits, Apart, Tracked, KnowsNext, Flights, Is
<1>2. ASSUME NEW c \in Calls,
             \/ Send(c) \/ AskWho(c) \/ Join(c) \/ Post(c) \/ Rotate(c) \/ Receive(c)
             \/ LoseAnswer(c) \/ AskWhoAgain(c) \/ Handle(c) \/ Fail(c) \/ Reply(c)
             \/ Exchange(c) \/ ExchangeFails(c)
             \/ \E asked \in SignIns : ReturnFrom(c, asked)
      PROVE  SessionInv'
  BY <1>2, SendStep, AskWhoStep, JoinStep, PostStep, RotateStep, ReceiveStep, LoseAnswerStep,
     HandlerStep, FailStep, ReplyStep, ExchangeStep, ExchangeFailsStep, ReturnStep
<1>3. CASE \E token \in Tokens : ExpireAccess(token)
  BY <1>3, ExpireStep
<1>4. CASE \E i \in DOMAIN flights : Forget(i)
  BY <1>4, ForgetStep
<1>5. CASE Restart \/ StartSignIn \/ \E heard \in BOOLEAN : SignOut(heard)
  BY <1>5, RestartStep, StartStep, SignOutStep
<1> QED
  BY <1>1, <1>2, <1>3, <1>4, <1>5 DEF SignInNext

(* Whatever number of requests renew the session of one browser at once      *)
(* (RefreshCoordinator::refresh of main.rs), fail, or outlive a restart of    *)
(* the process, a refresh token is turned away only if its successor was      *)
(* lost, forgotten or given up, and the token of the cookies is in use or has *)
(* a flight or a call that knows its successor.  The invariant adds that a    *)
(* token has one flight and one call that posts it, and that every token ever  *)
(* issued is in use, spoiled, or has its successor known.                    *)
THEOREM SessionsAreKept == SignInSpec => []SessionsSurvive
<1>1. SessionInv => SessionsSurvive
  <2> SUFFICES ASSUME SessionInv PROVE SessionsSurvive
    OBVIOUS
  <2>1. jar.token \in Nat /\ jar.token <= account.issued /\ account.issued \in Nat
    BY JarType, Types DEF SessionInv
  <2>2. ASSUME jar.token \notin spoiled \cup {0}
        PROVE  jar.token = account.token \/ KnowsNext(jar.token)
    BY <2>1, <2>2 DEF SessionInv, Tracked
  <2> QED
    BY <2>2 DEF SessionsSurvive, KnowsNext, SessionInv
<1> QED
  BY <1>1, SessionBegins, SessionStays, PTL DEF SignInSpec

-----------------------------------------------------------------------------
(* Teams.                                                                    *)

(* What a request was checked for, of the invitations of a list.              *)
RequestFits(q, opened) ==
    /\ q.pc \in {"accept", "accept_and_return"} =>
          q.invite \in DOMAIN opened /\ opened[q.invite].for \in {q.user, Link}
    /\ q.pc = "invite" => MayInvite(q.role, q.to)
    /\ q.pc = "change" => q.role = "owner"
    /\ q.to # "owner"

RequestsFit == \A r \in Requests : requests[r] # NoRequest => RequestFits(requests[r], invites)

TeamInv == TeamTypeOK /\ RequestsFit /\ IsFiniteSet(TeamOwners)

(* Invitations stay, and whom they are for.                                   *)
InviteesStay == \A i \in InviteIds : i \in DOMAIN invites' /\ invites'[i].for = invites[i].for

-----------------------------------------------------------------------------
LEMMA TeamBegins == TeamInit => TeamInv
<1> SUFFICES ASSUME TeamInit PROVE TeamInv
  OBVIOUS
<1>1. TeamTypeOK
  <2>1. invites \in [1 .. 0 -> Invite] /\ 0 \in 0 .. MaxInvites
    BY TeamAssumption DEF TeamInit
  <2>2. members \in [People -> Roles \cup {"none"}]
    BY DEF TeamInit, Roles
  <2>3. requests \in [Requests -> Request \cup {NoRequest}]
    BY DEF TeamInit
  <2> QED
    BY <2>1, <2>2, <2>3 DEF TeamTypeOK
<1>2. RequestsFit
  BY DEF TeamInit, RequestsFit
<1>3. TeamOwners = {Creator}
  BY TeamAssumption DEF TeamOwners, TeamInit
<1> QED
  BY <1>1, <1>2, <1>3, FS_Singleton DEF TeamInv

LEMMA RankRises ==
  /\ Rank("none") = 0 /\ Rank("member") = 1 /\ Rank("admin") = 2 /\ Rank("owner") = 3
  /\ \A role \in Roles \cup {"none"} : Rank(role) \in Nat
BY DEF Rank, Roles

LEMMA AtType ==
  ASSUME TeamInv, NEW r \in Requests, requests[r] # NoRequest
  PROVE  /\ requests[r] \in Request /\ RequestFits(requests[r], invites)
         /\ requests[r].user \in People /\ requests[r].target \in People
         /\ requests[r].role \in Roles \cup {"none"} /\ requests[r].to \in Roles \ {"owner"}
BY DEF TeamInv, TeamTypeOK, RequestsFit, RequestFits, Request

(* A step of one request, next to invitations that stay.                      *)
LEMMA StepKeeps ==
  ASSUME TeamInv, InviteesStay, NEW r \in Requests, NEW q, Step(r, q),
         q # NoRequest => q \in Request /\ RequestFits(q, invites')
  PROVE  requests' \in [Requests -> Request \cup {NoRequest}] /\ RequestsFit'
<1>1. requests' = [requests EXCEPT ![r] = q]
  BY DEF Step
<1>2. requests' \in [Requests -> Request \cup {NoRequest}]
  BY <1>1 DEF TeamInv, TeamTypeOK
<1>3. ASSUME NEW s \in Requests, requests'[s] # NoRequest
      PROVE  RequestFits(requests'[s], invites')
  <2>1. CASE s = r
    BY <2>1, <1>1, <1>3 DEF TeamInv, TeamTypeOK
  <2>2. CASE s # r
    <3>1. requests'[s] = requests[s]
      BY <2>2, <1>1 DEF TeamInv, TeamTypeOK
    <3>2. RequestFits(requests[s], invites)
      BY <1>3, <3>1, AtType
    <3> QED
      BY <3>1, <3>2 DEF RequestFits, InviteesStay, InviteIds
  <2> QED
    BY <2>1, <2>2
<1> QED
  BY <1>2, <1>3 DEF RequestsFit

LEMMA EndKeeps ==
  ASSUME TeamInv, InviteesStay, NEW r \in Requests, End(r)
  PROVE  requests' \in [Requests -> Request \cup {NoRequest}] /\ RequestsFit'
BY StepKeeps DEF End

LEMMA RequestsKept ==
  ASSUME TeamInv, InviteesStay, UNCHANGED requests
  PROVE  requests' \in [Requests -> Request \cup {NoRequest}] /\ RequestsFit'
BY DEF TeamInv, TeamTypeOK, RequestsFit, RequestFits, InviteesStay, InviteIds

LEMMA SameMembers ==
  ASSUME TeamInv, UNCHANGED members
  PROVE  /\ members' \in [People -> Roles \cup {"none"}] /\ IsFiniteSet(TeamOwners')
         /\ RisesByAuthority /\ FallsDeliberately /\ OwnersStay
<1>1. \A u \in People : ~Rises(u) /\ ~Falls(u)
  BY RankRises DEF TeamInv, TeamTypeOK, Rises, Falls
<1>2. TeamOwners' = TeamOwners
  BY DEF TeamOwners
<1> QED
  BY <1>1, <1>2 DEF TeamInv, TeamTypeOK, RisesByAuthority, FallsDeliberately, OwnersStay

LEMMA SameInvites ==
  ASSUME TeamInv, UNCHANGED invites
  PROVE  /\ \E n \in 0 .. MaxInvites : invites' \in [1 .. n -> Invite]
         /\ InviteesStay /\ InvitedByAuthority
BY DEF TeamInv, TeamTypeOK, InviteesStay, InvitedByAuthority, InviteIds

(* One member's role changes.                                                 *)
LEMMA OneMoves ==
  ASSUME TeamInv, NEW u \in People, NEW role \in Roles \cup {"none"},
         members' = [members EXCEPT ![u] = role]
  PROVE  /\ members' \in [People -> Roles \cup {"none"}] /\ IsFiniteSet(TeamOwners')
         /\ members'[u] = role /\ \A v \in People \ {u} : ~Rises(v) /\ ~Falls(v)
         /\ Rises(u) <=> Rank(role) > Rank(members[u])
         /\ Falls(u) <=> Rank(role) < Rank(members[u])
         /\ (members[u] = "owner" <=> role = "owner") => TeamOwners' = TeamOwners
<1>1. /\ members' \in [People -> Roles \cup {"none"}] /\ members'[u] = role
      /\ \A v \in People \ {u} : members'[v] = members[v]
  BY DEF TeamInv, TeamTypeOK
<1>2. \A v \in People \ {u} : ~Rises(v) /\ ~Falls(v)
  BY <1>1, RankRises DEF TeamInv, TeamTypeOK, Rises, Falls
<1>3. IsFiniteSet(TeamOwners')
  <2>1. TeamOwners' \subseteq TeamOwners \cup {u}
    BY <1>1 DEF TeamOwners
  <2>2. IsFiniteSet(TeamOwners \cup {u})
    BY FS_AddElement DEF TeamInv
  <2> QED
    BY <2>1, <2>2, FS_Subset
<1>4. (members[u] = "owner" <=> role = "owner") => TeamOwners' = TeamOwners
  BY <1>1 DEF TeamOwners
<1> QED
  BY <1>1, <1>2, <1>3, <1>4 DEF Rises, Falls

LEMMA WithCreatorMoves ==
  ASSUME TeamInv, NEW u \in People, members' = WithCreator(u)
  PROVE  /\ members' \in [People -> Roles \cup {"none"}] /\ IsFiniteSet(TeamOwners')
         /\ RisesByAuthority /\ FallsDeliberately /\ OwnersStay
<1>1. CASE u = Creator /\ members[u] = "none"
  <2>1. members' = [members EXCEPT ![u] = "owner"] /\ "owner" \in Roles
    BY <1>1 DEF WithCreator, Roles
  <2>2. members'[Creator] = "owner" /\ (\A v \in People \ {u} : ~Rises(v) /\ ~Falls(v))
        /\ ~Falls(u)
    BY <1>1, <2>1, OneMoves, RankRises
  <2> QED
    BY <1>1, <2>1, <2>2, OneMoves DEF RisesByAuthority, FallsDeliberately, OwnersStay
<1>2. CASE ~(u = Creator /\ members[u] = "none")
  BY <1>2, SameMembers DEF WithCreator
<1> QED
  BY <1>1, <1>2

LEMMA Together ==
  ASSUME members' \in [People -> Roles \cup {"none"}], IsFiniteSet(TeamOwners'),
         \E n \in 0 .. MaxInvites : invites' \in [1 .. n -> Invite],
         requests' \in [Requests -> Request \cup {NoRequest}], RequestsFit'
  PROVE  TeamInv'
BY DEF TeamInv, TeamTypeOK

-----------------------------------------------------------------------------
LEMMA EnterKeeps ==
  ASSUME TeamInv, NEW r \in Requests, NEW u \in People, Enter(r, u)
  PROVE  TeamInv' /\ MovesDeliberately
<1>1. PICK i \in IF Waiting(u) = {} THEN {0} ELSE Waiting(u) :
         Step(r, [pc |-> IF i = 0 THEN "resolve" ELSE "accept", user |-> u, role |-> "none",
                  invite |-> i, target |-> u, to |-> "member"])
  BY DEF Enter
<1> DEFINE q == [pc |-> IF i = 0 THEN "resolve" ELSE "accept", user |-> u, role |-> "none",
                 invite |-> i, target |-> u, to |-> "member"]
<1>2. members' = WithCreator(u) /\ UNCHANGED invites
  BY DEF Enter
<1>3. i \in 0 .. MaxInvites /\ (i # 0 => i \in InviteIds /\ invites[i].for = u)
  BY <1>1, TeamAssumption DEF Waiting, TeamInv, TeamTypeOK, InviteIds
<1>4. q \in Request /\ RequestFits(q, invites')
  BY <1>2, <1>3 DEF Request, RequestFits, Roles, InviteIds
<1> QED
  BY <1>1, <1>2, <1>4, WithCreatorMoves, SameInvites, StepKeeps, Together DEF MovesDeliberately

LEMMA FollowInviteKeeps ==
  ASSUME TeamInv, NEW r \in Requests, NEW u \in People, NEW i \in InviteIds, FollowInvite(r, u, i)
  PROVE  TeamInv' /\ MovesDeliberately
<1> DEFINE q == [pc |-> "accept_and_return", user |-> u, role |-> "none", invite |-> i,
                 target |-> u, to |-> "member"]
<1>1. members' = WithCreator(u) /\ UNCHANGED invites
  BY DEF FollowInvite
<1>2. requests' \in [Requests -> Request \cup {NoRequest}] /\ RequestsFit'
  <2>1. CASE invites[i].status = "open" /\ invites[i].for \in {u, Link}
    <3>1. Step(r, q)
      BY <2>1 DEF FollowInvite
    <3>2. i \in 0 .. MaxInvites
      BY TeamAssumption DEF TeamInv, TeamTypeOK, InviteIds
    <3>3. q \in Request /\ RequestFits(q, invites')
      BY <1>1, <2>1, <3>2 DEF Request, RequestFits, Roles, InviteIds
    <3> QED
      BY <1>1, <3>1, <3>3, SameInvites, StepKeeps
  <2>2. CASE ~(invites[i].status = "open" /\ invites[i].for \in {u, Link})
    BY <1>1, <2>2, SameInvites, RequestsKept DEF FollowInvite
  <2> QED
    BY <2>1, <2>2
<1> QED
  BY <1>1, <1>2, WithCreatorMoves, SameInvites, Together DEF MovesDeliberately

(* An invitation that is over, or expired, is otherwise what it was.          *)
LEMMA StatusChanges ==
  ASSUME TeamInv, NEW i \in InviteIds, NEW status \in {"open", "expired", "over"},
         invites' = [invites EXCEPT ![i].status = status]
  PROVE  /\ \E n \in 0 .. MaxInvites : invites' \in [1 .. n -> Invite]
         /\ InviteesStay /\ InvitedByAuthority
<1>1. PICK n \in 0 .. MaxInvites : invites \in [1 .. n -> Invite]
  BY DEF TeamInv, TeamTypeOK
<1>2. /\ [invites[i] EXCEPT !.status = status] \in Invite
      /\ [invites[i] EXCEPT !.status = status].for = invites[i].for
  BY <1>1 DEF Invite, InviteIds
<1>3. invites' = [invites EXCEPT ![i] = [invites[i] EXCEPT !.status = status]]
  OBVIOUS
<1> QED
  BY <1>1, <1>2, <1>3 DEF InviteesStay, InvitedByAuthority, InviteIds

LEMMA AcceptKeeps ==
  ASSUME TeamInv, NEW r \in Requests, Accept(r)
  PROVE  TeamInv' /\ MovesDeliberately
<1> DEFINE q == requests[r]
           invite == invites[q.invite]
           role == AcceptedRole(members[q.user], invite.role)
<1>1. /\ requests[r] # NoRequest /\ q.pc \in {"accept", "accept_and_return"}
  BY DEF Accept, At
<1>2. /\ q \in Request /\ q.user \in People /\ q.invite \in InviteIds
      /\ invite.for \in {q.user, Link} /\ RequestFits(q, invites)
  BY <1>1, AtType DEF RequestFits, InviteIds
<1>3. invite \in Invite /\ members[q.user] \in Roles \cup {"none"}
  BY <1>2 DEF TeamInv, TeamTypeOK, InviteIds
<1>4. invite.role \in {"admin", "member"}
  BY <1>3 DEF Invite, Roles
<1>5. CASE invite.status = "open"
  <2>1. /\ members' = [members EXCEPT ![q.user] = role]
        /\ invites' = IF invite.for = Link THEN invites
                      ELSE [invites EXCEPT ![q.invite].status = "over"]
        /\ IF q.pc = "accept" THEN Step(r, [q EXCEPT !.pc = "resolve"]) ELSE End(r)
    BY <1>5 DEF Accept
  <2>2. /\ \E n \in 0 .. MaxInvites : invites' \in [1 .. n -> Invite]
        /\ InviteesStay /\ InvitedByAuthority
    BY <1>2, <2>1, SameInvites, StatusChanges
  <2>3. role \in Roles \cup {"none"} /\ (role = "owner" <=> members[q.user] = "owner")
        /\ Rank(role) >= Rank(members[q.user])
        /\ (Rank(role) > Rank(members[q.user]) => role = invite.role)
    BY <1>3, <1>4, RankRises DEF AcceptedRole, Editors, Roles
  <2>4. [q EXCEPT !.pc = "resolve"] \in Request
    BY <1>2 DEF Request
  <2>5. RequestFits([q EXCEPT !.pc = "resolve"], invites')
    BY <1>2 DEF RequestFits, Request
  <2>6. requests' \in [Requests -> Request \cup {NoRequest}] /\ RequestsFit'
    BY <2>1, <2>2, <2>4, <2>5, StepKeeps, EndKeeps
  <2>7. /\ members' \in [People -> Roles \cup {"none"}] /\ IsFiniteSet(TeamOwners')
        /\ members'[q.user] = role /\ \A v \in People \ {q.user} : ~Rises(v) /\ ~Falls(v)
        /\ Rises(q.user) <=> Rank(role) > Rank(members[q.user])
        /\ Falls(q.user) <=> Rank(role) < Rank(members[q.user])
        /\ TeamOwners' = TeamOwners
    <3>1. PICK u \in People : u = q.user
      BY <1>2
    <3>2. PICK new \in Roles \cup {"none"} : new = role
      BY <2>3
    <3>3. members' = [members EXCEPT ![u] = new]
      BY <2>1, <3>1, <3>2
    <3>4. /\ members' \in [People -> Roles \cup {"none"}] /\ IsFiniteSet(TeamOwners')
          /\ members'[u] = new /\ \A v \in People \ {u} : ~Rises(v) /\ ~Falls(v)
          /\ Rises(u) <=> Rank(new) > Rank(members[u])
          /\ Falls(u) <=> Rank(new) < Rank(members[u])
          /\ (members[u] = "owner" <=> new = "owner") => TeamOwners' = TeamOwners
      BY <3>3, OneMoves
    <3>5. members[u] = "owner" <=> new = "owner"
      BY <2>3, <3>1, <3>2
    <3> QED
      BY ONLY <3>1, <3>2, <3>4, <3>5
  <2>8. \A v \in People : ~Falls(v)
    BY <2>3, <2>7, RankRises, <1>3
  <2>9. \A v \in People : Rises(v) => v = q.user /\ invite.role = members'[v]
    BY <2>3, <2>7
  <2>10. RisesByAuthority /\ FallsDeliberately /\ OwnersStay
    BY <1>2, <1>5, <2>7, <2>8, <2>9 DEF RisesByAuthority, FallsDeliberately, OwnersStay
  <2> QED
    BY <2>2, <2>6, <2>7, <2>10, Together DEF MovesDeliberately
<1>6. CASE invite.status # "open"
  <2>1. End(r) /\ UNCHANGED members /\ UNCHANGED invites
    BY <1>6 DEF Accept
  <2> QED
    BY <2>1, SameMembers, SameInvites, EndKeeps, Together DEF MovesDeliberately
<1> QED
  BY <1>5, <1>6

(* The steps that only move the request on.                                   *)
LEMMA OnlyRequests ==
  ASSUME TeamInv, NEW r \in Requests, NEW q, Step(r, q), UNCHANGED <<members, invites>>,
         q # NoRequest => q \in Request /\ RequestFits(q, invites)
  PROVE  TeamInv' /\ MovesDeliberately
<1>1. RequestFits(q, invites') <=> RequestFits(q, invites)
  BY DEF RequestFits
<1>2. UNCHANGED members /\ UNCHANGED invites
  OBVIOUS
<1> QED
  BY <1>1, <1>2, SameMembers, SameInvites, StepKeeps, Together DEF MovesDeliberately

LEMMA ReadRoleKeeps ==
  ASSUME TeamInv, NEW r \in Requests, ReadRole(r)
  PROVE  TeamInv' /\ MovesDeliberately
<1> DEFINE q == requests[r]
           new == [q EXCEPT !.pc = "act", !.role = members[q.user], !.invite = 0]
<1>1. q # NoRequest /\ UNCHANGED <<members, invites>> /\ (Step(r, NoRequest) \/ Step(r, new))
  BY DEF ReadRole, At, End
<1>2. q \in Request /\ q.user \in People /\ RequestFits(q, invites)
  BY <1>1, AtType
<1>3. members[q.user] \in Roles \cup {"none"} /\ 0 \in 0 .. MaxInvites
  BY <1>2, TeamAssumption DEF TeamInv, TeamTypeOK
<1>4. new \in Request /\ new.pc = "act" /\ new.to = q.to
  BY <1>2, <1>3 DEF Request
<1>5. RequestFits(new, invites)
  BY <1>2, <1>4 DEF RequestFits
<1> QED
  BY <1>1, <1>4, <1>5, OnlyRequests

LEMMA ReturnKeeps ==
  ASSUME TeamInv, NEW r \in Requests, Return(r)
  PROVE  TeamInv' /\ MovesDeliberately
BY OnlyRequests DEF Return, End

LEMMA CheckKeeps ==
  ASSUME TeamInv, NEW r \in Requests, NEW v \in People, NEW to \in {"admin", "member"},
         CheckInvite(r, v, to) \/ CheckChange(r, v, to) \/ CheckRemove(r, v)
  PROVE  TeamInv' /\ MovesDeliberately
<1> DEFINE q == requests[r]
<1>1. q # NoRequest /\ q.pc = "act" /\ UNCHANGED <<members, invites>>
  BY DEF CheckInvite, CheckChange, CheckRemove, At
<1>2. q \in Request /\ RequestFits(q, invites)
  BY <1>1, AtType
<1>3. CASE CheckInvite(r, v, to)
  <2> DEFINE new == [q EXCEPT !.pc = "invite", !.target = v, !.to = to]
  <2>1. Step(r, new) /\ MayInvite(q.role, to)
    BY <1>3 DEF CheckInvite
  <2>2. new \in Request /\ new.pc = "invite" /\ new.to = to /\ new.role = q.role
    BY <1>2 DEF Request, Roles
  <2>3. RequestFits(new, invites)
    BY <2>1, <2>2 DEF RequestFits
  <2> QED
    BY <1>1, <2>1, <2>2, <2>3, OnlyRequests
<1>4. CASE CheckChange(r, v, to)
  <2> DEFINE new == [q EXCEPT !.pc = "change", !.target = v, !.to = to]
  <2>1. Step(r, new) /\ q.role = "owner"
    BY <1>4 DEF CheckChange
  <2>2. new \in Request /\ new.pc = "change" /\ new.to = to /\ new.role = q.role
    BY <1>2 DEF Request, Roles
  <2>3. RequestFits(new, invites)
    BY <2>1, <2>2 DEF RequestFits
  <2> QED
    BY <1>1, <2>1, <2>2, <2>3, OnlyRequests
<1>5. CASE CheckRemove(r, v)
  <2> DEFINE new == [q EXCEPT !.pc = "remove", !.target = v]
  <2>1. Step(r, new)
    BY <1>5 DEF CheckRemove
  <2>2. new \in Request /\ new.pc = "remove" /\ new.to = q.to
    BY <1>2 DEF Request
  <2>3. RequestFits(new, invites)
    BY <1>2, <2>2 DEF RequestFits
  <2> QED
    BY <1>1, <2>1, <2>2, <2>3, OnlyRequests
<1> QED
  BY <1>3, <1>4, <1>5

LEMMA InvitedGrows ==
  ASSUME TeamInv, NEW invitee \in People \cup {Link}, NEW role \in Roles \ {"owner"},
         Cardinality(InviteIds) < MaxInvites, invites' = Invited(invitee, role)
  PROVE  /\ \E n \in 0 .. MaxInvites : invites' \in [1 .. n -> Invite]
         /\ InviteesStay
         /\ \A i \in DOMAIN invites' \ InviteIds : invites'[i].role = role
<1>1. PICK n \in 0 .. MaxInvites : invites \in [1 .. n -> Invite]
  BY DEF TeamInv, TeamTypeOK
<1>2. n \in Nat /\ InviteIds = 1 .. n
  BY <1>1, TeamAssumption DEF InviteIds
<1>3. Cardinality(InviteIds) = n
  BY <1>2, FS_Interval
<1>4. CASE \E i \in InviteIds : invites[i].for = invitee /\ invites[i].status = "open"
  <2>1. invites' = invites
    BY <1>4 DEF Invited
  <2> QED
    BY <2>1, <1>1 DEF InviteesStay, InviteIds
<1>5. CASE ~ \E i \in InviteIds : invites[i].for = invitee /\ invites[i].status = "open"
  <2> DEFINE swept == [i \in InviteIds |->
                          IF invites[i].for = invitee /\ invites[i].status = "expired"
                          THEN [invites[i] EXCEPT !.status = "over"] ELSE invites[i]]
             new == [for |-> invitee, role |-> role, status |-> "open"]
  <2>1. invites' = [i \in 1 .. n + 1 |-> IF i \in InviteIds THEN swept[i] ELSE new]
    BY <1>3, <1>5 DEF Invited
  <2>2. new \in Invite /\ new.role = role
    BY DEF Invite
  <2>3. \A i \in InviteIds : swept[i] \in Invite /\ swept[i].for = invites[i].for
    BY <1>1, <1>2 DEF Invite
  <2> HIDE DEF swept, new
  <2>4. n + 1 \in 0 .. MaxInvites /\ InviteIds \subseteq 1 .. n + 1
    BY <1>2, <1>3, TeamAssumption
  <2>5. invites' \in [1 .. n + 1 -> Invite]
    BY <2>1, <2>2, <2>3
  <2>6. InviteesStay
    BY <2>1, <2>3, <2>4 DEF InviteesStay
  <2>7. \A i \in DOMAIN invites' \ InviteIds : invites'[i].role = role
    BY <2>1, <2>2
  <2> QED
    BY <2>4, <2>5, <2>6, <2>7
<1> QED
  BY <1>4, <1>5

LEMMA InviteKeeps ==
  ASSUME TeamInv, NEW r \in Requests, InviteByEmail(r) \/ ShareLink(r)
  PROVE  TeamInv' /\ MovesDeliberately
<1> DEFINE q == requests[r]
<1>1. q # NoRequest /\ End(r) /\ UNCHANGED members /\ Cardinality(InviteIds) < MaxInvites
  BY DEF InviteByEmail, ShareLink, At
<1>2. q.target \in People /\ q.to \in Roles \ {"owner"} /\ RequestFits(q, invites)
  BY <1>1, AtType
<1>3. PICK invitee \in People \cup {Link}, role \in Roles \ {"owner"} :
         /\ invites' = Invited(invitee, role) /\ (At(r, "invite") \/ At(r, "act"))
         /\ q.role = "owner" \/ (q.role = "admin" /\ role = "member")
  <2>1. CASE InviteByEmail(r)
    BY <2>1, <1>2 DEF InviteByEmail, At, RequestFits, MayInvite
  <2>2. CASE ShareLink(r)
    <3>1. "member" \in Roles \ {"owner"}
      BY DEF Roles
    <3> QED
      BY <2>2, <3>1 DEF ShareLink, Editors
  <2> QED
    BY <2>1, <2>2
<1>4. /\ \E n \in 0 .. MaxInvites : invites' \in [1 .. n -> Invite]
      /\ InviteesStay
      /\ \A i \in DOMAIN invites' \ InviteIds : invites'[i].role = role
  BY <1>1, <1>3, InvitedGrows
<1>5. InvitedByAuthority
  BY <1>3, <1>4 DEF InvitedByAuthority
<1> QED
  BY <1>1, <1>4, <1>5, SameMembers, EndKeeps, Together DEF MovesDeliberately

LEMMA RevokeKeeps ==
  ASSUME TeamInv, NEW r \in Requests, NEW i \in InviteIds, Revoke(r, i)
  PROVE  TeamInv' /\ MovesDeliberately
<1>1. End(r) /\ UNCHANGED members /\ invites' = [invites EXCEPT ![i].status = "over"]
  BY DEF Revoke
<1> QED
  BY <1>1, SameMembers, StatusChanges, EndKeeps, Together DEF MovesDeliberately

LEMMA ExpireKeeps ==
  ASSUME TeamInv, NEW i \in InviteIds, Expire(i)
  PROVE  TeamInv' /\ MovesDeliberately
<1>1. /\ UNCHANGED requests /\ UNCHANGED members
      /\ invites' = [invites EXCEPT ![i].status = "expired"]
  BY DEF Expire
<1> QED
  BY <1>1, SameMembers, StatusChanges, RequestsKept, Together DEF MovesDeliberately

LEMMA SetRoleKeeps ==
  ASSUME TeamInv, NEW r \in Requests, ChangeRole(r) \/ RemoveMember(r)
  PROVE  TeamInv' /\ MovesDeliberately
<1> DEFINE q == requests[r]
           u == q.target
<1>1. q # NoRequest /\ End(r) /\ UNCHANGED invites
  BY DEF ChangeRole, RemoveMember, At
<1>2. u \in People /\ q.to \in Roles \ {"owner"} /\ RequestFits(q, invites)
  BY <1>1, AtType
<1>3. CASE UNCHANGED members
  BY <1>1, <1>3, SameMembers, SameInvites, EndKeeps, Together DEF MovesDeliberately
<1>4. CASE ~UNCHANGED members
  <2>1. PICK role \in (Roles \ {"owner"}) \cup {"none"} :
           /\ members' = [members EXCEPT ![u] = role]
           /\ At(r, "change") \/ At(r, "remove")
           /\ role # "none" => At(r, "change") /\ q.role = "owner"
    BY <1>2, <1>4 DEF ChangeRole, RemoveMember, At, RequestFits
  <2>2. /\ members' \in [People -> Roles \cup {"none"}] /\ IsFiniteSet(TeamOwners')
        /\ \A v \in People \ {u} : ~Rises(v) /\ ~Falls(v)
        /\ Rises(u) <=> Rank(role) > Rank(members[u])
        /\ members[u] # "owner" => TeamOwners' = TeamOwners
    BY <1>2, <2>1, OneMoves
  <2>3. Rises(u) => role # "none"
    <3>1. Rank(members[u]) \in Nat
      BY <1>2, RankRises DEF TeamInv, TeamTypeOK
    <3> QED
      BY <2>2, <3>1, RankRises
  <2>4. RisesByAuthority /\ FallsDeliberately /\ OwnersStay
    BY <2>1, <2>2, <2>3 DEF RisesByAuthority, FallsDeliberately, OwnersStay
  <2> QED
    BY <1>1, <2>2, <2>4, SameInvites, EndKeeps, Together DEF MovesDeliberately
<1> QED
  BY <1>3, <1>4

LEMMA TransferKeeps ==
  ASSUME TeamInv, NEW r \in Requests, NEW v \in People, Transfer(r, v)
  PROVE  TeamInv' /\ MovesDeliberately
<1> DEFINE u == requests[r].user
<1>1. /\ requests[r] # NoRequest /\ End(r) /\ UNCHANGED invites
      /\ v # u /\ members[v] \notin {"none", "owner"} /\ members[u] = "owner"
      /\ members' = [members EXCEPT ![v] = "owner", ![u] = "admin"]
  BY DEF Transfer, At
<1>2. u \in People
  BY <1>1, AtType
<1>3. /\ members' \in [People -> Roles \cup {"none"}]
      /\ members'[v] = "owner" /\ members'[u] = "admin"
      /\ \A w \in People \ {u, v} : members'[w] = members[w]
  BY <1>1, <1>2 DEF TeamInv, TeamTypeOK, Roles
<1>4. TeamOwners' = (TeamOwners \ {u}) \cup {v} /\ u \in TeamOwners /\ v \notin TeamOwners \ {u}
  BY <1>1, <1>2, <1>3 DEF TeamOwners
<1>5. /\ IsFiniteSet(TeamOwners \ {u}) /\ Cardinality(TeamOwners \ {u}) = Cardinality(TeamOwners) - 1
      /\ Cardinality(TeamOwners) \in Nat
  BY <1>4, FS_RemoveElement, FS_CardinalityType DEF TeamInv
<1>6. IsFiniteSet(TeamOwners') /\ Cardinality(TeamOwners') = Cardinality(TeamOwners)
  <2>1. \A S : IsFiniteSet(S) /\ v \notin S =>
                 IsFiniteSet(S \cup {v}) /\ Cardinality(S \cup {v}) = Cardinality(S) + 1
    BY FS_AddElement
  <2>2. /\ IsFiniteSet((TeamOwners \ {u}) \cup {v})
        /\ Cardinality((TeamOwners \ {u}) \cup {v}) = Cardinality(TeamOwners \ {u}) + 1
    BY <1>4, <1>5, <2>1
  <2> QED
    BY <1>4, <1>5, <2>2
<1>7. /\ Rises(v) /\ Falls(u) /\ ~Falls(v) /\ ~Rises(u)
      /\ \A w \in People \ {u, v} : ~Rises(w) /\ ~Falls(w)
  <2>1. members[v] \in {"member", "admin"}
    BY <1>1 DEF TeamInv, TeamTypeOK, Roles
  <2>2. Rank(members[v]) < 3 /\ Rank(members[v]) \in Nat
    BY <2>1, RankRises
  <2>3. Rises(v) /\ Falls(u) /\ ~Falls(v) /\ ~Rises(u)
    BY <1>1, <1>3, <2>2, RankRises DEF Rises, Falls
  <2>4. \A w \in People \ {u, v} : ~Rises(w) /\ ~Falls(w)
    BY <1>3, RankRises DEF Rises, Falls
  <2> QED
    BY <2>3, <2>4
<1>8. RisesByAuthority /\ FallsDeliberately /\ OwnersStay
  BY <1>1, <1>2, <1>3, <1>6, <1>7 DEF RisesByAuthority, FallsDeliberately, OwnersStay
<1> QED
  BY <1>1, <1>3, <1>6, <1>8, SameInvites, EndKeeps, Together DEF MovesDeliberately

LEMMA TeamStays ==
  ASSUME TeamInv, [TeamNext]_teamVars
  PROVE  TeamInv' /\ [MovesDeliberately]_teamVars
<1>1. CASE UNCHANGED teamVars
  BY <1>1, SameMembers, SameInvites, RequestsKept, Together DEF teamVars
<1>2. CASE TeamNext
  BY <1>2, EnterKeeps, FollowInviteKeeps, AcceptKeeps, ReadRoleKeeps, ReturnKeeps, CheckKeeps,
     InviteKeeps, RevokeKeeps, ExpireKeeps, SetRoleKeeps, TransferKeeps DEF TeamNext
<1> QED
  BY <1>1, <1>2

(* For any team, any number of requests at once and any list of invitations:  *)
(* whoever rises does so by an open invitation, an owner's change, a transfer *)
(* or as the creator; admins are invited by owners; nobody falls but the one  *)
(* a change, removal or transfer was for; and the number of owners changes    *)
(* only when the creator comes back or a request checked before a transfer    *)
(* hits the new owner (RolesMoveDeliberately).                               *)
THEOREM RolesMoveOnPurpose == TeamSpec => RolesMoveDeliberately
BY TeamBegins, TeamStays, PTL DEF TeamSpec, RolesMoveDeliberately

-----------------------------------------------------------------------------
(* All sides.                                                                *)

ConsoleInv ==
    /\ side \in Sides
    /\ TeamInv /\ WalkInv /\ SessionInv /\ IInv /\ InstallInv /\ RolloutInv

LEMMA ConsoleBegins == ConsoleInit => ConsoleInv
BY TeamBegins, WalkBegins, SessionBegins, InitKeys, InstallBegins, InitInv
   DEF ConsoleInit, ConsoleInv

LEMMA SidesMove ==
  ASSUME [ConsoleNext]_consoleVars
  PROVE  /\ [TeamNext]_teamVars /\ [Next]_vars /\ [SignInNext]_signInVars
         /\ [KeysNext]_keysVars /\ [InstallNext]_installVars /\ [RolloutNext]_rolloutVars
         /\ side' = side
BY Zenon DEF ConsoleNext, Of, consoleVars

LEMMA ConsoleStays ==
  ASSUME ConsoleInv, [ConsoleNext]_consoleVars
  PROVE  ConsoleInv'
<1>1. TeamInv'
  BY SidesMove, TeamStays DEF ConsoleInv
<1>2. WalkInv'
  BY SidesMove, WalkStep DEF ConsoleInv
<1>3. SessionInv'
  BY SidesMove, SessionStays DEF ConsoleInv
<1>4. IInv'
  BY SidesMove, KeysStep DEF ConsoleInv
<1>5. InstallInv'
  BY SidesMove, InstallStays DEF ConsoleInv
<1>6. RolloutInv'
  BY SidesMove, NextInv DEF ConsoleInv
<1> QED
  BY <1>1, <1>2, <1>3, <1>4, <1>5, <1>6, SidesMove DEF ConsoleInv

(* Whatever is stored for the dashboard keeps its shape, the side that moves  *)
(* being one of a team, what is read, a session, keys, an installation and   *)
(* the releases.                                                             *)
THEOREM ConsoleTyped == ConsoleSpec => []ConsoleTypeOK
<1>1. ConsoleInv => ConsoleTypeOK
  <2> SUFFICES ASSUME ConsoleInv PROVE ConsoleTypeOK
    OBVIOUS
  <2>1. TeamTypeOK /\ TypeOK /\ SignInTypeOK
    BY DEF ConsoleInv, TeamInv, WalkInv, SessionInv
  <2>2. KeysTypeOK /\ InstallTypeOK /\ RolloutTypeOK
    BY DEF ConsoleInv, IInv, InstallInv, RolloutInv
  <2> QED
    BY <2>1, <2>2, Zenon DEF ConsoleTypeOK, ConsoleInv, Sides
<1> QED
  BY <1>1, ConsoleBegins, ConsoleStays, PTL DEF ConsoleSpec

==============================================================================
