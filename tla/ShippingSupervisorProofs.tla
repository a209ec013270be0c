---------------------- MODULE ShippingSupervisorProofs ----------------------
(***************************************************************************)
(* What TLAPS proves of a release run, for any contracts, any number of    *)
(* repairs, executions, crashes and trees.                                 *)
(***************************************************************************)
EXTENDS ShippingSupervisor, TLAPS

USE BudgetAssumption, OfferedAssumption

\* The constant sets of places, and of states.
USE DEF Done, Certified, Live, Previewed, Releasing

\* A contract allows a natural number of repairs.
LEMMA RepairLimit ==
  ASSUME TypeOK
  PROVE  contract.maxRepairAttempts \in Nat
  BY DEF TypeOK

\* The places of run(), one by one.
LEMMA Places ==
  Working = {"worktree", "build", "verify", "repair", "tested", "previewDeploy", "previewUat",
             "productionDeploy", "productionUat", "deployed", "release", "certify", "ship",
             "receipt", "cleanup"}
  BY DEF Working, Uses

\* Runs in memory, and on disk.
InMemory == [state : States \cup {"ABSENT", "CREATED"}, tested : Nat, deployed : Nat, receipt : BOOLEAN]
OnDisk == [state : States \cup {"ABSENT"}, tested : Nat, deployed : Nat, receipt : BOOLEAN]

\* An event changes the state, in memory and on disk, and nothing else.
LEMMA EventSets ==
  ASSUME NEW r \in InMemory, NEW s \in States, Event(r, s)
  PROVE  /\ run' \in InMemory /\ file' \in OnDisk
         /\ run'.state = s /\ run'.tested = r.tested /\ run'.deployed = r.deployed
         /\ run'.receipt = r.receipt /\ file' = run'
  BY DEF Event, InMemory, OnDisk

\* Initially nothing has been done.
LEMMA InitInv == Init => IInv
<1> SUFFICES ASSUME Init PROVE IInv
  OBVIOUS
<1> USE DEF Init, Absent
<1>1. TypeOK
  <2>1. run \in InMemory /\ file \in OnDisk
    BY DEF InMemory, OnDisk
  <2>2. budget \in [executions : Nat, crashes : Nat]
    OBVIOUS
  <2>3. contract \in Offered /\ contract.maxRepairAttempts \in Nat
    OBVIOUS
  <2>4. attempt \in 0..contract.maxRepairAttempts /\ release \in 0..contract.maxRepairAttempts
    BY <2>3
  <2>5. /\ tree \in 0..Trees /\ live \in 0..tree /\ verified \in 0..tree
        /\ gates \subseteq {"preview", "production"} /\ repairs \in Nat
        /\ shipped \subseteq 1..tree
    OBVIOUS
  <2>6. worktree \in BOOLEAN /\ repairFailed \in BOOLEAN
    OBVIOUS
  <2> QED BY <2>1, <2>2, <2>3, <2>4, <2>5, <2>6 DEF TypeOK, InMemory, OnDisk
<1>2. NothingIsMissing /\ ShippedPassedEveryGate /\ VerifiedUnlessRepairFailed
  BY DEF NothingIsMissing, ShippedPassedEveryGate, VerifiedUnlessRepairFailed, Uses
<1>3. RepairsAreBounded
  <2> DEFINE max == contract.maxRepairAttempts
  <2>1. max \in Nat /\ max * (1 + max) \in Nat
    BY <1>1, RepairLimit
  <2> QED BY <2>1 DEF RepairsAreBounded
<1>4. ContractIsAccepted /\ GatesPassInOrder /\ AttemptIsVerified
  BY DEF ContractIsAccepted, GatesPassInOrder, AttemptIsVerified
<1>5. RepairsAreCounted
  BY <1>1, RepairLimit DEF RepairsAreCounted
<1>6. FileFollowsRun
  BY DEF FileFollowsRun, Working, Uses, Terminal
<1> QED BY <1>1, <1>2, <1>3, <1>4, <1>5, <1>6 DEF IInv, Inv

-----------------------------------------------------------------------------
(* The parts of the inductive invariant, one after another.                *)

\* Runs, counters and histories stay well formed, the contract is the same.
LEMMA TypeStep ==
  ASSUME IInv, [Next]_supervisor
  PROVE  TypeOK' /\ ContractIsAccepted'
<1> USE DEF IInv, Inv, TypeOK, counters, disk, progress, history
<1> DEFINE Goal == TypeOK' /\ ContractIsAccepted'
<1>a. run \in InMemory /\ file \in OnDisk /\ contract.maxRepairAttempts \in Nat
  BY RepairLimit DEF InMemory, OnDisk
<1>b. {"CONTRACT_ACCEPTED", "WORKTREE_READY", "BLOCKED", "BUILD_COMPLETE", "REPAIRING", "VERIFIED",
       "FAILED", "VERIFYING", "PREVIEW_DEPLOYED", "PREVIEW_UAT_PASS", "PRODUCTION_DEPLOYED",
       "PRODUCTION_UAT_PASS", "PRODUCTION_VERIFIED", "SHIPPED", "INTERRUPTED"} \subseteq States
  BY DEF States, Terminal
<1>c. ASSUME run' \in InMemory, file' \in OnDisk, UNCHANGED contract, at' \in Working \cup {"idle", "returned", "thrown", "closing"},
             attempt' \in 0..contract.maxRepairAttempts, release' \in 0..contract.maxRepairAttempts,
             worktree' \in BOOLEAN, tree' \in 0..Trees, live' \in 0..tree',
             budget' \in [executions : Nat, crashes : Nat],
             verified' \in 0..tree', gates' \subseteq {"preview", "production"},
             repairs' \in Nat, repairFailed' \in BOOLEAN, shipped' \subseteq 1..tree'
      PROVE  Goal
  BY <1>c DEF InMemory, OnDisk, ContractIsAccepted, Accepted, Required
<1>d. ASSUME tree' = tree \/ tree' = tree + 1
      PROVE  live \in 0..tree' /\ verified \in 0..tree' /\ shipped \subseteq 1..tree'
  BY <1>d
<1> USE Places
<1>1. CASE Begin
  <2>1. Created \in InMemory
    BY DEF InMemory, Created, Absent
  <2>2. run' \in InMemory /\ file' \in OnDisk
    BY <1>1, <1>b, <2>1, EventSets DEF Begin
  <2>3. worktree' \in BOOLEAN /\ repairFailed' \in BOOLEAN
    BY <1>1 DEF Begin
  <2>4. /\ tree' \in 0..Trees /\ live' \in 0..tree' /\ verified' \in 0..tree' /\ shipped' \subseteq 1..tree'
        /\ attempt' \in 0..contract.maxRepairAttempts /\ release' \in 0..contract.maxRepairAttempts
        /\ repairs' \in Nat /\ budget' \in [executions : Nat, crashes : Nat]
    BY <1>1, <1>a DEF Begin
  <2> QED BY <1>1, <1>c, <2>2, <2>3, <2>4 DEF Begin
<1>2. ASSUME NEW ok \in BOOLEAN, CreateWorktree(ok) PROVE Goal
  <2>1. run' \in InMemory /\ file' \in OnDisk
    BY <1>2, <1>a, <1>b, EventSets DEF CreateWorktree
  <2>2. tree' = tree \/ (tree < Trees /\ tree' = tree + 1)
    BY <1>2 DEF CreateWorktree
  <2>3. worktree' \in BOOLEAN /\ repairFailed' \in BOOLEAN
    BY <1>2 DEF CreateWorktree
  <2>4. tree' \in 0..Trees
    BY <1>2, <2>2
  <2> QED BY <1>2, <1>a, <1>c, <1>d, <2>1, <2>2, <2>3, <2>4 DEF CreateWorktree
<1>3. ASSUME NEW ok \in BOOLEAN, Build(ok) PROVE Goal
  <2>1. run' \in InMemory /\ file' \in OnDisk
    BY <1>3, <1>a, <1>b, EventSets DEF Build
  <2>2. tree' = tree \/ (tree < Trees /\ tree' = tree + 1)
    BY <1>3 DEF Build, MayChangeTree
  <2> QED BY <1>3, <1>a, <1>c, <1>d, <2>1, <2>2 DEF Build
<1>4. ASSUME NEW ok \in BOOLEAN, Verify(ok) PROVE Goal
  <2>1. run' \in InMemory /\ file' \in OnDisk
    BY <1>4, <1>a, <1>b, EventSets DEF Verify
  <2> QED BY <1>4, <1>a, <1>c, <2>1 DEF Verify
<1>5. ASSUME NEW ok \in BOOLEAN, Repair(ok) PROVE Goal
  <2>1. run' \in InMemory /\ file' \in OnDisk
    BY <1>5, <1>a, <1>b, EventSets DEF Repair
  <2>2. tree' = tree \/ (tree < Trees /\ tree' = tree + 1)
    BY <1>5 DEF Repair, MayChangeTree
  <2> QED BY <1>5, <1>a, <1>c, <1>d, <2>1, <2>2 DEF Repair, BudgetSpent
<1>6. ASSUME NEW ok \in BOOLEAN, PreviewDeploy(ok) \/ PreviewUat(ok) PROVE Goal
  <2>1. run' \in InMemory /\ file' \in OnDisk
    BY <1>6, <1>a, <1>b, EventSets DEF PreviewDeploy, PreviewUat
  <2> QED BY <1>6, <1>a, <1>c, <2>1 DEF PreviewDeploy, PreviewUat, AfterUat, AfterPreview
<1>7. ASSUME NEW ok \in BOOLEAN, ProductionDeploy(ok) \/ ProductionUat(ok) PROVE Goal
  <2>1. run' \in InMemory /\ file' \in OnDisk
    BY <1>7, <1>a, <1>b, EventSets DEF ProductionDeploy, ProductionUat
  <2>2. live' \in 0..tree'
    BY <1>7 DEF ProductionDeploy, ProductionUat
  <2>3. gates' \subseteq {"preview", "production"} /\ at' \in Working
    BY <1>7 DEF ProductionDeploy, ProductionUat, AfterUat
  <2> QED BY <1>7, <1>a, <1>c, <2>1, <2>2, <2>3 DEF ProductionDeploy, ProductionUat
<1>8. ASSUME NEW ok \in BOOLEAN, ReleaseRepair(ok) PROVE Goal
  <2>1. run' \in InMemory /\ file' \in OnDisk
    BY <1>8, <1>a, <1>b, EventSets DEF ReleaseRepair
  <2>2. tree' = tree \/ (tree < Trees /\ tree' = tree + 1)
    BY <1>8 DEF ReleaseRepair, MayChangeTree
  <2> QED BY <1>8, <1>a, <1>c, <1>d, <2>1, <2>2 DEF ReleaseRepair, BudgetSpent, AfterRepair
<1>9. CASE RepairBudgetExhausted \/ ReleaseBudgetExhausted
  <2>1. run' \in InMemory /\ file' \in OnDisk
    BY <1>9, <1>a, <1>b, EventSets DEF RepairBudgetExhausted, ReleaseBudgetExhausted
  <2> QED BY <1>9, <1>a, <1>c, <2>1 DEF RepairBudgetExhausted, ReleaseBudgetExhausted
<1>10. CASE ResolveTested
  <2>1. [run EXCEPT !.tested = tree] \in InMemory
    BY <1>a DEF InMemory
  <2>2. run' \in InMemory /\ file' \in OnDisk
    BY <1>10, <1>b, <2>1, EventSets DEF ResolveTested
  <2> QED BY <1>10, <1>a, <1>c, <2>2 DEF ResolveTested, AfterTested, AfterPreview
<1>11. CASE NoProbe
  <2>1. run' \in InMemory /\ file' \in OnDisk
    BY <1>11, <1>a DEF NoProbe, InMemory
  <2> QED BY <1>11, <1>a, <1>c, <2>1 DEF NoProbe
<1>12. ASSUME NEW sha \in 1..tree, ResolveDeployed(sha) PROVE Goal
  <2>1. [run EXCEPT !.deployed = sha] \in InMemory
    BY <1>a DEF InMemory
  <2>2. run' \in InMemory /\ file' \in OnDisk
    BY <1>12, <1>a, <1>b, <2>1, EventSets DEF ResolveDeployed
  <2> QED BY <1>12, <1>a, <1>c, <2>2 DEF ResolveDeployed
<1>13. CASE Certify
  <2>1. run' \in InMemory /\ file' \in OnDisk
    BY <1>13, <1>a, <1>b, EventSets DEF Certify
  <2> QED BY <1>13, <1>a, <1>c, <2>1 DEF Certify
<1>14. CASE Ship
  <2>1. run' \in InMemory /\ file' \in OnDisk
    BY <1>14, <1>a, <1>b, EventSets DEF Ship
  <2>2. run.tested \in 1..tree
    BY <1>14 DEF Ship, GatesPassInOrder, FileFollowsRun
  <2> QED BY <1>14, <1>a, <1>c, <2>1, <2>2 DEF Ship, AfterShipped
<1>15. CASE WriteReceipt
  <2>1. file' = [run EXCEPT !.receipt = TRUE] /\ run' = file' /\ run.state = "SHIPPED"
    BY <1>15 DEF WriteReceipt, FileFollowsRun
  <2>2. run' \in InMemory /\ file' \in OnDisk
    BY <1>a, <1>b, <2>1 DEF InMemory, OnDisk
  <2> QED BY <1>15, <1>a, <1>c, <2>2 DEF WriteReceipt
<1>16. CASE Cleanup \/ Throws \/ Settles \/ Ends \/ Dies
  <2>1. worktree' \in BOOLEAN /\ repairFailed' \in BOOLEAN
    BY <1>16 DEF Cleanup, Throws, Settles, Ends, Dies
  <2>2. budget' \in [executions : Nat, crashes : Nat]
    <3>1. CASE Dies
      <4>1. budget \in [executions : Nat, crashes : Nat] /\ budget.crashes > 0
        BY <3>1 DEF Dies
      <4>2. budget' = [budget EXCEPT !.crashes = budget.crashes - 1]
        BY <3>1 DEF Dies
      <4>3. budget.crashes - 1 \in Nat
        BY <4>1
      <4> QED BY ONLY <4>1, <4>2, <4>3
    <3>2. CASE UNCHANGED budget
      BY <3>2
    <3> QED BY <1>16, <3>1, <3>2 DEF Cleanup, Throws, Settles, Ends
  <2>3. /\ run' = run /\ file' = file
        /\ UNCHANGED <<contract, attempt, release, tree, live, verified, gates, repairs, shipped>>
    BY <1>16 DEF Cleanup, Throws, Settles, Ends, Dies
  <2>4. at' \in {"idle", "returned", "thrown", "closing"}
    BY <1>16 DEF Cleanup, Throws, Settles, Ends, Dies
  <2> QED BY <1>a, <1>c, <2>1, <2>2, <2>3, <2>4
<1>17. CASE Reconcile
  <2>1. file' \in OnDisk
    BY <1>17, <1>a, <1>b DEF Reconcile, Reconciled, OnDisk
  <2> QED BY <1>17, <1>a, <1>c, <2>1 DEF Reconcile
<1>18. CASE UNCHANGED supervisor
  BY <1>18, <1>a, <1>c DEF supervisor
<1> QED BY <1>1, <1>2, <1>3, <1>4, <1>5, <1>6, <1>7, <1>8, <1>9, <1>10, <1>11, <1>12, <1>13,
           <1>14, <1>15, <1>16, <1>17, <1>18 DEF Next, Works

\* Gates and shas: an action that moves on within an attempt has passed the
\* gate it leaves, and no action within one changes the tree.
LEMMA GatesStep ==
  ASSUME IInv, [Next]_supervisor
  PROVE  GatesPassInOrder'
<1> USE DEF IInv, Inv, GatesPassInOrder, counters, disk, progress, history
<1>a. run \in InMemory
  BY DEF TypeOK, InMemory
<1> USE DEF InMemory
<1>1. CASE Begin
  BY <1>1 DEF Begin
<1>2. ASSUME NEW ok \in BOOLEAN, CreateWorktree(ok) \/ Build(ok) \/ Verify(ok) \/ Repair(ok)
      PROVE  at' \notin Releasing
  BY <1>2 DEF CreateWorktree, Build, Verify, Repair
<1>3. ASSUME NEW ok \in BOOLEAN, PreviewDeploy(ok) \/ PreviewUat(ok)
      PROVE  GatesPassInOrder'
  <2>1. CASE PreviewDeploy(ok)
    BY <2>1 DEF PreviewDeploy, Event
  <2>2. CASE PreviewUat(ok)
    <3>1. run'.tested = tree /\ UNCHANGED <<tree, live, contract>>
      BY <2>2, <1>a DEF PreviewUat, Event
    <3>2. CASE ok
      BY <2>2, <3>1, <3>2 DEF PreviewUat, AfterUat, AfterPreview
    <3>3. CASE ~ok
      BY <2>2, <3>3 DEF PreviewUat, AfterUat
    <3> QED BY <3>2, <3>3
  <2> QED BY <1>3, <2>1, <2>2
<1>4. ASSUME NEW ok \in BOOLEAN, ProductionDeploy(ok) \/ ProductionUat(ok)
      PROVE  GatesPassInOrder'
  <2>1. CASE ProductionDeploy(ok)
    <3>1. run'.tested = run.tested /\ UNCHANGED <<tree, contract, gates>>
      BY <2>1, <1>a DEF ProductionDeploy, Event
    <3>2. CASE ok
      BY <2>1, <3>1, <3>2 DEF ProductionDeploy
    <3>3. CASE ~ok
      BY <2>1, <3>3 DEF ProductionDeploy
    <3> QED BY <3>2, <3>3
  <2>2. CASE ProductionUat(ok)
    <3>1. run'.tested = run.tested /\ UNCHANGED <<tree, live, contract>>
      BY <2>2, <1>a DEF ProductionUat, Event
    <3>2. CASE ok
      BY <2>2, <3>1, <3>2 DEF ProductionUat, AfterUat
    <3>3. CASE ~ok
      BY <2>2, <3>3 DEF ProductionUat, AfterUat
    <3> QED BY <3>2, <3>3
  <2> QED BY <1>4, <2>1, <2>2
<1>5. CASE \E ok \in BOOLEAN : ReleaseRepair(ok)
  BY <1>5 DEF ReleaseRepair, AfterRepair
<1>6. CASE ResolveTested
  BY <1>6 DEF ResolveTested, AfterTested, AfterPreview, Event, TypeOK
<1>7. CASE NoProbe \/ \E sha \in 1..tree : ResolveDeployed(sha)
  BY <1>7 DEF NoProbe, ResolveDeployed, Event, Matches, TypeOK
<1>8. CASE Certify \/ Ship \/ WriteReceipt \/ Cleanup
  BY <1>8 DEF Certify, Ship, WriteReceipt, Cleanup, Event, AfterShipped, TypeOK
<1>9. CASE \/ RepairBudgetExhausted \/ ReleaseBudgetExhausted \/ Throws
           \/ Settles \/ Ends \/ Dies \/ Reconcile
  BY <1>9 DEF RepairBudgetExhausted, ReleaseBudgetExhausted, Throws, Settles, Ends, Dies, Reconcile
<1>10. CASE UNCHANGED supervisor
  BY <1>10 DEF supervisor
<1> QED BY <1>1, <1>2, <1>3, <1>4, <1>5, <1>6, <1>7, <1>8, <1>9, <1>10 DEF Next, Works

\* What is released has been verified, or a repair has failed.
LEMMA VerifiedStep ==
  ASSUME IInv, [Next]_supervisor
  PROVE  AttemptIsVerified'
<1> USE DEF IInv, Inv, AttemptIsVerified, counters, disk, progress, history
<1>1. CASE Begin
  BY <1>1 DEF Begin
<1>2. ASSUME NEW ok \in BOOLEAN, CreateWorktree(ok) \/ Build(ok) \/ Verify(ok) \/ Repair(ok)
      PROVE  AttemptIsVerified'
  BY <1>2 DEF CreateWorktree, Build, Verify, Repair
<1>3. ASSUME NEW ok \in BOOLEAN,
             PreviewDeploy(ok) \/ PreviewUat(ok) \/ ProductionDeploy(ok) \/ ProductionUat(ok)
      PROVE  AttemptIsVerified'
  BY <1>3 DEF PreviewDeploy, PreviewUat, ProductionDeploy, ProductionUat, AfterUat, AfterPreview
<1>4. ASSUME NEW ok \in BOOLEAN, ReleaseRepair(ok)
      PROVE  AttemptIsVerified'
  BY <1>4 DEF ReleaseRepair, AfterRepair
<1>5. CASE \/ ResolveTested \/ NoProbe \/ \E sha \in 1..tree : ResolveDeployed(sha)
  BY <1>5 DEF ResolveTested, AfterTested, AfterPreview, NoProbe, ResolveDeployed
<1>6. CASE Certify \/ Ship \/ WriteReceipt \/ Cleanup
  BY <1>6 DEF Certify, Ship, WriteReceipt, Cleanup, AfterShipped
<1>7. CASE \/ RepairBudgetExhausted \/ ReleaseBudgetExhausted \/ Throws
           \/ Settles \/ Ends \/ Dies \/ Reconcile
  BY <1>7 DEF RepairBudgetExhausted, ReleaseBudgetExhausted, Throws, Settles, Ends, Dies, Reconcile,
              Outcomes, Working, Uses
<1>8. CASE UNCHANGED supervisor
  BY <1>8 DEF supervisor
<1> QED BY <1>1, <1>2, <1>3, <1>4, <1>5, <1>6, <1>7, <1>8 DEF Next, Works

\* One budget more.
LEMMA OneMore ==
  ASSUME NEW n \in Nat, NEW m \in Nat
  PROVE  n * m \in Nat /\ (n + 1) * m = n * m + m
  OBVIOUS

\* Repairs: a release repair has room for one budget more.
LEMMA CountStep ==
  ASSUME IInv, [Next]_supervisor
  PROVE  RepairsAreCounted'
<1> DEFINE max == contract.maxRepairAttempts
<1> USE DEF counters, disk, progress, history
<1>1. /\ max \in Nat /\ attempt \in 0..max /\ release \in 0..max /\ repairs \in Nat
      /\ repairs <= attempt + release * (1 + max)
  BY RepairLimit DEF IInv, Inv, TypeOK, RepairsAreCounted
<1>2. CASE UNCHANGED <<contract, attempt, release, repairs>>
  BY <1>1, <1>2 DEF RepairsAreCounted
<1>3. CASE Begin
  <2>1. contract' = contract /\ attempt' = 0 /\ release' = 0 /\ repairs' = 0
    BY <1>3 DEF Begin
  <2>2. 0 * (1 + max) = 0
    BY <1>1
  <2> QED BY <2>1, <2>2 DEF RepairsAreCounted
<1>4. ASSUME NEW ok \in BOOLEAN, Repair(ok)
      PROVE  RepairsAreCounted'
  <2>1. contract' = contract /\ attempt' = attempt + 1 /\ release' = release /\ repairs' = repairs + 1
    BY <1>4 DEF Repair
  <2>2. release * (1 + max) \in Nat
    BY <1>1
  <2> QED BY <1>1, <2>1, <2>2 DEF RepairsAreCounted
<1>5. ASSUME NEW ok \in BOOLEAN, ReleaseRepair(ok)
      PROVE  RepairsAreCounted'
  <2>1. contract' = contract /\ attempt' = 0 /\ release' = release + 1 /\ repairs' = repairs + 1
    BY <1>5 DEF ReleaseRepair
  <2>2. release * (1 + max) \in Nat /\ (release + 1) * (1 + max) = release * (1 + max) + 1 + max
    <3>1. release \in Nat /\ 1 + max \in Nat
      BY <1>1
    <3> HIDE DEF max
    <3>2. release * (1 + max) \in Nat /\ (release + 1) * (1 + max) = release * (1 + max) + (1 + max)
      BY ONLY <3>1, OneMore
    <3> QED BY <1>1, <3>2
  <2> QED BY <1>1, <2>1, <2>2 DEF RepairsAreCounted
<1>6. ASSUME NEW ok \in BOOLEAN,
             \/ CreateWorktree(ok) \/ Build(ok) \/ Verify(ok) \/ PreviewDeploy(ok)
             \/ PreviewUat(ok) \/ ProductionDeploy(ok) \/ ProductionUat(ok)
      PROVE  UNCHANGED <<contract, attempt, release, repairs>>
  BY <1>6 DEF CreateWorktree, Build, Verify, PreviewDeploy, PreviewUat, ProductionDeploy, ProductionUat
<1>7. ASSUME \/ RepairBudgetExhausted \/ ReleaseBudgetExhausted \/ ResolveTested \/ NoProbe
             \/ (\E sha \in 1..tree : ResolveDeployed(sha))
             \/ Certify \/ Ship \/ WriteReceipt \/ Cleanup \/ Throws
             \/ Settles \/ Ends \/ Dies \/ Reconcile \/ UNCHANGED supervisor
      PROVE  UNCHANGED <<contract, attempt, release, repairs>>
  BY <1>7 DEF RepairBudgetExhausted, ReleaseBudgetExhausted, ResolveTested, NoProbe, ResolveDeployed,
              Certify, Ship, WriteReceipt, Cleanup, Throws, Settles, Ends, Dies, Reconcile, supervisor
<1> QED BY <1>2, <1>3, <1>4, <1>5, <1>6, <1>7 DEF Next, Works

\* The file: what an execution writes, it writes to the run it keeps.
LEMMA FileStep ==
  ASSUME IInv, [Next]_supervisor
  PROVE  FileFollowsRun'
<1> USE Places DEF IInv, Inv, FileFollowsRun, counters, disk, progress, history
<1> DEFINE Neutral == {"CONTRACT_ACCEPTED", "WORKTREE_READY", "BUILD_COMPLETE", "REPAIRING",
                       "VERIFIED", "VERIFYING", "PREVIEW_DEPLOYED", "PREVIEW_UAT_PASS",
                       "PRODUCTION_DEPLOYED", "PRODUCTION_UAT_PASS", "PRODUCTION_VERIFIED"}
<1>a. run \in InMemory /\ file \in OnDisk /\ tree \in Nat
  BY DEF TypeOK, InMemory, OnDisk
<1>b. /\ Neutral \cup {"BLOCKED", "FAILED", "SHIPPED"} \subseteq States
      /\ Neutral \cap (Terminal \cup {"ABSENT", "INTERRUPTED"}) = {}
  BY DEF States, Terminal
\* A step from a working state to another, with an event.
<1>c. ASSUME NEW r \in InMemory, NEW s \in Neutral, Event(r, s), ~r.receipt,
             at' \in Working \ Done, tree' \in Nat, at' # "worktree" => tree' > 0
      PROVE  FileFollowsRun'
  <2>1. s \in States /\ s \notin Terminal \cup {"ABSENT", "INTERRUPTED"}
    BY <1>b
  <2>2. /\ run'.state = s /\ run'.receipt = r.receipt /\ file' = run'
    BY <1>c, <2>1, EventSets
  <2> QED BY <1>c, <2>1, <2>2
\* A step that ends the execution, with an event or without.
<1>d. ASSUME NEW r \in InMemory, NEW s \in States, Event(r, s), at' \notin Working
      PROVE  FileFollowsRun'
  <2>1. file'.state = s /\ s # "ABSENT"
    BY <1>d, EventSets DEF States, Terminal
  <2> QED BY <1>d, <2>1
<1>e. ASSUME file' = file, at' \notin Working
      PROVE  FileFollowsRun'
  BY <1>e
<1>f. at \in Working \ (Done \cup {"worktree"}) => tree > 0 /\ ~run.receipt
  OBVIOUS
<1>g. tree' = tree \/ tree' = tree + 1 => tree' \in Nat /\ (tree > 0 => tree' > 0)
  BY <1>a
<1>1. CASE Begin
  <2>1. Created \in InMemory /\ ~Created.receipt
    BY DEF InMemory, Created, Absent
  <2> QED BY <1>1, <1>a, <1>c, <2>1 DEF Begin
<1>2. ASSUME NEW ok \in BOOLEAN, CreateWorktree(ok) PROVE FileFollowsRun'
  <2>1. CASE ok
    BY <1>2, <1>a, <1>c, <2>1 DEF CreateWorktree
  <2>2. CASE ~ok
    BY <1>2, <1>a, <1>b, <1>d, <2>2 DEF CreateWorktree
  <2> QED BY <2>1, <2>2
<1>3. ASSUME NEW ok \in BOOLEAN, Build(ok) \/ Repair(ok) \/ ReleaseRepair(ok) PROVE FileFollowsRun'
  <2>1. tree' \in Nat /\ tree' > 0 /\ ~run.receipt
    BY <1>3, <1>f, <1>g DEF Build, Repair, ReleaseRepair, MayChangeTree
  <2>2. at' \in {"verify", "repair", "tested"}
    BY <1>3 DEF Build, Repair, ReleaseRepair, AfterRepair
  <2>3. PICK s \in Neutral : Event(run, s)
    BY <1>3 DEF Build, Repair, ReleaseRepair
  <2> QED BY <1>a, <1>c, <2>1, <2>2, <2>3
<1>4. ASSUME NEW ok \in BOOLEAN,
             \/ Verify(ok) \/ PreviewDeploy(ok) \/ PreviewUat(ok)
             \/ ProductionDeploy(ok) \/ ProductionUat(ok)
      PROVE  FileFollowsRun'
  <2>1. tree' \in Nat /\ tree' > 0 /\ ~run.receipt
    BY <1>4, <1>a, <1>f DEF Verify, PreviewDeploy, PreviewUat, ProductionDeploy, ProductionUat
  <2>2. at' \in Working \ Done
    BY <1>4 DEF Verify, PreviewDeploy, PreviewUat, ProductionDeploy, ProductionUat, AfterUat, AfterPreview
  <2>3. PICK s \in Neutral : Event(run, s)
    BY <1>4 DEF Verify, PreviewDeploy, PreviewUat, ProductionDeploy, ProductionUat
  <2> QED BY <1>a, <1>c, <2>1, <2>2, <2>3
<1>5. CASE RepairBudgetExhausted \/ ReleaseBudgetExhausted
  BY <1>5, <1>a, <1>b, <1>d DEF RepairBudgetExhausted, ReleaseBudgetExhausted
<1>6. CASE ResolveTested
  <2>1. [run EXCEPT !.tested = tree] \in InMemory /\ [run EXCEPT !.tested = tree].receipt = run.receipt
    BY <1>a DEF InMemory
  <2>2. tree' \in Nat /\ tree' > 0 /\ ~run.receipt
    BY <1>6, <1>a, <1>f DEF ResolveTested
  <2>3. at' \in Working \ Done
    BY <1>6 DEF ResolveTested, AfterTested, AfterPreview
  <2> QED BY <1>6, <1>c, <2>1, <2>2, <2>3 DEF ResolveTested
<1>7. CASE NoProbe
  BY <1>7, <1>a DEF NoProbe, InMemory
<1>8. ASSUME NEW sha \in 1..tree, ResolveDeployed(sha) PROVE FileFollowsRun'
  <2> DEFINE r == [run EXCEPT !.deployed = sha]
  <2>1. r \in InMemory /\ r.receipt = run.receipt /\ r.tested = run.tested
    BY <1>a DEF InMemory
  <2>2. tree' \in Nat /\ tree' > 0 /\ ~run.receipt
    BY <1>8, <1>a, <1>f DEF ResolveDeployed
  <2>3. CASE Matches(sha)
    BY <1>8, <2>1, <2>2, <2>3 DEF ResolveDeployed
  <2>4. CASE ~Matches(sha)
    <3>1. Event(r, "REPAIRING") /\ at' = "release"
      BY <1>8, <2>4 DEF ResolveDeployed
    <3> QED BY <1>c, <2>1, <2>2, <3>1
  <2> QED BY <2>3, <2>4
<1>9. CASE Certify
  BY <1>9, <1>a, <1>c, <1>f DEF Certify
<1>10. CASE Ship
  <2>1. tree' > 0
    BY <1>10, <1>f DEF Ship
  <2>2. run'.state = "SHIPPED" /\ file' = run'
    BY <1>10, <1>a, <1>b, EventSets DEF Ship
  <2> QED BY <1>10, <2>1, <2>2 DEF Ship, AfterShipped
<1>11. CASE WriteReceipt
  <2>1. run'.state = "SHIPPED" /\ run'.receipt /\ file' = run' /\ at' = "cleanup" /\ tree' > 0
    BY <1>11, <1>a DEF WriteReceipt, InMemory
  <2> QED BY <2>1
<1>12. CASE Cleanup \/ Throws \/ Settles \/ Ends \/ Dies
  <2>1. file' = file
    BY <1>12 DEF Cleanup, Throws, Settles, Ends, Dies
  <2>2. at' \notin Working
    BY <1>12 DEF Cleanup, Throws, Settles, Ends, Dies
  <2> QED BY <1>e, <2>1, <2>2
<1>13. CASE Reconcile
  <2>1. file'.state = "ABSENT" => file' = file
    BY <1>13, <1>a DEF Reconcile, Reconciled, OnDisk
  <2> QED BY <1>13, <2>1 DEF Reconcile
<1>14. CASE UNCHANGED supervisor
  BY <1>14 DEF supervisor
<1> QED BY <1>1, <1>2, <1>3, <1>4, <1>5, <1>6, <1>7, <1>8, <1>9, <1>10, <1>11, <1>12,
           <1>13, <1>14 DEF Next, Works

\* Fewer budgets allow fewer repairs.
LEMMA FewerBudgets ==
  ASSUME NEW n \in Nat, NEW k \in Nat, NEW m \in Nat, n <= k
  PROVE  n * m <= k * m
<1>1. PICK d \in Nat : k = n + d
  <2>1. k - n \in Nat /\ k = n + (k - n)
    OBVIOUS
  <2> QED BY <2>1
<1>2. n * m \in Nat /\ d * m \in Nat /\ (n + d) * m = n * m + d * m
  OBVIOUS
<1> QED BY <1>1, <1>2

\* What the parts say together of a run that is finished, or at work.
Parts == /\ TypeOK /\ ContractIsAccepted /\ GatesPassInOrder /\ AttemptIsVerified
         /\ RepairsAreCounted /\ FileFollowsRun

LEMMA Consequences == Parts => IInv
<1> SUFFICES ASSUME Parts PROVE IInv
  OBVIOUS
<1> USE DEF Parts
<1> DEFINE max == contract.maxRepairAttempts
<1>1. /\ max \in Nat /\ attempt \in Nat /\ release \in Nat /\ repairs \in Nat
      /\ attempt <= max /\ release <= max
  BY RepairLimit DEF TypeOK
<1>2. NothingIsMissing
  <2> SUFFICES ASSUME at \in DOMAIN Uses, ~(at = "repair" /\ BudgetSpent(attempt)),
                      ~(at = "release" /\ BudgetSpent(release)), ~(at = "deployed" /\ ~contract.exact)
               PROVE  Uses[at] \in contract.has
    BY DEF NothingIsMissing
  <2>1. contract.has = Required(contract)
    BY DEF ContractIsAccepted, Accepted
  <2>2. ASSUME at \in {"repair", "release"}
        PROVE  max # 0
    BY <1>1, <2>2 DEF BudgetSpent
  <2>3. CASE at \in {"repair", "release"}
    BY <2>1, <2>2, <2>3 DEF Uses, Required
  <2>4. CASE at \in {"previewDeploy", "previewUat"}
    BY <2>1, <2>4 DEF Uses, Required, GatesPassInOrder
  <2>5. CASE at \in {"productionDeploy", "productionUat"}
    BY <2>1, <2>5 DEF Uses, Required, GatesPassInOrder
  <2>6. CASE at \in {"build", "verify", "tested", "deployed", "receipt"}
    BY <2>1, <2>6 DEF Uses, Required
  <2> QED BY <2>3, <2>4, <2>5, <2>6 DEF Uses
<1>3. RepairsAreBounded
  <2>1. repairs <= attempt + release * (1 + max)
    BY DEF RepairsAreCounted
  <2>2. 1 + max \in Nat
    BY <1>1
  <2> HIDE DEF max
  <2>3. release * (1 + max) <= max * (1 + max)
    BY ONLY <1>1, <2>2, FewerBudgets
  <2>4. release * (1 + max) \in Nat /\ max * (1 + max) \in Nat
    BY ONLY <1>1, <2>2, OneMore
  <2>5. repairs <= max + max * (1 + max)
    BY ONLY <1>1, <2>1, <2>3, <2>4
  <2> QED BY <2>5 DEF max, RepairsAreBounded
<1>4. ShippedPassedEveryGate
  BY DEF ShippedPassedEveryGate, GatesPassInOrder
<1>5. VerifiedUnlessRepairFailed
  BY DEF VerifiedUnlessRepairFailed, GatesPassInOrder, AttemptIsVerified
<1> QED BY <1>2, <1>3, <1>4, <1>5 DEF IInv, Inv

LEMMA PartsStep == IInv /\ [Next]_supervisor => Parts'
BY TypeStep, GatesStep, VerifiedStep, CountStep, FileStep DEF Parts

-----------------------------------------------------------------------------
(* The theorems.                                                           *)

\* Whatever the contract, the outcomes of its commands and the moments at
\* which the daemon dies: the run stays well formed, has every command it
\* runs, passes its gates in their order, and keeps the file true.
THEOREM SupervisorInvariance == Spec => []IInv
<1>1. IInv => Parts
  BY DEF IInv, Inv, Parts
<1> QED BY <1>1, InitInv, PartsStep, Consequences, PTL DEF Spec

\* SHIPPED is written only for the tested tree, after every gate the contract
\* requires has passed on it, and with equal shas.
THEOREM ShippedIsCertified == Spec => []ShippedPassedEveryGate
<1>1. IInv => ShippedPassedEveryGate
  BY DEF IInv, Inv
<1> QED BY <1>1, SupervisorInvariance, PTL

\* The two loops cannot run for ever: maxRepairAttempts bounds their repairs.
THEOREM RepairsStayBounded == Spec => []RepairsAreBounded
<1>1. IInv => RepairsAreBounded
  BY DEF IInv, Inv
<1> QED BY <1>1, SupervisorInvariance, PTL

\* A verdict on disk is changed by no step but a new execution of the run.
THEOREM VerdictsStand == Spec => VerdictsStandOnDisk
<1>1. ASSUME IInv, [Next]_supervisor, file.state \in Terminal, file'.state # file.state
      PROVE  Begin
  <2> USE DEF IInv, Inv, FileFollowsRun, counters, disk, progress, history
  <2>1. at \notin Working \ Done
    BY <1>1
  <2>2. ASSUME NEW ok \in BOOLEAN
        PROVE  /\ ~CreateWorktree(ok) /\ ~Build(ok) /\ ~Verify(ok) /\ ~Repair(ok)
               /\ ~PreviewDeploy(ok) /\ ~PreviewUat(ok) /\ ~ProductionDeploy(ok)
               /\ ~ProductionUat(ok) /\ ~ReleaseRepair(ok)
    BY <2>1, Places DEF CreateWorktree, Build, Verify, Repair, PreviewDeploy, PreviewUat,
       ProductionDeploy, ProductionUat, ReleaseRepair
  <2>3. /\ ~RepairBudgetExhausted /\ ~ReleaseBudgetExhausted /\ ~ResolveTested /\ ~NoProbe
        /\ ~(\E sha \in 1..tree : ResolveDeployed(sha)) /\ ~Certify /\ ~Ship
    BY <2>1, Places DEF RepairBudgetExhausted, ReleaseBudgetExhausted, ResolveTested, NoProbe,
       ResolveDeployed, Certify, Ship
  <2>4. ~WriteReceipt
    <3> SUFFICES ASSUME WriteReceipt PROVE FALSE
      OBVIOUS
    <3>1. run \in InMemory /\ run.state = "SHIPPED" /\ file.state = "SHIPPED"
      BY <1>1 DEF WriteReceipt, TypeOK, InMemory
    <3>2. file'.state = "SHIPPED"
      BY <3>1 DEF WriteReceipt, InMemory
    <3> QED BY <1>1, <3>1, <3>2
  <2>5. file' # file
    BY <1>1
  <2>6. ~Cleanup /\ ~Throws /\ ~Settles /\ ~Ends /\ ~Dies /\ ~UNCHANGED supervisor
    BY <2>5 DEF Cleanup, Throws, Settles, Ends, Dies, supervisor
  <2>7. ~Reconcile
    BY <1>1, <2>5 DEF Reconcile, Reconciled
  <2> QED BY <1>1, <2>2, <2>3, <2>4, <2>6, <2>7 DEF Next, Works
<1>2. IInv /\ [Next]_supervisor =>
        [file.state \in Terminal /\ file'.state # file.state => Begin]_supervisor
  BY <1>1
<1> QED BY <1>2, SupervisorInvariance, PTL DEF Spec, VerdictsStandOnDisk

-----------------------------------------------------------------------------
(* The supervisor implements ReleaseRun.                                   *)

\* The phase of a place.
PhaseOf(a) == CASE a \in {"idle", "returned", "thrown", "closing"} -> a
                [] a \in {"receipt", "cleanup"} -> "shipped"
                [] OTHER -> "working"

LEMMA Phases ==
  /\ \A a \in Working \ Done : PhaseOf(a) = "working"
  /\ \A a \in Done : PhaseOf(a) = "shipped"
  /\ \A a \in {"idle", "returned", "thrown", "closing"} : PhaseOf(a) = a
BY Places DEF PhaseOf

\* Runs as they are seen, and what makes one an update of another.
SeenStates == {"ABSENT", "WORKING", "SHIPPED", "FAILED", "INTERRUPTED"}
SeenRuns == [state : SeenStates, tested : Nat, receipt : BOOLEAN]

LEMMA SeenUpdates ==
  ASSUME NEW r \in SeenRuns, NEW q \in SeenRuns
  PROVE  /\ q.tested = r.tested /\ q.receipt = r.receipt => q = [r EXCEPT !.state = q.state]
         /\ q.state = r.state /\ q.receipt = r.receipt => q = [r EXCEPT !.tested = q.tested]
         /\ q.state = r.state /\ q.tested = r.tested => q = [r EXCEPT !.receipt = q.receipt]
<1>1. q.tested = r.tested /\ q.receipt = r.receipt => q = [r EXCEPT !.state = q.state]
  BY DEF SeenRuns
<1>2. q.state = r.state /\ q.receipt = r.receipt => q = [r EXCEPT !.tested = q.tested]
  BY DEF SeenRuns
<1>3. q.state = r.state /\ q.tested = r.tested => q = [r EXCEPT !.receipt = q.receipt]
  BY DEF SeenRuns
<1> QED BY <1>1, <1>2, <1>3

\* The steps of ReleaseRun, of the mapped variables.
LEMMA ReleaseSteps ==
  /\ Release!release = <<PhaseOf(at), Seen(file), shipped>>
  /\ /\ PhaseOf(at) = "idle" /\ PhaseOf(at') = "working" /\ UNCHANGED shipped
     /\ Seen(file') = [Release!Absent EXCEPT !.state = "WORKING"]
     => Release!Begin
  /\ /\ PhaseOf(at) = "working" /\ PhaseOf(at') = "working" /\ UNCHANGED shipped
     /\ \E sha \in 1..Trees \cup {Seen(file).tested} : Seen(file') = [Seen(file) EXCEPT !.tested = sha]
     => Release!Work
  /\ /\ PhaseOf(at) = "working" /\ PhaseOf(at') = "returned" /\ UNCHANGED shipped
     /\ Seen(file') = [Seen(file) EXCEPT !.state = "FAILED"]
     => Release!Fail
  /\ /\ PhaseOf(at) = "working" /\ PhaseOf(at') = "shipped" /\ Seen(file).tested # 0
     /\ Seen(file') = [Seen(file) EXCEPT !.state = "SHIPPED"]
     /\ shipped' = shipped \cup {Seen(file).tested}
     => Release!Ship
  /\ /\ PhaseOf(at) = "shipped" /\ PhaseOf(at') = "shipped" /\ UNCHANGED shipped
     /\ Seen(file') = [Seen(file) EXCEPT !.receipt = TRUE]
     => Release!WriteReceipt
  /\ /\ PhaseOf(at) = "idle" /\ PhaseOf(at') = "idle" /\ UNCHANGED shipped
     /\ Seen(file).state = "WORKING" /\ Seen(file') = [Seen(file) EXCEPT !.state = "INTERRUPTED"]
     => Release!Reconcile
<1>2. Release!release = <<PhaseOf(at), Seen(file), shipped>>
  BY DEF PhaseOf, Release!release
<1>4. /\ PhaseOf(at) = "idle" /\ PhaseOf(at') = "working" /\ UNCHANGED shipped
      /\ Seen(file') = [Release!Absent EXCEPT !.state = "WORKING"]
      => Release!Begin
  BY DEF PhaseOf, Release!Begin
<1>5. /\ PhaseOf(at) = "working" /\ PhaseOf(at') = "working" /\ UNCHANGED shipped
      /\ \E sha \in 1..Trees \cup {Seen(file).tested} : Seen(file') = [Seen(file) EXCEPT !.tested = sha]
      => Release!Work
  BY DEF PhaseOf, Release!Work
<1>6. /\ PhaseOf(at) = "working" /\ PhaseOf(at') = "returned" /\ UNCHANGED shipped
      /\ Seen(file') = [Seen(file) EXCEPT !.state = "FAILED"]
      => Release!Fail
  BY DEF PhaseOf, Release!Fail
<1>7. /\ PhaseOf(at) = "working" /\ PhaseOf(at') = "shipped" /\ Seen(file).tested # 0
      /\ Seen(file') = [Seen(file) EXCEPT !.state = "SHIPPED"]
      /\ shipped' = shipped \cup {Seen(file).tested}
      => Release!Ship
  BY DEF PhaseOf, Release!Ship
<1>8. /\ PhaseOf(at) = "shipped" /\ PhaseOf(at') = "shipped" /\ UNCHANGED shipped
      /\ Seen(file') = [Seen(file) EXCEPT !.receipt = TRUE]
      => Release!WriteReceipt
  BY DEF PhaseOf, Release!WriteReceipt
<1>9. /\ PhaseOf(at) = "idle" /\ PhaseOf(at') = "idle" /\ UNCHANGED shipped
      /\ Seen(file).state = "WORKING" /\ Seen(file') = [Seen(file) EXCEPT !.state = "INTERRUPTED"]
      => Release!Reconcile
  BY DEF PhaseOf, Release!Reconcile
<1> QED BY <1>2, <1>4, <1>5, <1>6, <1>7, <1>8, <1>9

\* Its steps that leave the file alone.
LEMMA QuietSteps ==
  ASSUME UNCHANGED <<Seen(file), shipped>>
  PROVE  /\ PhaseOf(at) = "shipped" /\ Seen(file).receipt /\ PhaseOf(at') = "returned" => Release!Return
         /\ PhaseOf(at) \in {"working", "shipped"} /\ PhaseOf(at') = "thrown" => Release!Throw
         /\ PhaseOf(at) \in {"returned", "thrown"} /\ PhaseOf(at') = "closing" => Release!Settle
         /\ PhaseOf(at) = "closing" /\ PhaseOf(at') = "idle" => Release!End
         /\ PhaseOf(at') = "idle" => Release!Die
         /\ PhaseOf(at') = PhaseOf(at) => UNCHANGED Release!release
BY DEF PhaseOf, Release!Return, Release!Throw, Release!Settle, Release!End, Release!Die,
   Release!Outcomes, Release!release

\* What is seen of a run on disk.
LEMMA SeenRun ==
  ASSUME NEW r \in OnDisk
  PROVE  /\ Seen(r) \in SeenRuns /\ Seen(r).tested = r.tested /\ Seen(r).receipt = r.receipt
         /\ r.state \notin Terminal \cup {"ABSENT", "INTERRUPTED"} => Seen(r).state = "WORKING"
         /\ r.state \in {"BLOCKED", "FAILED"} => Seen(r).state = "FAILED"
         /\ r.state \in {"ABSENT", "SHIPPED", "INTERRUPTED"} => Seen(r).state = r.state
<1> DEFINE x == CASE r.state = "BLOCKED" -> "FAILED"
                  [] r.state \in {"ABSENT", "SHIPPED", "FAILED", "INTERRUPTED"} -> r.state
                  [] OTHER -> "WORKING"
<1>1. /\ x \in SeenStates
      /\ r.state \notin Terminal \cup {"ABSENT", "INTERRUPTED"} => x = "WORKING"
      /\ r.state \in {"BLOCKED", "FAILED"} => x = "FAILED"
      /\ r.state \in {"ABSENT", "SHIPPED", "INTERRUPTED"} => x = r.state
  <2>1. CASE r.state = "BLOCKED"
    BY <2>1 DEF Terminal, SeenStates
  <2>2. CASE r.state \in {"ABSENT", "SHIPPED", "FAILED", "INTERRUPTED"}
    BY <2>2 DEF Terminal, SeenStates
  <2>3. CASE r.state \notin {"BLOCKED", "ABSENT", "SHIPPED", "FAILED", "INTERRUPTED"}
    BY <2>3 DEF Terminal, SeenStates
  <2> QED BY <2>1, <2>2, <2>3
<1> HIDE DEF x
<1>2. Seen(r) = [state |-> x, tested |-> r.tested, receipt |-> r.receipt]
  BY DEF Seen, x
<1>3. r.tested \in Nat /\ r.receipt \in BOOLEAN
  BY DEF OnDisk
<1>4. Seen(r).state = x /\ Seen(r).tested = r.tested /\ Seen(r).receipt = r.receipt
  BY <1>2
<1>5. Seen(r) \in SeenRuns
  BY <1>1, <1>2, <1>3 DEF SeenRuns
<1> QED BY <1>1, <1>4, <1>5

\* A step within run() that ships nothing.
LEMMA WorkMaps ==
  ASSUME IInv, IInv', at \in Working \ Done, at' \in Working \ Done, UNCHANGED shipped,
         file'.tested \in 1..Trees \cup {file.tested}
  PROVE  Release!Next
<1>1. file \in OnDisk /\ file' \in OnDisk
  BY DEF IInv, Inv, TypeOK, OnDisk
<1>2. /\ file.state \notin Terminal \cup {"ABSENT", "INTERRUPTED"} /\ ~file.receipt
      /\ file'.state \notin Terminal \cup {"ABSENT", "INTERRUPTED"} /\ ~file'.receipt
  BY DEF IInv, FileFollowsRun
<1>3. file.receipt = file'.receipt
  BY <1>1, <1>2 DEF OnDisk
<1>4. Seen(file') = [Seen(file) EXCEPT !.tested = Seen(file').tested]
  BY <1>1, <1>2, <1>3, SeenRun, SeenUpdates
<1>5. Seen(file').tested \in 1..Trees \cup {Seen(file).tested}
  BY <1>1, SeenRun
<1> QED BY <1>4, <1>5, ReleaseSteps, Phases DEF Release!Next, Release!Works

\* An event that ends a run before it has shipped.
LEMMA FailMaps ==
  ASSUME IInv, at \in Working \ Done, at' = "returned", UNCHANGED shipped,
         NEW s \in {"BLOCKED", "FAILED"}, Event(run, s)
  PROVE  Release!Next
<1>1. run \in InMemory /\ file \in OnDisk /\ s \in States
  BY DEF IInv, Inv, TypeOK, OnDisk, InMemory, States, Terminal
<1>2. run.tested = file.tested /\ run.receipt = file.receipt
  BY DEF IInv, FileFollowsRun
<1>3. file' \in OnDisk /\ file'.state = s /\ file'.tested = file.tested /\ file'.receipt = file.receipt
  BY <1>1, <1>2, EventSets
<1>4. Seen(file').state = "FAILED" /\ Seen(file') = [Seen(file) EXCEPT !.state = Seen(file').state]
  BY <1>1, <1>3, SeenRun, SeenUpdates
<1> QED BY <1>4, ReleaseSteps, Phases DEF Release!Next, Release!Works

\* Steps that write nothing.
LEMMA QuietMaps ==
  ASSUME IInv, file' = file, UNCHANGED shipped,
         \/ at \in Working /\ at' = "thrown"
         \/ at = "cleanup" /\ at' = "returned"
         \/ at \in Outcomes /\ at' = "closing"
         \/ at = "closing" /\ at' = "idle"
         \/ at' = "idle"
  PROVE  Release!Next
<1>1. file \in OnDisk /\ (at = "cleanup" => file.receipt)
  BY DEF IInv, Inv, TypeOK, OnDisk, FileFollowsRun
<1>2. UNCHANGED <<Seen(file), shipped>> /\ (at = "cleanup" => Seen(file).receipt)
  BY <1>1, SeenRun
<1>3. CASE at \in Working /\ at' = "thrown"
  BY <1>2, <1>3, QuietSteps, Phases DEF Release!Next, Release!Works
<1>4. CASE at = "cleanup" /\ at' = "returned"
  BY <1>2, <1>4, QuietSteps, Phases DEF Release!Next, Release!Works
<1>5. CASE at \in Outcomes /\ at' = "closing"
  BY <1>2, <1>5, QuietSteps, Phases DEF Release!Next, Outcomes
<1>6. CASE at' = "idle"
  BY <1>2, <1>6, QuietSteps, Phases DEF Release!Next
<1> QED BY <1>3, <1>4, <1>5, <1>6

\* A release run gives one verdict per execution, SHIPPED only with a sha,
\* never returns SHIPPED without a receipt, and has in its file what happened.
THEOREM SupervisorImplementsReleaseRun == Spec => ImplementsReleaseRun
<1>1. Init => Release!Init
  BY DEF Init, Absent, Release!Init, Release!Absent, Seen
<1>2. IInv /\ IInv' /\ [Next]_supervisor => [Release!Next]_(Release!release)
  <2> SUFFICES ASSUME IInv, IInv', [Next]_supervisor
               PROVE  Release!Next \/ UNCHANGED Release!release
    OBVIOUS
  <2> USE DEF counters, disk, progress, history
  <2>a. run \in InMemory /\ file \in OnDisk /\ file' \in OnDisk
    BY DEF IInv, Inv, TypeOK, InMemory, OnDisk
  <2>b. at \in Working => run.tested = file.tested /\ run.receipt = file.receipt
    BY DEF IInv, FileFollowsRun
  <2>1. CASE Begin
    <3>1. /\ file'.state = "CONTRACT_ACCEPTED" /\ file'.tested = 0 /\ file'.receipt = FALSE
          /\ at = "idle" /\ at' = "worktree" /\ UNCHANGED shipped
      BY <2>1 DEF Begin, Event, Created, Absent
    <3>2. Release!Absent \in SeenRuns /\ Release!Absent.tested = 0 /\ Release!Absent.receipt = FALSE
      <4>1. Release!Absent = [state |-> "ABSENT", tested |-> 0, receipt |-> FALSE]
        BY DEF Release!Absent
      <4>2. Release!Absent \in SeenRuns
        BY <4>1 DEF SeenRuns, SeenStates
      <4>3. Release!Absent.tested = 0
        BY <4>1
      <4>4. Release!Absent.receipt = FALSE
        BY <4>1
      <4> QED BY <4>2, <4>3, <4>4
    <3>3. Seen(file').state = "WORKING"
      BY <2>a, <3>1, SeenRun DEF Terminal
    <3>4. Seen(file') = [Release!Absent EXCEPT !.state = "WORKING"]
      <4>1. Seen(file') \in SeenRuns /\ Seen(file').tested = 0 /\ Seen(file').receipt = FALSE
        BY <2>a, <3>1, SeenRun
      <4>2. Seen(file') = [Release!Absent EXCEPT !.state = Seen(file').state]
        BY ONLY <3>2, <4>1, SeenUpdates
      <4> QED BY <3>3, <4>2
    <3> QED BY <3>1, <3>4, ReleaseSteps, Phases, Places DEF Release!Next
  <2>2. ASSUME NEW ok \in BOOLEAN, CreateWorktree(ok)
        PROVE  Release!Next
    <3>1. CASE ok
      <4>1. at' = "build" /\ at = "worktree" /\ UNCHANGED shipped /\ file'.tested = file.tested
        BY <2>2, <3>1, <2>a, <2>b, Places DEF CreateWorktree, Event, InMemory
      <4> QED BY <4>1, WorkMaps, Places
    <3>2. CASE ~ok
      BY <2>2, <3>2, FailMaps, Places DEF CreateWorktree
    <3> QED BY <3>1, <3>2
  <2>3. ASSUME NEW ok \in BOOLEAN,
               \/ Build(ok) \/ Verify(ok) \/ Repair(ok) \/ PreviewDeploy(ok) \/ PreviewUat(ok)
               \/ ProductionDeploy(ok) \/ ProductionUat(ok) \/ ReleaseRepair(ok)
        PROVE  Release!Next
    <3>1. PICK s \in States : Event(run, s)
      BY <2>3 DEF Build, Verify, Repair, PreviewDeploy, PreviewUat, ProductionDeploy, ProductionUat,
         ReleaseRepair, States
    <3>2. at \in Working \ Done /\ at' \in Working \ Done /\ UNCHANGED shipped
      BY <2>3, Places DEF Build, Verify, Repair, PreviewDeploy, PreviewUat, ProductionDeploy, ProductionUat,
         ReleaseRepair, AfterUat, AfterPreview, AfterRepair
    <3>3. file'.tested = file.tested
      BY <2>a, <2>b, <3>1, <3>2, EventSets
    <3> QED BY <3>2, <3>3, WorkMaps
  <2>4. CASE RepairBudgetExhausted \/ ReleaseBudgetExhausted
    BY <2>4, FailMaps, Places DEF RepairBudgetExhausted, ReleaseBudgetExhausted
  <2>5. CASE ResolveTested
    <3>1. at \in Working \ Done /\ at' \in Working \ Done /\ UNCHANGED shipped
      BY <2>5, Places DEF ResolveTested, AfterTested, AfterPreview
    <3>2. tree \in 1..Trees
      BY <2>5, Places DEF ResolveTested, IInv, Inv, TypeOK, FileFollowsRun
    <3>3. file'.tested = tree
      BY <2>5, <2>a DEF ResolveTested, Event, InMemory
    <3> QED BY <3>1, <3>2, <3>3, WorkMaps
  <2>6. ASSUME NEW sha \in 1..tree, ResolveDeployed(sha)
        PROVE  Release!Next
    <3>1. at \in Working \ Done /\ at' \in Working \ Done /\ UNCHANGED shipped
      BY <2>6, Places DEF ResolveDeployed
    <3>2. file'.tested = file.tested
      BY <2>6, <2>a, <2>b, <3>1 DEF ResolveDeployed, Event, InMemory
    <3> QED BY <3>1, <3>2, WorkMaps
  <2>7. CASE NoProbe \/ Certify
    <3>1. at \in Working \ Done /\ at' \in Working \ Done /\ UNCHANGED shipped
      BY <2>7, Places DEF NoProbe, Certify
    <3>2. file'.tested = file.tested
      BY <2>7, <2>a, <2>b, <3>1 DEF NoProbe, Certify, Event, InMemory
    <3> QED BY <3>1, <3>2, WorkMaps
  <2>8. CASE Ship
    <3>1. at = "ship" /\ at' = "receipt" /\ shipped' = shipped \cup {run.tested}
      BY <2>8 DEF Ship, AfterShipped
    <3>2. /\ run.tested = file.tested /\ file'.state = "SHIPPED" /\ file'.tested = file.tested
          /\ file'.receipt = file.receipt /\ file.tested # 0
      <4>1. run.tested # 0 /\ "SHIPPED" \in States
        BY <3>1, Places DEF IInv, Inv, TypeOK, GatesPassInOrder, FileFollowsRun, States, Terminal
      <4> QED BY <2>8, <2>a, <2>b, <3>1, <4>1, Places, EventSets DEF Ship
    <3>3. Seen(file') = [Seen(file) EXCEPT !.state = "SHIPPED"] /\ Seen(file).tested = file.tested
      <4>1. Seen(file').state = "SHIPPED" /\ Seen(file).tested = file.tested
        BY <2>a, <3>2, SeenRun
      <4>2. Seen(file') = [Seen(file) EXCEPT !.state = Seen(file').state]
        BY <2>a, <3>2, SeenRun, SeenUpdates
      <4> QED BY <4>1, <4>2
    <3> QED BY <3>1, <3>2, <3>3, ReleaseSteps, Phases, Places DEF Release!Next, Release!Works
  <2>9. CASE WriteReceipt
    <3>1. at = "receipt" /\ at' = "cleanup" /\ UNCHANGED shipped
      BY <2>9 DEF WriteReceipt
    <3>2. file'.receipt = TRUE /\ file'.tested = file.tested /\ file'.state = "SHIPPED" /\ file.state = "SHIPPED"
      BY <2>9, <2>a, <2>b, <3>1, Places DEF WriteReceipt, InMemory, IInv, FileFollowsRun
    <3>3. Seen(file').receipt = TRUE /\ Seen(file') = [Seen(file) EXCEPT !.receipt = Seen(file').receipt]
      BY <2>a, <3>2, SeenRun, SeenUpdates
    <3> QED BY <3>1, <3>3, ReleaseSteps, Phases, Places DEF Release!Next, Release!Works
  <2>10. CASE Cleanup \/ Throws \/ Settles \/ Ends \/ Dies
    <3>1. file' = file /\ UNCHANGED shipped
      BY <2>10 DEF Cleanup, Throws, Settles, Ends, Dies
    <3>2. \/ at \in Working /\ at' = "thrown"
          \/ at = "cleanup" /\ at' = "returned"
          \/ at \in Outcomes /\ at' = "closing"
          \/ at = "closing" /\ at' = "idle"
          \/ at' = "idle"
      BY <2>10 DEF Cleanup, Throws, Settles, Ends, Dies
    <3> QED BY <3>1, <3>2, QuietMaps
  <2>11. CASE Reconcile
    <3>1. at = "idle" /\ at' = "idle" /\ UNCHANGED shipped
      BY <2>11 DEF Reconcile
    <3>2. CASE file' = file
      BY <3>1, <3>2, QuietMaps
    <3>3. CASE file' # file
      <4>1. /\ file.state \notin Terminal /\ file # Absent
            /\ file' = [file EXCEPT !.state = "INTERRUPTED"]
        BY <2>11, <3>3 DEF Reconcile, Reconciled
      <4>2. /\ file'.state = "INTERRUPTED" /\ file'.tested = file.tested /\ file'.receipt = file.receipt
            /\ file.state # "ABSENT"
        BY <2>a, <4>1 DEF OnDisk, IInv, FileFollowsRun
      <4>3. file.state # "INTERRUPTED"
        BY <2>a, <3>3, <4>1 DEF OnDisk
      <4>4. Seen(file).state = "WORKING" /\ Seen(file').state = "INTERRUPTED"
        BY <2>a, <4>1, <4>2, <4>3, SeenRun
      <4>5. Seen(file') = [Seen(file) EXCEPT !.state = Seen(file').state]
        BY <2>a, <4>2, SeenRun, SeenUpdates
      <4> QED BY <3>1, <4>4, <4>5, ReleaseSteps, Phases DEF Release!Next
    <3> QED BY <3>2, <3>3
  <2>12. CASE UNCHANGED supervisor
    BY <2>12, QuietSteps DEF supervisor
  <2> QED BY <2>1, <2>2, <2>3, <2>4, <2>5, <2>6, <2>7, <2>8, <2>9, <2>10, <2>11, <2>12 DEF Next, Works
<1> QED BY <1>1, <1>2, SupervisorInvariance, PTL DEF Spec, ImplementsReleaseRun, Release!Spec
=============================================================================
