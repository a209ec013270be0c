------------------------- MODULE ShippingSupervisor -------------------------
(***************************************************************************)
(* One release run of the ShippingSupervisor: worktree, builder, the       *)
(* verification loop, the release loop with its gates, the receipt.  Every *)
(* shell command is one action, because its outcome is unknown and because *)
(* the daemon may die, or a write may throw, between any two of them.      *)
(*                                                                         *)
(* A tree is what is in the worktree, named by a number that grows when    *)
(* the builder or a repair changes it; a sha is the number of the tree it  *)
(* was taken from, 0 when there is none.  Events are abstracted to the     *)
(* state the last of them sets: file is the run as ShippingStore saved it. *)
(***************************************************************************)
EXTENDS Integers, FiniteSets

CONSTANTS
  Offered,         \* contracts that are submitted
  Executions,      \* how often the run is started under its runId
  Crashes,         \* how often the daemon dies
  Trees            \* bound: trees the commands of all executions make

ASSUME BudgetAssumption == Executions \in Nat /\ Crashes \in Nat /\ Trees \in Nat
\* validateBuilder: an integer from 0 on (and at most 10).
ASSUME OfferedAssumption == \A c \in Offered : c.maxRepairAttempts \in Nat

VARIABLES
  contract,        \* the contract of the run
  at,              \* where run() is
  attempt,         \* the counter of verifyWithRepair
  release,         \* releaseAttempt
  run,             \* the run in memory
  file,            \* the run on disk, or Absent
  worktree,        \* the worktree's directory exists
  tree,            \* what is in it
  live,            \* the tree in production
  budget,          \* executions and crashes still to come
  verified,        \* history: the last tree that passed verification
  gates,           \* history: gates passed since tested was resolved
  repairs,         \* history: repair commands of this execution
  repairFailed,    \* history: a release repair of this execution failed
  shipped          \* history: the trees a run was SHIPPED with

counters == <<attempt, release>>
disk == <<file, worktree, tree, live>>
progress == <<verified, gates, repairs, repairFailed>>
history == <<progress, shipped>>
supervisor == <<contract, at, counters, run, disk, budget, history>>

-----------------------------------------------------------------------------
(* The contract.                                                           *)

\* What validateShippingContract asks for; repairCommand is optional when it
\* is never run.
Required(c) ==
  {"builder.command", "verification", "exactSha.testedShaCommand", "goldenPath"}
  \cup (IF c.maxRepairAttempts = 0 THEN {} ELSE {"builder.repairCommand"})
  \cup (IF c.preview THEN {"preview.deployCommand", "preview.uat"} ELSE {})
  \cup (IF c.production THEN {"production.deployCommand", "production.uat"} ELSE {})
  \cup (IF c.exact THEN {"exactSha.deployedShaCommand"} ELSE {})

\* The contract has what is asked for, and nothing that is not needed.
Accepted(c) == c.has = Required(c)

\* The part of the contract run() is about to use.
Uses == [build |-> "builder.command", verify |-> "verification",
         repair |-> "builder.repairCommand", release |-> "builder.repairCommand",
         tested |-> "exactSha.testedShaCommand", deployed |-> "exactSha.deployedShaCommand",
         previewDeploy |-> "preview.deployCommand", previewUat |-> "preview.uat",
         productionDeploy |-> "production.deployCommand", productionUat |-> "production.uat",
         receipt |-> "goldenPath"]

-----------------------------------------------------------------------------
(* Runs.                                                                   *)

Working == DOMAIN Uses \cup {"worktree", "certify", "ship", "cleanup"}
Terminal == {"SHIPPED", "FAILED", "BLOCKED", "CANCELLED"}
States == Terminal \cup
  {"CONTRACT_ACCEPTED", "WORKTREE_READY", "BUILD_COMPLETE", "VERIFYING", "VERIFIED",
   "REPAIRING", "PREVIEW_DEPLOYED", "PREVIEW_UAT_PASS", "PRODUCTION_DEPLOYED",
   "PRODUCTION_UAT_PASS", "PRODUCTION_VERIFIED", "INTERRUPTED"}

Absent == [state |-> "ABSENT", tested |-> 0, deployed |-> 0, receipt |-> FALSE]
Created == [Absent EXCEPT !.state = "CREATED"]

Init ==
  /\ contract \in {c \in Offered : Accepted(c)}
  /\ at = "idle" /\ attempt = 0 /\ release = 0
  /\ run = Absent /\ file = Absent /\ worktree = FALSE /\ tree = 0 /\ live = 0
  /\ budget = [executions |-> Executions, crashes |-> Crashes]
  /\ verified = 0 /\ gates = {} /\ repairs = 0 /\ repairFailed = FALSE
  /\ shipped = {}

\* event(): append to the run r and save it.
Event(r, s) ==
  /\ run' = [r EXCEPT !.state = s]
  /\ file' = run'

\* createShippingRun and contract.accepted.
Begin ==
  /\ at = "idle" /\ budget.executions > 0
  /\ budget' = [budget EXCEPT !.executions = @ - 1]
  /\ Event(Created, "CONTRACT_ACCEPTED")
  /\ at' = "worktree" /\ attempt' = 0 /\ release' = 0
  /\ verified' = 0 /\ gates' = {} /\ repairs' = 0 /\ repairFailed' = FALSE
  /\ UNCHANGED <<contract, worktree, tree, live, shipped>>

\* The path must be free, and Git must succeed.
CreateWorktree(ok) ==
  /\ at = "worktree"
  /\ ok => ~worktree /\ tree < Trees
  /\ IF ok
     THEN /\ Event(run, "WORKTREE_READY")
          /\ at' = "build" /\ worktree' = TRUE /\ tree' = tree + 1
     ELSE /\ Event(run, "BLOCKED")
          /\ at' = "returned" /\ UNCHANGED <<worktree, tree>>
  /\ UNCHANGED <<contract, counters, live, budget, history>>

\* A command of the builder or of the repair worker may change the tree,
\* whatever its exit code.
MayChangeTree ==
  \/ UNCHANGED tree
  \/ tree < Trees /\ tree' = tree + 1

Build(ok) ==
  /\ at = "build"
  /\ MayChangeTree
  /\ Event(run, IF ok THEN "BUILD_COMPLETE" ELSE "REPAIRING")
  /\ at' = IF ok THEN "verify" ELSE "repair"
  /\ UNCHANGED <<contract, counters, worktree, live, budget, history>>

-----------------------------------------------------------------------------
(* verifyWithRepair.                                                       *)

Verify(ok) ==
  /\ at = "verify"
  /\ Event(run, IF ok THEN "VERIFIED" ELSE "REPAIRING")
  /\ at' = IF ok THEN "tested" ELSE "repair"
  /\ verified' = IF ok THEN tree ELSE verified
  /\ UNCHANGED <<contract, counters, worktree, tree, live, budget, gates, repairs, repairFailed, shipped>>

BudgetSpent(n) == n = contract.maxRepairAttempts

RepairBudgetExhausted ==
  /\ at = "repair" /\ BudgetSpent(attempt)
  /\ Event(run, "FAILED")
  /\ at' = "returned"
  /\ UNCHANGED <<contract, counters, worktree, tree, live, budget, history>>

\* A repair that fails is itself the next failure.
Repair(ok) ==
  /\ at = "repair" /\ ~BudgetSpent(attempt)
  /\ MayChangeTree
  /\ Event(run, IF ok THEN "VERIFYING" ELSE "REPAIRING")
  /\ at' = IF ok THEN "verify" ELSE "repair"
  /\ attempt' = attempt + 1
  /\ repairs' = repairs + 1
  /\ UNCHANGED <<contract, release, worktree, live, budget, verified, gates, repairFailed, shipped>>

-----------------------------------------------------------------------------
(* The release loop.                                                       *)

AfterPreview == IF contract.production THEN "productionDeploy" ELSE "deployed"
AfterTested == IF contract.preview THEN "previewDeploy" ELSE AfterPreview

ResolveTested ==
  /\ at = "tested"
  /\ Event([run EXCEPT !.tested = tree], "VERIFIED")
  /\ at' = AfterTested
  /\ gates' = {}
  /\ UNCHANGED <<contract, counters, worktree, tree, live, budget, verified, repairs, repairFailed, shipped>>

PreviewDeploy(ok) ==
  /\ at = "previewDeploy"
  /\ Event(run, IF ok THEN "PREVIEW_DEPLOYED" ELSE "REPAIRING")
  /\ at' = IF ok THEN "previewUat" ELSE "release"
  /\ UNCHANGED <<contract, counters, worktree, tree, live, budget, history>>

\* Variant: a failed acceptance test is noted and the release goes on.
AfterUatAlways(ok, next) == next
AfterUat(ok, next) == IF ok THEN next ELSE "release"

PreviewUat(ok) ==
  /\ at = "previewUat"
  /\ Event(run, IF ok THEN "PREVIEW_UAT_PASS" ELSE "REPAIRING")
  /\ at' = AfterUat(ok, AfterPreview)
  /\ gates' = IF ok THEN gates \cup {"preview"} ELSE gates
  /\ UNCHANGED <<contract, counters, worktree, tree, live, budget, verified, repairs, repairFailed, shipped>>

\* A deployment that fails may have replaced what is live.
ProductionDeploy(ok) ==
  /\ at = "productionDeploy"
  /\ \/ live' = tree
     \/ ~ok /\ UNCHANGED live
  /\ Event(run, IF ok THEN "PRODUCTION_DEPLOYED" ELSE "REPAIRING")
  /\ at' = IF ok THEN "productionUat" ELSE "release"
  /\ UNCHANGED <<contract, counters, worktree, tree, budget, history>>

ProductionUat(ok) ==
  /\ at = "productionUat"
  /\ Event(run, IF ok THEN "PRODUCTION_UAT_PASS" ELSE "REPAIRING")
  /\ at' = AfterUat(ok, "deployed")
  /\ gates' = IF ok THEN gates \cup {"production"} ELSE gates
  /\ UNCHANGED <<contract, counters, worktree, tree, live, budget, verified, repairs, repairFailed, shipped>>

Matches(sha) == sha = run.tested

\* The probe answers with what is live, or with what was live before.
ResolveDeployed(sha) ==
  /\ at = "deployed" /\ contract.exact
  /\ IF Matches(sha)
     THEN run' = [run EXCEPT !.deployed = sha] /\ at' = "certify" /\ UNCHANGED file
     ELSE Event([run EXCEPT !.deployed = sha], "REPAIRING") /\ at' = "release"
  /\ UNCHANGED <<contract, counters, worktree, tree, live, budget, history>>

NoProbe ==
  /\ at = "deployed" /\ ~contract.exact
  /\ run' = [run EXCEPT !.deployed = run.tested]
  /\ at' = "certify"
  /\ UNCHANGED <<contract, counters, disk, budget, history>>

ReleaseBudgetExhausted ==
  /\ at = "release" /\ BudgetSpent(release)
  /\ Event(run, "FAILED")
  /\ at' = "returned"
  /\ UNCHANGED <<contract, counters, worktree, tree, live, budget, history>>

\* Variant: no verification after a repair.
AfterRepairAlways(ok) == "tested"
AfterRepair(ok) == IF ok THEN "verify" ELSE "tested"

\* A release repair that succeeds is verified before the next attempt; one
\* that fails is not: `continue` goes straight to it.
ReleaseRepair(ok) ==
  /\ at = "release" /\ ~BudgetSpent(release)
  /\ MayChangeTree
  /\ Event(run, IF ok THEN "VERIFYING" ELSE "REPAIRING")
  /\ at' = AfterRepair(ok)
  /\ attempt' = 0
  /\ release' = release + 1
  /\ repairs' = repairs + 1
  /\ repairFailed' = (repairFailed \/ ~ok)
  /\ UNCHANGED <<contract, worktree, live, budget, verified, gates, shipped>>

-----------------------------------------------------------------------------
(* Completion.                                                             *)

Certify ==
  /\ at = "certify"
  /\ Event(run, "PRODUCTION_VERIFIED")
  /\ at' = "ship"
  /\ UNCHANGED <<contract, counters, worktree, tree, live, budget, history>>

\* Variant: the run returns without a receipt.
AfterShippedReturns == "returned"
AfterShipped == "receipt"

Ship ==
  /\ at = "ship"
  /\ Event(run, "SHIPPED")
  /\ at' = AfterShipped
  /\ shipped' = shipped \cup {run.tested}
  /\ UNCHANGED <<contract, counters, worktree, tree, live, budget, progress>>

\* buildReleaseReceipt, both files.
WriteReceipt ==
  /\ at = "receipt"
  /\ run' = [run EXCEPT !.receipt = TRUE]
  /\ file' = run'
  /\ at' = "cleanup"
  /\ UNCHANGED <<contract, counters, worktree, tree, live, budget, history>>

\* cleanupOnSuccess is optional; Git refuses to remove a modified worktree
\* (see Throws).
Cleanup ==
  /\ at = "cleanup"
  /\ worktree' \in {worktree, FALSE}
  /\ at' = "returned"
  /\ UNCHANGED <<contract, counters, run, file, tree, live, budget, history>>

-----------------------------------------------------------------------------
(* Failures of the process.                                                *)

\* Variant: run() records every throw as a failure.
ThrowsFailed ==
  /\ at \in Working
  /\ Event(run, "FAILED")
  /\ at' = "thrown"
  /\ UNCHANGED <<contract, counters, worktree, tree, live, budget, history>>

\* A probe that fails, a file that cannot be written, a worktree that cannot
\* be removed: run() rejects, and the file stays as it is.
Throws ==
  /\ at \in Working
  /\ at' = "thrown"
  /\ UNCHANGED <<contract, counters, run, disk, budget, history>>

Outcomes == {"returned", "thrown"}

\* runShipping takes up what run() returned or threw.
Settles ==
  /\ at \in Outcomes
  /\ at' = "closing"
  /\ UNCHANGED <<contract, counters, run, disk, budget, history>>

\* It has finished.
Ends ==
  /\ at = "closing"
  /\ at' = "idle"
  /\ UNCHANGED <<contract, counters, run, disk, budget, history>>

\* The daemon dies; nothing resumes the run.
Dies ==
  /\ budget.crashes > 0
  /\ budget' = [budget EXCEPT !.crashes = @ - 1]
  /\ at' = "idle"
  /\ UNCHANGED <<contract, counters, run, disk, history>>

\* reconcileShippingRunOnStartup.
Reconciled(f) == IF f.state \in Terminal THEN f ELSE [f EXCEPT !.state = "INTERRUPTED"]

\* ShippingStore.reconcile, between executions; the daemon does not call it.
Reconcile ==
  /\ at = "idle" /\ file # Absent
  /\ file' = Reconciled(file)
  /\ UNCHANGED <<contract, at, counters, run, worktree, tree, live, budget, history>>

Works ==
  \/ \E ok \in BOOLEAN :
       \/ CreateWorktree(ok) \/ Build(ok) \/ Verify(ok) \/ Repair(ok)
       \/ PreviewDeploy(ok) \/ PreviewUat(ok) \/ ProductionDeploy(ok) \/ ProductionUat(ok)
       \/ ReleaseRepair(ok)
  \/ RepairBudgetExhausted \/ ReleaseBudgetExhausted
  \/ ResolveTested \/ NoProbe \/ \E sha \in 1..tree : ResolveDeployed(sha)
  \/ Certify \/ Ship \/ WriteReceipt \/ Cleanup
  \/ Throws

Next == Begin \/ Works \/ Settles \/ Ends \/ Dies \/ Reconcile

Spec == Init /\ [][Next]_supervisor

-----------------------------------------------------------------------------
(* Properties.                                                             *)

\* Runs, counters and histories are well formed.
TypeOK ==
  /\ contract \in Offered
  /\ at \in Working \cup {"idle", "returned", "thrown", "closing"}
  /\ attempt \in 0..contract.maxRepairAttempts /\ release \in 0..contract.maxRepairAttempts
  /\ run \in [state : States \cup {"ABSENT", "CREATED"}, tested : Nat, deployed : Nat,
              receipt : BOOLEAN]
  /\ file \in [state : States \cup {"ABSENT"}, tested : Nat, deployed : Nat, receipt : BOOLEAN]
  /\ worktree \in BOOLEAN /\ tree \in 0..Trees /\ live \in 0..tree
  /\ budget \in [executions : Nat, crashes : Nat]
  /\ verified \in 0..tree /\ gates \subseteq {"preview", "production"}
  /\ repairs \in Nat /\ repairFailed \in BOOLEAN /\ shipped \subseteq 1..tree

\* A contract that passes validation never leaves run() with a command it does
\* not have, on whatever path of the two loops it gets there.
NothingIsMissing ==
  LET runsNothing == \/ at = "repair" /\ BudgetSpent(attempt)
                     \/ at = "release" /\ BudgetSpent(release)
                     \/ at = "deployed" /\ ~contract.exact
  IN at \in DOMAIN Uses /\ ~runsNothing => Uses[at] \in contract.has

\* SHIPPED is written only for the tree whose sha was tested last, after every
\* gate the contract requires has passed on it since, and with equal shas.
ShippedPassedEveryGate ==
  at \in {"receipt", "cleanup"} =>
    /\ run.tested = tree
    /\ contract.preview => "preview" \in gates
    /\ contract.production => ("production" \in gates /\ live = tree)
    /\ run.deployed = run.tested

\* The two loops together run a bounded number of repairs: one budget for the
\* first verification, and for every release repair a budget of its own.
RepairsAreBounded ==
  LET max == contract.maxRepairAttempts IN repairs <= max + max * (1 + max)

\* What is shipped has been verified, unless a release repair failed on the way.
VerifiedUnlessRepairFailed ==
  at \in {"receipt", "cleanup"} /\ verified # run.tested => repairFailed

\* All of these together.
Inv == /\ TypeOK /\ NothingIsMissing /\ RepairsAreBounded
       /\ ShippedPassedEveryGate /\ VerifiedUnlessRepairFailed

(* What they need to be inductive: how far an attempt is, and what holds   *)
(* from there on.                                                          *)
Done == {"receipt", "cleanup"}
Certified == Done \cup {"certify", "ship"}
Live == Certified \cup {"deployed"}
Previewed == Live \cup {"productionDeploy", "productionUat"}
Releasing == Previewed \cup {"previewDeploy", "previewUat"}

ContractIsAccepted == Accepted(contract)

\* Nothing changes the tree between its sha and SHIPPED, and a stage is
\* entered only when the gates before it have passed.
GatesPassInOrder ==
  /\ at \in Releasing => run.tested = tree
  /\ at \in {"previewDeploy", "previewUat"} => contract.preview
  /\ at \in {"productionDeploy", "productionUat"} => contract.production
  /\ at \in Previewed /\ contract.preview => "preview" \in gates
  /\ at \in Live \cup {"productionUat"} /\ contract.production => live = tree
  /\ at \in Live /\ contract.production => "production" \in gates
  /\ at \in Certified => run.deployed = run.tested

\* A release attempt is made of a verified tree, or after a failed repair.
AttemptIsVerified ==
  at \in Releasing \cup {"tested", "release"} => verified = tree \/ repairFailed

\* Every release repair may be followed by a whole budget of repairs.
RepairsAreCounted == repairs <= attempt + release * (1 + contract.maxRepairAttempts)

\* The file has what the run has, and says that it works until it says how
\* it ended.
FileFollowsRun ==
  /\ at \in Working \ {"worktree"} => tree > 0
  /\ at \in Working => run.tested = file.tested /\ run.receipt = file.receipt
  /\ at \in Done => run.state = "SHIPPED" /\ file.state = "SHIPPED"
  /\ at = "cleanup" => file.receipt
  /\ at \in Working \ Done =>
       file.state \notin Terminal \cup {"ABSENT", "INTERRUPTED"} /\ ~file.receipt
  /\ file.state = "ABSENT" => file = Absent

IInv == /\ Inv /\ ContractIsAccepted /\ GatesPassInOrder /\ AttemptIsVerified
        /\ RepairsAreCounted /\ FileFollowsRun

\* The run as its users see it: a verdict once per execution, SHIPPED only
\* with a sha, no return without a receipt, a file that says what happened.
Seen(r) ==
  [state |-> CASE r.state = "BLOCKED" -> "FAILED"
               [] r.state \in {"ABSENT", "SHIPPED", "FAILED", "INTERRUPTED"} -> r.state
               [] OTHER -> "WORKING",
   tested |-> r.tested, receipt |-> r.receipt]
Release == INSTANCE ReleaseRun WITH
  Shas <- 1..Trees,
  file <- Seen(file),
  phase <- CASE at \in {"idle", "returned", "thrown", "closing"} -> at
             [] at \in {"receipt", "cleanup"} -> "shipped"
             [] OTHER -> "working"
ImplementsReleaseRun == Release!Spec

\* On disk a verdict stands until the run is started again under its runId:
\* neither a throw after it, a crash nor reconciliation changes it.
VerdictsStandOnDisk ==
  [][file.state \in Terminal /\ file'.state # file.state => Begin]_supervisor

=============================================================================
