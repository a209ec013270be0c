-------------------------- MODULE CapabilityInstall --------------------------
(***************************************************************************)
(* Verifications of capabilities in one workspace: each compiles a bundle  *)
(* of files, installs it over what is there, runs its test cases, rolls    *)
(* the installation back and answers with a receipt, or throws.  Every     *)
(* file access is a step of its own: verifications of two sessions and the *)
(* user's editor share the directory and no lock guards it.                *)
(*                                                                         *)
(* A verification is a plan [harness, mode, version, size, retain].        *)
(***************************************************************************)
EXTENDS CapabilityFabric

CONSTANTS
    Jobs,           \* verifications
    Versions,       \* the versions of the capability, each the text of its files
    ProbeOf,        \* [Versions -> text] the text of a skill that carries a probe
    PlanSets,       \* the combinations of plans to try: functions from Jobs
    CaseCount,      \* test cases of a capability
    PassMark,       \* cases that must pass (qualityThreshold)
    MaxEdits,       \* bound: edits of the user
    MaxBreaks       \* bound: failing file accesses and crashes

\* A capability too large to compile throws before anything is installed.
PlanRows == [harness : Verifiable, mode : Modes, version : Versions, size : {"short", "long"}, retain : BOOLEAN]
Texts == Versions \cup {ProbeOf[v] : v \in Versions}
ASSUME InstallAssumption ==
    /\ PlanSets \subseteq [Jobs -> PlanRows]
    /\ Texts \cap {"user", "edit", "none"} = {}
    /\ CaseCount \in Nat /\ MaxEdits \in Nat /\ MaxBreaks \in Nat

VARIABLES
    plans,      \* [Jobs -> plan]
    disk,       \* [Paths -> content], "none" for a file that does not exist
    dirs,       \* directories of skills and plugins; nothing removes one
    mine,       \* [Paths -> content] the user's last content of each file
    job,        \* [Jobs -> state of the verification]
    clashes,    \* files the user edited while a verification was writing them
    edits, breaks

installVars == <<plans, disk, dirs, mine, job, clashes, edits, breaks>>

(***************************************************************************)
(* The bundle: where each harness looks for its files.                     *)
(***************************************************************************)
Paths == {"skill", "details", "plugins/skill", "plugins/details", "plugin.json", "marketplace.json",
          "config.toml", ".claude/skill", ".cursor/skill", ".opencode/skill"}

\* What compileCapability renders, and what each native bundle makes of it:
\* codex finds a skill through a plugin and two files that enable it, the
\* others in a directory of their own.
ArtifactFiles(harness, split) ==
    CASE harness = "cursor" -> <<".cursor/skill">>
      [] harness = "opencode" -> <<".opencode/skill">>
      [] OTHER -> <<"skill">> \o When(split, <<"details">>)
CodexFiles(split) == <<"plugins/skill">> \o When(split, <<"plugins/details">>)
                       \o <<"plugin.json", "marketplace.json", "config.toml">>
ClaudeFiles == <<".claude/skill">>
OpenCodeFiles == <<".opencode/skill">>
CursorFiles == <<".cursor/skill">>

IsNative(j) == plans[j].mode = "native-discovery"
Split(j) == "details" \in ToSet(Compiled("skill", plans[j].harness, plans[j].size, FALSE))

\* createInstallPlan: the files in the order they are installed in.
Bundle(j) ==
    IF ~IsNative(j) THEN ArtifactFiles(plans[j].harness, Split(j))
    ELSE CASE plans[j].harness = "codex" -> CodexFiles(Split(j))
           [] plans[j].harness = "claude-code" -> ClaudeFiles
           [] plans[j].harness = "opencode" -> OpenCodeFiles
           [] plans[j].harness = "cursor" -> CursorFiles
Skill(j) == Bundle(j)[1]

\* The skill of a native bundle carries a probe.
Content(j, p) == IF IsNative(j) /\ p = Skill(j) THEN ProbeOf[plans[j].version] ELSE plans[j].version

\* The directory of a skill is named like the skill; the manifest is in the
\* plugin's one, the other two files have places of their own.
DirOf(p) == CASE p \in {"plugins/details", "plugin.json"} -> "plugins/skill" [] p = "details" -> "skill"
              [] OTHER -> p

\* assertCleanVerificationWorkspace: what must not exist.
CodexGuard == <<"marketplace.json", "config.toml", "plugins/skill">>
Guarded(j) ==
    IF ~IsNative(j) THEN <<>>
    ELSE IF plans[j].harness = "codex" THEN CodexGuard ELSE <<Skill(j)>>
Exists(p) == IF p \in {"marketplace.json", "config.toml"} THEN disk[p] # "none" ELSE p \in dirs

\* The files some verification may touch.
Concerned == UNION {ToSet(Bundle(j)) : j \in Jobs}

NoFile == [p \in Paths |-> "none"]
Idle == [step |-> "idle", at |-> 1, backup |-> NoFile, seen |-> NoFile, installed |-> NoFile,
         ops |-> 0, left |-> CaseCount, passed |-> 0, proofs |-> 0, attempt |-> 0,
         outcome |-> "none"]

InstallInit ==
    /\ plans \in PlanSets
    /\ \E kept \in SUBSET ({".cursor/skill", "skill", "plugin.json"} \cap Concerned) :
         disk = [p \in Paths |-> IF p \in kept THEN "user" ELSE "none"]
    /\ mine = disk
    /\ dirs = {DirOf(p) : p \in {q \in Paths : disk[q] # "none"}}
    /\ job = [j \in Jobs |-> Idle]
    /\ clashes = {} /\ edits = 0 /\ breaks = 0

-----------------------------------------------------------------------------
File(j) == Bundle(j)[job[j].at]
Goto(j, step) == job' = [job EXCEPT ![j].step = step]
Throw(j) == job' = [job EXCEPT ![j].step = "done", ![j].outcome = "thrown"]
Keep == UNCHANGED <<plans, mine, clashes, edits, breaks>>
KeepDisk == UNCHANGED <<disk, dirs>>

Begin(j) ==
    /\ job[j].step = "idle"
    /\ Goto(j, "check")
    /\ KeepDisk /\ Keep

\* One lstat of the clean-workspace check.
Check(j) ==
    /\ job[j].step = "check"
    /\ IF job[j].at > Len(Guarded(j)) THEN job' = [job EXCEPT ![j].step = "copy", ![j].at = 1]
       ELSE IF Exists(Guarded(j)[job[j].at]) THEN Throw(j)
       ELSE job' = [job EXCEPT ![j].at = @ + 1]
    /\ KeepDisk /\ Keep

(***************************************************************************)
(* applyInstallPlan: per file copy, digest, write, and a digest of what    *)
(* was written.  A file that disappears after the copy was begun is ENOENT *)
(* like one that was not there.                                            *)
(***************************************************************************)
\* Variant: the content is replaced without a copy.
BackupNone(j, p) == "none"

BackupOf(j, p) == disk[p]

Copy(j) ==
    /\ job[j].step = "copy"
    /\ job' = [job EXCEPT ![j].backup[File(j)] = BackupOf(j, File(j)),
                          ![j].step = IF disk[File(j)] = "none" THEN "write" ELSE "digest"]
    /\ dirs' = dirs \cup {DirOf(File(j))}
    /\ UNCHANGED disk /\ Keep

Digest(j) ==
    /\ job[j].step = "digest"
    /\ job' = [job EXCEPT ![j].seen[File(j)] = disk[File(j)], ![j].step = "write"]
    /\ KeepDisk /\ Keep

Write(j) ==
    /\ job[j].step = "write"
    /\ disk' = [disk EXCEPT ![File(j)] = Content(j, File(j))]
    /\ Goto(j, "record")
    /\ UNCHANGED dirs /\ Keep

\* Reading a file that was deleted meanwhile throws.
Record(j) ==
    /\ job[j].step = "record"
    /\ IF disk[File(j)] = "none" THEN Throw(j)
       ELSE LET last == job[j].at = Len(Bundle(j)) IN
            job' = [job EXCEPT ![j].installed[File(j)] = disk[File(j)], ![j].ops = @ + 1,
                               ![j].at = IF last THEN 1 ELSE @ + 1,
                               ![j].step = IF last THEN "receipt" ELSE "copy"]
    /\ KeepDisk /\ Keep

\* The receipt of the installation is written next to the backups.
WriteReceipt(j) ==
    /\ job[j].step = "receipt"
    /\ Goto(j, IF IsNative(j) THEN "cases" ELSE "read")
    /\ KeepDisk /\ Keep

\* readInstalledArtifacts, outside of the try that rolls back.
ReadArtifact(j) ==
    /\ job[j].step = "read"
    /\ IF disk[File(j)] = "none" THEN Throw(j)
       ELSE job' = [job EXCEPT ![j].at = IF @ = Len(Bundle(j)) THEN 1 ELSE @ + 1,
                               ![j].step = IF job[j].at = Len(Bundle(j)) THEN "cases" ELSE "read"]
    /\ KeepDisk /\ Keep

(***************************************************************************)
(* The test cases.  answer is whether the agent ends without an error and  *)
(* with the expected output.  It can say the probe only when the harness   *)
(* finds the skill on the disk at that moment, and may leave it out.       *)
(***************************************************************************)
FindsProbe(j) == disk[Skill(j)] = ProbeOf[plans[j].version]

Passes(j, answer, marker) == answer /\ (IsNative(j) => marker)

RunCase(j, answer, marker) ==
    /\ job[j].step = "cases" /\ job[j].left > 0
    /\ marker => FindsProbe(j)
    /\ job' = [job EXCEPT ![j].left = @ - 1,
                          ![j].passed = @ + (IF Passes(j, answer, marker) THEN 1 ELSE 0),
                          ![j].proofs = @ + (IF answer /\ marker THEN 1 ELSE 0)]
    /\ KeepDisk /\ Keep

Passed(j) == job[j].passed >= PassMark

\* What is verified natively is always rolled back, a passing artifact unless
\* the caller retains it.
Judge(j) ==
    /\ job[j].step = "cases" /\ job[j].left = 0
    /\ job' = [job EXCEPT ![j].step = IF plans[j].retain /\ Passed(j) /\ ~IsNative(j) THEN "done" ELSE "compare",
                          ![j].outcome = IF plans[j].retain /\ Passed(j) /\ ~IsNative(j) THEN "retained" ELSE @,
                          ![j].at = job[j].ops, ![j].attempt = 1]
    /\ KeepDisk /\ Keep

(***************************************************************************)
(* rollbackInstall, from the last file to the first.  A drifted file stops *)
(* it; the verification then starts it over once and throws.               *)
(***************************************************************************)
RollbackStops(j) ==
    IF job[j].attempt = 1
    THEN job' = [job EXCEPT ![j].step = "compare", ![j].at = job[j].ops, ![j].attempt = 2]
    ELSE Throw(j)

\* Variant: the file is put back whatever it is by now.
DriftedNever(j, p) == FALSE

Drifted(j, p) == disk[p] # "none" /\ disk[p] # job[j].installed[p]

CompareFile(j) ==
    /\ job[j].step = "compare" /\ job[j].at > 0
    /\ IF Drifted(j, File(j)) THEN RollbackStops(j) ELSE Goto(j, "restore")
    /\ KeepDisk /\ Keep

\* Variant: a replaced file is removed like a new one.
RestoredNothing(j, p) == "none"

\* No previous file, or none that could be digested: it is removed.
Restored(j, p) == IF job[j].seen[p] = "none" THEN "none" ELSE job[j].backup[p]

BackupMatches(j, p) == job[j].seen[p] \in {"none", job[j].backup[p]}

Restore(j) ==
    /\ job[j].step = "restore"
    /\ IF BackupMatches(j, File(j))
       THEN /\ disk' = [disk EXCEPT ![File(j)] = Restored(j, File(j))]
            /\ job' = [job EXCEPT ![j].step = "compare", ![j].at = @ - 1]
       ELSE RollbackStops(j) /\ UNCHANGED disk
    /\ UNCHANGED dirs /\ Keep

\* Only a first rollback leads to a receipt.
Finish(j) ==
    /\ job[j].step = "compare" /\ job[j].at = 0
    /\ job' = [job EXCEPT ![j].step = "done",
                          ![j].outcome = IF job[j].attempt = 1 THEN "receipt" ELSE "thrown"]
    /\ KeepDisk /\ Keep

-----------------------------------------------------------------------------
Writing(j, p) ==
    /\ job[j].step \in {"digest", "write", "record", "restore"}
    /\ File(j) = p

\* The user writes or deletes a file.
Edit(p, content) ==
    /\ edits < MaxEdits /\ edits' = edits + 1
    /\ disk' = [disk EXCEPT ![p] = content]
    /\ dirs' = dirs \cup {DirOf(p)}
    /\ mine' = [mine EXCEPT ![p] = content]
    /\ clashes' = IF \E j \in Jobs : Writing(j, p) THEN clashes \cup {p} ELSE clashes
    /\ UNCHANGED <<plans, job, breaks>>

\* A file access of the installation fails.
Break(j) ==
    /\ job[j].step \in {"copy", "digest", "write", "record", "receipt", "read"}
    /\ breaks < MaxBreaks /\ breaks' = breaks + 1
    /\ Throw(j)
    /\ UNCHANGED <<plans, disk, dirs, mine, clashes, edits>>

\* The daemon dies; what is on the disk stays.
Die ==
    /\ breaks < MaxBreaks /\ breaks' = breaks + 1
    /\ \E j \in Jobs : job[j].step \notin {"idle", "done"}
    /\ job' = [j \in Jobs |-> IF job[j].step \in {"idle", "done"} THEN job[j]
                              ELSE [job[j] EXCEPT !.step = "done", !.outcome = "died"]]
    /\ UNCHANGED <<plans, disk, dirs, mine, clashes, edits>>

Work(j) ==
    \/ Begin(j) \/ Check(j) \/ Copy(j) \/ Digest(j) \/ Write(j) \/ Record(j)
    \/ WriteReceipt(j) \/ ReadArtifact(j)
    \/ \E answer, marker \in BOOLEAN : RunCase(j, answer, marker)
    \/ Judge(j) \/ CompareFile(j) \/ Restore(j) \/ Finish(j)

InstallNext ==
    \/ \E j \in Jobs : Work(j) \/ Break(j)
    \/ \E p \in Concerned, content \in {"edit", "none"} : Edit(p, content)
    \/ Die

InstallSpec == InstallInit /\ [][InstallNext]_installVars

-----------------------------------------------------------------------------
(***************************************************************************)
(* What must hold.                                                         *)
(***************************************************************************)
Owns(j, p) == p \in ToSet(Bundle(j))
Alone(j) == \A k \in Jobs \ {j} : job[k].step = "idle" \/ ToSet(Bundle(k)) \cap ToSet(Bundle(j)) = {}

\* Whatever two verifications, a failing access, a refused rollback or a
\* crash do to a file, what the user last wrote into it is on the disk or in
\* a backup; only an edit in the middle of a replacement can be lost.
UserContentIsKept ==
    \A p \in Paths \ clashes :
      \/ mine[p] \in {disk[p], "none"}
      \/ \E j \in Jobs : job[j].backup[p] = mine[p]

\* A verification that answers with a receipt for a rolled back installation,
\* with no other one in its files, left the directory as the user has it.
ReceiptMeansRestored ==
    \A j \in Jobs : (job[j].outcome = "receipt" /\ Alone(j)) =>
      \A p \in ToSet(Bundle(j)) \ clashes :
        disk[p] = mine[p] \/ (mine[p] = "none" /\ edits > 0)

\* A file the user edited after it was installed is not touched by the
\* rollback, the one that is tried again after a refusal included.
RollbackSparesEdits ==
    [][\A p \in Paths \ clashes : (disk[p] = "edit" /\ disk'[p] # "edit" /\ mine'[p] = "edit") =>
         \E j \in Jobs :
           \/ job[j].backup[p] = "edit"
           \/ job[j].step = "write" /\ job'[j].step = "record" /\ File(j) = p]_installVars

\* A native verification passes only when the harness read its skill from
\* the disk in as many cases as must pass.
NativePassIsProof ==
    \A j \in Jobs : (job[j].outcome = "receipt" /\ IsNative(j) /\ Passed(j)) => job[j].proofs >= PassMark

\* The files of a native bundle replace none that was there when it was
\* checked: neither a skill of the same name nor the plugin configuration.
ProbeReplacesNothing ==
    \A j \in Jobs : (IsNative(j) /\ Alone(j) /\ edits = 0) =>
      \A p \in ToSet(Bundle(j)) : job[j].backup[p] = "none"

\* Every variable keeps its shape; a rollback is tried at most twice.
InstallTypeOK ==
    /\ \A j \in Jobs :
         /\ job[j].at \in 0..Len(Bundle(j)) + 1 /\ job[j].ops \in 0..Len(Bundle(j))
         /\ job[j].attempt \in 0..2
         /\ job[j].passed + job[j].left <= CaseCount
         /\ job[j].outcome \in {"none", "thrown", "retained", "receipt", "died"}
         /\ job[j].outcome = "none" <=> job[j].step # "done"
    /\ clashes \subseteq Paths /\ edits \in 0..MaxEdits /\ breaks \in 0..MaxBreaks

(* What these need to be inductive.                                        *)
\* What the variables hold.
Contents == {"user", "edit", "none"} \cup Texts
JobRows ==
    [step : {"idle", "check", "copy", "digest", "write", "record", "receipt", "read", "cases",
             "compare", "restore", "done"},
     at : Nat, backup : [Paths -> Contents], seen : [Paths -> Contents], installed : [Paths -> Contents],
     ops : Nat, left : Nat, passed : Nat, proofs : Nat, attempt : 0..2,
     outcome : {"none", "thrown", "retained", "receipt", "died"}]
InstallShape ==
    /\ plans \in PlanSets /\ job \in [Jobs -> JobRows]
    /\ disk \in [Paths -> Contents] /\ mine \in [Paths -> {"user", "edit", "none"}]

\* Where a verification is in its bundle, by its step.
InPlace(j) ==
    /\ job[j].step = "idle" => job[j].at = 1
    /\ job[j].step = "check" => job[j].at \in 1..Len(Guarded(j)) + 1
    /\ job[j].step \in {"idle", "check"} => job[j].ops = 0
    /\ job[j].step \in {"copy", "digest", "write", "record"} =>
         job[j].at \in 1..Len(Bundle(j)) /\ job[j].ops = job[j].at - 1
    /\ job[j].step \in {"receipt", "read", "cases"} =>
         job[j].at \in 1..Len(Bundle(j)) /\ job[j].ops = Len(Bundle(j))
    /\ job[j].step \in {"compare", "restore"} =>
         job[j].at \in 0..Len(Bundle(j)) /\ job[j].ops = Len(Bundle(j)) /\ job[j].attempt # 0
    /\ job[j].step = "restore" => job[j].at > 0
    /\ IsNative(j) => job[j].passed = job[j].proofs

\* Each file is copied once, before it is replaced.
Pending(j, i) ==
    \/ job[j].step \in {"idle", "check"}
    \/ job[j].step = "copy" /\ i >= job[j].at
    \/ job[j].step \in {"digest", "write", "record"} /\ i > job[j].at
CopiedOnce(j) ==
    \A i \in DOMAIN Bundle(j) : Pending(j, i) =>
      job[j].backup[Bundle(j)[i]] = "none" /\ job[j].seen[Bundle(j)[i]] = "none"

\* What is about to be replaced is saved, and so is whatever of the user a
\* verification takes for its own.
Saved(p, content) == \E k \in Jobs : job[k].backup[p] = content
KeptBy(j) ==
    \A p \in Paths \ clashes :
      /\ Writing(j, p) => mine[p] = "none" \/ Saved(p, mine[p])
      /\ Writing(j, p) /\ job[j].step = "record" /\ disk[p] \in {"user", "edit"} => Saved(p, disk[p])
      /\ job[j].installed[p] \in {"user", "edit"} => Saved(p, job[j].installed[p])

\* A file has its directory.
DirsExist ==
    /\ \A p \in Paths : disk[p] # "none" => DirOf(p) \in dirs
    /\ \A j \in Jobs :
         /\ \A p \in Paths : job[j].backup[p] # "none" => DirOf(p) \in dirs
         /\ job[j].step \in {"digest", "write"} => DirOf(File(j)) \in dirs

\* A file that no other verification touches: as the user has it, replaced,
\* taken for installed, put back.
AsInstalled(j, p) ==
    /\ job[j].installed[p] = Content(j, p) /\ job[j].seen[p] = job[j].backup[p]
    /\ \/ disk[p] = mine[p] /\ edits > 0
       \/ disk[p] = Content(j, p) /\ mine[p] = job[j].backup[p]
AsBefore(p) == disk[p] = mine[p] \/ (mine[p] = "none" /\ edits > 0)
AloneIn(j, i, p) ==
    /\ Pending(j, i) => disk[p] = mine[p]
    /\ job[j].step \in {"digest", "write"} /\ i = job[j].at =>
         /\ disk[p] = mine[p] /\ job[j].backup[p] = mine[p]
         /\ job[j].step = "write" => job[j].seen[p] = mine[p]
    /\ job[j].step = "record" /\ i = job[j].at =>
         disk[p] = Content(j, p) /\ job[j].backup[p] = mine[p] /\ job[j].seen[p] = mine[p]
    /\ job[j].step \in {"copy", "digest", "write", "record"} /\ i < job[j].at => AsInstalled(j, p)
    /\ job[j].step \in {"receipt", "read", "cases"} => AsInstalled(j, p)
    /\ job[j].step \in {"compare", "restore"} /\ job[j].attempt = 1 =>
         /\ i <= job[j].at => AsInstalled(j, p)
         /\ i > job[j].at => AsBefore(p)
         /\ job[j].step = "restore" /\ i = job[j].at => disk[p] \in {"none", Content(j, p)}
    /\ job[j].outcome = "receipt" => AsBefore(p)
AloneInFiles(j) ==
    Alone(j) => \A i \in DOMAIN Bundle(j) : Bundle(j)[i] \notin clashes => AloneIn(j, i, Bundle(j)[i])

\* What the check of a native verification found missing stays missing.
Covers(guard, p) ==
    IF guard \in {"marketplace.json", "config.toml"} THEN p = guard ELSE DirOf(p) = guard
Unwritten(j, i) ==
    \/ job[j].step \in {"copy", "digest", "write"} /\ i >= job[j].at
    \/ job[j].step = "record" /\ i > job[j].at
NothingThere(j) ==
    (IsNative(j) /\ Alone(j) /\ edits = 0) =>
      \A i \in DOMAIN Bundle(j) :
        /\ job[j].step = "check" =>
             \A m \in 1..(job[j].at - 1) : Covers(Guarded(j)[m], Bundle(j)[i]) => disk[Bundle(j)[i]] = "none"
        /\ Unwritten(j, i) => disk[Bundle(j)[i]] = "none"

InstallIInv ==
    /\ InstallTypeOK /\ InstallShape /\ UserContentIsKept /\ DirsExist
    /\ ReceiptMeansRestored /\ NativePassIsProof /\ ProbeReplacesNothing
    /\ \A j \in Jobs :
         InPlace(j) /\ CopiedOnce(j) /\ KeptBy(j) /\ AloneInFiles(j) /\ NothingThere(j)

=============================================================================
