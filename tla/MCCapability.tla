----------------------------- MODULE MCCapability -----------------------------
(***************************************************************************)
(* Three small instances in one run: the algorithms of the fabric on one   *)
(* question per state, verifications in one workspace, and the registry.   *)
(***************************************************************************)
EXTENDS CapabilityInstall, CapabilityRegistry

VARIABLES
    scenario,   \* which instance runs
    question    \* fabric: a kind, a harness, the fields that changed, and
                \* whether the profile of the harness moved

mcVars == <<installVars, registryVars, scenario, question>>

Plan_(h, mode, version, size, retain) ==
    [harness |-> h, mode |-> mode, version |-> version, size |-> size, retain |-> retain]
TwoJobs == {1, 2}
TwoVersions == {"v1", "v2"}
Probes == [v \in TwoVersions |-> "probe of " \o v]
TwoPlans ==
    LET A == "artifact-context" N == "native-discovery" IN
    { <<Plan_("cursor", A, "v1", "short", FALSE), Plan_("cursor", N, "v1", "short", FALSE)>>,
      <<Plan_("codex", A, "v1", "long", FALSE), Plan_("codex", A, "v2", "short", TRUE)>>,
      <<Plan_("codex", N, "v1", "short", FALSE), Plan_("codex", N, "v1", "short", FALSE)>>,
      <<Plan_("claude-code", N, "v1", "short", FALSE), Plan_("opencode", A, "v1", "short", TRUE)>> }

\* "1.0.0", "1.0.0-rc.2", "1.0.0-rc.10", which is the newer text, and
\* "2.0.0-rc.2".
V(core, pre, text) == [core |-> core, pre |-> pre, text |-> text]
SomeEntries ==
    { [id |-> "a", slug |-> "x", version |-> V(1, 0, 0), kind |-> "skill"],
      [id |-> "a", slug |-> "x", version |-> V(1, 1, 2), kind |-> "skill"],
      [id |-> "a", slug |-> "x", version |-> V(1, 2, 1), kind |-> "skill"],
      [id |-> "b", slug |-> "x", version |-> V(1, 0, 0), kind |-> "agent"],
      [id |-> "b", slug |-> "x", version |-> V(2, 1, 2), kind |-> "agent"],
      [id |-> "c", slug |-> "y", version |-> V(1, 0, 0), kind |-> "skill"] }
BothStores == {TRUE, FALSE}

NoQuestion == [kind |-> "skill", h |-> "codex", changed |-> {}, moved |-> {}]
Questions ==
    {[kind |-> k, h |-> h, changed |-> c, moved |-> m] :
       k \in Kinds, h \in Harnesses, c \in {{a, b} : a, b \in Fields} \cup {{}}, m \in {{}, Harnesses}}

MCInit ==
    /\ scenario \in {"fabric", "install", "registry"}
    /\ IF scenario = "fabric" THEN question \in Questions ELSE question = NoQuestion
    /\ IF scenario = "install" THEN InstallInit
       ELSE /\ plans = CHOOSE plan \in PlanSets : TRUE
            /\ disk = NoFile /\ mine = NoFile /\ dirs = {} /\ job = [j \in Jobs |-> Idle]
            /\ clashes = {} /\ edits = 0 /\ breaks = 0
    /\ IF scenario = "registry" THEN RegistryInit
       ELSE /\ postgres = FALSE /\ stored = {} /\ requests = <<>> /\ chain = <<>>
            /\ overlapped = FALSE /\ failures = 0

\* Two verifications with many files meet no edit and no failure; two with
\* one file do.
Interferes ==
    /\ \A j \in Jobs : job'[j].step # "idle"
    /\ \A j \in Jobs : plans[j].harness # "cursor"
    /\ edits' + breaks' > 0

MCNext ==
    \/ scenario = "install" /\ InstallNext /\ ~Interferes /\ UNCHANGED <<registryVars, scenario, question>>
    \/ scenario = "registry" /\ RegistryNext /\ UNCHANGED <<installVars, scenario, question>>

MCSpec == MCInit /\ [][MCNext]_mcVars

-----------------------------------------------------------------------------
\* The three type invariants in one.
TypeOK == InstallTypeOK /\ RegistryTypeOK /\ question.changed \subseteq Fields

Before(plan, first, second) ==
    \E i, k \in DOMAIN plan : i < k /\ plan[i] = first /\ plan[k] = second
QuestionPlan == Plan(question.changed, question.moved, <<question.h>>)

\* A change that alters the compiled files, and a profile that moved, make
\* the harness compile and verify again before the promotion; a change of
\* names and descriptions alone, which is also in the files, is reviewed.
ChangedFilesAreVerified ==
    LET rendered == question.changed \cap RenderedFields(question.kind, question.h) IN
    /\ (rendered \ {"metadata"} # {} \/ question.h \in question.moved) =>
         /\ Before(QuestionPlan, Step("compile", question.h), Step("verify-artifact", question.h))
         /\ Before(QuestionPlan, Step("verify-artifact", question.h), Step("promote", "all"))
    /\ rendered # {} => QuestionPlan # <<>>

\* A plan promotes last or not at all, and a capability of another source or
\* license only after its review and its verification.
PromotionIsGated ==
    LET plan == QuestionPlan IN
    /\ \A i \in DOMAIN plan : plan[i].gate = "promote" => i = Len(plan)
    /\ question.changed \cap IdentityFields # {} =>
         \A gate \in {Step("review-provenance-license", "all"), Step("verify-artifact", question.h)} :
           Before(plan, gate, Step("promote", "all"))

\* All of these together, and those of the three parts.
Inv ==
    /\ TypeOK
    /\ scenario = "fabric" => ChangedFilesAreVerified /\ PromotionIsGated
    /\ scenario = "install" => InstallIInv /\ NativePassIsProof /\ ProbeReplacesNothing
    /\ scenario = "registry" => RegistryIInv /\ VersionsAreUnique /\ LatestIsNewest
=============================================================================
