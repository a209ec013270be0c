--------------------------- MODULE CapabilityFabric ---------------------------
(***************************************************************************)
(* The pure algorithms of the capability fabric: what a harness supports,  *)
(* which files a capability is compiled to, what a change of its source is *)
(* worth (drift) and which steps the change must pass, and how two         *)
(* versions compare.                                                       *)
(***************************************************************************)
EXTENDS Integers, Sequences, FiniteSets, SequencesExt

Kinds == {"skill", "agent", "workflow", "command", "hook", "mcp"}

\* What a harness has natively, of what a capability can be.
Harnesses == {"claude-code", "codex", "cursor", "opencode", "antigravity", "copilot", "pi"}
Native(h) ==
    {"skill", "workflow"}
      \cup (IF h = "pi" THEN {} ELSE {"agent", "mcp"})
      \cup (IF h \in {"codex", "copilot"} THEN {} ELSE {"command"})
      \cup (IF h \in {"claude-code", "opencode", "antigravity", "pi"} THEN {"hook"} ELSE {})
Marketplace(h) == h \in {"claude-code", "codex", "cursor", "antigravity"}
HasBodyLimit(h) == h = "codex"

(***************************************************************************)
(* compileCapability.  size is that of the rendered skill: "short", "long" *)
(* (over the limit of the harness) or "huge" (over it without the body).   *)
(***************************************************************************)
\* A kind that compiles to nothing of its own: a command becomes a skill.
Unsupported(kind, h) == kind \in {"agent", "hook", "mcp"} /\ kind \notin Native(h)
EffectiveKind(kind, h) == IF kind = "command" /\ kind \notin Native(h) THEN "skill" ELSE kind

Files(kind, h, size) ==
    CASE kind = "skill" /\ HasBodyLimit(h) /\ size = "long" -> <<"main", "details">>
      [] kind = "skill" /\ HasBodyLimit(h) /\ size = "huge" -> <<>>
      [] OTHER -> <<"main">>

Compiled(kind, h, size, degraded) ==
    IF Unsupported(kind, h) /\ ~degraded THEN <<>> ELSE Files(EffectiveKind(kind, h), h, size)

\* The fields of a capability that the text of its compiled files depends on.
RenderedFields(kind, h) ==
    CASE EffectiveKind(kind, h) \in {"skill", "command", "workflow", "hook"} -> {"metadata", "instructions"}
      [] kind = "agent" -> {"metadata", "instructions", "requirements"}
      [] kind = "mcp" -> {"metadata", "requirements"}

(***************************************************************************)
(* assessCapabilityDrift of two versions under one slug: changed are the   *)
(* fields that differ, moved the harnesses whose profile is another one    *)
(* than that of their last compilation receipt.                            *)
(***************************************************************************)
IdentityFields == {"source_url", "source_license"}

SemanticFields == {"instructions", "references", "assets", "contract", "requirements", "triggers", "evaluation"}
OtherFields == {"source_commit", "source_path", "metadata", "version"}
Fields == IdentityFields \cup SemanticFields \cup OtherFields

\* Variant: a moved profile counts only next to a changed field.
DecisionByFields(changed, moved) ==
    CASE changed \cap IdentityFields # {} -> "blocked"
      [] changed \cap SemanticFields # {} -> "reverify"
      [] changed # {} -> "review"
      [] OTHER -> "no-op"

Decision(changed, moved) ==
    CASE changed \cap IdentityFields # {} -> "blocked"
      [] changed \cap SemanticFields # {} \/ moved # {} -> "reverify"
      [] changed # {} -> "review"
      [] OTHER -> "no-op"

\* createReverificationPlan.
Step(gate, h) == [gate |-> gate, of |-> h]
When(condition, steps) == IF condition THEN steps ELSE <<>>
DiscoversNatively(h) == Marketplace(h) /\ Native(h) \cap {"skill", "agent", "command"} # {}
HarnessSteps(h) ==
    <<Step("compile", h), Step("verify-artifact", h)>>
      \o When(DiscoversNatively(h), <<Step("verify-native", h)>>)

Plan(changed, moved, harnesses) ==
    LET decision == Decision(changed, moved) IN
    When(changed \cap {"source_url", "source_commit", "source_license", "source_path"} # {},
         <<Step("refresh-evidence", "all")>>)
      \o When(decision = "blocked", <<Step("review-provenance-license", "all")>>)
      \o When(decision \in {"reverify", "blocked"},
              FlattenSeq([i \in DOMAIN harnesses |-> HarnessSteps(harnesses[i])]))
      \o When(decision = "review", <<Step("review-nonsemantic-drift", "all")>>)
      \o When(decision # "no-op", <<Step("promote", "all")>>)

(***************************************************************************)
(* Versions of the registry: core is the rank of major.minor.patch, pre    *)
(* the place of the prerelease among semantic versions, 0 for a release,   *)
(* and text the place, in the collation of localeCompare, of what          *)
(* split("-", 2) leaves of it, 0 for nothing.  Build metadata is left out. *)
(***************************************************************************)
\* compareSemver: prereleases are compared as texts, up to a second dash.
Compare(a, b) ==
    CASE a.core # b.core -> a.core - b.core
      [] a.core = b.core /\ a.text = 0 /\ b.text > 0 -> 1
      [] a.core = b.core /\ a.text > 0 /\ b.text = 0 -> -1
      [] OTHER -> a.text - b.text

(***************************************************************************)
(* What the verification adapter of a daemon runs.                         *)
(***************************************************************************)
Modes == {"artifact-context", "native-discovery"}
Verifiable == {"codex", "claude-code", "cursor", "opencode"}

=============================================================================
