---------------------------- MODULE ApprovalPolicy ----------------------------
(***************************************************************************)
(* What the workflow decides about a tool call before it runs: the pure    *)
(* part of the approval gate of src/src/tools.rs, shared by the agent      *)
(* workflow and by the activities that look at the same policy again.      *)
(***************************************************************************)
CONSTANTS
  SandboxOff,      \* sandbox policy is DangerFullAccess or ExternalSandbox
  PlatformSandbox  \* cfg!(linux) or cfg!(macos)

\* codex-core's render_decision_for_unmatched_command, for the three classes
\* of command it tells apart under a sandboxed file system.
ShellDecision(command, p) ==
  CASE command = "safe" -> "Allow"
    [] command = "dangerous" -> IF p = "never" THEN "Forbidden" ELSE "Prompt"
    [] OTHER -> IF p = "untrusted" THEN "Prompt" ELSE "Allow"

\* workflow_assess_patch_needs_approval
PatchDecision(patch, p) ==
  CASE patch = "empty" -> "Forbidden"
    [] p = "untrusted" -> "Prompt"
    [] SandboxOff \/ PlatformSandbox -> "Allow"
    [] OTHER -> "Prompt"

\* The gate a call passes before it runs; only shell tools and apply_patch
\* are ever gated.
Decision(kind, arg, p) ==
  CASE kind = "shell" -> ShellDecision(arg, p)
    [] kind = "patch" -> PatchDecision(arg, p)
    [] OTHER -> "Allow"

=============================================================================
