------------------------------- MODULE MCBatch -------------------------------
(***************************************************************************)
(* Small instances of Batch: inputs of up to two records.                  *)
(***************************************************************************)
EXTENDS Batch

MCDraft(v) == [kind |-> "belief", model |-> FALSE, verified |-> v]

MCRecord(v, old, x) == [draft |-> MCDraft(v), supersedes |-> old, flaw |-> x]

\* New beliefs and corrections, attested or not.
MCSound == {MCRecord(v, old, "none") : v \in BOOLEAN, old \in Id \cup {NoId}}

\* Records that are refused for themselves.
MCFlawed == {MCRecord(FALSE, NoId, x) : x \in {"unbuildable", "invalid"}}

\* One sound record; a new belief with one more, or a flawed one, after it.
MCInputs == {<<r>> : r \in MCSound}
              \cup {<<MCRecord(FALSE, NoId, "none"), q>> :
                      q \in MCFlawed \cup {r \in MCSound : ~r.draft.verified}}

MCVar(prefix, rest, value) == <<prefix, rest>> :> value

MCClaude == MCVar("CLAUDECODE", "", "1")
MCCodex == MCVar("CODEX_", "THREAD_ID", "x")
MCCursor == MCVar("CURSOR_", "TRACE_ID", "x")
MCBedrock == MCVar("CLAUDE_CODE_", "USE_BEDROCK", "1")

\* A person's terminal: configured, in an editor and declared, with a blank
\* marker, or with a declaration that says nothing.
MCPersonal ==
  {MCBedrock @@ MCVar("CODEX_", "HOME", "x"), MCCursor @@ MCVar("HIKMAH_", "AGENT_SESSION", "0"),
   MCVar("CLAUDECODE", "", ""), MCVar("HIKMAH_", "AGENT_SESSION", "1")}

\* An agent's: of every host, configured too, with declarations that do not count.
MCHosted ==
  {MCClaude @@ MCBedrock, MCCodex @@ MCVar("CODEX_", "HOME", "x"), MCVar("GEMINI_CLI", "", "1"),
   MCVar("AI_AGENT", "", "x"), MCVar("CLAUDE_CODE_", "REMOTE", "1"),
   MCCursor @@ MCVar("HIKMAH_", "AGENT_SESSION", "1"), MCClaude @@ MCVar("HIKMAH_", "AGENT_SESSION", "")}

MCEnvironment == [p \in Proc |-> IF p \in Agents THEN MCHosted ELSE MCPersonal]

MCDrafts == {MCDraft(v) : v \in BOOLEAN}

MCSymmetry == Permutations(Id)
=============================================================================
