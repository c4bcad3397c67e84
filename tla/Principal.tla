------------------------------ MODULE Principal ------------------------------
(***************************************************************************)
(* Who writes (principal.rs): an AI agent session is known by the          *)
(* environment variables its host sets.  A variable is named by a prefix   *)
(* that a host may own and the rest of the name.  A blank value is "".     *)
(***************************************************************************)
EXTENDS Integers, TLC

Host(exact, prefixes) == [exact |-> exact, prefixes |-> prefixes]

HOSTS ==
  ("claude-code" :> Host({"CLAUDECODE"}, {"CLAUDE_CODE_"})) @@ ("codex" :> Host({}, {"CODEX_"}))
    @@ ("cursor" :> Host({}, {"CURSOR_"})) @@ ("gemini-cli" :> Host({"GEMINI_CLI"}, {}))
    @@ ("ai-agent" :> Host({"AI_AGENT"}, {}))

\* What people set in their own shells.
USER_CONFIGURATION ==
  {<<"CODEX_", "HOME">>}
    \cup ({"CLAUDE_CODE_"} \X
          {"USE_BEDROCK", "USE_VERTEX", "USE_FOUNDRY", "SKIP_BEDROCK_AUTH", "SKIP_VERTEX_AUTH",
           "MAX_OUTPUT_TOKENS", "DISABLE_NONESSENTIAL_TRAFFIC", "ENABLE_TELEMETRY",
           "ENHANCED_TELEMETRY_BETA", "OAUTH_TOKEN", "CLIENT_CERT", "CLIENT_KEY",
           "CLIENT_KEY_PASSPHRASE", "GIT_BASH_PATH"})

PERSON_TERMINAL_DECLARATION == <<"HIKMAH_", "AGENT_SESSION">>

is_agent_marker(name) ==
  /\ name \notin USER_CONFIGURATION
  /\ \E host \in DOMAIN HOSTS :
       \/ name[1] \in HOSTS[host].exact /\ name[2] = ""
       \/ name[1] \in HOSTS[host].prefixes

\* Is there a session?  Its host and id only name it.
detect(vars) ==
  LET set == {name \in DOMAIN vars : vars[name] # ""}
  IN /\ ~(PERSON_TERMINAL_DECLARATION \in set /\ vars[PERSON_TERMINAL_DECLARATION] = "0")
     /\ \E name \in set : is_agent_marker(name)

=============================================================================
