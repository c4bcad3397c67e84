------------------------------ MODULE Validate ------------------------------
(***************************************************************************)
(* `hikmah validate' (validate.rs): can this repository be released?  Its  *)
(* manifests are given by what they say of version and name, a skill by    *)
(* its frontmatter, its lines of tokens, and its links.  The answer is the *)
(* first problem; the order of the skill directories is the system's.      *)
(***************************************************************************)
EXTENDS Integers, Sequences, FiniteSets, FiniteSetsExt, SequencesExt

CONSTANTS
  Required,  \* the files every release has
  Cli        \* Cli[path]: the options and subcommands of a command

\* An option takes a value or not; the subcommands of `hikmah' have none (main.rs).
ASSUME ValidateAssumption ==
  /\ <<>> \in DOMAIN Cli
  /\ \A path \in DOMAIN Cli : \A o \in DOMAIN Cli[path].options : Cli[path].options[o] \in BOOLEAN
  /\ Cli[<<>>].subcommands # {}
  /\ \A c \in Cli[<<>>].subcommands : <<c>> \in DOMAIN Cli /\ Cli[<<c>>].subcommands = {}

Missing == "missing"

PLUGIN_NAME == "hikmah-stack"

\* A check is a problem and whether there is one.
FirstProblem(checks) ==
  LET failing == {i \in DOMAIN checks : checks[i][2]}
  IN IF failing = {} THEN "none" ELSE checks[Min(failing)][1]

-----------------------------------------------------------------------------

\* A code span is what stands between two backticks of a line, or after the last.
Ticks(line, i) == Cardinality({k \in 1..i : line[k].kind = "tick"})

Opens(line, i) == line[i].kind = "tick" /\ Ticks(line, i) % 2 = 1

SpanAt(line, i) ==
  SubSeq(line, i + 1,
         Min({k \in (i + 1)..(Len(line) + 1) : k > Len(line) \/ line[k].kind = "tick"}) - 1)

IsFence(line) == line # <<>> /\ line[1].kind = "fence"

IsCommand(code) == code # <<>> /\ code[1].kind = "hikmah"

\* Commands in code spans, and on lines of their own in fenced code.
CodeOn(line, fenced) ==
  IF IsFence(line) THEN {}
  ELSE IF fenced THEN {IF line # <<>> /\ line[1].kind = "dollar" THEN Tail(line) ELSE line}
  ELSE {SpanAt(line, i) : i \in {i \in DOMAIN line : Opens(line, i)}}

skill_command_refs(lines) ==
  LET in_fence[n \in 0..Len(lines)] ==
        IF n = 0 THEN FALSE
        ELSE IF IsFence(lines[n]) THEN ~in_fence[n - 1] ELSE in_fence[n - 1]
  IN {code \in UNION {CodeOn(lines[n], in_fence[n - 1]) : n \in DOMAIN lines} : IsCommand(code)}

\* Slip: an option's value is skipped even when it was given with the option.
ValueFollows_Always(path, t) == Cli[path].subcommands # {} /\ Cli[path].options[t.name]

\* Before the subcommand, an option's value must not be read as the subcommand.
ValueFollows(path, t) ==
  Cli[path].subcommands # {} /\ t.kind = "option" /\ Cli[path].options[t.name]

\* Follow the command line from `hikmah' on, token by token. A placeholder in
\* the place of the subcommand ends it.
WalkPast(s, t) ==
  IF s.stopped THEN s
  ELSE IF s.skip THEN [s EXCEPT !.skip = FALSE]
  ELSE IF t.kind \in {"option", "assigned"}
  THEN IF t.name \notin DOMAIN Cli[s.command].options THEN [s EXCEPT !.wrong = TRUE]
       ELSE [s EXCEPT !.skip = ValueFollows(s.command, t)]
  ELSE IF Cli[s.command].subcommands = {} THEN s
  ELSE IF t.kind = "placeholder" THEN [s EXCEPT !.stopped = TRUE]
  ELSE IF t.name \in Cli[s.command].subcommands THEN [s EXCEPT !.command = Append(@, t.name)]
  ELSE [s EXCEPT !.wrong = TRUE, !.stopped = TRUE]

Walk(code) ==
  LET walked[n \in 1..Len(code)] ==
        IF n = 1 THEN [command |-> <<>>, skip |-> FALSE, stopped |-> FALSE, wrong |-> FALSE]
        ELSE WalkPast(walked[n - 1], code[n])
  IN walked[Len(code)]

skill_command_problems(lines) == {code \in skill_command_refs(lines) : Walk(code).wrong}

\* A backtick and `hikmah', with nothing in between: also `hikmah-kernel', but
\* no command that stands in fenced code only.
skill_wires_to_kernel(lines) ==
  \E n \in DOMAIN lines : \E i \in DOMAIN lines[n] :
    /\ Opens(lines[n], i)
    /\ i < Len(lines[n])
    /\ lines[n][i + 1].kind \in {"hikmah", "hikmah-kernel"}

-----------------------------------------------------------------------------

\* A link leads from the directory of its file through its parts. URLs, mail
\* addresses and anchors of the page lead nowhere.
Enter(s, part) ==
  CASE part = "." -> s
    [] part = ".." /\ s.path = <<>> -> [s EXCEPT !.escapes = TRUE]
    [] part = ".." /\ s.path # <<>> -> [s EXCEPT !.path = Front(@)]
    [] OTHER -> [s EXCEPT !.path = Append(@, part)]

\* `exists' says yes to a file and to a directory.
InSkill(skill, path) == path \in skill.files \cup skill.directories

LinkProblem(skill, link) ==
  LET reached[n \in 0..Len(link.parts)] ==
        IF n = 0 THEN [path |-> link.from, escapes |-> FALSE]
        ELSE Enter(reached[n - 1], link.parts[n])
      end == reached[Len(link.parts)]
  IN CASE link.kind \in {"url", "anchor"} -> FALSE
       [] link.kind = "absolute" -> TRUE
       [] OTHER -> end.escapes \/ ~InSkill(skill, end.path)

\* Only Markdown files are searched.
check_skill_links(skill) == \E link \in skill.links : link.markdown /\ LinkProblem(skill, link)

SkillProblem(dir, skill) ==
  FirstProblem(<<
    <<"no SKILL.md", ~skill.written>>,
    <<"no name", skill.name = Missing>>,
    <<"not its directory", skill.name # dir>>,
    <<"no description", skill.description = Missing>>,
    <<"not wired", ~skill_wires_to_kernel(skill.lines)>>,
    <<"command", skill_command_problems(skill.lines) # {}>>,
    <<"link", check_skill_links(skill)>> >>)

\* The plugin lists of the market places may leave out versions, but not names.
ReleaseProblem(repo) ==
  FirstProblem(<<
    <<"file", Required \ repo.files # {}>>,
    <<"json", repo.broken # {}>>,
    <<"no version", Missing \in {repo.cargo, repo.version.codex, repo.version.claude, repo.version.kimi}>>,
    <<"version", \E m \in DOMAIN repo.version : repo.version[m] \notin {repo.cargo, Missing}>>,
    <<"no name", \E m \in DOMAIN repo.name : repo.name[m] = Missing>>,
    <<"name", \E m \in DOMAIN repo.name : repo.name[m] # PLUGIN_NAME>>,
    <<"script", repo.scripts \ repo.files # {}>>,
    <<"no cases", repo.cases = 0>> >>)

\* What the answer can be.
validate(repo) ==
  LET problems == {SkillProblem(dir, repo.skills[dir]) : dir \in DOMAIN repo.skills}
  IN IF ReleaseProblem(repo) # "none" THEN {ReleaseProblem(repo)}
     ELSE IF problems \subseteq {"none"} THEN {"none"}
     ELSE problems \ {"none"}

=============================================================================
