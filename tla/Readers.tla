------------------------------ MODULE Readers ------------------------------
(***************************************************************************)
(* The commands that read and change nothing (main.rs): one request, one   *)
(* answer.  What they promise is stated about the answer without the way   *)
(* it was found.                                                           *)
(***************************************************************************)
EXTENDS GateRules, Deadlines, Validate, Council

CONSTANTS
  Messages,  \* what an assistant may have said
  Lookups,   \* memories with a query and a policy file
  Lineages,  \* memories whose traces replace each other, with a policy file
  Evidences, \* memories that support claims, with a policy file
  Agendas,   \* memories with commitments, a horizon, and a query with the time now
  Times,     \* texts of deadlines, with the time now
  Inputs,    \* what a council is asked
  Repos      \* repositories to validate

\* Counts are not negative. A part of a date is a number or is not one, and it is
\* not later now than any time there is. Confidence is in tenths, and a policy has
\* numbers where numbers are read. A memory is finite, and so are its contents;
\* its traces are in an order, and what is measured of them is not negative. A
\* trace that was replaced is no longer active, was replaced by one other, and
\* was there before it.
Linked(mem) ==
  /\ NoId \notin DOMAIN mem
  /\ \A i \in DOMAIN mem : mem[i].supersedes # NoId =>
       /\ mem[i].supersedes \in DOMAIN mem /\ mem[mem[i].supersedes].status # "active"
       /\ \A j \in DOMAIN mem : mem[j].supersedes = mem[i].supersedes => j = i
  /\ \A T \in (SUBSET DOMAIN mem) \ {{}} : \E i \in T : mem[i].supersedes \notin T

ASSUME ReadersAssumption ==
  /\ MAX_CHAIN \in Nat \ {0}
  /\ Messages \subseteq Seq(STRING)
  /\ Inputs \subseteq [Lane -> Nat]
  /\ \A t \in Times :
       /\ t.now \in 0..MAX_TIME
       /\ t.text.form = "relative" => t.text.count \in Nat \cup {NotANumber}
       /\ t.text.form = "civil" => t.text.date \in Seq(Nat \cup {NotANumber})
                                    /\ t.text.time \in Seq(Nat \cup {NotANumber})
  /\ \A e \in Evidences :
       /\ IsFiniteSet(DOMAIN e.memory)
       /\ \A i \in DOMAIN e.memory : e.memory[i].confidence \in 0..10
       /\ Loaded(e.file).consolidation_min_support \in Nat
       /\ Loaded(e.file).consolidation_min_independent_sources \in Nat
  /\ \A l \in Lookups \cup Lineages :
       /\ DOMAIN l.memory = 1..Len(l.memory) /\ Len(l.memory) \in Nat /\ Linked(l.memory)
       /\ \A i \in DOMAIN l.memory :
            /\ IsFiniteSet(WordsOf[l.memory[i].text]) /\ IsFiniteSet(l.memory[i].tags)
            /\ {l.memory[i].created, l.memory[i].salience, l.memory[i].confidence,
                l.memory[i].authority} \subseteq Nat
            /\ l.memory[i].deadline \in Nat \cup {NoDeadline}
       /\ IsFiniteSet(l.query.words) /\ IsFiniteSet(l.query.tags)
       /\ l.query.now \in Nat /\ l.query.limit \in Nat
       /\ from_json_accepts(l.file) =>
            {Loaded(l.file).recall_limit, Loaded(l.file).recency_scale,
             Loaded(l.file).prospective_scale} \subseteq Nat
  /\ \A a \in Agendas :
       /\ IsFiniteSet(DOMAIN a.memory) /\ DOMAIN a.memory \subseteq Nat
       /\ \A i \in DOMAIN a.memory : a.memory[i].deadline \in Nat \cup {NoDeadline}
       /\ a.query.now \in 0..MAX_TIME /\ a.within \in Nat

\* Inline code does not stand where the space that takes its place would part a
\* quotation mark or a colon from the word it belongs to.
ASSUME MessagesAssumption ==
  \A m \in Messages : \A i \in 2..Len(m) :
    /\ m[i] = Code => m[i - 1] # "open quote"
    /\ m[i - 1] = Code => m[i] \notin {"close quote", ":"}

\* A skill is text of tokens; its links name parts, and start in a directory of it.
ASSUME ReposAssumption ==
  \A repo \in Repos : \A dir \in DOMAIN repo.skills :
    /\ repo.skills[dir].lines \in Seq(Seq([kind : STRING, name : STRING]))
    /\ \A link \in repo.skills[dir].links :
         /\ link.kind \in {"url", "anchor", "absolute", "relative"}
         /\ link.from \in Seq(STRING) /\ link.parts \in Seq(STRING)
         /\ \A k \in DOMAIN link.from : link.from[k] \notin {".", ".."}

VARIABLES request, answer

readVars == <<request, answer>>

Answered(command, input, reply) ==
  /\ request' = [command |-> command, input |-> input]
  /\ answer' = reply

Idle == request.command = "none"

ReadInit == request = [command |-> "none"] /\ answer = <<>>

GateExplain == Idle /\ \E said \in Messages : Answered("gate-explain", said, rules_match(said))

\* No store is opened with a policy that is refused.
RefusePolicy == Idle /\ \E l \in Lookups :
  ~from_json_accepts(l.file) /\ Answered("refused", l, <<>>)

Recall == Idle /\ \E l \in Lookups \cup Lineages :
  from_json_accepts(l.file) /\ Answered("recall", l, recall(l.memory, l.query, Loaded(l.file)))

Why == Idle /\ \E l \in Lineages : \E i \in DOMAIN l.memory :
  /\ from_json_accepts(l.file)
  /\ Answered("why", [memory |-> l.memory, file |-> l.file, id |-> i],
              provenance_chain(l.memory, i, Loaded(l.file)))

Conflicts == Idle /\ \E l \in Lineages :
  from_json_accepts(l.file) /\ Answered("conflicts", l, active_conflicts(l.memory, Loaded(l.file)))

Consolidate == Idle /\ \E e \in Evidences :
  /\ from_json_accepts(e.file)
  /\ Answered("consolidate", e, consolidation_proposals(e.memory, Loaded(e.file)))

Commitments == Idle /\ \E a \in Agendas :
  Answered("commitments", a, commitments_due(a.memory, a.query.now, a.within))

Deadline == Idle /\ \E t \in Times : Answered("deadline", t, parse_deadline(t.text, t.now))

Deliberate == Idle /\ \E counts \in Inputs : Answered("deliberate", counts, deliberate(counts))

ValidateRepo == Idle /\ \E repo \in Repos : \E problem \in validate(repo) :
  Answered("validate", repo, problem)

ReadNext ==
  \/ GateExplain \/ RefusePolicy \/ Recall \/ Why \/ Conflicts \/ Consolidate \/ Commitments
  \/ Deadline \/ Deliberate \/ ValidateRepo

ReadSpec == ReadInit /\ [][ReadNext]_readVars

-----------------------------------------------------------------------------

\* The Truth Gate.

ClaimsCompletion(said) == rules_match(said \o <<".", "<insert x>">>).rule # "none"

AdmitsOpenWork(said) == rules_match(<<"done", ".">> \o said).rule # "none"

\* The one word that is looked for beyond the end of a sentence.
PlaceholderThenText(a, b) ==
  /\ \E i \in DOMAIN a : a[i] = "placeholder" /\ \A k \in (i + 1)..Len(a) : a[k] \in Punctuation
  /\ \E j \in DOMAIN b : b[j] = "text" /\ \A k \in 1..(j - 1) : b[k] \in Punctuation

\* A message is blocked when one of its sentences claims completion and one
\* admits open work, and no sentence changes what another one says: not a
\* negation, a condition, a quotation, a filler word or inline code that
\* stands next to the full stop.
SentencesJudgedApart(m) ==
  \A i \in {i \in DOMAIN m : m[i] = "."} :
    LET a == SubSeq(m, 1, i - 1)
        b == SubSeq(m, i + 1, Len(m))
    IN ~PlaceholderThenText(a, b) =>
         (answer.rule # "none" <=> /\ ClaimsCompletion(a) \/ ClaimsCompletion(b)
                                   /\ AdmitsOpenWork(a) \/ AdmitsOpenWork(b))

\* Beside a claim of completion, a promise passes only if it is left to the
\* user in its own clause, with no other promise in between.
PromisesLeftToTheUser(m) ==
  ClaimsCompletion(m) /\ answer.rule = "none" =>
    \A i \in {i \in DOMAIN m : m[i] = Promise} :
      \E j \in {j \in DOMAIN m : m[j] \in UserGates} :
        \A k \in (Min({i, j}) + 1)..(Max({i, j}) - 1) : m[k] \notin ClauseEnds \cup {Promise}

\* What is looked at is the message without its inline code, and all of that.
CodeIsNotRead(said) ==
  /\ ~Contains(said, Code) => normalize(said) = said
  /\ \A i \in {i \in DOMAIN said : said[i] = Code} : normalize(RemoveAt(said, i)) = normalize(said)

\* And nothing is blocked that claims nothing.
\* (hook.rs: normalize, negated, clause_bounds, is_offer)
GateIsHonest ==
  request.command = "gate-explain" =>
    LET m == normalize(request.input)
    IN /\ CodeIsNotRead(request.input)
       /\ SentencesJudgedApart(m)
       /\ PromisesLeftToTheUser(m)
       /\ answer.rule # "none" => Contains(m, "done")

-----------------------------------------------------------------------------

\* Recall.

Shown == {answer[k].id : k \in DOMAIN answer}

LateCommitment(t, now) == t.kind = "commitment" /\ t.deadline # NoDeadline /\ t.deadline <= now

\* A commitment that is recalled without a cue: late; or due so soon, on the scale
\* of the policy, that its urgency rounds to that of a late one (18 ms on the
\* default scale, years on one that is also accepted); or undated under a policy
\* to which that is as urgent.
Insists(t, now, policy) ==
  \/ LateCommitment(t, now)
  \/ t.kind = "commitment" /\ t.deadline # NoDeadline /\ AsGoodAsDue(t, now, policy)
  \/ t.kind = "commitment" /\ t.deadline = NoDeadline /\ policy.undated_commitment_urgency >= One

\* The policy lets one shared word through; beside tags it is worth less.
FloorCounts(query, policy) ==
  /\ policy.lexical_coverage + policy.lexical_jaccard > 0
  /\ policy.minimum_recall_score <=
       IF query.tags = {} THEN policy.match_floor ELSE Part(policy.cue_lexical, policy.match_floor)

\* Of the traces that the query and the policy let through, those it must show:
\* they share a word with the question, or are overdue.
MustRecall(mem, query, policy) ==
  {i \in DOMAIN mem :
     /\ mem[i].status = "active" \/ (query.history /\ mem[i].status = "superseded")
     /\ mem[i].kind \in query.kinds \/ (query.kinds = {} /\ mem[i].kind # "prediction")
     /\ mem[i].privacy # "sensitive"
     /\ \/ FloorCounts(query, policy) /\ WordsOf[mem[i].text] \cap query.words # {}
        \/ LateCommitment(mem[i], query.now)}

\* Two ways to say the same thing.
NearTwins(t, u, policy) ==
  /\ t.text = u.text \/ Jaccard(WordsOf[t.text], WordsOf[u.text]) >= policy.redundant_at
  /\ ~(/\ t.claim # NoClaim /\ u.claim # NoClaim
       /\ t.claim[1].word = u.claim[1].word
       /\ <<t.claim[2].word, t.claim[2].upper>> # <<u.claim[2].word, u.claim[2].upper>>)

\* What is recalled is complete, short of the limit: a trace that shares a word
\* with the question, however long that is, or is overdue, is shown or counted
\* as a duplicate of one that is shown, and never of one that it contradicts.
\* Only a policy to which any two traces are duplicates, and that one is not
\* refused, recalls nothing at all. (recall.rs: match_floor, diversify)
RecallOmitsNothing(mem, query, policy) ==
  Len(answer) < Max({1, Min({query.limit, policy.recall_limit})}) /\ policy.redundant_at > 0 =>
    \A i \in MustRecall(mem, query, policy) \ Shown :
      \E k \in DOMAIN answer :
        answer[k].duplicates > 0 /\ NearTwins(mem[i], mem[answer[k].id], policy)

\* Nothing irrelevant is recalled, whatever its own weights say, and nothing
\* sensitive.
RecallIsRelevant(mem, query, policy) ==
  \A i \in Shown :
    /\ mem[i].privacy # "sensitive"
    /\ \/ WordsOf[mem[i].text] \cap query.words # {} \/ mem[i].tags \cap query.tags # {}
       \/ Insists(mem[i], query.now, policy)

\* A trace that repeats nothing is above another one whose cue it exceeds by
\* the share that the policy leaves to metadata, however important the other
\* one claims to be.
RecallPrefersTheCue(mem, query, policy) ==
  \A j, k \in DOMAIN answer :
    LET t == mem[answer[j].id]
        u == mem[answer[k].id]
    IN /\ Part(Cue(t, query, policy), policy.relevance_base)
            > Part(Cue(u, query, policy), policy.relevance_base + policy.metadata_share)
       /\ ~Insists(u, query.now, policy)
       /\ \A i \in Candidates(mem, query, policy) \ {answer[j].id} :
            WordsOf[t.text] \cap WordsOf[mem[i].text] = {}
       => j < k

\* All three, for a question that asks for something and for every policy
\* file that is accepted. (recall.rs: recall; policy.rs: validate)
RecallIsHonest ==
  request.command = "recall" /\ HasCue(request.input.query) =>
    LET mem    == request.input.memory
        query  == request.input.query
        policy == Loaded(request.input.file)
    IN /\ RecallOmitsNothing(mem, query, policy)
       /\ RecallIsRelevant(mem, query, policy)
       /\ RecallPrefersTheCue(mem, query, policy)

-----------------------------------------------------------------------------

\* What different commands say of one memory.

\* A correction and what it corrected name each other, in recall and in why.
LinksAgree(mem, policy) ==
  \A k \in DOMAIN answer :
    LET r == answer[k]
    IN /\ r.supersedes # NoId =>
            /\ provenance_chain(mem, r.id, policy).predecessors[1] = r.supersedes
            /\ mem[r.supersedes].status = "superseded"
            /\ \A j \in DOMAIN answer : answer[j].id = r.supersedes => answer[j].superseded_by = r.id
       /\ provenance_chain(mem, r.id, policy).successor = r.superseded_by
       /\ r.superseded_by # NoId => mem[r.id].status = "superseded"

\* What recall shows beside a trace is what `conflicts' reports.
ConflictsAgree(mem, policy) ==
  \A k \in DOMAIN answer :
    answer[k].conflicts =
      UNION {UNION {v.ids : v \in {v \in c.values : answer[k].id \notin v.ids}} :
               c \in {c \in active_conflicts(mem, policy) :
                        \E v \in c.values : answer[k].id \in v.ids}}

\* The lineage of a trace is the trace it replaced and the lineage of that one,
\* as far back as it is followed.
LineageIsWhole(mem, i, policy) ==
  answer.predecessors =
    IF mem[i].supersedes = NoId THEN <<>>
    ELSE LET older == provenance_chain(mem, mem[i].supersedes, policy).predecessors
         IN <<mem[i].supersedes>> \o SubSeq(older, 1, Min({Len(older), MAX_CHAIN - 1}))

\* What is overdue heads the list, and any question that may ask for it recalls it.
OverdueFirst(a) ==
  /\ \A i \in DOMAIN a.memory :
       a.memory[i].status = "active" /\ LateCommitment(a.memory[i], a.query.now) =>
         \E k \in DOMAIN answer : answer[k].id = i /\ answer[k].overdue
  /\ \A j, k \in DOMAIN answer : answer[k].overdue /\ ~answer[j].overdue => k < j
  /\ \A k \in DOMAIN answer :
       /\ answer[k].overdue /\ Visible(a.memory[answer[k].id], Loaded(a.file))
       /\ a.query.kinds = {} \/ "commitment" \in a.query.kinds
       => answer[k].id \in Candidates(a.memory, a.query, Loaded(a.file))

\* Recall, why, conflicts and commitments tell one story about one memory.
\* (recall.rs: annotate_links, why.rs, claims.rs, prospective.rs)
ReadersAgree ==
  LET asked == request.input
      policy == Loaded(asked.file)
  IN CASE request.command = "recall" ->
            LinksAgree(asked.memory, policy) /\ ConflictsAgree(asked.memory, policy)
       [] request.command = "why" -> LineageIsWhole(asked.memory, asked.id, policy)
       [] request.command = "commitments" -> OverdueFirst(asked)
       [] OTHER -> TRUE

-----------------------------------------------------------------------------

\* Traces that count as evidence, and the names under them.
Witness(t) == ~ModelAuthored(t) /\ t.kind # "prediction" /\ t.status = "active"

Signers(mem, traces) ==
  {IF mem[i].source = "A" THEN "a" ELSE mem[i].source : i \in traces} \ {"unknown", "user"}

\* What may be promoted to a belief rests on enough witnesses that somebody
\* named, on no forecast and no model's word, and nobody who counts as a
\* witness contradicts it: of two values of one key at most one is promoted,
\* and of a key that `conflicts' reports none, unless only models object.
EarnedByWitnesses(mem, policy) ==
  LET promoted == {p \in answer : p.eligible}
  IN \A p \in promoted :
       /\ \A i \in p.support : Witness(mem[i]) /\ Key(mem[i]) = p.key /\ Value(mem[i]) = p.value
       /\ Cardinality(p.support) >= policy.consolidation_min_support
       /\ Cardinality(Signers(mem, p.support)) >= policy.consolidation_min_independent_sources - 1
       /\ \A q \in promoted : q.key = p.key => q = p
       /\ \A c \in active_conflicts(mem, policy) : c.key = p.key =>
            \A v \in c.values : v.value # p.value => \A i \in v.ids : ~Witness(mem[i])

\* And a claim that enough people made with confidence, in any spelling, and
\* nobody else contradicts, is promoted. (consolidation.rs)
PromotionIsEarned ==
  request.command = "consolidate" =>
    LET mem    == request.input.memory
        policy == Loaded(request.input.file)
        about(word) ==
          {i \in DOMAIN mem : Witness(mem[i]) /\ mem[i].claim # NoClaim /\ mem[i].claim[1].word = word}
    IN /\ EarnedByWitnesses(mem, policy)
       /\ \A word \in {mem[i].claim[1].word : i \in {i \in DOMAIN mem : mem[i].claim # NoClaim}} :
            /\ Cardinality(about(word)) >= policy.consolidation_min_support
            /\ Cardinality(Signers(mem, about(word))) >= policy.consolidation_min_independent_sources
            /\ \A i \in about(word) : 7 * mem[i].confidence >= policy.consolidation_min_confidence
            /\ \A i, j \in about(word) :
                 /\ mem[i].claim[2].word = mem[j].claim[2].word
                 /\ mem[i].claim[2].upper = mem[j].claim[2].upper
            => \E p \in answer : p.eligible /\ p.support = about(word)

-----------------------------------------------------------------------------

\* Deadlines.

Leap(y) == y % 4 = 0 /\ (y % 100 = 0 => y % 400 = 0)

Lengths(y) == <<31, IF Leap(y) THEN 29 ELSE 28, 31, 30, 31, 30, 31, 31, 30, 31, 30, 31>>

\* Days since 1970 of the first day of a year.
NewYear(y) == 365 * (y - 1970) + Cardinality({n \in 1970..(y - 1) : Leap(n)})

\* Is this date (year, month, day) a day of the calendar from 1970 to 9999?
Exists(date) ==
  /\ Len(date) = 3 /\ FIRST_YEAR <= date[1] /\ date[1] <= LAST_YEAR
  /\ date[2] \in 1..12 /\ date[3] >= 1
  /\ date[3] <= Lengths(date[1])[date[2]]

\* Is this time one a clock shows?
Timed(time) ==
  /\ Len(time) <= 3
  /\ \A k \in DOMAIN time : 0 <= time[k] /\ time[k] <= IF k = 1 THEN 23 ELSE 59

SecondsOfDay == 24 * 60 * 60

\* The day of the calendar a date names, counted from 1970.
DayOf(date) ==
  NewYear(date[1]) + SumFunctionOnSet(Lengths(date[1]), 1..(date[2] - 1)) + date[3] - 1

\* A date is a deadline exactly if it is a day of the calendar from 1970 to
\* 9999, the one it names, with a time of the clock or none; a relative
\* deadline is never before now, however large the number. (trace.rs: parse_deadline)
DeadlinesAreCalendarDays ==
  request.command = "deadline" =>
    LET text == request.input.text
        named == Exists(text.date) /\ Timed(text.time)
    IN /\ text.form = "civil" /\ named =>
            /\ answer.kind = "date"
            /\ answer.day = DayOf(text.date)
            /\ 0 <= answer.second /\ answer.second < SecondsOfDay
       /\ text.form = "civil" /\ ~named => answer.kind = "unparsable"
       /\ text.form = "relative" /\ answer.kind = "time" =>
            answer.at \in request.input.now..MAX_TIME

-----------------------------------------------------------------------------

\* A lane reports the limit it blocks at; more open questions never let work
\* proceed that fewer blocked. (council.rs)
Limit == [evidence |-> 3, memory |-> 2, risk |-> 1, human_impact |-> 1, delivery |-> 3]

CouncilBlocksAtItsLimits ==
  request.command = "deliberate" =>
    answer = {lane \in Lane : request.input[lane] >= Limit[lane]}

-----------------------------------------------------------------------------

\* Skills.

\* Is line n in a block of fenced code?
InFence(lines, n) == Cardinality({k \in 1..(n - 1) : IsFence(lines[k])}) % 2 = 1

\* What stands between two places of line n is a command line to a reader.
ReadAsCommand(lines, n, from, to) ==
  /\ to <= Len(lines[n]) /\ from <= to /\ lines[n][from].kind = "hikmah"
  /\ ~IsFence(lines[n])
  /\ IF InFence(lines, n)
     THEN to = Len(lines[n]) /\ (from = 1 \/ (from = 2 /\ lines[n][1].kind = "dollar"))
     ELSE /\ from > 1 /\ lines[n][from - 1].kind = "tick"
          /\ Ticks(lines[n], from) % 2 = 1
          /\ \A k \in from..to : lines[n][k].kind # "tick"
          /\ to = Len(lines[n]) \/ lines[n][to + 1].kind = "tick"

\* The command lines that a reader of the skill sees.
CommandLines(lines) ==
  UNION {{SubSeq(lines[n], p[1], p[2]) :
            p \in {p \in (DOMAIN lines[n]) \X (DOMAIN lines[n]) : ReadAsCommand(lines, n, p[1], p[2])}} :
           n \in DOMAIN lines}

\* Some reading of the line fits the binary: which tokens are the values of
\* options, where the subcommand stands, and that it has the options after it.
CanBeRun(code) ==
  \E at \in 2..(Len(code) + 1) : \E values \in SUBSET (2..(at - 1)) :
    LET option(k) == code[k].kind \in {"option", "assigned"}
        takes(k) == code[k].kind = "option" /\ Cli[<<>>].options[code[k].name]
    IN /\ \A k \in (2..(at - 1)) \ values : option(k) /\ code[k].name \in DOMAIN Cli[<<>>].options
       /\ \A k \in 2..Len(code) :
            k \in values <=> /\ k > 2 /\ k - 1 < at /\ k - 1 \notin values
                             /\ takes(k - 1)
       /\ at <= Len(code) => ~option(at)
       /\ at <= Len(code) /\ code[at].kind # "placeholder" =>
            /\ code[at].name \in Cli[<<>>].subcommands
            /\ \A k \in (at + 1)..Len(code) :
                 option(k) => code[k].name \in DOMAIN Cli[<<code[at].name>>].options

\* Every step goes down, up, or nowhere; a step down is kept if no later one
\* goes back above it.
Down(step) == step \notin {".", ".."}

Depth(steps, k) ==
  Cardinality({j \in 1..k : Down(steps[j])}) - Cardinality({j \in 1..k : steps[j] = ".."})

KeptSteps(steps) ==
  {k \in DOMAIN steps :
     Down(steps[k]) /\ \A j \in k..Len(steps) : Depth(steps, j) >= Depth(steps, k)}

\* Where a link leads: the steps it keeps.
Target(link) ==
  LET steps == link.from \o link.parts
      kept == KeptSteps(steps)
  IN [n \in 1..Cardinality(kept) |->
        steps[CHOOSE k \in kept : Cardinality({j \in kept : j <= k}) = n]]

\* The link stays in the skill all the way, and leads to something that is there.
Inside(skill, link) ==
  LET steps == link.from \o link.parts
  IN /\ \A k \in DOMAIN steps : Depth(steps, k) >= 0
     /\ Target(link) \in skill.files \cup skill.directories

CanBeFollowed(skill) ==
  /\ \A code \in CommandLines(skill.lines) : CanBeRun(code)
  /\ \A link \in skill.links :
       link.markdown => \/ link.kind \in {"url", "anchor"}
                        \/ link.kind = "relative" /\ Inside(skill, link)

\* A repository is accepted with skills only that can be followed: the binary
\* has every command they name, read with the values of options where they
\* are, and whatever a skill links to exists in the skill alone: as a file or
\* as a directory. And a problem that is reported is one. (validate.rs:
\* skill_command_problems, check_skill_links)
SkillsCanBeFollowed ==
  request.command = "validate" =>
    LET skills == request.input.skills
    IN /\ answer = "none" => \A dir \in DOMAIN skills : CanBeFollowed(skills[dir])
       /\ answer \in {"command", "link"} =>
            \E dir \in DOMAIN skills : ~CanBeFollowed(skills[dir])

=============================================================================
