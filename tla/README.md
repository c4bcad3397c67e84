# A formal model of the Hikmah kernel

TLA+ modules, TLC configurations and TLAPS proofs for the Rust kernel in
`src/runtime/hikmah-kernel`. The kernel is a command-line program: every CLI
command, hook and Python call is a process of its own, and all of them share
one append-only JSONL ledger on disk. What is hard about it is that sharing:
stale in-memory handles, readers without a lock, crashes between two writes,
batches cut short, and files changed by something else. The model therefore
starts there, and the pure parts follow.

`PROJECT.json` says which lines each definition translates, which properties
each run checks, and which hazard each property is for.

## The system

| Component (file in `src/runtime/hikmah-kernel/src`) | State | Operations | Correct means | Model |
|---|---|---|---|---|
| Ledger storage (`ledger.rs`) | the ledger file, `<store>.head`, `<store>.lock`; per handle the replayed records, the byte offset and the head read at load | `open`, `append_batch`, `sync_tail`, `check_head_before_write`, `accept_tail`, `reset_head`, `verify_report` | one chain whatever happens; the head never ahead of what is synced; acknowledged records survive; tampering stays visible; no false alarm | `Ledger`, `AckLog` |
| Trace life cycle (`ledger.rs`, `trace.rs`) | the trace map replayed from the events | `remember`, `remember_many`, `fulfill`, `purge` | a trace is resolved once, by someone allowed to, and outcomes resolve open predictions, although every check was first made on a stale copy | `Traces` |
| Successor links (`recall.rs`, `why.rs`) | none, derived | `annotate_links`, `provenance_chain` | the shown successor is the one that applied; recall, why and conflicts agree | `Traces`, `Recall` |
| Recall ranking (`recall.rs`) | none | score, fold duplicates, select | complete short of the limit, nothing irrelevant, relevance before importance, under every accepted policy | `Recall` |
| Planner (`planner.rs`) | queue, seen set, budget | `plan` | a returned plan is valid and shortest; "not found" is a proof unless the budget stopped it | `Planner` |
| Focus capsule (`focus.rs`) | at most `capacity` items, pins | `absorb`, `pin`, `unpin` | pinned traces stay, capacity holds, what is evicted is worst | `Focus` |
| Decision (`decision.rs`), council (`council.rs`) | none | `evaluate`, `deliberate` | a decisive winner wins for every value of the unknowns; a reversible option is preferred only within the band; every missing score is asked for once; the council blocks at its limits | `Decision`, `Council` |
| Decision port (`decision_port.rs`) | none; an engine's answer | `ask`, admission of answers, `prediction_traces`, `Forecast::into_trace` | abstention and bad answers never count as answers; what is recorded can be scored | `DecisionPort`, `Forecasts` |
| JEV engine (`jev.rs`) | attempts, one time budget | `post_with_retries` | an answer or an error within the budget | `JevEngine` |
| Calibration and threshold (`calibration.rs`, `threshold.rs`) | none, derived | latest outcome, scores, `choose_threshold` | every prediction in one row, one outcome each; the threshold is the best admissible one | `Calibration` |
| Truth Gate (`hook.rs`) | none | read the event, rules, engine, verdict, then a recorded prediction | one clause never excuses another; damage does not turn the gate off; a late or failing engine falls back to the rules, in time; recording never changes the verdict | `GateRules`, `TruthGate` |
| Principal (`principal.rs`), batch command (`main.rs`) | environment of the process | detect a session, stamp a trace, write record by record | an agent never passes for a person; what a command wrote is a beginning of its input | `Principal`, `Batch` |
| Claims, consolidation, commitments (`claims.rs`, `consolidation.rs`, `prospective.rs`), deadlines (`trace.rs`) | none, derived | queries over active traces; `parse_deadline` | complete, and nothing promoted on contested or uncounted evidence; a deadline is the day it names | `Claims`, `Deadlines` |
| Policy (`policy.rs`) | none, read once | `from_json`, `validate` | no accepted file breaks what recall promises | `Policy` |
| Validation (`validate.rs`) | none | `validate` | an accepted repository has skills that can be followed | `Validate` |
| Secrets (`secrets.rs`) | none | scan a string | - | not modelled: what a pattern matches in one string |
| Python client, Python hooks, benchmarks | none | start kernel commands, match strings | - | not modelled: a call is a process of `Ledger` |

Components meet in four places. The trace operations call `append_batch`
after `prepare_remember`, so `Traces` treats an append as one step and `Ledger`
shows what that step is made of. Recall, why, calibration, claims and
consolidation read the trace map of a handle that may be out of date. The
hook, the CLI and the Python client open handles of their own and meet only in
the files and the advisory lock. A policy is read by every command that opens a
store, so what recall and consolidation promise is stated for every accepted
policy. The fourth is the decision port:
the hook, `ask` and `decide` hand an engine a request and admit its answers
through the same code, and what they record is what calibration and the
threshold of the hook are computed from later.

## The modules

### `Ledger`: the storage protocol

*State.* `file` is the sequence of complete lines, `frag` what stands after the
last newline (nothing, a torn record, a whole record without its newline, or
text that was never a ledger). `head` is what `read_head` returns: missing,
unreadable, or a head naming a hash. `synced` and `heads` describe what a power
loss can do: take lines no `sync_data` covers, and bring back a head whose
replacement was renamed but not synced. Each process has a program counter
`pc`, and a handle: `recs` (`MemoryStore.records`), `off` (`offset`), `hload`
(`head_at_load`). `batch` and `wrote` are the append it is in. `stored`, `done`,
`unheard` and `faults` are history.

*Hashes.* A record's hash commits to its seq, the previous hash and the
payload. It is modelled by the sequence of all payloads up to the record, so
two hashes are equal exactly when the whole histories are, the length is the
seq and the Front is `prev_hash`. A handle's whole record list is then one
value, the hash of its last record.

*Actions.* `OpenHead` and `OpenLedger` are the two reads of `load`, with
anything in between. `StartAppend`/`StartPerson`, `Lock` or `LockBusy`,
`SyncTail` or `SyncTailRefused` are the way into every writer; then either
`CheckHead`, `WritePart`/`WriteLine` (write_all seen by a reader or a crash in
the middle), `WriteDone`, `SyncData`, `HeadRename` (write_head) and `AppendOk`,
or `AcceptTail`, or `ResetHead`. `VerifyNow`, `VerifyTail`, `LockShared` and
`VerifyRecheck` are `verify_report` and `acknowledged_now`. `Step`'s other
disjuncts are the early returns. A return drops the lock.

*Abstractions worth knowing.* `validate_batch` may refuse any batch here
(`AppendRefused`), because what it looks at is the subject of `Traces`. A handle
that loaded a torn or bare last line carries two flags for it; `sync_tail`
recomputes both before it looks at them, so they are left out. Faults that come
from other programs (`ForeignAppend`, `Edit`, `HeadLost`) happen while no kernel
writer holds the lock: a program that ignores the lock and writes in the middle
of a kernel write is outside the model. An edit removes the last lines or
replaces the last one by one of the same length, which is all that differs to
a protocol that compares hashes; a file shortened below a handle's offset and
then grown past it to another record boundary is covered by that, one grown to
an offset inside a record is not.

*Callers.* A process appends a batch again only when no append of it has
returned Ok, so every payload is one intended write. A caller that is killed
between the rename of the head and Ok has stored its batch and cannot know it:
the head matches the file, so nothing stops the retry, and traces without ids of
their own are stored and acknowledged a second time (an id of the caller's would
be refused as known). `unheard` is what was in such an append;
`NoSilentDuplicate` promises nothing about it.

### `AckLog`: what the ledger promises

The log of acknowledged payloads: a write adds one whole batch, a person may
accept more or reset it, a power loss may bring an earlier state back, the head
may be damaged, and a damaged head may be what a power loss brings back. `Ledger` is checked to implement it with `acked <- head` and
`past <- heads` (property `AckedLog`): every step of the protocol is one of
those five, or invisible.

### `Traces`: what the events mean

`log` is the ledger's events. `seen[p]` says how much of it p's handle has
replayed, `plan[p]` is a batch prepared against that view and not yet written.
`Prepare` is one turn of `remember_many`'s loop (`prepare_remember`), `Change`
is `fulfill` or `purge`, which check nothing beforehand, `Commit` and `Refuse`
are `append_batch` under the lock (`validate_batch` in full, the head check,
the handle catching up), `CutShort` an append that stops before its head
update. `Status` is the replay of `apply_payload`. `Successors` is the set
`recall` and `why` choose from; which member they show depends on the order of
ids, which are hashes, so a property has to hold for every member.

The trace's contents, privacy class, numbers and claim fields are left out, and
so is the check that an outcome lies in its prediction's answer space: no
property here can tell them apart. `headed` and `acked` stand for the head;
`StartHead = TRUE` is a store with an earlier history that these ids do not
name.

### `Batch`: one command, many records

`remember` and `remember-batch` on top of `Traces`. `Start` is everything that
happens before the store is opened: each record is built and stamped
(`Admitted`), or the command is refused. Then each record goes through
`RecordPrepared` and `RecordCommitted`, or is refused (`RecordRefused`,
`AppendRefused`), while other processes run the same commands and purge.
`written` counts what the command stored; `byAgent` is history. Commands killed
inside an append are the subject of `Traces_torn`; here a command is killed
between two (`Finish`).

Whether a command runs for an agent is not something the kernel is told: it
looks at the environment. `Agents` says who an agent is, `Environment` which
variables the shell of each process may have, and `Principal` is `detect` over
them: markers by name and by prefix, the settings people export themselves, a
blank value, and the declaration of a person's terminal. A variable is a prefix
some host may own and the rest of its name. `AgentsAttestNothing` is stated
about `Agents`, so it says that detection and stamping together keep an agent
from attesting. A person whose own shell looks like an agent's is refused too;
that is no violation. The name of the host, the session id and the locator that
`stamp` writes are left out.

### `Planner` and `Focus`: components that only compute

`Planner` is `plan` with one turn of the search loop per step. A fact is a
sequence of words, because `state_key` joins the facts of a state with the
separator U+001F: a fact that contains the separator looks like two
(`Key`). `AtDepth`, `Trail` and `IsPlan` say what planning means without a
search, and the properties compare the answer with them. In a problem where two
states within the depth have the same key the search may miss a plan, or a
shorter one; `MCLookAlike` is such a problem. The properties about whole
searches exclude it (`KeysDiffer`). Two actions with one name give a plan that
does not say which of them is meant; here an action is its place in the list.

`Focus` is the focus capsule: `Absorb` with merge, stable sort and truncation,
`Pin`, `Unpin`. Activations are numbers of which only the order counts; NaN is
left out. Recalls give each trace at most once, in any order. Its one property,
`FocusKeepsTheBest`, is about steps: the capacity holds, a pinned trace stays,
nothing leaves or is turned away before the capsule is full, and what does is no
more active than the unpinned traces that stay. A capsule full of pins takes
nothing of a recall in, as in the code.

### `JevEngine`, `DecisionPort` and `TruthGate`: a verdict in time

`JevEngine` is `post_with_retries`: a request with what is left of the budget
as its timeout (`Post`), the server's answer (`Respond`), a back-off that has to
end before the deadline (`MayRetry`), and a sleep that may end late (`Wake`,
`MaxLate`). Time is counted in ticks of 250 ms, the first back-off; only waiting
takes time. A request ends at once, after a tick, or at the last moment.

`DecisionPort` has no state. It holds the operators every user of the port
shares: `Admit` (all or nothing), `PredictionTraces` and `ForecastTrace`.
Numbers are in thousandths, so the rounding of floats at a border is left out;
a number that is not finite is `Bad`. Question ids and texts are well formed.

`GateRules` is `rules_match`. A message is a sequence of tokens, each standing
for a class of words or a mark: a word of completion, a promise, a marker, a
negator, a word that makes a marker a name, an idiom that leaves a promise to
the user. What decides is where the tokens stand: within three words, in one
sentence, in one clause, in one segment between commas, next to a quote. `Width`
says how many words a token is. Each list of words of `hook.rs` is a definition
of its own, cut down to the members that differ to the rules. Where `normalize`
drops inline code it puts a space; tokens are apart without one, except that it
parts a quotation mark or a colon from the word next to the code, so messages
with code there are left out (`MessagesAssumption`). Left out is also the window of
200 characters; messages here are shorter. The operators were compared with
`hooks/truth_gate.py`, which mirrors `hook.rs`, on 72 000 random messages spelled
out in words, without a difference.

`TruthGate` is the Stop hook around them. `parse_payload` says what is left of an
event that was damaged on its way: everything, when only an emoji was cut, the
two fields the gate needs, when a number or what follows the object cannot be
parsed, no message, when its own text is broken. `Judged` is `read_stop_event`,
`RulesBlock` the rules about the message that was read. Then `Skip` and `JudgeByRules` without an
engine, `AskEngine`, `WaitForEngine` and `EngineReturns` with one, then
`PrintVerdict`, and only then `RecordPrediction`. The host may end it anywhere
(`Killed`), its pipe may be closed (`PrintFails`), the store may be busy
(`RecordFails`; that a nonblocking writer does not wait is `NonblockingReturns`
of `Ledger`). The cap of 3 s is
well within the 8 s the host gives the hook (`hooks/hooks.json`).

### `Forecasts`, `Decision` and `Calibration`: from answers to scores

`Forecasts` is `ask --record` and `predict`: which predictions reach the ledger.
`CanBeScored` says what an outcome needs to score one.

`Decision` is `decide`: `Chunks` splits the missing criteria into requests,
`SendRequest` sends one and stores the estimates, `Evaluate` ranks. Scores and
weights are integers and everything the code divides by the total weight is
compared before the division. `RecommendationHolds` compares `decisive`
with every completion of the missing evidence, and the recommendation with
every option that was not blocked. `estimate_missing_criteria`
checks the frame before anything is sent; the model's frames have well-formed
names and numbers.

`Calibration` is a function of what one handle has replayed: predictions and
outcomes by id, with their status. Probabilities are parts of `Parts`. Brier
scores, the Z test and the intervals are arithmetic on a row and are left out.

### `Policy`, `Claims`, `Recall` and `Deadlines`: what a memory shows

A memory is the sequence of its traces in the order of their ids; a command that
reads sees one such memory, whatever other processes do meanwhile.

`Policy` is the file: `from_json_accepts` says which are refused, `Loaded` what
an accepted one sets. Weights are in thousandths.

`Claims` holds conflicts (`active_conflicts`, `conflicting_ids`) and
`consolidation_proposals`. A claim's key or value is a word with its case and
white space, because normalisation is what decides there: keys ignore both,
values keep case. `SourceName` counts one source under two names, and
everything nobody signed, once.

`Recall` is `recall`: candidates, `Score` with all the weights of the policy,
`Ranked`, and `diversify` as the loop it is, one `Select` per candidate, with
the duplicates it folds, the penalty and the limit; then the links and
conflicts of each result. Content is the set of its words (`WordsOf`), so
tokenising and stemming are an input. Scores are in thousandths and rounded
down at each product where the code has floats: two scores that differ by less
are a tie here, and the properties do not speak of such differences.
`provenance_chain` is `why`.

`Deadlines` is `parse_deadline` on its parts, a number or not one, and
`commitments_due`. `saturating_add` and `saturating_mul` stop at `MAX_TIME`, in
place of 2^64 - 1.

### `Council` and `Validate`

`Council` is `deliberate`. `Validate` is the release check: a repository is given
by what its manifests say of version and name, a skill by its frontmatter, its
lines of tokens and its links. `Walk` follows a command line through the
binary's options and subcommands as `skill_command_problems` does, one `WalkPast`
per token, `LinkProblem` follows a link through its parts (`Enter`). The
subcommands of `hikmah` have none of their own (`ValidateAssumption`): those of
the `help` that clap adds are left out. `validate` gives the first problem; the order
in which the system lists the skills is a choice.

### `Readers`: one request, one answer

One action per command that reads. What the commands promise is stated without
the way the answer is found: `GateIsHonest` cuts a message at its sentences and
judges the halves; `RecallIsHonest` says what must be shown from the words and
the deadlines alone; `ReadersAgree` compares what recall, why, conflicts and
commitments say of one memory; `DeadlinesAreCalendarDays` counts days by
months and years; `SkillsCanBeFollowed` asks whether some reading of a command
line fits the binary, and where a link ends up. The properties about recall and
consolidation quantify over policy files, those at the limits of what is
accepted included, and exclude by name what such a file may really turn off
(`FloorCounts`, `Insists`, `redundant_at > 0`).

### Said differently

Some things the doc comments say a little differently than the code, seen while
translating: `decisive` wants a strictly greater bound where the doc of the field
(decision.rs:111) says "at least", and the `p` of a score is the confidence, or
unknown, when the reported distribution leaves out the nearest level, although
the doc of the field (trace.rs:156) reserves unknown for answers with neither.
The comment on `check_skill_links` (validate.rs:340) wants a link to resolve to an
existing file; `exists()` (validate.rs:406) also says yes to a directory, the
skill's own included. `InSkill` takes both, and so does `SkillsCanBeFollowed`.
recall.rs:11 says that a shared word lifts the cue to `match_floor`; it lifts the
lexical part, and beside tags the cue is `cue_lexical` of that. A condition
between two promises without a comma is in the segment of both and excuses both,
where the doc of `is_offer` (hook.rs:411) has nothing reach past a neighbouring
promise.

And some limits the translation made plain: a policy with `redundant_at = 0` is
accepted and recalls nothing; one with `undated_commitment_urgency = 1` recalls
every undated commitment, whatever was asked; one with a long
`prospective_scale_days` counts commitments of the future as overdue, and recalls
them without a cue: the urgency, cast to `f32` (recall.rs:227), is exactly 1 as
soon as the time left is at most a 33 554 431st of the scale, 18 ms on the default
scale of 7 days, and nothing limits the scale; one whose two lexical weights are 0
recalls nothing by words. The word after `placeholder` is looked for beyond the
end of the sentence (`PlaceholderThenText`). `why` filters only the successor by
privacy, not predecessors and conflicts. A skill counts as wired to the kernel by
"`hikmah-kernel`" in a code span and does not by a command in fenced code. Two
skills cannot have one name, because each has its directory's, so that check never
fires. A message whose own JSON text is broken is not judged.

### Definitions marked "Slip"

Some definitions have a second version before them, named after the slip it
makes: a dropped guard, a missing sync, a lock that does not exclude. None is
part of a specification. With the slip in the place of the original, TLC finds the
property of the run named in `PROJECT.json` violated: each property is shown
to depend on the code that should make it true.

### `MCLedger`, `MCTraces`, `MCBatch`, `MCReason`, `MCReaders`

Instances: the batches of each process, the drafts callers write, and the
symmetry sets. `Traces` is symmetric in processes and ids; `Ledger`'s
processes have different batches and are not. `MCReason` puts the components
that compute over what one process holds into one state machine, one request
at a time; a component nobody asked is idle. `MCReaders` does the same for the
commands that read; its messages, memories, policy files, dates and repositories
are built around the borders each property is about.

## The runs

| Run | Question | Bounds, and why they are enough |
|---|---|---|
| `Ledger_kill` | Do chain, head and handles stay sound under kills, full disks, foreign appends and head loss; is the protocol the abstract log; does a verifier without a lock ever raise a false alarm? | two processes, one with a batch of two and one with a batch of one, so that a reader can see half a batch and catch up after the whole; two faults, one to leave a mess and one during its repair; from a fresh and a non-ledger file (a foreign append to a fresh one gives a ledger without a head), up to four lines |
| `Ledger_power` | What is synced when a head names it, what survives, what does a retry store? Does everyone return? | three faults: a failed append, a power loss and one more during the retry, also a kill between the head and Ok; five lines; one nonblocking writer |
| `Ledger_edit` | Is tampering still visible after other handles have written? | three faults: an edit, then the length restored by a foreign append or a second edit, under open handles |
| `Traces_race` | Corrections, outcomes, fulfilments and purges over stale handles, equal ids | two processes and three ids: a trace and two competing corrections, the smallest race; five events, two corrections of one trace |
| `Traces_torn` | Do life cycles stay sound over half a batch, even an accepted one? Does anyone but a person accept one? Can a model correct a person, or a trace nobody attested an attested one? | drafts of people and models, attested ones of people; one cut, batches of two, four events |
| `Batch_session` | Is what a command wrote a beginning of its input wherever it stops? Can an agent session get anything attested, or replace what is? | a person's process in four kinds of shell and an agent's in seven, inputs of up to two records with every flaw, three ids, four events: enough for a correction that overtakes the other process between two records |
| `Reason` | Does each component that computes over what one process holds keep its promise? | *planner*: every list of up to three of six actions, three goals, depths 2 and 3, budgets that stop the search and that do not; *capsule*: three traces, two activations, recalls of up to two, capacities 1 and 2; *hook*: every kind of damage and of `stop_hook_active`, messages the rules block, let pass, or skip, two retries, a sleep one tick late, budgets below, at and above the cap, every kind of answer, probabilities at and around thresholds and lifts; *forecasts*: two questions at once, clear, tied, rounded and broken distributions; *decide*: two options with every combination of known, unknown and tied scores, and three options of up to three criteria for an engine, two questions to a request and texts that fit, just fit and do not; *reports*: two predictions of every sort with up to two outcomes of equal and different times, four judged answers for a threshold |
| `Readers` | Do the commands that read keep their promises, and agree? | *messages*: two sentences of up to two tokens over the words of each rule, and three to five tokens after a claim of completion, for conditions and promises with commas in between; *recall*: every memory of up to three of eleven traces, with five questions, and of two with eleven policy files at their limits, one of them with a scale so long that a commitment due in 59 hours counts as overdue and one due in 60 does not; eight files that are refused; *links*: every history of three traces that corrections can leave, with one of them hidden, and a chain of four where two are followed (`MAX_CHAIN`, 64 in the code); *consolidation*: every four of sixteen witnesses; *commitments*: three around now and the horizon; *dates*: the borders of every month in nine years, and times; *council*: every five counts up to 4; *skills*: command lines of up to three tokens in every place of a page, links of up to four parts to files, directories and neither |
| `Ledger_accept_sync`, `Traces_first`, `Traces_links`, `Batch_refused` | disagreements between code and comments, below | the smallest that shows each |

Bounds: `MaxLen`/`MaxLog` limit the lines a write may reach, `MaxFaults` and
`MaxTorn` the faults, `MaxBatch` the traces of one `remember_many`. A process
that reaches a bound can still open, verify, be refused and close, so deadlock
is checked everywhere but in `Reason` and `Readers`, where an answered request
stops.
The inductive invariants of the proofs are checked by runs as well: `LedgerInv`
by `Ledger_kill`, with everything but edits and power losses (the proof covers
power losses too), and `InductiveInv`, which holds the types, of `Ledger` by
`Ledger_edit` and of `Traces` by `Traces_torn`.

*Fairness.* `WF` on `Running(p)`: a process that is inside an operation is
running code that does not wait for anything, so it takes its next step. What
callers start, and the faults, are never fair. `flock` is not a queue: the
kernel's code gives no promise that a waiting process ever gets the lock.
`FairSpec` therefore assumes `SF` on `LockShared`, and on `Lock` for processes
that wait: the operating system does not pass over one waiter for ever.
`EveryoneReturns` needs that assumption. A nonblocking writer gets no such
promise, and returns all the same. Both are checked in `Ledger_power`, where
processes open, append and verify; the returns of `accept_tail` and
`reset_head`, which drop the lock the same way, are in no run with fairness.

## What disagrees with the code's own words

1. **Heads before syncs** (`Ledger_accept_sync`). `load` relies on "heads are
   written only after their records are synced". `accept_tail` and `reset_head`
   write a head without syncing the ledger. A writer killed before `sync_data`, an
   accept, and a power loss leave a head naming records that are gone.
2. **Half of a first batch** (`Traces_first`). "Either every trace is stored or
   none is" holds behind a head: the unfinished batch is refused until a person
   accepts it. In a store whose first write was cut short there is no head yet,
   and the next ordinary write acknowledges the half that is there.
3. **recall's successor** (`Traces_links`). It is taken from the `supersedes`
   field of the traces, not from the Supersede event that applied. Half a
   correction, accepted, leaves a trace with that field and no event.
4. **why's successor** (`Traces_links`). The same, shown even for a trace that is
   still active.

5. **Refused batches** (`Batch_refused`). "Every record is validated before the
   store is opened, so a refused batch writes nothing". Only building and
   stamping happen before; `Trace::validate` and everything that depends on the
   store happen record by record, after the earlier ones were written.

Findings 2 to 4 need a batch cut between two complete lines; without that the
links are right (`Traces_race`).

## What is proved

The proofs are checked by TLAPS. They hold for every set of processes, payloads,
ids and events, every batch, every bound, and every set of operations and
faults the statement does not exclude. The constants satisfy the assumptions
their modules name (`LedgerAssumption`, `TracesAssumption`, `BatchAssumption`,
`PlannerAssumption`, `JevAssumption`, `BackoffAssumption`, `GateAssumption`,
`FocusAssumption`, `CalibrationAssumption`, `StoresAssumption`,
`DecisionAssumption`, `FramesAssumption`, `DeadlinesAssumption`,
`ReadersAssumption`, `MessagesAssumption`, `ValidateAssumption`, `ReposAssumption`), which TLC evaluates in the runs; what a theorem assumes
beyond that is in its `ASSUME`. The constants of the components that compute are
the sets of what they may be given: `StoresAssumption`, `FramesAssumption` and
`ReadersAssumption` say that these are finite records of numbers of the ranges
the code's types and its parsers allow, and `ReposAssumption` that a skill is
lines of tokens and links of parts. One assumption says more: the traces of a
memory are linked as corrections link them (`Linked`). A trace that was replaced
is no longer active, was replaced by one other, and was there before it. That
every process sees such a memory is a theorem of `Traces`, `MemoriesAreLinked`,
as long as no batch is cut in two; findings 3 and 4 are the histories, with a
batch cut in two, of which it is not true.

### The ledger: `Ledger_proofs`

While nobody edits the file, `LedgerInvariant` holds, and from it
`ChainUnbroken`, `WriterCurrent`, `HeadNeverAhead` (no power loss),
`HeadsSynced` (no accept and no reset: finding 1 is exactly why) and
`AcknowledgedDurable`.

*The argument.* That the file is a chain is not inductive: a writer with an
outdated handle would break it. `LedgerInv` adds what keeps that from
happening. One process at a time is past the lock. Every handle, also the
stale ones, has replayed a prefix of the file (`Replayed`). For the one
writer, `StageInv` follows the batch: after `sync_tail` its handle is the
whole file; while it writes, the lines past its offset are the first lines of
its own batch, each extending its last hash (`InFlight`); when it writes the
head, everything is synced. A step of a process keeps the invariant in one of
three ways, each a lemma: it leaves the lines alone (`QuietStep`), it ends an
operation or a handle (`ReturnStep`, `DropStep`), or it is the one writer
extending the file (`WriterStep`, `NextLineFits`). Everybody else is covered by
`OthersKeep`. `InvFailure` does the faults: a crash leaves the lines where they
are, a power loss cuts the chain and clears every handle, a foreign append
extends it.

The second half is about what a ledger promises with edits as well.

- `InductiveInvariant`: `TypeOK` and `HeadInv`, in edited ledgers too. `HeadInv`
  ties the head to the append under way: between the check of the head and its
  update, the head still names what the writer's handle stood on when it
  checked, and what it will name is that and the whole batch.
- `LedgerImplementsAckLog`: every step is a step of `AckLog` or invisible. An
  append that returns is a write of one whole batch because of `HeadInv`.
- `OtherFilesUntouched`: an action property; text that was never a ledger is not
  written to.
- `LossIsNotHidden` (`EvidenceKept`): while no fault damages a head or brings an
  earlier one back, a file that lost acknowledged lines does not match its head,
  whatever is written on it, until a person accepts or resets it. The head names
  at least the longest ledger an append has returned Ok for (`HeadNamesDone`):
  a writer replaces it only by one that goes on from the head it checked.
- `PassIsEarned` (`PassMeansAcknowledged`): a verifier that reports a pass has
  replayed what some head named (`PassInv`), however the reads interleaved.
- `RetriesStoreOnce` (`NoSilentDuplicate`): a batch appended again after a failure
  is acknowledged once, unless its caller was killed between the head and Ok
  (`unheard`). `OnceInv` says that every head so far names a payload that is not
  `unheard` once, and only those that were there, whose append returned Ok, or
  is about to. Assumed: the store has a head, processes have payloads of their
  own, nobody accepts or resets, no fault damages the head.
- `NoFalseAlarmEver`: assumes nothing. `NoFalseAlarm` itself speaks only of
  histories without faults, so the invariant `Quiet` does too: the head names
  lines of the file, and all of them while nobody writes; a head that a handle
  remembers names no more than the handle has replayed. A verifier may see a
  file longer than its head while a writer is at work; that is why it looks
  again under the lock, and `QuietVerdict` shows that this is enough.

### Trace life cycles: `Traces_proofs`

Every check of `prepare_remember` was made on a view that may be out of date
when the batch is written. `TracesInv`, the inductive invariant, says what is
left of it: each event of the log fits what stands before it, and each plan
fits the view it was drafted on, which is a prefix of the log. `Commit` checks
again what other processes can have changed in between (`ValidBatch`); what it
does not check again, authorship and attestation, cannot change once an id is
given to a trace. `PrepareFits` is the one turn of the loop, `FittingIsAuthorized`
what fitting means for a correction.

- `TypeCorrect`, `InductiveInvariant`: for every number of processes, ids, cuts.
- `OneTracePerId`, `OneCorrectionApplies`, `OnlyTheAuthorizedCorrect`,
  `OutcomesNameOpenPredictions`: each for every event of the log.
- `LivesGoForward` (`StatusMoves`): no step undoes or repeats a resolution.
- `PartsStayUnacknowledged` (`AllOrNothing`): for a store that has a head
  (`StartHead`); `Traces_first` shows why that is assumed.
- `CorrectionsStayWhole`, `LinksShowWhatApplied`: where no batch is cut short
  (`MaxTorn = 0`); `Traces_links` shows why that is assumed.
- `MemoriesAreLinked` (`HandlesSeeLinkedTraces`), under the same assumption, and of
  every handle, also a stale one: no handle ends between the two events of a
  correction (`HandlesSeeWhole`). Two corrections of one trace would be two
  supersessions of it, and of a circle of corrections the one remembered first
  would replace a trace that was there before it (`WholeIsLinked`).
  It is about what `Readers` assumes and stands in the proofs; no run checks it.

What `Status` finds is the last event about a trace. That there is a last one
is not proved by induction, which is out of the provers' reach here, but from
the least element of a set of numbers (`WFMin`).

### Commands: `Batch_proofs`

Each step of a command is a step of `Traces`, a record drawn up, or a plan thrown
away (`BatchSteps`), so the invariants of `Traces` hold here and the log only
grows (`LogGrows`). `CommandFits` says what the plan of a command is of its
input.

- `WhatIsWrittenIsABeginning` (`WritesABeginning`): assumes nothing.
- `AgentsNeverAttest` (`AgentsAttestNothing`): assumes `HostsMark`, that the shell
  of every agent has a mark `detect` knows. The kernel cannot do more: it is
  told nothing else. That unmarked agents are not in the promise is also what
  `principal.rs` says.

### The Stop hook: `TruthGate_proofs`

- `VerdictInTime` (`AnswersInTime`): `TimeInv` says where the time is. A request
  ends by the deadline because what is left of the budget is its timeout; a
  back-off would end before it; so only a sleep that ends late passes it, and
  then no further request is sent. The budget is at most the cap whatever the
  environment says (`BudgetWithinCap`). `BackoffAssumption` says that a power of
  two is a number, which the provers do not know.
- `VerdictIsRight` (`VerdictFollows`): nothing is printed before the verdict is
  settled, and nothing it depends on changes afterwards (`VerdictInv`,
  `SettledStays`). `AnswerIsGiven` is admission: an answer counts exactly if the
  engine gave the one thing it was asked for. `DamageReadsRight` compares
  `parse_payload` with what a judge of the event as sent would do. The rules
  themselves (`rules_match`) are any function here; what they say of a message
  is the subject of `GateIsHonest`.

### The planner: `Planner_proofs`

- `PlansAreShortest` (`SearchIsRight`), for every list of actions, depth and budget.
  `QueueInv` is the order of the queue: its paths are sound, their lengths do
  not fall and differ by at most one, no key is in it twice, and no state is
  farther in it than it is. `SearchInv` says what was seen: no goal, and
  whatever follows a state that has left the queue. From both,
  `NearerIsSeen`: every state at most as far as the whole queue was seen. So a
  new key is a new nearest state, the first goal found ends a shortest plan, and
  an empty queue leaves nothing within the depth. The parts about distance hold
  where states are told apart by their keys (`KeysDiffer`); that a returned plan
  can be carried out holds without.

The recursive functions of the properties (`AtDepth`, `Trail`) are proved to
satisfy their equations (`AtDepthIs`, `TrailIs`) from the least number for which
they would not, and so is what else needs induction on a number here. The
successors of a state join the queue by `InOrder`, the increasing sequence of the
places of some actions; the sort of the community modules would do, but the
provers have no definition of `SortSeq`. `OrdersExist` shows that there is one.

### Sums, sorts and recursion: `Finite_proofs`

What is computed over a set or a sequence is proved without an induction theorem:
if a claim failed for some number, it would fail for a least one (`LeastOf`,
`NoSmallestBad`), and the step from its predecessor contradicts that.
`RecursionExists` gives a recursive function its equations this way, `FoldExists`
and `SumFoldIs` give them to the folds of the community modules, so that a sum
over a set is the sum without one member, plus that member (`SumAdd`,
`SumUnion`, `SumMonotonic`). `ArrangedIs` says that sorting a finite set by a total
order gives each member one place, in the order; it is proved for `Arranged`
(`Sorting`), because the provers have no definition of the `SortSeq` of the
community modules. That a sort is stable is in the order it is given, which
compares places when it finds two items alike.

### Commands that compute: `Reason_proofs`

- `EveryPredictionCountsOnce` (`CountedOnce`) and `ThresholdsAreBest` (`ThresholdIsBest`).
  The invariant `Reported` ties the report to the store it was made from. A
  probability is in one bin because bins are half open but for the last
  (`OneBin`), and turning a noul answer to its likelier side turns its outcome
  as well, so the miss stays the same (`SidesMissAlike`). Whatever a
  threshold catches, the lowest observed probability it catches does the same
  (`ObservedWillDo`); that is why the code need only try the observed ones.
- `CapsuleIsBounded` (`FocusInv`: never more than the capacity, and no trace twice) and from it `FocusIsKept` (`FocusKeepsTheBest`), an action property.
  `JoinedIs` says what an absorb does to each trace before the sort, `SortedIs`
  that the sort moves everything and loses nothing, `AbsorbIs` what the cut leaves.
- `RecommendationAlwaysHolds` (`RecommendationHolds`). `CompletionBounds` shows the
  score interval to be exact: both ends are reached by some completion of the
  missing scores, nothing lies outside. `SettledIs` follows for `decisive`, and
  `SafeIs` from the order of the ranking (`RankingOrders`) and the place of the
  first reversible option within the band (`PlaceIs`).
- `RequestsAlwaysCover` (`RequestsCoverMissing`). `DecisionInv` says that the requests
  sent and those still to be sent are together what was to be asked; estimates
  arrive between two requests and must not change what the next one asks.
  `ChunksCover` follows the loop that packs the questions, one `AddQuestion` after
  the other.
- `PredictionsAlwaysScorable` (`PredictionsCanBeScored`). `ForecastInv` adds to it that
  an engine's decision is the whole of a response that was admitted, or leaves
  everything open (`Considered`).

### Commands that read: `Readers_proofs`

What was answered is what the command computes of what it was asked (a lemma,
`AnswersFollow`). So for every input:

- `CouncilAlwaysBlocks` (`CouncilBlocksAtItsLimits`): the ratios and comparisons of
  `deliberate` come down to one limit per lane.
- `PromotionIsAlwaysEarned` (`PromotionIsEarned`), both ways: what is promoted was
  earned (`PromotedIsEarned`), and what was earned is promoted
  (`EarnedIsPromoted`), where the blended confidence of a group is at least what
  each member has (`SumAtLeast`).
- `DeadlinesAreAlwaysCalendarDays` (`DeadlinesAreCalendarDays`). The code counts days
  in eras of 400 years that begin in March; `LeapYears` and `DaysBefore` count
  them one leap year and one month at a time, and `CivilDays` shows that both
  come to the same for every date from 1970 on. `DatesRead` and `ReadAreDates`
  show that exactly the days of the calendar are read.
- `RecallIsAlwaysHonest` (`RecallIsHonest`). Scores first: every part of a score
  is between 0 and one, so a shared word or a late deadline lifts a trace over
  the minimum, no commitment counts as overdue but those that `Insists` names
  (`OverdueIs`), and metadata cannot lift one by more than its share. Then the loop
  of `diversify`: `Standing` is its invariant, that each candidate so far is shown,
  or was folded into one that is shown, or waits behind a full list; it is
  carried from one `Select` to the next by the least number at which it would
  fail.
- `ReadersAlwaysAgree` (`ReadersAgree`). From `Linked` a trace has one lineage of
  each length and no circle (`NoCircle`), so the walk of `why` is the one step
  that recall shows and the walk from there; `SuccessorsAgree` does the same
  forwards, `ConflictsOf` says that both commands look at the same other values,
  and `AgendaIs` what stands on the list of commitments, and where.
- `GateIsAlwaysHonest` (`GateIsHonest`). Every rule looks at places around a word
  of completion or a marker, no farther than the sentence reaches. A place of a
  half of the message is a place of the whole, shifted, and in both its
  sentence is the same; so negations, markers and offers are the same there
  (`PartsAreJudged`). The one rule that looks past the full stop is the
  exception the property names. `normalize` is a fold that drops inline code, one
  token at a time.
- `SkillsCanAlwaysBeFollowed` (`SkillsCanBeFollowed`), three loops and what each comes
  to. Counting fences and backticks gives the command lines that a reader sees
  (`RefsAreSeen`). A walk along a command line ends without a problem exactly if
  the line has a reading, which is the set of the tokens that are values of
  options and the place of the subcommand (`FollowedHasReading`,
  `ReadingIsFollowed`). The path a link reaches consists of the steps down that
  no later step goes back above (`Stands`) and has to name a file or a directory
  of the skill; a link escapes exactly where there
  are more steps up than down (`WayStands`); the depth counts those steps off, so
  that the path is them in their order (`KeptIs`).

No string is provably one in this prover, so the lemmas about messages speak of
`Tokens`, which has every string in it and those of the rules.

### Only model-checked

- Liveness, `EveryoneReturns` and `NonblockingReturns`: TLAPS does not do
  `ENABLED`, and so no fairness.

Every invariant and every action property of a passing run is the subject of a
theorem; the runs show them on instances where each has its interesting cases,
and that each fails when the code has the slip named for it.

## Plan

Done: the models and runs of the first plan, and the proofs of every safety
property and action property that the runs check. Next: a verdict recorded by
the hook, judged by an outcome and used by `gate-threshold`: `TruthGate`,
`Traces` and `Calibration` composed.

## Not modelled

- `secrets.rs`, tokenising and term statistics: scanning of strings, with no
  state of their own. What they decide is a member of a small set in the
  modules that ask (a record has a secret or not, a term matches or not).
- `model_port.rs`, JSON transport, argument parsing, the Python client and its
  hooks: input and output around the operations that are modelled.
- Benchmarks, examples and `gate-explain --batch`: they measure or repeat what
  other commands do and keep nothing.
