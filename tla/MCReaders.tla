----------------------------- MODULE MCReaders -----------------------------
(***************************************************************************)
(* Small instances of Readers.                                             *)
(***************************************************************************)
EXTENDS Readers

UpTo(n, set) == UNION {[1..k -> set] : k \in 0..n}

-----------------------------------------------------------------------------

\* Messages of two sentences, over the words one rule looks at.

MCPair(n, words) == {a \o <<".">> \o b : a \in UpTo(n, words), b \in UpTo(n, words)}

MCMessages ==
  MCPair(2, {"done", "not", "no", ",", ";", "i'll test", "once you approve", "let me know and"})
    \cup {<<"done", ".">> \o b : b \in UpTo(5, {",", "i'll test", "once you approve"})}
    \cup {m \in MCPair(2, {"done", "placeholder", "text", "input", "has", "open quote", Code, "remains"}) :
            \A i \in 2..Len(m) : m[i] = Code => m[i - 1] # "open quote"}
    \cup MCPair(2, {"done", "todo", ":", "list", "comment", "is handled", "remains", "without"})
    \cup {<<"done", ".">> \o b :
            b \in [1..4 -> {"i'll test", ",", "and", "once you approve", "let me know if you'd like"}]
                    \cup [1..4 -> {"/todo", "coming soon", "badge", "remains", "but", "close quote"}]}
    \cup {<<"done", ".">> \o b : b \in [1..3 -> {"input", Code, "placeholder", "has"}]}
    \cup {a \o <<".", "done">> :
            a \in [1..4 -> {"todo", "comment", "is handled", "remains", "and"}]}

-----------------------------------------------------------------------------

\* Memories.

MCTexts == ("abcd" :> {"a", "b", "c", "d"}) @@ ("abcde" :> {"a", "b", "c", "d", "e"})
             @@ ("afg" :> {"a", "f", "g"}) @@ ("z" :> {"z"}) @@ ("stop words" :> {})

MCTrace ==
  [status |-> "active", kind |-> "belief", text |-> "z", tags |-> {}, created |-> 0,
   deadline |-> NoDeadline, salience |-> 500, confidence |-> 5, authority |-> 500,
   verified |-> FALSE, privacy |-> "private", source |-> "a", claim |-> NoClaim,
   supersedes |-> NoId]

MCWord(n) == [word |-> n, upper |-> FALSE, spaced |-> FALSE]

MCClaim(v) == <<MCWord(1), MCWord(v)>>

\* A file that sets nothing and files at the limits of what is accepted.
MCEmpty == [field \in {} |-> 0]

\* On this scale a commitment counts as due 59 hours before it is.
MCLongScale == [prospective_scale |-> 2000000000]

MCFiles ==
  {MCEmpty, [undated_commitment_urgency |-> One], [match_floor |-> 0], [match_floor |-> One, cue_lexical |-> 500],
   [recall_limit |-> 1, redundancy_penalty |-> One], [redundant_at |-> 0], [redundant_at |-> One],
   [lexical_coverage |-> 0, lexical_jaccard |-> 0], [minimum_recall_score |-> One],
   [relevance_base |-> 50, metadata_share |-> 950], [relevance_base |-> One, metadata_share |-> 0],
   MCLongScale}

\* Files that are refused.
MCRefused ==
  {[minimum_recall_score |-> 0], [relevance_base |-> 0], [relevance_base |-> One],
   [metadata_share |-> One + 1, relevance_base |-> 1], [recall_limit |-> 0], [prospective_scale |-> 0],
   [allow_sensitive_persistence |-> TRUE], [a_field_misspelt |-> 0]}

MCQuery(words, tags) ==
  [words |-> words, tags |-> tags, spoken |-> words # {}, kinds |-> {}, limit |-> 3,
   now |-> 100, history |-> FALSE]

\* Traces that say nearly the same, or the opposite in nearly the same words;
\* important ones and others; late, undated and open commitments, the open one
\* 59 hours early; a forecast.
MCTraces ==
  {[MCTrace EXCEPT !.text = "abcd"],
   [MCTrace EXCEPT !.text = "abcd", !.claim = MCClaim(1), !.created = 50],
   [MCTrace EXCEPT !.text = "abcde", !.claim = MCClaim(2), !.salience = 1000, !.verified = TRUE],
   [MCTrace EXCEPT !.text = "afg", !.privacy = "sensitive"],
   [MCTrace EXCEPT !.salience = 1000, !.confidence = 10, !.authority = 1000, !.verified = TRUE],
   [MCTrace EXCEPT !.tags = {"x"}, !.salience = 0],
   [MCTrace EXCEPT !.text = "stop words", !.tags = {"x", "y"}],
   [MCTrace EXCEPT !.kind = "commitment", !.deadline = 90],
   [MCTrace EXCEPT !.kind = "commitment", !.deadline = 159, !.text = "stop words"],
   [MCTrace EXCEPT !.kind = "commitment"],
   [MCTrace EXCEPT !.kind = "prediction", !.text = "abcd"]}

\* A long question that shares one word, tags with and without words, nothing.
MCQueries ==
  {MCQuery({"a", "p", "q", "r", "s", "t", "u", "v", "w"}, {}), MCQuery({"a", "b"}, {"x"}),
   MCQuery({"z"}, {"y"}), MCQuery({}, {"x"}), MCQuery({}, {}),
   [MCQuery({"a", "z"}, {}) EXCEPT !.limit = 2]}

MCLookups ==
  {[memory |-> m, query |-> q, file |-> MCEmpty] :
      m \in [1..3 -> MCTraces], q \in {q \in MCQueries : q.words # {}}}
    \cup {[memory |-> m, query |-> q, file |-> f] :
            m \in [1..2 -> MCTraces], q \in {q \in MCQueries : q.words # {}}, f \in MCFiles}
    \cup {[memory |-> <<t>>, query |-> q, file |-> f] :
            t \in MCTraces, q \in MCQueries, f \in MCFiles \cup MCRefused}
    \cup {[memory |-> <<MCTrace>>, query |-> [MCQuery({}, {}) EXCEPT !.spoken = TRUE],
           file |-> MCEmpty],
          [memory |-> <<[MCTrace EXCEPT !.kind = "commitment", !.deadline = 160]>>,
           query |-> MCQuery({"a"}, {}), file |-> MCLongScale]}

\* Memories that corrections leave behind: the trace that was replaced is
\* superseded, or purged, by one other trace.
MCLinked(m) ==
  /\ \A i \in DOMAIN m :
       /\ m[i].supersedes # NoId => m[m[i].supersedes].status # "active"
       /\ m[i].status = "superseded" => \E j \in DOMAIN m : m[j].supersedes = i
  /\ \A i, j \in DOMAIN m : m[i].supersedes = m[j].supersedes /\ m[i].supersedes # NoId => i = j
  /\ \A i \in DOMAIN m : m[i].supersedes # i
  /\ \A i, j \in DOMAIN m : m[i].supersedes = j => m[j].supersedes # i
  /\ \E i \in DOMAIN m : m[i].supersedes = NoId

MCLineages ==
  {[memory |-> m, query |-> [MCQuery({"a"}, {}) EXCEPT !.history = h],
    file |-> MCEmpty] :
     h \in BOOLEAN,
     m \in {m \in
       {[i \in 1..3 |-> [MCTrace EXCEPT !.text = <<"abcd", "afg", "abcde">>[i], !.status = s[i], !.supersedes = l[i],
                                       !.claim = IF i = 2 THEN c ELSE MCClaim(i),
                                       !.privacy = IF i = hidden THEN "sensitive" ELSE "private"]] :
          s \in [1..3 -> {"active", "superseded", "purged"}], l \in [1..3 -> 0..3],
          c \in {NoClaim, MCClaim(1)}, hidden \in 0..3} : MCLinked(m)}}
    \cup {[memory |-> [i \in 1..4 |-> [MCTrace EXCEPT !.supersedes = i - 1,
                                                     !.status = IF i = 4 THEN "active" ELSE "superseded"]],
           query |-> MCQuery({"z"}, {}), file |-> MCEmpty]}

-----------------------------------------------------------------------------

\* What four traces say of one key, or two.
MCWitness(value, source, confidence) ==
  [MCTrace EXCEPT !.claim = MCClaim(value), !.source = source, !.confidence = confidence]

MCWitnesses ==
  <<MCTrace, MCWitness(1, "a", 5), MCWitness(1, "A", 8), MCWitness(1, "b", 8),
    MCWitness(1, "unknown", 9), MCWitness(1, "user", 9), MCWitness(1, "model:x", 10),
    MCWitness(2, "b", 5), MCWitness(2, "model:x", 5), MCWitness(2, "c", 9),
    [MCWitness(1, "c", 2) EXCEPT !.verified = TRUE],
    [MCWitness(2, "a", 9) EXCEPT !.kind = "prediction"],
    [MCWitness(2, "a", 9) EXCEPT !.status = "superseded"],
    [MCWitness(2, "a", 9) EXCEPT !.privacy = "sensitive"],
    [MCWitness(1, "d", 9) EXCEPT !.claim = <<[MCWord(1) EXCEPT !.upper = TRUE],
                                             [MCWord(1) EXCEPT !.upper = TRUE]>>],
    [MCWitness(1, "e", 9) EXCEPT !.claim = <<[MCWord(1) EXCEPT !.upper = TRUE],
                                             [MCWord(1) EXCEPT !.spaced = TRUE]>>]>>

MCEvidences ==
  {[memory |-> [k \in 1..4 |-> MCWitnesses[w[k]]], 
    file |-> [consolidation_min_support |-> n, consolidation_min_confidence |-> 55]] :
     n \in {2, 3}, w \in {w \in [1..4 -> DOMAIN MCWitnesses] : \A k \in 1..3 : w[k] <= w[k + 1]}}

\* Commitments around now and the horizon, and others.
MCDue ==
  {[MCTrace EXCEPT !.kind = "commitment", !.deadline = d, !.status = s] :
      d \in {NoDeadline, 0, 50, 51, 60, 61}, s \in {"active", "fulfilled"}}
    \cup {[MCTrace EXCEPT !.deadline = 50],
          [MCTrace EXCEPT !.kind = "commitment", !.deadline = 40, !.privacy = "sensitive"]}

MCAgendas ==
  {[memory |-> m, within |-> w, file |-> MCEmpty,
    query |-> [MCQuery({"q"}, {}) EXCEPT !.now = 50]] :
     m \in [1..3 -> MCDue], w \in {0, 10, 200}}

-----------------------------------------------------------------------------

\* Dates at the borders of months, leap years, centuries and the calendar.
MCCivil(date, time) == [text |-> [form |-> "civil", date |-> date, time |-> time], now |-> 5]

MCDates == {<<y, m, d>> : y \in {1969, 1970, 1972, 2000, 2023, 2024, 2100, 9999, 10000},
                          m \in 0..13, d \in {0, 1, 28, 29, 30, 31, 32}}

MCTimes ==
  {MCCivil(date, <<>>) : date \in MCDates}
    \cup {MCCivil(<<2024, 2, 29>>, time) : time \in UpTo(4, {0, 23, 24, 59, 60, NotANumber})}
    \cup {MCCivil(date, <<12, 0>>) : date \in {<<2024, 2>>, <<2024, 2, 1, 1>>, <<2024, NotANumber, 1>>}}
    \cup {[text |-> [form |-> "relative", count |-> n, unit |-> u], now |-> now] :
            n \in {NotANumber, 0, 1, 4, 5, 99}, u \in {"h", "d", "w"}, now \in {0, 5, 100}}
    \cup {[text |-> [form |-> "digits", number |-> n], now |-> 5] : n \in {0, 100}}

MCInputs == [Lane -> 0..4]

-----------------------------------------------------------------------------

\* Skills and repositories.

MCToken(kind, name) == [kind |-> kind, name |-> name]

Tick == MCToken("tick", "")
Hikmah == MCToken("hikmah", "hikmah")
Policy == MCToken("option", "policy")
Word(w) == MCToken("word", w)

MCCli == (<<>> :> [options |-> [policy |-> TRUE, version |-> FALSE], subcommands |-> {"decide", "get"}])
           @@ (<<"decide">> :> [options |-> [policy |-> TRUE, frame |-> TRUE, record |-> FALSE],
                                subcommands |-> {}])
           @@ (<<"get">> :> [options |-> [policy |-> TRUE], subcommands |-> {}])

\* Up to three tokens after `hikmah'.
MCCommands ==
  {<<Hikmah>> \o code :
     code \in UpTo(3, {Policy, MCToken("assigned", "policy"), MCToken("option", "version"),
                       MCToken("option", "frame"), Word("decide"), Word("p"),
                       MCToken("placeholder", "<id>")})}

Prose == <<Word("prose")>>
Span(code) == <<Tick>> \o code \o <<Tick>>
Fence == <<MCToken("fence", "")>>
Fenced(code) == <<Fence, code, Fence>>
Wired == Prose \o Span(<<Hikmah, Word("decide")>>)
Wrong == <<Hikmah, Word("p")>>

MCLines ==
  {<<Wired, Span(code)>> : code \in MCCommands}
    \cup {<<Wired>> \o Fenced(code) : code \in {<<MCToken("dollar", "")>> \o Wrong, Wrong, Prose \o Wrong}}
    \cup {Fenced(<<Hikmah, Word("decide")>>), <<Prose \o Wrong>>, <<Span(<<MCToken("hikmah-kernel", "")>>)>>,
          <<Wired>> \o Fenced(Prose) \o <<Span(Wrong)>>, <<Wired, Fence, Prose, Span(Wrong)>>,
          <<Wired, Span(Prose) \o Wrong>>, <<Wired, Span(Prose) \o Prose \o <<Tick>> \o Wrong>>}

MCSkill ==
  [written |-> TRUE, name |-> "s", description |-> "given", lines |-> <<Wired>>, links |-> {},
   files |-> {<<"SKILL.md">>, <<"refs", "notes.md">>}, directories |-> {<<>>, <<"refs">>}]

MCLink(from, kind, parts) == [markdown |-> TRUE, from |-> from, kind |-> kind, parts |-> parts]

MCLinks ==
  {MCLink(from, "relative", parts) :
      from \in {<<>>, <<"refs">>}, parts \in UpTo(4, {"..", ".", "refs", "notes.md"}) \ {<<>>}}
    \cup {MCLink(<<>>, "url", <<"x">>), MCLink(<<>>, "absolute", <<"refs">>),
          [MCLink(<<>>, "relative", <<"x">>) EXCEPT !.markdown = FALSE]}

MCRepo ==
  [files |-> {"hook.sh"}, broken |-> {}, cargo |-> "4", scripts |-> {"hook.sh"}, cases |-> 1,
   version |-> [codex |-> "4", claude |-> "4", kimi |-> "4", market |-> Missing],
   name |-> [codex |-> PLUGIN_NAME, claude |-> PLUGIN_NAME, kimi |-> PLUGIN_NAME,
             claude_market |-> PLUGIN_NAME, agents_market |-> PLUGIN_NAME],
   skills |-> [s |-> MCSkill]]

MCWith(skill) == [MCRepo EXCEPT !.skills = [s |-> skill]]

MCRepos ==
  {MCWith([MCSkill EXCEPT !.lines = lines]) : lines \in MCLines}
    \cup {MCWith([MCSkill EXCEPT !.links = {link}]) : link \in MCLinks}
    \cup {MCWith([MCSkill EXCEPT !.written = FALSE]), MCWith([MCSkill EXCEPT !.name = Missing]),
          MCWith([MCSkill EXCEPT !.name = "t"]), MCWith([MCSkill EXCEPT !.description = Missing]),
          MCWith([MCSkill EXCEPT !.lines = <<Prose>>]),
          [MCRepo EXCEPT !.skills = [s |-> [MCSkill EXCEPT !.lines = <<Wired, Span(Wrong)>>],
                                     t |-> [MCSkill EXCEPT !.name = "t"]]],
          [MCRepo EXCEPT !.files = {}], [MCRepo EXCEPT !.broken = {"kimi.plugin.json"}],
          [MCRepo EXCEPT !.cargo = "5"], [MCRepo EXCEPT !.version.kimi = Missing],
          [MCRepo EXCEPT !.version.market = "3"], [MCRepo EXCEPT !.name.codex = "other"],
          [MCRepo EXCEPT !.name.kimi = Missing], [MCRepo EXCEPT !.scripts = {"gone.sh"}],
          [MCRepo EXCEPT !.cases = 0]}

MCRequired == {"hook.sh"}

=============================================================================
