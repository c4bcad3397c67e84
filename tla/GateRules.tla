----------------------------- MODULE GateRules -----------------------------
(***************************************************************************)
(* The deterministic rules of the Truth Gate (hook.rs, rules_match): does  *)
(* a message claim completion, and does it admit open work or promise      *)
(* some?  A message is a sequence of tokens.  A token stands for the words *)
(* of its class, "done" for "completed" and "fixed", "." for "!" and a     *)
(* newline; what is written without a space in between is one token.       *)
(* Messages are shorter than the window of 200 characters the code looks   *)
(* back and ahead.                                                         *)
(***************************************************************************)
EXTENDS Integers, Sequences, FiniteSets, FiniteSetsExt, SequencesExt

\* Inline code and fenced code; `normalize' puts a space in its place.
Code == "<code>"

Marker == {"todo", "/todo", "placeholder", "coming soon", "<insert x>"}

Promise == "i'll test"

\* Leave to write once you approve, if you want; let me know if you'd like.
UserGates == {"once you approve", "let me know if you'd like", "let me know and"}

Completion == "done"

StillOpen == "remains"

Resolution == "is handled"

COMPLETION_NEGATORS == {"not", "no"}

UNFINISHED_NEGATORS == {"no", "without"}

\* What comes after or before a marker that names a thing.
PLACEHOLDER_UI_TERMS == {"text"}

PLACEHOLDER_UI_OWNERS == {"input", "search"}

PLACEHOLDER_INPUT_OWNERS == {"input"}

PLACEHOLDER_OWNER_FILLERS == {"has"}

PLACEHOLDER_OWNER_REACH == 4

COMING_SOON_UI_TERMS == {"text", "badge"}

NAME_NOUNS == {"list"}

MARKER_NOUNS == {"comment"}

SentenceEnds == {"."}

ClauseEnds == {".", ";"}

Quotes == {"open quote", "close quote"}

Punctuation == ClauseEnds \cup Quotes \cup {",", ":"}

\* The words of a token; the negation of a word is looked for three words back.
Width(t) ==
  CASE t \in Punctuation -> 0
    [] t \in {Promise, "coming soon", "<insert x>", "is handled"} -> 2
    [] t = "once you approve" -> 3
    [] t = "let me know and" -> 4
    [] t = "let me know if you'd like" -> 6
    [] OTHER -> 1

Words(m, from, to) == FoldLeft(LAMBDA n, t : n + Width(t), 0, SubSeq(m, from, to))

-----------------------------------------------------------------------------

\* Tokens are apart, so a space between two of them is not written down.  It
\* would matter next to a quotation mark or a colon only.
normalize(message) ==
  LET kept[n \in 0..Len(message)] ==
        IF n = 0 THEN <<>>
        ELSE IF message[n] = Code THEN kept[n - 1] ELSE Append(kept[n - 1], message[n])
  IN kept[Len(message)]

\* A quote or slash right before a word counts as a word when one looks back.
Glued(m, i) == IF m[i] = "/todo" \/ (i > 1 /\ m[i - 1] = "open quote") THEN 1 ELSE 0

\* Slip: a negation reaches into the next sentence.
Negated_AcrossSentences(m, i, negators) ==
  \E j \in 1..(i - 1) : m[j] \in negators /\ Words(m, j + 1, i - 1) + Glued(m, i) < 3

\* Is the word at i negated by one of the three before it in its sentence?
Negated(m, i, negators) ==
  \E j \in 1..(i - 1) :
    /\ m[j] \in negators
    /\ Words(m, j + 1, i - 1) + Glued(m, i) < 3
    /\ \A k \in j..i : m[k] \notin SentenceEnds

\* Where the token after i is, or before i, with nothing but quotes between;
\* none is a place outside the message.
NextOf(m, i) ==
  Min({j \in (i + 1)..(Len(m) + 1) : j > Len(m) \/ m[j] \notin Quotes})

PreviousOf(m, i) == Max({j \in 0..(i - 1) : j = 0 \/ m[j] \notin Quotes})

NextIn(m, i, words) ==
  LET j == NextOf(m, i) IN j <= Len(m) /\ m[j] \in words

\* The next word, whatever punctuation comes before it.
LooseNextIn(m, i, words) ==
  \E j \in (i + 1)..Len(m) :
    m[j] \in words /\ \A k \in (i + 1)..(j - 1) : m[k] \in Punctuation

PreviousIn(m, i, words) ==
  LET j == PreviousOf(m, i) IN j >= 1 /\ m[j] \in words

\* A form control up to four words back, over filler words only.
InputOwns(m, i) ==
  \E j \in 1..(i - 1) :
    /\ m[j] \in PLACEHOLDER_INPUT_OWNERS
    /\ \A k \in (j + 1)..(i - 1) : m[k] \in Quotes \cup PLACEHOLDER_OWNER_FILLERS
    /\ Words(m, j, i - 1) <= PLACEHOLDER_OWNER_REACH

\* TODO: and FIXME( are markers wherever they stand.
MarkerSyntax(m, i) == m[i] \in {"todo", "/todo"} /\ i < Len(m) /\ m[i + 1] = ":"

-----------------------------------------------------------------------------

\* The rest of the clause, and its beginning.
ClauseTail(m, i) ==
  (i + 1)..(Min({j \in (i + 1)..(Len(m) + 1) : j > Len(m) \/ m[j] \in ClauseEnds}) - 1)

ClauseHead(m, i) ==
  (Max({j \in 0..(i - 1) : j = 0 \/ m[j] \in ClauseEnds}) + 1)..(i - 1)

OpenAfter(m, i) == \E j \in ClauseTail(m, i) : m[j] = StillOpen

OpenAround(m, i) == OpenAfter(m, i) \/ \E j \in ClauseHead(m, i) : m[j] = StillOpen

\* Up to the next comma, `and' or `but', the clause says that it was dealt with.
ResolvedAfter(m, i) ==
  \E j \in ClauseTail(m, i) :
    /\ m[j] = Resolution
    /\ \A k \in (i + 1)..j : m[k] \notin {",", "and", "but", "let me know and"}

\* The marker is part of the name of a path or a file.
InPath(m, i) == m[i] = "/todo"

\* Does the marker at i say that work is open, or does it name or quote a thing?
FlagsOpenWork(m, i) ==
  /\ ~Negated(m, i, UNFINISHED_NEGATORS)
  /\ \/ m[i] = "<insert x>"
     \/ MarkerSyntax(m, i)
     \/ InPath(m, i) /\ OpenAfter(m, i)
     \/ /\ ~(i > 1 /\ m[i - 1] = "open quote")
        /\ \/ /\ m[i] = "placeholder"
              /\ ~LooseNextIn(m, i, PLACEHOLDER_UI_TERMS)
              /\ PreviousIn(m, i, PLACEHOLDER_UI_OWNERS) \/ InputOwns(m, i) => OpenAfter(m, i)
           \/ /\ m[i] = "coming soon"
              /\ NextIn(m, i, COMING_SOON_UI_TERMS) => OpenAfter(m, i)
           \/ /\ m[i] = "todo"
              /\ NextIn(m, i, NAME_NOUNS) => OpenAfter(m, i)
              /\ NextIn(m, i, MARKER_NOUNS) => ~ResolvedAfter(m, i) \/ OpenAround(m, i)

-----------------------------------------------------------------------------

CommaAfter(m, i, to) ==
  Min({j \in (i + 1)..to : j = to \/ m[j] = ","})

\* The last comma after `from' and before i, or `from'.
CommaBefore(m, i, from) ==
  Max({j \in from..(i - 1) : j = from \/ m[j] = ","})

\* A promise left to the user. `from' and `to' are the bounds that no condition
\* reaches past: the ends of the clause, and the promises on either side.
IsOffer(m, i) ==
  LET from == Max({j \in 0..(i - 1) : j = 0 \/ m[j] \in ClauseEnds \cup {Promise}})
      to   == Min({j \in (i + 1)..(Len(m) + 1) : j > Len(m) \/ m[j] \in ClauseEnds \cup {Promise}})
      comma  == CommaBefore(m, i, from)
      before == CommaBefore(m, comma, from)
      opens  == IF m[before + 1] \in {"and", "but"} THEN before + 2 ELSE before + 1
  IN \/ \E j \in (comma + 1)..(CommaAfter(m, i, to) - 1) : m[j] \in UserGates
     \/ /\ comma > from
        /\ opens < comma
        /\ m[opens] \in UserGates
        /\ \/ m[comma + 1] \notin {"and", "but"}
           \/ m[before + 1] \in {"let me know if you'd like", "let me know and"}

NoMatch == [rule |-> "none", at |-> 0]

\* The first marker of open work, or else the first promise that is no offer.
rules_match(message) ==
  LET m == normalize(message)
      claims  == \E i \in 1..Len(m) : m[i] = Completion /\ ~Negated(m, i, COMPLETION_NEGATORS)
      markers == {i \in 1..Len(m) : m[i] \in Marker /\ FlagsOpenWork(m, i)}
      work    == {i \in 1..Len(m) : m[i] = Promise /\ ~IsOffer(m, i)}
  IN IF ~claims \/ markers \cup work = {} THEN NoMatch
     ELSE IF markers # {} THEN [rule |-> "unfinished", at |-> Min(markers)]
     ELSE [rule |-> "promise", at |-> Min(work)]

=============================================================================
