----------------------------- MODULE ScriptGates -----------------------------
(***************************************************************************)
(* The pure part of the script stages: what the long-script agent makes of *)
(* an LLM reply, the SEO gate's score, the quality agent's reading of an   *)
(* evaluation and the voice agent's reading of a cleaned narration.        *)
(*                                                                         *)
(* A script is a sequence of sentences and its word count their number.    *)
(* A reply that parses is a record                                         *)
(*   [json |-> TRUE, lines, cta, claim, hook, promise, items, tags,        *)
(*    hashtags, desc, chapters, title]                                     *)
(* where claim is the word count the model claims (Unclaimed when absent), *)
(* hook and promise the counts promised by hook and title (0 for none; a   *)
(* count is a numeral before one of the listed nouns, among the first      *)
(* fifty characters),                                                      *)
(* items what the body delivers (0 when it cannot be counted), tags the    *)
(* number of tags, hashtags a sequence of Booleans (does the item start    *)
(* with #), and chapters the length of the chapter block.  A reply that    *)
(* does not parse is [json |-> FALSE, lines].                              *)
(***************************************************************************)
EXTENDS Integers, Sequences, SequencesExt

CONSTANTS
  Sentences,   \* what a script can be made of
  Topic,       \* the topic's title, as a gate sees it: [len, phrase, marks]
  TargetWords, \* TARGET_MIN_WORDS
  MinScore,    \* quality_min_score
  MinSeo,      \* seo_min_score
  NoCta,       \* the empty call to action
  Leaks        \* sentences that match an instruction-leak pattern

Unclaimed == -1

ASSUME GatesAssumption ==
  /\ Topic \in [len : Nat, phrase : BOOLEAN, marks : Nat]
  /\ TargetWords \in Nat
  /\ MinScore \in 1..100 /\ MinSeo \in 1..100
  /\ NoCta \notin Leaks

\* s without the sentences in out, in order (a recursive function, which, unlike
\* SelectSeq, can be reasoned about).
Without(s, out) ==
  LET kept[i \in 0..Len(s)] ==
        IF i = 0 THEN << >>
        ELSE IF s[i] \in out THEN kept[i - 1] ELSE Append(kept[i - 1], s[i])
  IN  kept[Len(s)]

(***************************************************************************)
(* Tags are filled up to 22 and hashtags to 8; neither is ever cut.        *)
(***************************************************************************)
PaddedTags(n) == IF n < 22 THEN 22 ELSE n

PaddedHashtags(h) == h \o [i \in 1..(IF Len(h) < 8 THEN 8 - Len(h) ELSE 0) |-> TRUE]

(***************************************************************************)
(* The stored description: the first missing hashtags are appended until   *)
(* seven should be inline (an item without # does not count once there),   *)
(* then the call to action, unless the text has it, or asks to subscribe   *)
(* or follow and is long enough.  Ten stands for an appended item's length.*)
(***************************************************************************)
EnrichDescription(desc, hashtags, cta, phrase) ==
  LET needed == IF desc.marks < 7 THEN 7 - desc.marks ELSE 0
      added == SubSeq(hashtags, 1, IF needed < Len(hashtags) THEN needed ELSE Len(hashtags))
      len == desc.len + 10 * needed
      ask == cta # NoCta /\ ~desc.cta /\ (~desc.asks \/ len < 100)
  IN  [len |-> IF ask THEN len + 10 ELSE len,
       marks |-> desc.marks + Len(SelectSeq(added, LAMBDA h : h)),
       phrase |-> desc.phrase \/ (ask /\ phrase)]

(***************************************************************************)
(* The script QA: the call to action becomes the last sentence, and a      *)
(* count promised by the hook, or else by the title, that the body does    *)
(* not deliver is rewritten in both.                                       *)
(***************************************************************************)
\* Faulty variant: a call to action already spoken is left where it is.
CtaLastWhenMissing(lines, cta) ==
  IF cta = NoCta \/ Contains(lines, cta) THEN lines ELSE Append(lines, cta)

CtaLast(lines, cta) ==
  IF cta = NoCta \/ (lines # <<>> /\ Last(lines) = cta) THEN lines
  ELSE Append(Without(lines, {cta}), cta)

\* One digit is read, the last of the first numeral; what is not in 2..9 is
\* no promise, and then a lone digit of the title is looked for.
PromisedCount(hook, promise) ==
  LET digit == (IF hook # 0 THEN hook ELSE promise) % 10
  IN  IF digit >= 2 THEN digit ELSE IF promise \in 2..9 THEN promise ELSE 0

\* Only numerals from 2 to 10 are rewritten.
HonestCounts(hook, promise, items) ==
  LET fixed(n) == IF n \in 2..10 THEN items ELSE n
  IN  IF items # 0 /\ items < PromisedCount(hook, promise)
        THEN [hook |-> fixed(hook), promise |-> fixed(promise)]
        ELSE [hook |-> hook, promise |-> promise]

(***************************************************************************)
(* _parse_response.  words is what the agent believes: the model's claim   *)
(* when it makes one.  An unparsable reply is kept whole as the script,    *)
(* with the topic's title as title and description and without tags.       *)
(***************************************************************************)
Parsed(r) ==
  IF ~r.json
    THEN [json |-> FALSE, lines |-> r.lines, cta |-> NoCta, words |-> Len(r.lines),
          hook |-> 0, promise |-> 0, items |-> 0, tags |-> 0,
          desc |-> Topic,
          title |-> [len |-> IF Topic.len < 70 THEN Topic.len ELSE 70,
                     bait |-> FALSE, keyword |-> FALSE]]
    ELSE LET lines == CtaLast(r.lines, r.cta.line)
             desc == EnrichDescription(r.desc, PaddedHashtags(r.hashtags),
                                       r.cta.line, r.cta.phrase)
             counts == HonestCounts(r.hook, r.promise, r.items)
         IN  [json |-> TRUE, lines |-> lines, cta |-> r.cta.line,
              words |-> IF r.claim = Unclaimed THEN Len(lines) ELSE r.claim,
              hook |-> counts.hook, promise |-> counts.promise, items |-> r.items,
              tags |-> PaddedTags(r.tags),
              desc |-> [desc EXCEPT !.len = @ + r.chapters],
              title |-> r.title]

\* After an expansion pass, the reply that believes itself longer is kept.
Longer(first, second) == IF second.words > first.words THEN second ELSE first

(***************************************************************************)
(* The SEO gate: four criteria of 25 points.                               *)
(***************************************************************************)
TitleScore(t) ==
  (IF t.len \in 60..70 THEN 10 ELSE IF t.len \in 45..85 THEN 5 ELSE 0)
  + (IF t.bait THEN 0 ELSE 8) + (IF t.keyword THEN 7 ELSE 0)

DescriptionScore(d) ==
  (IF d.phrase THEN 15 ELSE 0) + (IF d.len >= 100 THEN 10 ELSE 0)

HashtagScore(n) ==
  IF n >= 7 THEN 25 ELSE IF n >= 4 THEN 15 ELSE IF n >= 1 THEN 8 ELSE 0

\* Faulty variant: the upper band is not limited from below.
TagsScoreAnyFew(n) == IF n \in 20..28 THEN 25 ELSE IF n <= 35 THEN 15 ELSE 0

TagsScore(n) == IF n \in 20..28 THEN 25 ELSE IF n \in 15..35 THEN 15 ELSE 0

SeoScore(s) ==
  TitleScore(s.title) + DescriptionScore(s.desc) + HashtagScore(s.desc.marks)
  + TagsScore(s.tags)

(***************************************************************************)
(* The quality agent's reading of an evaluation [json, overall, mean]: an  *)
(* overall score of zero counts as absent, and an evaluation that does not *)
(* parse is seventy points in every dimension.                             *)
(***************************************************************************)
QualityScore(e) ==
  IF ~e.json THEN 70 ELSE IF e.overall # 0 THEN e.overall ELSE e.mean

(***************************************************************************)
(* What will be spoken of a script, given the LLM's cleaned version or its *)
(* failure (an empty sequence: too short to be true).                      *)
(***************************************************************************)
Unleaked(lines) == Without(lines, Leaks)

\* Faulty variant: only the LLM's text is searched for instructions.
BasicCleanKeepsAll(lines) == lines

BasicClean(lines) == Unleaked(lines)

Narration(lines, cleaned) ==
  IF cleaned = <<>> \/ (lines # <<>> /\ 10 * Len(cleaned) > 13 * Len(lines))
    THEN BasicClean(lines) ELSE Unleaked(cleaned)
=============================================================================
