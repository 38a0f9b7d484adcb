---------------------------- MODULE SceneTimeline ----------------------------
(***************************************************************************)
(* The pure timing and layout algorithms of the video agent: sentences are *)
(* aligned to storyboard scenes, matched with the words heard in the       *)
(* narration, placed on the video's time line and wrapped into captions.   *)
(* Time is counted in ticks; a sentence is a sequence of words; a heard    *)
(* word is a record [word, start, end].                                    *)
(***************************************************************************)
EXTENDS Integers, Sequences, SequencesExt, FiniteSetsExt

CONSTANTS
  Wide,         \* words twice as wide as the others
  LineWidth,    \* caption width, in narrow words
  CaptionLines, \* lines of a caption bar
  MaxShown,     \* 200 letters
  Part,         \* what a cut leaves of a word
  MinCard,      \* 0.5 s
  MinShare,     \* 1 s
  Fade,         \* 0.35 s
  Closing          \* 0.8 s

ASSUME TimelineAssumption ==
  /\ {LineWidth, CaptionLines, MaxShown, MinCard, MinShare, Fade, Closing} \subseteq Nat \ {0}
  /\ Fade < MinCard

AtLeast(a, b) == IF a > b THEN a ELSE b
AtMost(a, b) == IF a < b THEN a ELSE b
Total(s) ==
  LET sum[k \in 0..Len(s)] == IF k = 0 THEN 0 ELSE sum[k - 1] + s[k]
  IN  sum[Len(s)]

(***************************************************************************)
(* One duration per sentence, from the storyboard's scene durations, of    *)
(* which _resolve_scenes always finds at least one.                        *)
(***************************************************************************)
AlignSentences(text, scenes) ==
  LET n == Len(text)
      m == Len(scenes)
      base == m \div n
      first(i) == (i - 1) * base + AtMost(i - 1, m % n) + 1
      count(i) == AtLeast(1, Len(text[i]))
      words == Total([i \in 1..n |-> count(i)])
  IN  [i \in 1..n |->
        IF n <= m THEN Total(SubSeq(scenes, first(i), first(i + 1) - 1))
        ELSE AtLeast(MinShare, (count(i) * Total(scenes)) \div words)]

(***************************************************************************)
(* Whisper's words, matched with the sentences by a cursor.  Indexing past *)
(* the last heard word raises, and the whole transcription is dropped.     *)
(***************************************************************************)
Probe(s) == AtMost(4, Len(s))

BestMatch(s, heard, from) ==
  LET hits(p) == Cardinality({j \in 1..Probe(s) : heard[p + j - 1].word = s[j]})
      good == {p \in from..(Len(heard) - Len(s) + 1) : hits(p) >= AtLeast(2, Probe(s))}
  IN  IF good = {} THEN from ELSE Min(good)

\* Faulty variant: the cursor is not moved past the matched sentence.
MatchSentenceStays(heard, acc, s) ==
  LET best == BestMatch(s, heard, acc.from)
      last == AtMost(best + Len(s) - 1, Len(heard)) IN
  IF ~acc.ok THEN acc
  ELSE IF s = <<>> THEN [acc EXCEPT !.words = Append(@, <<>>)]
  ELSE IF acc.from + Probe(s) - 1 > Len(heard) THEN [acc EXCEPT !.ok = FALSE]
  ELSE [ok |-> TRUE, from |-> 1,
        stamps |-> Append(acc.stamps, [start |-> heard[best].start, end |-> heard[last].end]),
        words |-> Append(acc.words, SubSeq(heard, best, last))]

MatchSentence(heard, acc, s) ==
  LET best == BestMatch(s, heard, acc.from)
      last == AtMost(best + Len(s) - 1, Len(heard)) IN
  IF ~acc.ok THEN acc
  ELSE IF s = <<>> THEN [acc EXCEPT !.words = Append(@, <<>>)]
  ELSE IF acc.from + Probe(s) - 1 > Len(heard) THEN [acc EXCEPT !.ok = FALSE]
  ELSE [ok |-> TRUE, from |-> last + 1,
        stamps |-> Append(acc.stamps, [start |-> heard[best].start, end |-> heard[last].end]),
        words |-> Append(acc.words, SubSeq(heard, best, last))]

Transcribe(text, heard) ==
  LET none == [ok |-> heard # <<>>, from |-> 1, stamps |-> <<>>, words |-> <<>>]
      matched[i \in 0..Len(text)] ==
        IF i = 0 THEN none ELSE MatchSentence(heard, matched[i - 1], text[i])
  IN  matched[Len(text)]

(***************************************************************************)
(* Low-RAM mode reads the sentence timings written with the voice instead: *)
(* row i of n rows serves sentence i, or a proportional run of rows does.  *)
(***************************************************************************)
Evenly(s, start, len) ==
  [k \in 1..Len(s) |-> [start |-> start + ((k - 1) * len) \div Len(s),
                        end |-> start + (k * len) \div Len(s)]]

FromSidecar(text, rows) ==
  LET n == Len(text)
      m == Len(rows)
      lo(i) == AtMost(((i - 1) * m) \div n, m - 1) + 1
      hi(i) == AtLeast(AtMost((i * m) \div n, m), lo(i))
      stamp(i) == [start |-> rows[lo(i)].start, end |-> rows[hi(i)].end]
  IN  [ok |-> m > 0, stamps |-> [i \in 1..n |-> stamp(i)],
       words |-> [i \in 1..n |->
          Evenly(text[i], stamp(i).start, AtLeast(1, stamp(i).end - stamp(i).start))]]

(***************************************************************************)
(* Cards: [text, dur, timed, start, end, words], words the karaoke times.  *)
(***************************************************************************)
PlainCard(s, d) == [text |-> s, dur |-> d, timed |-> FALSE, start |-> 0, end |-> 0, words |-> <<>>]

\* The clean words take over the heard words' times, proportionally.
KaraokeWords(s, words, start, len) ==
  LET n == Len(s)
      m == Len(words)
  IN  IF m = 0 THEN Evenly(s, start, len)
      ELSE [k \in 1..n |->
             [start |-> words[AtMost(((k - 1) * m) \div n, m - 1) + 1].start,
              end   |-> words[AtMost((k * m) \div n, m - 1) + 1].end]]

TimedCard(c, stamp, words) ==
  LET len == AtLeast(MinCard, stamp.end - stamp.start) IN
  [c EXCEPT !.timed = TRUE, !.start = stamp.start, !.end = stamp.end, !.dur = len,
            !.words = IF c.text = <<>> THEN words
                      ELSE KaraokeWords(c.text, words, stamp.start, len)]

\* Applied only when there is one stamp per card.
ApplyTimings(cards, t) ==
  IF t.ok /\ Len(t.stamps) = Len(cards)
  THEN [i \in 1..Len(cards) |-> TimedCard(cards[i], t.stamps[i], t.words[i])]
  ELSE cards

(***************************************************************************)
(* Clips: [from, to], when a card is on screen.                            *)
(***************************************************************************)
\* Faulty variant: the last card is given its own duration only.
StampedClipsShort(cards, length, fade) ==
  [i \in 1..Len(cards) |->
    LET c == cards[i]
        len == IF i < Len(cards) THEN AtLeast(MinCard, cards[i + 1].start - c.start) ELSE c.dur
        lead == IF i > 1 THEN fade ELSE 0
        from == AtLeast(0, c.start - lead)
    IN  [from |-> from, to |-> from + len + lead]]

StampedClips(cards, length, fade) ==
  [i \in 1..Len(cards) |->
    LET c == cards[i]
        next == IF i < Len(cards) THEN cards[i + 1].start ELSE length
        len == AtLeast(MinCard, next - c.start)
        lead == IF i > 1 THEN fade ELSE 0
        from == AtLeast(0, c.start - lead)
    IN  [from |-> from, to |-> from + len + lead]]

\* Faulty variant: without the floor a very short sentence gets no time.
ScaledToNothing(cards, audio) ==
  LET raw == [i \in 1..Len(cards) |-> AtLeast(MinCard, cards[i].dur)]
  IN  IF audio = 0 THEN raw
      ELSE [i \in 1..Len(cards) |-> (raw[i] * audio) \div Total(raw)]

\* Durations scaled to the narration, or as they are for a silent video.
Scaled(cards, audio) ==
  LET raw == [i \in 1..Len(cards) |-> AtLeast(MinCard, cards[i].dur)]
  IN  IF audio = 0 THEN raw
      ELSE [i \in 1..Len(cards) |-> AtLeast(MinCard, (raw[i] * audio) \div Total(raw))]

\* concatenate_videoclips(padding = -fade): every clip but the first starts fade earlier.
ChainedClips(durs, fade) ==
  [i \in 1..Len(durs) |->
    LET from == Total(SubSeq(durs, 1, i - 1)) - (i - 1) * fade
    IN  [from |-> from, to |-> from + durs[i]]]

(***************************************************************************)
(* The static caption bar: a greedy wrap that stops after CaptionLines     *)
(* lines; the words left over end the last line with an ellipsis.  A word  *)
(* wider than the bar is set in a smaller font.                            *)
(***************************************************************************)
Width(s) == Total([k \in 1..Len(s) |-> AtMost(LineWidth, IF s[k] \in Wide THEN 2 ELSE 1)])

WrapWord(acc, w) ==
  IF Len(acc.lines) >= CaptionLines THEN acc
  ELSE IF Width(Append(acc.line, w)) <= LineWidth THEN [acc EXCEPT !.line = Append(@, w)]
  ELSE [lines |-> Append(acc.lines, acc.line), line |-> <<w>>]

Wrap(s) ==
  LET wrapped[k \in 0..Len(s)] ==
        IF k = 0 THEN [lines |-> <<>>, line |-> <<>>] ELSE WrapWord(wrapped[k - 1], s[k])
  IN  wrapped[Len(s)]

\* A static bar is given the first letters of a sentence only, cut in a word or not.
Letters(s) == Total([k \in 1..Len(s) |-> IF s[k] \in Wide THEN 2 ELSE 1])

Clipped(s) ==
  LET k == Max({n \in 0..Len(s) : Letters(SubSeq(s, 1, n)) <= MaxShown})
      start == SubSeq(s, 1, k)
  IN  IF k < Len(s) /\ Letters(start) < MaxShown THEN Append(start, Part) ELSE start

\* Faulty variant: the words left over are dropped without a sign (renderer.py's own bar).
CaptionBarDrops(s) ==
  LET acc == Wrap(s)
      lines == IF acc.line # <<>> /\ Len(acc.lines) < CaptionLines
               THEN Append(acc.lines, acc.line) ELSE acc.lines
  IN  [lines |-> lines, ellipsis |-> FALSE]

CaptionBar(s) ==
  LET acc == Wrap(s)
      lines == IF acc.line # <<>> /\ Len(acc.lines) < CaptionLines
               THEN Append(acc.lines, acc.line) ELSE acc.lines
  IN  [lines |-> lines, ellipsis |-> Len(FlattenSeq(lines)) < Len(s)]

(***************************************************************************)
(* The karaoke bar: all words, greedily in lines of the measured width (a  *)
(* wider word has a line of its own), and the word that is highlighted at  *)
(* a time: the first one whose interval, ends included, holds it.          *)
(***************************************************************************)
KaraokeWord(lines, w) ==
  IF lines # <<>> /\ Width(Append(Last(lines), w)) <= LineWidth
  THEN Append(Front(lines), Append(Last(lines), w))
  ELSE Append(lines, <<w>>)

KaraokeLines(s) ==
  LET lines[k \in 0..Len(s)] == IF k = 0 THEN <<>> ELSE KaraokeWord(lines[k - 1], s[k])
  IN  lines[Len(s)]

\* 0: no word.
ActiveWord(words, time) ==
  LET at == {k \in 1..Len(words) : words[k].start <= time /\ time <= words[k].end}
  IN  IF at = {} THEN 0 ELSE Min(at)
==============================================================================
