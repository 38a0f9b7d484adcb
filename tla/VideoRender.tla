----------------------------- MODULE VideoRender -----------------------------
(***************************************************************************)
(* One script's video: VideoAgentService.run_for_script with the patches   *)
(* main.py applies at startup, VideoRenderer.render, and the row the       *)
(* dashboard and the batch workflow read.  The audio says Spoken(text) at  *)
(* a steady beat; Whisper may miss, mishear or split a word, or fail.      *)
(* Music, presenter, watermark and end card change no time and are in      *)
(* Decorate; a run may be repeated and the process may die in it.          *)
(***************************************************************************)
EXTENDS SceneTimeline, TLC

CONSTANTS
  Sentences,     \* the sentences a script is made of
  SceneLengths,  \* storyboards: sequences of scene durations
  Beats,         \* ticks a spoken word may take
  MaxSentences,  \* bound
  MaxRests,      \* silence at the end of the audio: one of these
  Lead,          \* ticks before the first word
  MaxRuns        \* bound: runs of the service for this script

ASSUME RenderAssumption ==
  /\ Beats \subseteq Nat \ {0} /\ MaxRests \subseteq Nat /\ Lead \in Nat
  /\ {MaxSentences, MaxRuns} \subseteq Nat \ {0}

\* A sentence has words; a script without any is the one empty sentence of Texts.  A
\* storyboard has scenes (_resolve_scenes makes one up).
ASSUME ScriptAssumption ==
  /\ Sentences \subseteq Seq(UNION {Range(s) : s \in Sentences}) \ {<<>>}
  /\ SceneLengths \subseteq Seq(Nat) \ {<<>>}

Noise == "noise"   \* a word Whisper makes up

Texts == {<< <<>> >>} \cup UNION {[1..n -> Sentences] : n \in 1..MaxSentences}

\* settings: the low-RAM mode switches transitions and karaoke captions off.
Modes == {m \in [karaoke : BOOLEAN, fade : {0, Fade}, low : BOOLEAN, hook : BOOLEAN] :
            /\ m.low => ~m.karaoke /\ m.fade = 0
            /\ m.karaoke => ~m.hook}   \* no bar is drawn, so the hook skips none

VARIABLES
  mode,    \* settings, as the process was started with
  text,    \* the narration: cleaned sentences of the voice transcript
  phase,
  audio,   \* [beat, length]: the voice file; length 0: none
  cards,
  exact,   \* Whisper heard exactly what is spoken
  images,  \* cards with a background image, until it is in their frames
  bars,    \* per card "none", "karaoke" or its caption bar
  film,    \* [clips, length, sound, timed]: what _assemble_video builds
  row,     \* the committed Video row: [status, duration]
  file,    \* duration of the file at the output path, 0: none
  runs

vars == <<mode, text, phase, audio, cards, exact, images, bars, film, row, file, runs>>
given == <<mode, text>>

Silent == [beat |-> 0, length |-> 0]
NoFilm == [clips |-> <<>>, length |-> 0, sound |-> 0, timed |-> FALSE]

Init ==
  /\ mode \in Modes /\ text \in Texts
  /\ phase = "idle" /\ audio = Silent /\ cards = <<>> /\ exact = FALSE
  /\ images = {} /\ bars = <<>> /\ film = NoFilm
  /\ row = [status |-> "none", duration |-> 0] /\ file = 0 /\ runs = 0

Spoken ==
  LET words == FlattenSeq(text) IN
  [k \in 1..Len(words) |-> [word |-> words[k], start |-> Lead + (k - 1) * audio.beat,
                            end |-> Lead + k * audio.beat]]

\* What Whisper may return: one word lost, misheard, or split in two.
Heard ==
  LET s == Spoken IN
  {s} \cup {RemoveAt(s, k) : k \in 1..Len(s)}
      \cup {[s EXCEPT ![k].word = Noise] : k \in 1..Len(s)}
      \cup {InsertAt([s EXCEPT ![k].word = Noise], k, [s[k] EXCEPT !.word = Noise]) : k \in 1..Len(s)}

(***************************************************************************)
(* run_for_script, up to the commit before the render.                     *)
(***************************************************************************)
\* The voice file if there is a COMPLETE Voice row with a path; run_for_script
\* is entered again by a retry or by the batch workflow.
ResolveAudio ==
  /\ phase = "idle" /\ runs < MaxRuns
  /\ phase' = "audio" /\ runs' = runs + 1
  /\ \/ audio' = Silent
     \/ \E beat \in Beats, rest \in MaxRests :
          audio' = [beat |-> beat,
                    length |-> Lead + beat * Len(FlattenSeq(text)) + rest]
  /\ UNCHANGED <<given, cards, exact, images, bars, film, row, file>>

\* One card per sentence, timed by word count, from the storyboard's scenes.
Align ==
  /\ phase = "audio" /\ phase' = "aligned"
  /\ \E scenes \in SceneLengths :
       LET durs == AlignSentences(text, scenes) IN
       cards' = [i \in 1..Len(text) |-> PlainCard(text[i], durs[i])]
  /\ UNCHANGED <<given, audio, exact, images, bars, film, row, file, runs>>

\* Whisper overrides the word-count timing, unless it fails.
Whisper ==
  /\ phase = "aligned" /\ ~mode.low /\ phase' = "timed"
  /\ \/ cards' = cards /\ exact' = FALSE
     \/ /\ audio.length > 0
        /\ \E h \in Heard :
             /\ cards' = ApplyTimings(cards, Transcribe(text, h))
             /\ exact' = (h = Spoken /\ text # << <<>> >>)
  /\ UNCHANGED <<given, audio, images, bars, film, row, file, runs>>

\* The rows of a sidecar: one per sentence as spoken, or the whole text in n equal rows.
Rows(n) == [r \in 1..n |-> [start |-> ((r - 1) * audio.length) \div n,
                            end |-> AtLeast(1, (r * audio.length) \div n)]]

\* Low-RAM mode: the sidecar's rows instead of Whisper.  The caps of a long script
\* that follow are never applied: str(ScriptType.LONG) is "ScriptType.LONG", not "long".
Sidecar ==
  /\ phase = "aligned" /\ mode.low /\ phase' = "timed"
  /\ \/ cards' = cards
     \/ /\ audio.length > 0
        /\ \E n \in 1..(MaxSentences + 1) :
             cards' = ApplyTimings(cards, FromSidecar(text, Rows(n)))
  /\ exact' = FALSE
  /\ UNCHANGED <<given, audio, images, bars, film, row, file, runs>>

\* The cards whose picture is there when they are drawn: scenes without a prompt have none,
\* nor those after an exception or whose picture another film's render has removed.
Illustrate ==
  /\ phase = "timed" /\ phase' = "illustrated"
  /\ images' \in SUBSET (1..Len(cards))
  /\ UNCHANGED <<given, audio, cards, exact, bars, film, row, file, runs>>

\* Faulty variant: the status is left in the session during the render.
SaveNothing ==
  /\ phase = "illustrated" /\ phase' = "saved"
  /\ UNCHANGED <<given, audio, cards, exact, images, bars, film, row, file, runs>>

\* "Commit before the long render": the row says GENERATING from here on.
Save ==
  /\ phase = "illustrated" /\ phase' = "saved"
  /\ row' = [row EXCEPT !.status = "GENERATING"]
  /\ UNCHANGED <<given, audio, cards, exact, images, bars, film, file, runs>>

(***************************************************************************)
(* VideoRenderer.render, synchronous.                                      *)
(***************************************************************************)
\* An image covers the card; without one (or an unreadable one) it is a gradient
\* that prints the narration.
Background(i) == IF i \in images THEN "image" ELSE "gradient"
Narrated(i) == Background(i) = "gradient" /\ cards[i].text # <<>>

\* Frames with baked captions; the first bar drawn is skipped under the hook.  In
\* karaoke mode the bar is drawn on every frame of the clip of a card with word
\* times, unless the clip cannot be made (a colour setting, say): a plain one then.
DrawCards ==
  /\ phase = "saved" /\ phase' = "drawn"
  /\ LET barred == {i \in 1..Len(cards) : cards[i].text # <<>>}
         skipped == IF mode.hook /\ barred # {} THEN {Min(barred)} ELSE {}
         plain(i) == [kind |-> IF mode.karaoke /\ Narrated(i) THEN "card" ELSE "none"] IN
     \E animated \in {mode.karaoke, FALSE} :
       bars' = [i \in 1..Len(cards) |->
         IF animated /\ cards[i].words # <<>>
         THEN [kind |-> "karaoke", bar |-> [lines |-> KaraokeLines(cards[i].text)]]
         ELSE IF ~mode.karaoke /\ i \in barred \ skipped
         THEN [kind |-> "bar", bar |-> CaptionBar(Clipped(cards[i].text))]
         ELSE plain(i)]
  /\ images' = {}
  /\ UNCHANGED <<given, audio, cards, exact, film, row, file, runs>>

Stamped == \A i \in 1..Len(cards) : cards[i].timed

\* The time line: the stamps if the audio can be loaded and every card has one.
Assemble ==
  /\ phase = "drawn" /\ phase' = "assembled"
  /\ \E loaded \in {0, audio.length} :
       LET timed == loaded > 0 /\ Stamped
           narrated == AtMost(loaded, Last(cards).end + Closing)
           clips == IF timed THEN StampedClips(cards, narrated, mode.fade)
                    ELSE ChainedClips(Scaled(cards, loaded), mode.fade)
           length == IF timed THEN narrated ELSE Last(clips).to
       IN  film' = [clips |-> clips, length |-> length, sound |-> AtMost(loaded, length),
                    timed |-> timed]
  /\ UNCHANGED <<given, audio, cards, exact, images, bars, row, file, runs>>

\* Attaching the audio and each overlay may fail; the render goes on without it.
Decorate ==
  /\ phase = "assembled" /\ phase' = "decorated"
  /\ \/ film' = film
     \/ film' = [film EXCEPT !.sound = 0]
  /\ UNCHANGED <<given, audio, cards, exact, images, bars, row, file, runs>>

Encode ==
  /\ phase = "decorated" /\ phase' = "encoded" /\ file' = film.length
  /\ UNCHANGED <<given, audio, cards, exact, images, bars, film, row, runs>>

\* Any exception of the renderer becomes a result; a half-written file may stay.
RenderFails ==
  /\ phase \in {"saved", "drawn", "assembled", "decorated"} /\ phase' = "failed"
  /\ file' \in {file} \cup (IF phase = "decorated" THEN {0} ELSE {})
  /\ UNCHANGED <<given, audio, cards, exact, images, bars, film, row, runs>>

(***************************************************************************)
(* The result, written in a fresh session.                                 *)
(***************************************************************************)
Return ==   \* the locals of the run are gone
  /\ phase' = "idle" /\ audio' = Silent /\ cards' = <<>> /\ exact' = FALSE
  /\ images' = {} /\ bars' = <<>> /\ film' = NoFilm

MarkComplete ==
  /\ phase = "encoded" /\ Return
  /\ row' = [status |-> "COMPLETE", duration |-> film.length]
  /\ UNCHANGED <<given, file, runs>>

MarkFailed ==
  /\ phase = "failed" /\ Return
  /\ row' = [row EXCEPT !.status = "FAILED"]
  /\ UNCHANGED <<given, file, runs>>

\* The process dies, or the session fails: uncommitted work is lost.
Die ==
  /\ phase # "idle" /\ Return
  /\ UNCHANGED <<given, row, file, runs>>

\* Faulty variant: the time within the clip is taken for the time within the film.
HighlightedInClip(i, t) == ActiveWord(cards[i].words, t - film.clips[i].from)

\* The word highlighted by clip i at time t: its clock starts with the clip, at the
\* card's stamp, or at the sum of the durations before it.
Highlighted(i, t) ==
  LET clip == film.clips[i]
      origin == IF film.timed THEN cards[i].start ELSE clip.from + (i - 1) * mode.fade
  IN  ActiveWord(cards[i].words, origin + t - clip.from)

\* What the film shows: a later clip is composited over an earlier one.
OnScreen(t) == {i \in 1..Len(film.clips) : film.clips[i].from <= t /\ t < film.clips[i].to}
Top(t) == Max(OnScreen(t))

Work == \/ Align \/ Whisper \/ Sidecar \/ Illustrate \/ Save \/ DrawCards \/ Assemble
        \/ Decorate \/ Encode \/ RenderFails \/ MarkComplete \/ MarkFailed

Next == ResolveAudio \/ Work \/ Die

Spec == Init /\ [][Next]_vars

(***************************************************************************)
(* Properties                                                              *)
(***************************************************************************)
Speaking(t) == Max({i \in 1..Len(cards) : cards[i].start <= t})

\* From the first card on there is no black frame, and while the cards follow the
\* stamps, the card on top is the sentence being spoken, or the next one fading in
\* (_assemble_video: "exact scene transitions").
CardsFollowVoice ==
  film.clips # <<>> =>
    \A t \in film.clips[1].from..(film.length - 1) :
      /\ OnScreen(t) # {}
      /\ film.timed => Top(t) \in {Speaking(t), Speaking(t + mode.fade)}

\* No sentence is lost between the script and the screen when Whisper hears the words
\* or the cards are chained, as long as it is spoken for longer than a fade (align_sentences_to_scenes:
\* "exactly len(sentences) output cards").
EverySentenceSeen ==
  film.clips # <<>> /\ (exact \/ ~film.timed) =>
    /\ Len(cards) = Len(text)
    /\ \A i \in 1..Len(cards) : cards[i].text = text[i]
    /\ {i \in 1..Len(cards) : film.timed => cards[i].end - cards[i].start > mode.fade}
         \subseteq {Top(t) : t \in film.clips[1].from..(film.length - 1)}

\* The end of the narration is not cut off: neither by the tail allowed after the last
\* sentence when Whisper hears the words, nor, up to rounding, by chained cards without
\* transitions (with transitions the overlaps shorten the film: see the README).
NarrationKept ==
  film.sound > 0 /\ Spoken # <<>> /\ ((film.timed /\ exact) \/ (~film.timed /\ mode.fade = 0)) =>
    Last(Spoken).end <= film.sound + (IF film.timed THEN 0 ELSE Len(cards))

\* A caption shows its sentence from the first word on, in lines that fit; the karaoke
\* bar shows all of it ("visually clipped ... illegible and hurts retention"), a static
\* one marks what it leaves out of a sentence of at most MaxShown letters (a longer one is
\* cut, even in a word, before the bar sees it, and what fits then looks complete), and
\* only the first of those may be missing, under the hook.
CaptionsHonest ==
  \A i \in 1..Len(bars) :
    /\ bars[i].kind \in {"bar", "karaoke"} =>
         LET shown == FlattenSeq(bars[i].bar.lines)
             whole == IF shown # <<>> /\ Last(shown) = Part THEN Front(shown) ELSE shown IN
         /\ whole = SubSeq(text[i], 1, Len(whole))
         /\ \A j \in 1..Len(bars[i].bar.lines) : Width(bars[i].bar.lines[j]) <= LineWidth
         /\ \/ shown = text[i]
            \/ bars[i].kind = "bar" /\ (bars[i].bar.ellipsis \/ Letters(text[i]) > MaxShown)
    /\ ~mode.karaoke /\ bars[i].kind # "bar" => text[i] = <<>> \/ (i = 1 /\ mode.hook)

\* While the words are spoken as Whisper heard them and the card is up, one of them is
\* highlighted, never more than two words behind the voice and ahead of it only by what
\* is said during a fade; none is while the last of the sentence ends within a fade
\* ("far more accurate karaoke highlight timing"; that it is the word being spoken is
\* HighlightIsSpoken, and false).
HighlightKeepsUp ==
  film.timed /\ exact =>
    \A i \in {j \in 1..Len(film.clips) : bars[j].kind = "karaoke"} :
      LET before == Len(FlattenSeq(SubSeq(text, 1, i - 1))) IN
      \A k \in 1..Len(text[i]), t \in film.clips[i].from..(film.clips[i].to - 1) :
        Spoken[before + k].start <= t /\ t < Spoken[before + k].end =>
          LET h == Highlighted(i, t) IN
          /\ h # 0 => h >= k - 2 /\ (h > k => Spoken[before + h].start <= t + mode.fade)
          /\ h = 0 => Spoken[before + Len(text[i])].end < t + mode.fade

\* What _make_karaoke_clip's docstring says of every frame: the word highlighted is the
\* one being spoken.  It is not: the interval of a word ends with the word after it,
\* so the highlight lags, and the clock of a clip that fades in is ahead by the fade.
HighlightIsSpoken ==
  film.timed /\ exact =>
    \A i \in {j \in 1..Len(film.clips) : bars[j].kind = "karaoke"} :
      LET before == Len(FlattenSeq(SubSeq(text, 1, i - 1))) IN
      \A k \in 1..Len(text[i]), t \in film.clips[i].from..(film.clips[i].to - 1) :
        Spoken[before + k].start <= t /\ t < Spoken[before + k].end => Highlighted(i, t) = k

\* A COMPLETE row never describes another file than the one at its path: not while a
\* repeated run overwrites the file, nor after that run dies ("Commit before the long
\* render").
CompleteMatchesFile == row.status = "COMPLETE" => file = row.duration
==============================================================================
