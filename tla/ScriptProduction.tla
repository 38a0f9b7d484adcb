--------------------------- MODULE ScriptProduction ---------------------------
(***************************************************************************)
(* One topic's script from the LLM to its narration: the long-script agent *)
(* with its expansion pass, the quality and SEO gates of a pipeline run,   *)
(* the voice stage, and the voice API that may speak the same script again *)
(* while the film is rendered.  Every LLM call goes through the provider   *)
(* chain of the factory, with each provider's own retries.                 *)
(***************************************************************************)
EXTENDS ScriptGates, FiniteSets

CONSTANTS
  Drafts,      \* replies to the script prompt
  Expansions,  \* replies to the expansion prompt
  Evaluations, \* replies to the quality prompt
  Cleanings,   \* replies to the voice prompt (<<>>: under 20 characters)
  LowRamModes, \* whether the timings fallback patch is installed
  MaxWaits,    \* 429 answers Groq's provider waits out
  MaxRetries,  \* pipeline_max_retries
  MaxTakes     \* bound: narrations spoken of one script

ASSUME ProductionAssumption ==
  /\ LowRamModes \subseteq BOOLEAN
  /\ {MaxWaits, MaxRetries, MaxTakes} \subseteq Nat

\* Whatever the models write, it can be read as sentences and counts.
ASSUME RepliesAssumption ==
  /\ \A r \in Drafts \cup Expansions :
       /\ r.json \in BOOLEAN /\ r.lines \in Seq(Sentences)
       /\ r.json => /\ r.cta.line \in Sentences \cup {NoCta}
                    /\ r.hook \in Nat /\ r.promise \in Nat /\ r.items \in Nat
  /\ Cleanings \subseteq Seq(Sentences)

VARIABLES
  chain,     \* the providers the factory wrapped, in order
  lowRam,    \* low_ram_mode of this deployment
  call,      \* the LLM call under way or last made
  kind,      \* script_type of the run
  stage,     \* what the run, or the voice API after it, is doing
  attempts,  \* attempts of the run started
  draft,     \* the first parsed reply of a script call
  script,    \* the Script row's content
  report,    \* its last quality report
  topicOut,  \* the topic was REJECTED
  engine,    \* TTS provider asked for
  narration, \* the text handed to the voice
  takes,     \* narrations written to the script's audio path
  saved,     \* the last take whose rows were committed
  audio,     \* the file: who spoke it and what
  sidecar,   \* the take the timings file describes (0: no file)
  voice,     \* the Voice row: provider, or "none"
  film       \* [row |-> the Video row's status, take |-> the take it shows,
             \*  cut |-> the take a render under way has read (0: none),
             \*  raced |-> that render and a new take overlapped]

vars == <<chain, lowRam, call, kind, stage, attempts, draft, script, report, topicOut,
          engine, narration, takes, saved, audio, sidecar, voice, film>>
runVars == <<kind, attempts, draft, script, report, topicOut>>
voiceVars == <<engine, narration, takes, saved, audio, sidecar, voice, film>>

None == [json |-> FALSE]
Engines == {"auto", "kokoro", "gtts", "pyttsx3", "mock"}

(***************************************************************************)
(* The provider chain and one call through it.                             *)
(***************************************************************************)
CreateProvider(name, groqKey, geminiKey) ==
  CASE name = "groq" /\ groqKey -> IF geminiKey THEN <<"groq", "gemini">> ELSE <<"groq">>
    [] name = "groq" /\ ~groqKey /\ geminiKey -> <<"gemini">>
    [] name = "gemini" /\ geminiKey -> IF groqKey THEN <<"gemini", "groq">> ELSE <<"gemini">>
    [] name = "ollama" -> <<"ollama">>
    [] OTHER -> <<"mock">>

\* "gemini" without its key raises at start; ollama stands for any single provider.
Chains ==
  {CreateProvider(d[1], d[2], d[3]) : d \in
     {e \in {"groq", "gemini", "ollama", "mock"} \X BOOLEAN \X BOOLEAN : e[1] = "gemini" => e[3]}}

Idle == [status |-> "idle", who |-> 1, tries |-> 0, sent |-> <<0, 0>>, again |-> FALSE]
Asked == [Idle EXCEPT !.status = "asking"]
Asking(s) == stage = s /\ call.status = "asking"
Failed(s) == stage = s /\ call.status = "failed"
Provider == chain[call.who]

\* Groq answers 429: the provider sleeps and asks again.
RateLimited ==
  /\ call.status = "asking" /\ Provider = "groq" /\ call.tries < MaxWaits
  /\ call' = [call EXCEPT !.tries = @ + 1, !.sent[call.who] = @ + 1]
  /\ UNCHANGED <<chain, lowRam, stage, runVars, voiceVars>>

\* Faulty variant: the primary's exception reaches the caller.
RefusedAtOnce(again) ==
  /\ call.status = "asking" /\ Provider # "mock"
  /\ again => Provider # "gemini"
  /\ LET sent == [call.sent EXCEPT ![call.who] = @ + 1] IN
     IF Provider = "gemini" /\ call.tries < 2
       THEN call' = [call EXCEPT !.tries = @ + 1, !.sent = sent]
       ELSE call' = [call EXCEPT !.status = "failed", !.sent = sent, !.again = again]
  /\ UNCHANGED <<chain, lowRam, stage, runVars, voiceVars>>

(***************************************************************************)
(* A provider fails for good: Gemini after its third request, the others   *)
(* at the first error that is not waited out.  The wrapper asks the next.  *)
(* again: would is_retryable_error recognise the error (never Gemini's,    *)
(* whose cause is lost in its wrapping).                                   *)
(***************************************************************************)
Refused(again) ==
  /\ call.status = "asking" /\ Provider # "mock"
  /\ again => Provider # "gemini"
  /\ LET sent == [call.sent EXCEPT ![call.who] = @ + 1] IN
     IF Provider = "gemini" /\ call.tries < 2
       THEN call' = [call EXCEPT !.tries = @ + 1, !.sent = sent]
     ELSE IF call.who < Len(chain)
       THEN call' = [call EXCEPT !.who = @ + 1, !.tries = 0, !.sent = sent]
     ELSE call' = [call EXCEPT !.status = "failed", !.sent = sent, !.again = again]
  /\ UNCHANGED <<chain, lowRam, stage, runVars, voiceVars>>

(***************************************************************************)
(* A pipeline run's attempts.                                              *)
(***************************************************************************)
NoFilm == [row |-> "none", take |-> 0, cut |-> 0, raced |-> FALSE]

Init ==
  /\ chain \in Chains /\ lowRam \in LowRamModes /\ call = Idle
  /\ kind \in {"long", "short"} /\ stage = "start" /\ attempts = 0
  /\ draft = None /\ script = None /\ report = "none" /\ topicOut = FALSE
  /\ engine = "auto" /\ narration = <<>> /\ takes = 0 /\ saved = 0
  /\ audio = [by |-> "none", lines |-> <<>>] /\ sidecar = 0 /\ voice = "none"
  /\ film = NoFilm

StartLong ==
  /\ stage = "start" /\ kind = "long"
  /\ stage' = "draft" /\ call' = Asked /\ attempts' = attempts + 1
  /\ draft' = None /\ script' = None /\ report' = "none"
  /\ UNCHANGED <<chain, lowRam, kind, topicOut, voiceVars>>

\* ShortScriptAgent._generate passes keyword arguments that no provider's
\* generate has: a TypeError, before any request.
StartShort ==
  /\ stage = "start" /\ kind = "short"
  /\ stage' = "failed" /\ call' = Idle /\ attempts' = attempts + 1
  /\ UNCHANGED <<chain, lowRam, kind, draft, script, report, topicOut, voiceVars>>

SaveScript(out) ==
  /\ script' = out /\ draft' = None /\ report' = "none"
  /\ stage' = "score" /\ call' = Asked

Draft(r) ==
  /\ Asking("draft")
  /\ LET out == Parsed(r) IN
     IF out.words < TargetWords
       THEN /\ draft' = out /\ stage' = "expand" /\ call' = Asked
            /\ UNCHANGED <<script, report>>
       ELSE SaveScript(out)
  /\ UNCHANGED <<chain, lowRam, kind, attempts, topicOut, voiceVars>>

Expand(r) ==
  /\ Asking("expand")
  /\ SaveScript(Longer(draft, Parsed(r)))
  /\ UNCHANGED <<chain, lowRam, kind, attempts, topicOut, voiceVars>>

ExpansionFailed ==
  /\ Failed("expand")
  /\ SaveScript(draft)
  /\ UNCHANGED <<chain, lowRam, kind, attempts, topicOut, voiceVars>>

\* The AgentError of a stage whose LLM call failed ends the attempt.
AttemptFailed ==
  /\ Failed("draft") \/ Failed("score")
  /\ IF call.again /\ attempts <= MaxRetries THEN stage' = "start" /\ call' = Idle
     ELSE stage' = "failed" /\ UNCHANGED call
  /\ UNCHANGED <<chain, lowRam, runVars, voiceVars>>

Score(e) ==
  /\ Asking("score")
  /\ IF QualityScore(e) >= MinScore
       THEN report' = "passed" /\ stage' = "seo" /\ UNCHANGED topicOut
       ELSE report' = "failed" /\ stage' = "failed" /\ topicOut' = TRUE
  /\ call' = Idle
  /\ UNCHANGED <<chain, lowRam, kind, attempts, draft, script, voiceVars>>

SeoGate ==
  /\ stage = "seo"
  /\ IF SeoScore(script) >= MinSeo
       THEN stage' = "clean" /\ call' = Asked /\ engine' = "auto" /\ UNCHANGED topicOut
       ELSE stage' = "failed" /\ topicOut' = TRUE /\ UNCHANGED <<call, engine>>
  /\ UNCHANGED <<chain, lowRam, kind, attempts, draft, script, report, narration, takes, saved, audio,
                 sidecar, voice, film>>

(***************************************************************************)
(* The voice agent: the text is cleaned by the LLM, then spoken by the     *)
(* first engine that succeeds; the mock engine always does.                *)
(***************************************************************************)
Clean(c) ==
  /\ Asking("clean")
  /\ narration' = Narration(script.lines, c) /\ call' = Idle /\ stage' = "speak"
  /\ UNCHANGED <<chain, lowRam, runVars, engine, takes, saved, audio, sidecar, voice, film>>

CleanFailed ==
  /\ Failed("clean")
  /\ narration' = BasicClean(script.lines) /\ call' = Idle /\ stage' = "speak"
  /\ UNCHANGED <<chain, lowRam, runVars, engine, takes, saved, audio, sidecar, voice, film>>

\* kokoro: "sentences" (with timings), "single" (one pass) or "none"; no
\* engine but the mock speaks an empty text.
Speaker(kokoro, gtts, pyttsx3) ==
  LET works(e) == CASE e = "kokoro" -> kokoro # "none" [] e = "gtts" -> gtts
                    [] e = "pyttsx3" -> pyttsx3 [] e = "mock" -> TRUE
      order == IF engine = "auto" THEN <<"kokoro", "gtts", "pyttsx3">> ELSE <<engine>>
  IN  Head(Append(SelectSeq(order, works), "mock"))

\* The timings file is written by a sentence-timed synthesis, or by the
\* low-RAM patch when there is none; nothing else touches it.
Timings(by, kokoro, take) ==
  IF by = "kokoro" /\ (kokoro = "sentences" \/ (lowRam /\ sidecar = 0)) THEN take
  ELSE sidecar

\* The engine writes the script's audio file and its timings in place, under
\* whatever voice row and film the script has.
Speak(kokoro, gtts, pyttsx3) ==
  /\ stage = "speak"
  /\ narration = <<>> => kokoro = "none" /\ ~gtts /\ ~pyttsx3
  /\ LET by == Speaker(kokoro, gtts, pyttsx3)
     IN  /\ takes' = takes + 1
         /\ audio' = [by |-> by, lines |-> narration]
         /\ sidecar' = Timings(by, kokoro, takes')
  /\ film' = [film EXCEPT !.raced = @ \/ film.cut # 0]
  /\ stage' = "spoken"
  /\ UNCHANGED <<chain, lowRam, call, runVars, engine, narration, saved, voice>>

\* Faulty variant: a film already there keeps its status.
UpsertVideoKeepsStatus(f) == IF f.row = "none" THEN [f EXCEPT !.row = "generating"] ELSE f

UpsertVideo(f) == [f EXCEPT !.row = "generating", !.raced = (f.cut # 0)]

\* The Voice and Video rows, in one transaction of their own.
SaveVoice ==
  /\ stage = "spoken"
  /\ saved' = takes /\ voice' = audio.by /\ film' = UpsertVideo(film)
  /\ stage' = "voiced"
  /\ UNCHANGED <<chain, lowRam, call, runVars, engine, narration, takes, audio, sidecar>>

\* The process dies, or the flush or the commit of the rows fails, once the
\* file is written.  (An attempt that is retried makes another script.)
RowsLost ==
  /\ stage = "spoken"
  /\ stage' = "failed"
  /\ UNCHANGED <<chain, lowRam, call, runVars, voiceVars>>

(***************************************************************************)
(* The voice API.  generate returns the voice there is; regenerate deletes *)
(* it first; the batch speaks every APPROVED script again, whatever voice  *)
(* it has and whatever the SEO gate said.                                  *)
(***************************************************************************)
Resting == stage \in {"voiced", "failed"}

AskVoice(e) ==
  /\ takes < MaxTakes
  /\ engine' = e /\ stage' = "clean" /\ call' = Asked
  /\ UNCHANGED <<chain, lowRam, runVars, narration, takes, saved, audio, sidecar, voice, film>>

GenerateVoice(e) == Resting /\ script # None /\ voice = "none" /\ AskVoice(e)
RegenerateVoice(e) == Resting /\ script # None /\ AskVoice(e)
BatchVoice == Resting /\ report = "passed" /\ AskVoice("auto")

DeleteVoice ==
  /\ Resting /\ voice # "none"
  /\ voice' = "none"
  /\ UNCHANGED <<chain, lowRam, call, stage, runVars, engine, narration, takes, saved, audio,
                 sidecar, film>>

(***************************************************************************)
(* The video agent, as far as the rows here tell: it reads the audio file, *)
(* renders outside the session, and writes COMPLETE in a fresh one.        *)
(***************************************************************************)
BeginRender ==
  /\ film.row = "generating" /\ film.cut = 0
  /\ film' = [film EXCEPT !.cut = takes, !.raced = FALSE]
  /\ UNCHANGED <<chain, lowRam, call, stage, runVars, engine, narration, takes, saved, audio,
                 sidecar, voice>>

EndRender ==
  /\ film.cut # 0
  /\ film' = [film EXCEPT !.row = "complete", !.take = film.cut, !.cut = 0]
  /\ UNCHANGED <<chain, lowRam, call, stage, runVars, engine, narration, takes, saved, audio,
                 sidecar, voice>>

Next ==
  \/ RateLimited
  \/ \E again \in BOOLEAN : Refused(again)
  \/ StartLong \/ StartShort
  \/ \E r \in Drafts : Draft(r)
  \/ \E r \in Expansions : Expand(r)
  \/ ExpansionFailed \/ AttemptFailed
  \/ \E e \in Evaluations : Score(e)
  \/ SeoGate
  \/ \E c \in Cleanings : Clean(c)
  \/ CleanFailed
  \/ \E k \in {"sentences", "single", "none"}, g, p \in BOOLEAN : Speak(k, g, p)
  \/ SaveVoice \/ RowsLost
  \/ \E e \in Engines : GenerateVoice(e) \/ RegenerateVoice(e)
  \/ BatchVoice \/ DeleteVoice
  \/ BeginRender \/ EndRender

Spec == Init /\ [][Next]_vars

-----------------------------------------------------------------------------
(* An LLM call fails only after every provider of the chain was asked, the *)
(* Gemini client three times, and Groq at most once more than it waits.    *)
GivesUpLast ==
  call.status = "failed" =>
    \A i \in DOMAIN chain :
      /\ call.sent[i] > 0 /\ call.sent[i] <= IF chain[i] = "groq" THEN MaxWaits + 1 ELSE 3
      /\ chain[i] = "gemini" => call.sent[i] = 3

(* The stored script of a reply that parsed ends with its call to action,  *)
(* and its hook, or its title when the hook promises nothing, does not     *)
(* promise more items than the body can be seen to deliver, where what it  *)
(* promises is a count the QA reads: one from two to nine.                 *)
ScriptHonest ==
  script # None /\ script.json =>
    /\ script.cta # NoCta => script.lines # <<>> /\ Last(script.lines) = script.cta
    /\ script.items # 0 =>
         /\ script.hook \in 2..9 => script.hook <= script.items
         /\ script.hook = 0 /\ script.promise \in 2..9 => script.promise <= script.items

(* What is spoken never holds an instruction of the cleaning prompt, and   *)
(* is at most 30% longer than the script it is spoken for.                 *)
NarrationHonest ==
  stage \in {"speak", "spoken", "voiced"} =>
    /\ ToSet(narration) \cap Leaks = {}
    /\ script.lines # <<>> => 10 * Len(narration) <= 13 * Len(script.lines)

(* A run never goes on to the voice with a script whose reply could not be *)
(* parsed: the two gates together stop what the agents' fallbacks let by   *)
(* (of a topic with fewer hashtags than the SEO gate gives full marks for).*)
GateStopsUnparsed ==
  [][stage = "seo" /\ stage' = "clean" => script.json /\ report = "passed"]_vars

(* A film marked COMPLETE shows the last take that has its rows, or a      *)
(* later one, unless a new take overlapped its render.                     *)
CompleteShowsSaved ==
  film.row = "complete" => film.take \in saved..takes \/ film.raced
=============================================================================
