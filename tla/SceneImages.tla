----------------------------- MODULE SceneImages -----------------------------
(***************************************************************************)
(* The background pictures of the films being made: the loop over the      *)
(* scenes of one film (_generate_scene_images, as image_relevance_bootstrap *)
(* installs it), the stock photo cache, and ImageProvider's cache with its *)
(* lock per path.  Films of one script use the same paths, films of        *)
(* different scripts share only stock photos.  A render blocks the event   *)
(* loop, reads the pictures it was handed and removes all of its script's  *)
(* (image_cache_cleanup_bootstrap).  VideoRender!Illustrate takes the      *)
(* outcome of one such loop.                                               *)
(***************************************************************************)
EXTENDS Naturals, Sequences, FiniteSets

CONSTANTS
  Films,       \* films that may be made at the same time
  ScriptOf,    \* film -> script
  ScenesOf,    \* script -> its scenes' prompts
  NoPrompt,    \* the prompt of a scene that says nothing
  MaxRetries,  \* _POLLINATIONS_MAX_RETRIES
  Faults,      \* kinds of failure that may happen
  MaxFaults,   \* bound: failures in one behaviour
  MaxFilms     \* bound: films begun in one behaviour

\* "disk": a file cannot be written; "commit": the one before the render fails.
FaultKinds == {"disk", "commit", "crash"}

Scripts == {ScriptOf[f] : f \in Films}
Prompts == UNION {{ScenesOf[s][i] : i \in DOMAIN ScenesOf[s]} : s \in Scripts} \ {NoPrompt}

ASSUME ImagesAssumption ==
  /\ ScriptOf \in [Films -> Scripts]
  /\ \A s \in Scripts : ScenesOf[s] \in Seq(Prompts \union {NoPrompt})
  /\ MaxRetries \in Nat /\ MaxFaults \in Nat /\ MaxFilms \in Nat
  /\ Faults \subseteq FaultKinds

Paths == Scripts \X Prompts   \* ImageProvider._cache_path; the size is one per kind of film

VARIABLES
  keys,    \* [stock, hf]: whether PEXELS_API_KEY and HF_API_TOKEN are set
  cache,   \* ImageProvider's files: "none", "torn", or who made the picture
  stock,   \* Pexels' files by query: "none", "torn" or "photo"
  queue,   \* per path, the holder of its lock and those who wait for it, in order
  at,      \* where each film's loop is
  scene,   \* its scene
  tries,   \* 429 answers to its request so far
  art,     \* the picture it is about to store
  shown,   \* its mapping: [from, look] per scene done
  swept,   \* history: scenes whose picture was removed by another film's render
  faults,  \* failures still to come
  films    \* films still to be begun

vars == <<keys, cache, stock, queue, at, scene, tries, art, shown, swept, faults, films>>

Makers == {"huggingface", "pollinations", "gradient"}
Asking == {"huggingface", "pollinations", "backoff"}
Places == {"idle", "scene", "search", "lock", "store", "pause", "render"} \union Asking
NoPicture == [from |-> "none", look |-> "none"]
Pictures == [from : {"stock", "cache"}, look : Makers \union {"photo", "torn"}]

Scenes(f) == ScenesOf[ScriptOf[f]]
Prompt(f) == Scenes(f)[scene[f]]
Path(f) == <<ScriptOf[f], Prompt(f)>>

TypeOK ==
  /\ keys \in [stock : BOOLEAN, hf : BOOLEAN]
  /\ cache \in [Paths -> {"none"} \union Makers]
  /\ stock \in [Prompts -> {"none", "torn", "photo"}]
  /\ queue \in [Paths -> Seq(Films)]
  /\ at \in [Films -> Places]
  /\ \A f \in Films : scene[f] \in 1..(Len(Scenes(f)) + 1)
  /\ tries \in [Films -> 0..MaxRetries]
  /\ art \in [Films -> {"none"} \union Makers]
  /\ \A f \in Films : shown[f] \in [DOMAIN Scenes(f) -> Pictures \union {NoPicture}]
  /\ swept \in [Films -> SUBSET Nat]
  /\ faults \in 0..MaxFaults /\ films \in 0..MaxFilms

Nothing(f) == [i \in DOMAIN Scenes(f) |-> NoPicture]

Init ==
  /\ keys \in [stock : BOOLEAN, hf : BOOLEAN]
  /\ cache = [p \in Paths |-> "none"]
  /\ stock = [q \in Prompts |-> "none"]
  /\ queue = [p \in Paths |-> <<>>]
  /\ at = [f \in Films |-> "idle"]
  /\ scene = [f \in Films |-> 1]
  /\ tries = [f \in Films |-> 0]
  /\ art = [f \in Films |-> "none"]
  /\ shown = [f \in Films |-> Nothing(f)]
  /\ swept = [f \in Films |-> {}]
  /\ faults = MaxFaults /\ films = MaxFilms

Goto(f, place) == at' = [at EXCEPT ![f] = place]
Fault(kind) == kind \in Faults /\ faults > 0 /\ faults' = faults - 1
files == <<cache, stock>>
request == <<tries, art>>
mapping == <<shown, swept>>
budget == <<faults, films>>

-----------------------------------------------------------------------------
(* _generate_scene_images.                                                 *)

\* A render (of a run, a request or the batch workflow) begins.
Begin(f) ==
  /\ at[f] = "idle" /\ films > 0
  /\ Goto(f, "scene") /\ films' = films - 1
  /\ UNCHANGED <<keys, files, queue, scene, request, mapping, faults>>

\* The next scene with a prompt: a stock photo first, where there is a key.
Scene(f) ==
  /\ at[f] = "scene" /\ scene[f] \in DOMAIN Scenes(f)
  /\ IF Prompt(f) = NoPrompt
     THEN scene' = [scene EXCEPT ![f] = @ + 1] /\ UNCHANGED <<queue, at>>
     ELSE IF keys.stock
     THEN Goto(f, "search") /\ UNCHANGED <<scene, queue>>
     ELSE /\ Goto(f, "lock") /\ queue' = [queue EXCEPT ![Path(f)] = Append(@, f)]
          /\ UNCHANGED scene
  /\ UNCHANGED <<keys, files, request, mapping, budget>>

\* The mapping is handed to the renderer, complete or, after an exception, as it is.
End(f) ==
  /\ at[f] = "scene" /\ scene[f] \notin DOMAIN Scenes(f)
  /\ Goto(f, "render")
  /\ UNCHANGED <<keys, files, queue, scene, request, mapping, budget>>

-----------------------------------------------------------------------------
(* run_for_script, after the loop.                                         *)

Leave(f) ==
  /\ Goto(f, "idle") /\ scene' = [scene EXCEPT ![f] = 1]
  /\ shown' = [shown EXCEPT ![f] = Nothing(f)]

OfScript(f, p) == p[1] = ScriptOf[f]
FromCache(f) == {i \in DOMAIN Scenes(f) : shown[f][i].from = "cache"}

\* Faulty variant: the patch is not installed.
RenderKeeps(f) ==
  /\ at[f] = "render" /\ Leave(f)
  /\ swept' = [swept EXCEPT ![f] = {}]
  /\ UNCHANGED <<keys, files, queue, request, budget>>

\* The commit before the render, and the render, which blocks the event loop; when it
\* is over, for good or ill, the directory of the script's pictures is removed, those
\* included that other films of the script were handed.
Render(f) ==
  /\ at[f] = "render" /\ Leave(f)
  /\ cache' = [p \in Paths |-> IF OfScript(f, p) THEN "none" ELSE cache[p]]
  /\ swept' = [g \in Films |-> IF g = f THEN {}
                               ELSE IF ScriptOf[g] = ScriptOf[f] THEN FromCache(g) ELSE swept[g]]
  /\ UNCHANGED <<keys, stock, queue, request, budget>>

\* The commit fails, and there is no render.
CommitFails(f) ==
  /\ at[f] = "render" /\ Fault("commit") /\ Leave(f)
  /\ swept' = [swept EXCEPT ![f] = {}]
  /\ UNCHANGED <<keys, files, queue, request, films>>

-----------------------------------------------------------------------------
(* Stock photos.                                                           *)

Show(f, from, look) ==
  /\ shown' = [shown EXCEPT ![f][scene[f]] = [from |-> from, look |-> look]]
  /\ Goto(f, "pause")

\* pexels_provider.download_photo.  A file of over 1000 bytes is taken without a
\* look inside (a shorter one is "none" here); otherwise the photo is downloaded, or
\* there is none to be had, or its file cannot be written in full.
Search(f) ==
  /\ at[f] = "search"
  /\ \/ /\ stock[Prompt(f)] # "none" /\ Show(f, "stock", stock[Prompt(f)])
        /\ UNCHANGED <<stock, queue, faults>>
     \/ /\ stock[Prompt(f)] = "none" /\ Show(f, "stock", "photo")
        /\ stock' = [stock EXCEPT ![Prompt(f)] = "photo"]
        /\ UNCHANGED <<queue, faults>>
     \/ /\ stock[Prompt(f)] = "none"
        /\ \/ UNCHANGED <<stock, faults>>
           \/ Fault("disk") /\ stock' = [stock EXCEPT ![Prompt(f)] = "torn"]
        /\ Goto(f, "lock") /\ queue' = [queue EXCEPT ![Path(f)] = Append(@, f)]
        /\ UNCHANGED shown
  /\ UNCHANGED <<keys, cache, scene, request, swept, films>>

-----------------------------------------------------------------------------
(* ImageProvider.generate, under the lock of the path.                     *)

Holds(f) == queue[Path(f)] # <<>> /\ Head(queue[Path(f)]) = f
Unlocked(f) == [queue EXCEPT ![Path(f)] = Tail(@)]
FirstMaker == IF keys.hf THEN "huggingface" ELSE "pollinations"

\* Faulty variant: the file is looked for before the lock is taken.
EnterUnchecked(f) ==
  /\ at[f] = "lock" /\ Holds(f)
  /\ Goto(f, FirstMaker)
  /\ UNCHANGED <<keys, files, queue, scene, request, mapping, budget>>

\* The lock is taken: the picture is there, or the providers are asked for it.
Enter(f) ==
  /\ at[f] = "lock" /\ Holds(f)
  /\ IF cache[Path(f)] # "none"
     THEN Show(f, "cache", cache[Path(f)]) /\ queue' = Unlocked(f)
     ELSE Goto(f, FirstMaker) /\ UNCHANGED <<queue, shown>>
  /\ UNCHANGED <<keys, files, scene, request, swept, budget>>

\* A picture, or an empty body: not None, so Pollinations is not asked, and not
\* an image either, so the gradient is drawn.
Answered(f) ==
  /\ at[f] \in {"huggingface", "pollinations"}
  /\ \E made \in {at[f], "gradient"} : art' = [art EXCEPT ![f] = made]
  /\ Goto(f, "store") /\ tries' = [tries EXCEPT ![f] = 0]
  /\ UNCHANGED <<keys, files, queue, scene, mapping, budget>>

\* Any exception of Hugging Face, a timeout included.
HfFails(f) ==
  /\ at[f] = "huggingface" /\ Goto(f, "pollinations")
  /\ UNCHANGED <<keys, files, queue, scene, request, mapping, budget>>

\* 429: the next request after a pause, up to MaxRetries times.
TooMany(f) ==
  /\ at[f] = "pollinations" /\ tries[f] < MaxRetries
  /\ Goto(f, "backoff") /\ tries' = [tries EXCEPT ![f] = @ + 1]
  /\ UNCHANGED <<keys, files, queue, scene, art, mapping, budget>>

AskAgain(f) ==
  /\ at[f] = "backoff" /\ Goto(f, "pollinations")
  /\ UNCHANGED <<keys, files, queue, scene, request, mapping, budget>>

\* Faulty variant: the scene goes without a picture.
PollinationsFailsForGood(f) ==
  /\ at[f] = "pollinations"
  /\ Goto(f, "pause") /\ queue' = Unlocked(f) /\ tries' = [tries EXCEPT ![f] = 0]
  /\ UNCHANGED <<keys, files, scene, art, mapping, budget>>

\* Any other exception, or the last 429: the gradient, which asks nobody.
PollinationsFails(f) ==
  /\ at[f] = "pollinations"
  /\ art' = [art EXCEPT ![f] = "gradient"] /\ Goto(f, "store")
  /\ tries' = [tries EXCEPT ![f] = 0]
  /\ UNCHANGED <<keys, files, queue, scene, mapping, budget>>

\* Written to a temporary file that then replaces the cached one.
Store(f) ==
  /\ at[f] = "store"
  /\ cache' = [cache EXCEPT ![Path(f)] = art[f]]
  /\ Show(f, "cache", art[f])
  /\ queue' = Unlocked(f)
  /\ art' = [art EXCEPT ![f] = "none"]
  /\ UNCHANGED <<keys, stock, scene, tries, swept, budget>>

\* Faulty variant: the exception leaves the lock taken.
StoreFailsLocked(f) ==
  /\ at[f] = "store" /\ Fault("disk")
  /\ Goto(f, "render") /\ art' = [art EXCEPT ![f] = "none"]
  /\ UNCHANGED <<keys, files, queue, scene, tries, mapping, films>>

\* The exception ends the loop; the scenes done keep their pictures.
StoreFails(f) ==
  /\ at[f] = "store" /\ Fault("disk")
  /\ Goto(f, "render") /\ queue' = Unlocked(f) /\ art' = [art EXCEPT ![f] = "none"]
  /\ UNCHANGED <<keys, files, scene, tries, mapping, films>>

\* Two seconds after every scene.
Pause(f) ==
  /\ at[f] = "pause" /\ Goto(f, "scene")
  /\ scene' = [scene EXCEPT ![f] = @ + 1]
  /\ UNCHANGED <<keys, files, queue, request, mapping, budget>>

-----------------------------------------------------------------------------
\* Faulty variant: the picture is written to its path directly.
CacheLeftInPlace ==
  {cache} \union {[cache EXCEPT ![Path(f)] = "torn"] : f \in {g \in Films : at[g] = "store"}}

\* The files after the process died: a picture being written is a temporary file
\* still, a photo being written is cut short.
CacheLeft == {cache}
StockLeft ==
  {stock} \union
  {[stock EXCEPT ![Prompt(f)] = "torn"] :
     f \in {g \in Films : at[g] = "search" /\ stock[Prompt(g)] = "none"}}

Crash ==
  /\ Fault("crash")
  /\ cache' \in CacheLeft /\ stock' \in StockLeft
  /\ queue' = [p \in Paths |-> <<>>]
  /\ at' = [f \in Films |-> "idle"]
  /\ scene' = [f \in Films |-> 1]
  /\ tries' = [f \in Films |-> 0]
  /\ art' = [f \in Films |-> "none"]
  /\ shown' = [f \in Films |-> Nothing(f)]
  /\ swept' = [f \in Films |-> {}]
  /\ UNCHANGED <<keys, films>>

Step(f) ==
  \/ Scene(f) \/ End(f) \/ Search(f) \/ Enter(f) \/ Answered(f) \/ HfFails(f) \/ TooMany(f)
  \/ AskAgain(f) \/ PollinationsFails(f) \/ Store(f) \/ StoreFails(f) \/ Pause(f)
  \/ Render(f) \/ CommitFails(f)

Next == (\E f \in Films : Begin(f) \/ Step(f)) \/ Crash

Spec == Init /\ [][Next]_vars

\* Every request is answered or times out, and the event loop runs every task.
FairSpec == Spec /\ \A f \in Films : WF_vars(Step(f))

-----------------------------------------------------------------------------
(* Properties.                                                             *)

\* A picture is never asked for twice: not by two films at a time, and not when it
\* is cached ("prevent concurrent requests for the same (script_id, prompt, size)
\* from ... issuing redundant provider calls").
AskedOnce ==
  \A f \in Films : at[f] \in Asking \union {"store"} =>
    /\ cache[Path(f)] = "none"
    /\ \A g \in Films : at[g] \in Asking \union {"store"} /\ Path(g) = Path(f) => g = f

\* A picture handed to a film is whole and stays the one at its path until the film is
\* rendered, whatever full disks, failed commits and crashes do: it can only be missing
\* because another film of the script was rendered since it was handed, and that
\* render removes no picture handed later.
PicturesStay ==
  \A f \in Films : \A i \in FromCache(f) :
    /\ shown[f][i].look \in Makers
    /\ i \notin swept[f] => shown[f][i].look = cache[<<ScriptOf[f], Scenes(f)[i]>>]

\* Pictures outlive the films of their script only after a failure ("Keeps Oracle
\* free-tier disk from filling up"): however the films overlap, the last render removes
\* also what a film stored after the render of another one.
DiskFreed ==
  faults = MaxFaults =>
    \A p \in Paths : cache[p] # "none" => \E f \in Films : OfScript(f, p) /\ at[f] # "idle"

\* Whatever the providers answer, a scene that was passed has its picture if it has
\* a prompt ("the scene is never blank"): what the renderer gets is complete up to
\* the scene at which a file could not be written.
ScenesIllustrated ==
  \A f \in Films : \A i \in DOMAIN Scenes(f) :
    i < scene[f] => (shown[f][i] = NoPicture <=> Scenes(f)[i] = NoPrompt)

\* Every film gets its pictures in the end: no lock stays taken, no retry goes on.
FilmsGoOn == \A f \in Films : (at[f] # "idle" ~> at[f] = "idle")
=============================================================================
