-------------------------- MODULE SceneImagesProofs --------------------------
(***************************************************************************)
(* The picture cache's invariants, for any films, scripts, scenes, retries *)
(* and failures: a path's lock is a queue in which a film stands once, and *)
(* only its head asks a provider or writes the file.                       *)
(***************************************************************************)
EXTENDS SceneImages, TLAPS

Busy == Places \ {"idle", "scene", "render"}
Served(f) == at[f] \in Asking \union {"store"}
InLine(f) == at[f] = "lock" \/ Served(f)

TypeInv ==
  /\ TypeOK
  /\ scene \in [Films -> Nat] /\ shown = [f \in Films |-> shown[f]]
  /\ \A f \in Films : at[f] \in Busy => scene[f] \in DOMAIN Scenes(f) /\ Prompt(f) # NoPrompt
  /\ \A f \in Films : at[f] = "store" => art[f] \in Makers

-----------------------------------------------------------------------------
\* A film's scenes, prompts and paths.

\* The scenes of a film are prompts of its script, or none.
LEMMA ScenesType ==
  ASSUME NEW f \in Films
  PROVE  /\ Scenes(f) \in Seq(Prompts \union {NoPrompt}) /\ Len(Scenes(f)) \in Nat
         /\ DOMAIN Scenes(f) = 1..Len(Scenes(f))
         /\ \A i \in DOMAIN Scenes(f) : Scenes(f)[i] # NoPrompt =>
              /\ Scenes(f)[i] \in Prompts /\ <<ScriptOf[f], Scenes(f)[i]>> \in Paths
<1>1. ScriptOf[f] \in Scripts /\ ScenesOf[ScriptOf[f]] \in Seq(Prompts \union {NoPrompt})
  BY ImagesAssumption DEF Scripts
<1>. HIDE DEF Prompts, Scripts
<1>. QED  BY <1>1 DEF Scenes, Paths

\* A busy film is at a scene with a prompt, which has a path.
LEMMA PathType ==
  ASSUME TypeInv, NEW f \in Films, at[f] \in Busy
  PROVE  Prompt(f) \in Prompts /\ Path(f) \in Paths /\ scene[f] \in DOMAIN Scenes(f)
BY ScenesType DEF TypeInv, Prompt, Path

\* A film that begins has no picture yet.
LEMMA NothingType ==
  ASSUME NEW f \in Films
  PROVE  /\ Nothing(f) \in [DOMAIN Scenes(f) -> Pictures \union {NoPicture}]
         /\ \A i \in DOMAIN Scenes(f) : Nothing(f)[i] = NoPicture
BY DEF Nothing

-----------------------------------------------------------------------------
\* Type correctness.

\* The first state is well-typed.
LEMMA TypeInit == Init => TypeInv
<1>. SUFFICES ASSUME Init PROVE TypeInv
  OBVIOUS
<1>1. \A f \in Films : 1 \in 1..(Len(Scenes(f)) + 1)
  BY ScenesType
<1>2. /\ keys \in [stock : BOOLEAN, hf : BOOLEAN]
      /\ cache \in [Paths -> {"none"} \union Makers]
      /\ stock \in [Prompts -> {"none", "torn", "photo"}]
      /\ queue \in [Paths -> Seq(Films)]
  BY DEF Init
<1>3. /\ at \in [Films -> Places] /\ tries \in [Films -> 0..MaxRetries]
      /\ art \in [Films -> {"none"} \union Makers]
      /\ faults \in 0..MaxFaults /\ films \in 0..MaxFilms /\ swept \in [Films -> SUBSET Nat]
      /\ \A f \in Films : at[f] = "idle"
  BY ImagesAssumption DEF Init, Places
<1>4. shown = [f \in Films |-> shown[f]] /\ \A f \in Films : shown[f] = Nothing(f)
  BY DEF Init
<1>5. scene \in [Films -> Nat] /\ \A f \in Films : scene[f] = 1
  BY DEF Init
<1>. QED  BY <1>1, <1>2, <1>3, <1>4, <1>5, NothingType DEF TypeInv, TypeOK, Busy

\* What a step of a film writes stays within the types; the other films' places
\* are left alone.
Only(f) ==
  \A g \in Films \ {f} : /\ at'[g] = at[g] /\ scene'[g] = scene[g]
                         /\ art'[g] = art[g] /\ shown'[g] = shown[g]

\* The film's picture is added to its mapping.
LEMMA ShowType ==
  ASSUME TypeInv, NEW f \in Films, at[f] \in Busy,
         NEW from \in {"stock", "cache"}, NEW look \in Makers \union {"photo", "torn"},
         Show(f, from, look)
  PROVE  /\ at' \in [Films -> Places] /\ at'[f] = "pause"
         /\ shown' = [g \in Films |-> shown'[g]]
         /\ \A g \in Films : shown'[g] \in [DOMAIN Scenes(g) -> Pictures \union {NoPicture}]
         /\ \A g \in Films \ {f} : at'[g] = at[g] /\ shown'[g] = shown[g]
         /\ \A i \in DOMAIN Scenes(f) :
              shown'[f][i] = IF i = scene[f] THEN [from |-> from, look |-> look] ELSE shown[f][i]
<1>1. scene[f] \in DOMAIN Scenes(f)  BY PathType
<1>2. [from |-> from, look |-> look] \in Pictures  BY DEF Pictures
<1>3. at' = [at EXCEPT ![f] = "pause"]  BY DEF Show, Goto
<1>4. at \in [Films -> Places]  BY DEF TypeInv, TypeOK
<1>5. /\ at' \in [Films -> Places] /\ at'[f] = "pause"
      /\ \A g \in Films \ {f} : at'[g] = at[g]
  BY <1>3, <1>4 DEF Places
<1>6. /\ shown = [g \in Films |-> shown[g]]
      /\ shown[f] \in [DOMAIN Scenes(f) -> Pictures \union {NoPicture}]
      /\ \A g \in Films : shown[g] \in [DOMAIN Scenes(g) -> Pictures \union {NoPicture}]
  BY DEF TypeInv, TypeOK
<1>7. shown' = [shown EXCEPT ![f] = [shown[f] EXCEPT ![scene[f]] = [from |-> from, look |-> look]]]
  BY DEF Show
<1>8. /\ shown'[f] = [shown[f] EXCEPT ![scene[f]] = [from |-> from, look |-> look]]
      /\ \A g \in Films \ {f} : shown'[g] = shown[g]
      /\ shown' = [g \in Films |-> shown'[g]]
  BY <1>6, <1>7
<1>. QED  BY <1>1, <1>2, <1>5, <1>6, <1>8

\* The faults left stay within their bound.
LEMMA FaultType == ASSUME TypeInv, NEW k, Fault(k) PROVE faults' \in 0..MaxFaults
BY ImagesAssumption DEF Fault, TypeInv, TypeOK

\* A film that moves on leaves the others where they are.
LEMMA GotoType ==
  ASSUME TypeInv, NEW f \in Films, NEW place \in Places, Goto(f, place)
  PROVE  /\ at' \in [Films -> Places] /\ at'[f] = place
         /\ \A g \in Films \ {f} : at'[g] = at[g]
BY DEF Goto, TypeInv, TypeOK

\* A film joins the line of its path, or its head leaves it.
LEMMA LineType ==
  ASSUME TypeInv, NEW f \in Films
  PROVE  /\ [queue EXCEPT ![Path(f)] = Append(@, f)] \in [Paths -> Seq(Films)]
         /\ (at[f] \in Busy /\ Holds(f)) => Unlocked(f) \in [Paths -> Seq(Films)]
<1>1. queue \in [Paths -> Seq(Films)]  BY DEF TypeInv, TypeOK
<1>2. \A q \in Seq(Films) : Append(q, f) \in Seq(Films) /\ (q # <<>> => Tail(q) \in Seq(Films))
  OBVIOUS
<1>3. (at[f] \in Busy /\ Holds(f)) => Path(f) \in Paths /\ queue[Path(f)] # <<>>
  BY PathType DEF Holds
<1>. QED  BY <1>1, <1>2, <1>3 DEF Unlocked

\* The parts of the type invariant that a step of f can disturb.
MovesOK(f) ==
  /\ at' \in [Films -> Places] /\ Only(f)
  /\ scene' \in [Films -> Nat] /\ scene'[f] \in 1..(Len(Scenes(f)) + 1)
  /\ at'[f] \in Busy => scene'[f] \in DOMAIN Scenes(f) /\ Scenes(f)[scene'[f]] # NoPrompt
  /\ at'[f] = "store" => art'[f] \in Makers
  /\ art' \in [Films -> {"none"} \union Makers]
  /\ shown' = [g \in Films |-> shown'[g]]
  /\ shown'[f] \in [DOMAIN Scenes(f) -> Pictures \union {NoPicture}]

\* A step that only moves one film keeps the types.
LEMMA MovesType ==
  ASSUME TypeInv, NEW f \in Films, MovesOK(f), keys' = keys,
         cache' \in [Paths -> {"none"} \union Makers],
         stock' \in [Prompts -> {"none", "torn", "photo"}],
         queue' \in [Paths -> Seq(Films)], tries' \in [Films -> 0..MaxRetries],
         swept' \in [Films -> SUBSET Nat], faults' \in 0..MaxFaults, films' \in 0..MaxFilms
  PROVE  TypeInv'
<1>1. \A g \in Films : /\ scene'[g] \in 1..(Len(Scenes(g)) + 1)
                       /\ shown'[g] \in [DOMAIN Scenes(g) -> Pictures \union {NoPicture}]
                       /\ at'[g] = "store" => art'[g] \in Makers
  BY DEF MovesOK, Only, TypeInv, TypeOK
<1>2. \A g \in Films : at'[g] \in Busy =>
        scene'[g] \in DOMAIN Scenes(g) /\ Scenes(g)[scene'[g]] # NoPrompt
  BY DEF MovesOK, Only, TypeInv, Prompt
<1>3. /\ TypeOK' /\ scene' \in [Films -> Nat] /\ shown' = [g \in Films |-> shown'[g]]
  BY <1>1 DEF TypeInv, TypeOK, MovesOK
<1>4. \A g \in Films : at'[g] \in Busy => scene'[g] \in DOMAIN Scenes(g) /\ Prompt(g)' # NoPrompt
  BY <1>2 DEF Prompt, Scenes
<1>. QED  BY <1>1, <1>3, <1>4 DEF TypeInv

\* Each step of a film, and its first.
LEMMA StepType ==
  ASSUME TypeInv, NEW f \in Films, Begin(f) \/ Step(f), Served(f) => Holds(f)
  PROVE  TypeInv' /\ Only(f)
<1>. USE ImagesAssumption DEF files, request, mapping, budget
<1>0. /\ keys \in [stock : BOOLEAN, hf : BOOLEAN] /\ cache \in [Paths -> {"none"} \union Makers]
      /\ stock \in [Prompts -> {"none", "torn", "photo"}] /\ queue \in [Paths -> Seq(Films)]
      /\ tries \in [Films -> 0..MaxRetries] /\ faults \in 0..MaxFaults /\ films \in 0..MaxFilms
      /\ swept \in [Films -> SUBSET Nat]
      /\ at \in [Films -> Places] /\ scene \in [Films -> Nat]
      /\ scene[f] \in 1..(Len(Scenes(f)) + 1)
      /\ at[f] \in Busy => scene[f] \in DOMAIN Scenes(f) /\ Prompt(f) # NoPrompt
      /\ at[f] = "store" => art[f] \in Makers
      /\ art \in [Films -> {"none"} \union Makers]
      /\ shown = [g \in Films |-> shown[g]]
      /\ shown[f] \in [DOMAIN Scenes(f) -> Pictures \union {NoPicture}]
  BY DEF TypeInv, TypeOK
<1>m. MovesOK(f) => Only(f)  BY DEF MovesOK
<1>d. DOMAIN Scenes(f) = 1..Len(Scenes(f)) /\ Len(Scenes(f)) \in Nat  BY ScenesType
<1>1. CASE Begin(f)
  <2>1. MovesOK(f)  BY <1>0, <1>1 DEF MovesOK, Only, Begin, Goto, Places, Busy
  <2>2. films' \in 0..MaxFilms  BY <1>0, <1>1 DEF Begin
  <2>. QED  BY <1>0, <1>1, <1>m, <2>1, <2>2, MovesType DEF Begin
<1>2. CASE Scene(f)
  <2>1. queue' \in [Paths -> Seq(Films)]  BY <1>0, <1>2, LineType DEF Scene
  <2>2. MovesOK(f)
    <3>1. CASE Prompt(f) = NoPrompt
      <4>1. scene' = [scene EXCEPT ![f] = @ + 1] /\ at' = at /\ at[f] = "scene"
            /\ scene[f] \in DOMAIN Scenes(f) /\ shown' = shown /\ art' = art
        BY <1>2, <3>1 DEF Scene
      <4>2. scene' \in [Films -> Nat] /\ scene'[f] \in 1..(Len(Scenes(f)) + 1)
        BY <1>0, <1>d, <4>1
      <4>. QED  BY <1>0, <4>1, <4>2 DEF MovesOK, Only, Busy
    <3>2. CASE Prompt(f) # NoPrompt
      BY <1>0, <1>2, <1>d, <3>2 DEF MovesOK, Only, Scene, Busy, Goto, Places, Prompt
    <3>. QED  BY <3>1, <3>2
  <2>. QED  BY <1>0, <1>2, <1>m, <2>1, <2>2, MovesType DEF Scene
<1>3. CASE End(f)
  <2>1. MovesOK(f)  BY <1>0, <1>3 DEF MovesOK, Only, End, Goto, Places, Busy
  <2>. QED  BY <1>0, <1>3, <1>m, <2>1, MovesType DEF End
<1>4. CASE Search(f)
  <2>1. at[f] \in Busy  BY <1>4 DEF Search, Busy, Places
  <2>2. Prompt(f) \in Prompts  BY <2>1, PathType
  <2>3. queue' \in [Paths -> Seq(Films)]  BY <1>0, <1>4, LineType DEF Search
  <2>4. stock' \in [Prompts -> {"none", "torn", "photo"}]
    BY <1>0, <1>4, <2>2 DEF Search
  <2>5. faults' \in 0..MaxFaults  BY <1>0, <1>4, FaultType DEF Search
  <2>6. MovesOK(f)
    <3>1. CASE \E look \in {"photo", "torn"} : Show(f, "stock", look)
      <4>1. PICK look \in {"photo", "torn"} : Show(f, "stock", look)  BY <3>1
      <4>2. /\ at' \in [Films -> Places] /\ at'[f] = "pause"
            /\ shown' = [g \in Films |-> shown'[g]]
            /\ \A g \in Films : shown'[g] \in [DOMAIN Scenes(g) -> Pictures \union {NoPicture}]
            /\ \A g \in Films \ {f} : at'[g] = at[g] /\ shown'[g] = shown[g]
        BY <2>1, <4>1, ShowType
      <4>. QED  BY <1>0, <1>4, <2>1, <4>2 DEF MovesOK, Only, Search, Prompt
    <3>2. CASE Goto(f, "lock") /\ shown' = shown
      BY <1>0, <1>4, <2>1, <3>2 DEF MovesOK, Only, Search, Goto, Places, Prompt
    <3>. QED  BY <1>0, <1>4, <2>2, <3>1, <3>2 DEF Search
  <2>. QED  BY <1>0, <1>4, <1>m, <2>3, <2>4, <2>5, <2>6, MovesType DEF Search
<1>5. CASE Enter(f)
  <2>1. at[f] \in Busy /\ Holds(f)  BY <1>5 DEF Enter, Busy, Places
  <2>2. Path(f) \in Paths  BY <2>1, PathType
  <2>3. queue' \in [Paths -> Seq(Films)]  BY <1>0, <1>5, <2>1, LineType DEF Enter
  <2>4. MovesOK(f)
    <3>1. CASE cache[Path(f)] # "none"
      <4>1. cache[Path(f)] \in Makers /\ Show(f, "cache", cache[Path(f)])
        BY <1>0, <1>5, <2>2, <3>1 DEF Enter
      <4>2. /\ at' \in [Films -> Places] /\ at'[f] = "pause"
            /\ shown' = [g \in Films |-> shown'[g]]
            /\ \A g \in Films : shown'[g] \in [DOMAIN Scenes(g) -> Pictures \union {NoPicture}]
            /\ \A g \in Films \ {f} : at'[g] = at[g] /\ shown'[g] = shown[g]
        BY <2>1, <4>1, ShowType
      <4>. QED  BY <1>0, <1>5, <2>1, <4>2 DEF MovesOK, Only, Enter, Prompt
    <3>2. CASE cache[Path(f)] = "none"
      BY <1>0, <1>5, <2>1, <3>2
      DEF MovesOK, Only, Enter, Goto, Places, Asking, FirstMaker, Prompt
    <3>. QED  BY <3>1, <3>2
  <2>. QED  BY <1>0, <1>5, <1>m, <2>3, <2>4, MovesType DEF Enter
<1>6. CASE Answered(f)
  <2>1. at[f] \in Busy  BY <1>6 DEF Answered, Busy, Places, Asking
  <2>2. MovesOK(f)
    BY <1>0, <1>6, <2>1 DEF MovesOK, Only, Answered, Goto, Places, Makers, Prompt
  <2>3. tries' \in [Films -> 0..MaxRetries]
    <3>1. 0 \in 0..MaxRetries  OBVIOUS
    <3>2. tries' = [tries EXCEPT ![f] = 0]  BY <1>6 DEF Answered
    <3>. QED  BY <1>0, <3>1, <3>2
  <2>. QED  BY <1>0, <1>6, <1>m, <2>2, <2>3, MovesType DEF Answered
<1>7. CASE HfFails(f) \/ AskAgain(f)
  <2>1. at[f] \in Busy  BY <1>7 DEF HfFails, AskAgain, Busy, Places, Asking
  <2>2. MovesOK(f)
    BY <1>0, <1>7, <2>1 DEF MovesOK, Only, HfFails, AskAgain, Goto, Places, Asking, Prompt
  <2>. QED  BY <1>0, <1>7, <1>m, <2>2, MovesType DEF HfFails, AskAgain
<1>8. CASE TooMany(f)
  <2>1. at[f] \in Busy  BY <1>8 DEF TooMany, Busy, Places, Asking
  <2>2. MovesOK(f)
    BY <1>0, <1>8, <2>1 DEF MovesOK, Only, TooMany, Goto, Places, Asking, Prompt
  <2>3. tries' \in [Films -> 0..MaxRetries]  BY <1>0, <1>8 DEF TooMany
  <2>. QED  BY <1>0, <1>8, <1>m, <2>2, <2>3, MovesType DEF TooMany
<1>9. CASE PollinationsFails(f)
  <2>1. at[f] \in Busy  BY <1>9 DEF PollinationsFails, Busy, Places, Asking
  <2>2. MovesOK(f)
    BY <1>0, <1>9, <2>1 DEF MovesOK, Only, PollinationsFails, Goto, Places, Makers, Prompt
  <2>3. tries' \in [Films -> 0..MaxRetries]
    <3>1. 0 \in 0..MaxRetries  OBVIOUS
    <3>2. tries' = [tries EXCEPT ![f] = 0]  BY <1>9 DEF PollinationsFails
    <3>. QED  BY <1>0, <3>1, <3>2
  <2>. QED  BY <1>0, <1>9, <1>m, <2>2, <2>3, MovesType DEF PollinationsFails
<1>10. CASE Store(f) /\ Holds(f)
  <2>1. at[f] \in Busy /\ at[f] = "store"  BY <1>10 DEF Store, Busy, Places
  <2>2. queue' \in [Paths -> Seq(Films)]  BY <1>10, <2>1, LineType DEF Store
  <2>3. cache' \in [Paths -> {"none"} \union Makers]  BY <1>0, <1>10 DEF Store
  <2>4. /\ at' \in [Films -> Places] /\ at'[f] = "pause"
        /\ shown' = [g \in Films |-> shown'[g]]
        /\ \A g \in Films : shown'[g] \in [DOMAIN Scenes(g) -> Pictures \union {NoPicture}]
        /\ \A g \in Films \ {f} : at'[g] = at[g] /\ shown'[g] = shown[g]
    BY <1>0, <1>10, <2>1, ShowType DEF Store
  <2>5. MovesOK(f)  BY <1>0, <1>10, <2>1, <2>4 DEF MovesOK, Only, Store, Prompt
  <2>. QED  BY <1>0, <1>10, <1>m, <2>2, <2>3, <2>5, MovesType DEF Store
<1>11. CASE StoreFails(f) /\ Holds(f)
  <2>1. at[f] \in Busy /\ at[f] = "store"  BY <1>11 DEF StoreFails, Busy, Places
  <2>2. queue' \in [Paths -> Seq(Films)]  BY <1>11, <2>1, LineType DEF StoreFails
  <2>3. faults' \in 0..MaxFaults  BY <1>11, FaultType DEF StoreFails
  <2>4. MovesOK(f)
    BY <1>0, <1>11, <2>1 DEF MovesOK, Only, StoreFails, Goto, Places, Busy
  <2>. QED  BY <1>0, <1>11, <1>m, <2>2, <2>3, <2>4, MovesType DEF StoreFails
<1>12. CASE Pause(f)
  <2>1. at[f] \in Busy  BY <1>12 DEF Pause, Busy, Places
  <2>2. MovesOK(f)
    BY <1>0, <1>12, <1>d, <2>1 DEF MovesOK, Only, Pause, Goto, Places, Busy
  <2>. QED  BY <1>0, <1>12, <1>m, <2>2, MovesType DEF Pause
<1>13. CASE Render(f) \/ CommitFails(f)
  <2>1. at' = [at EXCEPT ![f] = "idle"] /\ scene' = [scene EXCEPT ![f] = 1]
        /\ shown' = [shown EXCEPT ![f] = Nothing(f)] /\ art' = art
    BY <1>13 DEF Render, CommitFails, Leave, Goto
  <2>2. scene' \in [Films -> Nat] /\ scene'[f] = 1 /\ 1 \in 1..(Len(Scenes(f)) + 1)
        /\ \A g \in Films \ {f} : scene'[g] = scene[g]
    BY <1>0, <1>d, <2>1
  <2>3. /\ shown' = [g \in Films |-> shown'[g]] /\ shown'[f] = Nothing(f)
        /\ \A g \in Films \ {f} : shown'[g] = shown[g]
    BY <1>0, <2>1
  <2>4. shown'[f] \in [DOMAIN Scenes(f) -> Pictures \union {NoPicture}]
    BY <2>3, NothingType
  <2>5. at' \in [Films -> Places] /\ at'[f] = "idle" /\ \A g \in Films \ {f} : at'[g] = at[g]
    BY <1>0, <2>1 DEF Places
  <2>6. MovesOK(f)
    BY <1>0, <2>1, <2>2, <2>3, <2>4, <2>5 DEF MovesOK, Only, Busy
  <2>7. swept' \in [Films -> SUBSET Nat]
    <3>1. \A g \in Films : FromCache(g) \subseteq Nat  BY ScenesType DEF FromCache
    <3>2. CASE Render(f)  BY <1>0, <3>1, <3>2 DEF Render
    <3>3. CASE CommitFails(f)  BY <1>0, <3>3 DEF CommitFails
    <3>. QED  BY <1>13, <3>2, <3>3
  <2>8. cache' \in [Paths -> {"none"} \union Makers]
    BY <1>0, <1>13 DEF Render, CommitFails
  <2>9. faults' \in 0..MaxFaults  BY <1>0, <1>13, FaultType DEF Render, CommitFails
  <2>. QED
    BY <1>0, <1>13, <1>m, <2>6, <2>7, <2>8, <2>9, MovesType DEF Render, CommitFails
<1>. QED
  <2>1. Store(f) \/ StoreFails(f) => Holds(f)  BY DEF Store, StoreFails, Served
  <2>. QED
    BY <1>1, <1>2, <1>3, <1>4, <1>5, <1>6, <1>7, <1>8, <1>9, <1>10, <1>11, <1>12, <1>13, <2>1
    DEF Step

-----------------------------------------------------------------------------
\* Lines without repetition: what joining and leaving one does.

In(f, q) == \E i \in 1..Len(q) : q[i] = f
Once(q) == \A i, j \in 1..Len(q) : q[i] = q[j] => i = j

\* Who joins a line is in it once, at its end.
LEMMA JoinLine ==
  ASSUME NEW q \in Seq(Films), Once(q), NEW f \in Films, ~In(f, q)
  PROVE  /\ Once(Append(q, f)) /\ Append(q, f) # <<>>
         /\ \A g \in Films : In(g, Append(q, f)) <=> In(g, q) \/ g = f
         /\ q # <<>> => Head(Append(q, f)) = Head(q)
<1>1. /\ Len(Append(q, f)) = Len(q) + 1 /\ Len(q) \in Nat
      /\ \A i \in 1..Len(q) : Append(q, f)[i] = q[i]
      /\ Append(q, f)[Len(q) + 1] = f
  OBVIOUS
<1>2. Once(Append(q, f))  BY <1>1 DEF Once, In
<1>3. ASSUME NEW g \in Films PROVE In(g, Append(q, f)) <=> In(g, q) \/ g = f
  BY <1>1 DEF In
<1>4. Append(q, f) # <<>>
  BY <1>1
<1>5. ASSUME q # <<>> PROVE Head(Append(q, f)) = Head(q)
  <2>1. 1 \in 1..Len(q) /\ Head(q) = q[1]  BY <1>5
  <2>2. Append(q, f) \in Seq(Films) /\ Head(Append(q, f)) = Append(q, f)[1]
    BY <1>4
  <2>. QED  BY <1>1, <2>1, <2>2
<1>. QED  BY <1>2, <1>3, <1>4, <1>5

\* Who leaves a line was its head; the others stay.
LEMMA LeaveLine ==
  ASSUME NEW q \in Seq(Films), Once(q), q # <<>>
  PROVE  /\ Once(Tail(q))
         /\ \A g \in Films : In(g, Tail(q)) <=> In(g, q) /\ g # Head(q)
<1>1. /\ Len(Tail(q)) = Len(q) - 1 /\ Len(q) \in Nat \ {0} /\ Head(q) = q[1]
      /\ \A i \in 1..(Len(q) - 1) : Tail(q)[i] = q[i + 1]
  OBVIOUS
<1>2. Once(Tail(q))
  <2>1. ASSUME NEW i \in 1..Len(Tail(q)), NEW j \in 1..Len(Tail(q)), Tail(q)[i] = Tail(q)[j]
        PROVE  i = j
    <3>1. q[i + 1] = q[j + 1] /\ i + 1 \in 1..Len(q) /\ j + 1 \in 1..Len(q)  BY <1>1, <2>1
    <3>. QED  BY <3>1 DEF Once
  <2>. QED  BY <2>1 DEF Once
<1>3. ASSUME NEW g \in Films PROVE In(g, Tail(q)) <=> In(g, q) /\ g # Head(q)
  <2>1. ASSUME NEW i \in 1..Len(Tail(q)), Tail(q)[i] = g PROVE In(g, q) /\ g # Head(q)
    <3>1. q[i + 1] = g /\ i + 1 \in 1..Len(q) /\ i + 1 # 1 /\ 1 \in 1..Len(q)  BY <1>1, <2>1
    <3>. QED  BY <1>1, <3>1 DEF In, Once
  <2>2. ASSUME NEW i \in 1..Len(q), q[i] = g, g # Head(q) PROVE In(g, Tail(q))
    <3>1. i - 1 \in 1..Len(Tail(q)) /\ Tail(q)[i - 1] = g  BY <1>1, <2>2
    <3>. QED  BY <3>1 DEF In
  <2>. QED  BY <2>1, <2>2 DEF In
<1>. QED  BY <1>2, <1>3

-----------------------------------------------------------------------------
\* The lock of each path: who stands in its line, and who is served.

LineInv ==
  /\ \A p \in Paths : Once(queue[p])
  /\ \A p \in Paths, f \in Films : In(f, queue[p]) <=> InLine(f) /\ Path(f) = p
  /\ \A f \in Films : Served(f) => Holds(f) /\ cache[Path(f)] = "none"

Inv == TypeInv /\ LineInv

\* Nobody waits at first.
LEMMA LineInit == Init => LineInv
BY DEF Init, LineInv, Once, In, InLine, Served, Asking

\* A step's effect on the lines: none, though files may be removed, one film joins the
\* line of its path, or the film that holds the lock leaves, having written the file
\* or not.
Fewer == \A p \in Paths : cache'[p] \in {cache[p], "none"}

Stays(f) ==
  /\ UNCHANGED queue /\ Fewer /\ InLine(f)' = InLine(f)
  /\ InLine(f) => scene'[f] = scene[f]
  /\ Served(f)' => Served(f) \/ (Holds(f) /\ cache[Path(f)] = "none")

Joins(f) ==
  /\ ~InLine(f) /\ at[f] # "pause" /\ at'[f] = "lock" /\ scene'[f] = scene[f]
  /\ queue' = [queue EXCEPT ![Path(f)] = Append(@, f)] /\ UNCHANGED cache

Leaves(f) ==
  /\ InLine(f) /\ Holds(f) /\ ~InLine(f)' /\ scene'[f] = scene[f] /\ queue' = Unlocked(f)
  /\ \/ UNCHANGED cache
     \/ Served(f) /\ cache' = [cache EXCEPT ![Path(f)] = art[f]]

\* A film's step joins a line, leaves one, or changes none (asyncio.Lock of a path).
LEMMA LineShape ==
  ASSUME Inv, NEW f \in Films, Begin(f) \/ Step(f)
  PROVE  Stays(f) \/ Joins(f) \/ Leaves(f)
<1>. USE DEF InLine, Served, Asking, files, request, mapping, budget
<1>0. at \in [Films -> Places] /\ scene \in [Films -> Nat] /\ (Served(f) => Holds(f))
  BY DEF Inv, TypeInv, TypeOK, LineInv
<1>s. cache' = cache => Fewer  BY DEF Fewer
<1>1. CASE Begin(f) \/ End(f) \/ Pause(f)
  BY <1>0, <1>s, <1>1 DEF Stays, Begin, End, Pause, Goto
<1>2. CASE Scene(f)
  BY <1>0, <1>s, <1>2 DEF Stays, Joins, Scene, Goto
<1>3. CASE Search(f)
  BY <1>0, <1>s, <1>3 DEF Stays, Joins, Search, Show, Goto
<1>4. CASE Enter(f)
  BY <1>0, <1>s, <1>4 DEF Stays, Leaves, Enter, Show, Goto, FirstMaker
<1>5. CASE Answered(f) \/ HfFails(f) \/ TooMany(f) \/ AskAgain(f) \/ PollinationsFails(f)
  BY <1>0, <1>s, <1>5 DEF Stays, Answered, HfFails, TooMany, AskAgain, PollinationsFails, Goto
<1>6. CASE Store(f) \/ StoreFails(f)
  BY <1>0, <1>6 DEF Leaves, Store, StoreFails, Show, Goto
<1>7. CASE Render(f)
  <2>1. Fewer  BY <1>7 DEF Render, Fewer
  <2>. QED  BY <1>0, <1>7, <2>1 DEF Stays, Render, Leave, Goto
<1>8. CASE CommitFails(f)
  BY <1>0, <1>s, <1>8 DEF Stays, CommitFails, Leave, Goto
<1>. QED  BY <1>1, <1>2, <1>3, <1>4, <1>5, <1>6, <1>7, <1>8 DEF Step

\* The lines stay lines, whichever it does.
LEMMA LineStep ==
  ASSUME Inv, NEW f \in Films, Only(f), Stays(f) \/ Joins(f) \/ Leaves(f),
         Joins(f) => Path(f) \in Paths
  PROVE  LineInv'
<1>0. /\ queue \in [Paths -> Seq(Films)]
      /\ \A g \in Films : InLine(g) => Path(g) \in Paths
      /\ cache \in [Paths -> {"none"} \union Makers]
  BY PathType DEF Inv, TypeInv, TypeOK, InLine, Served, Asking, Busy, Places
<1>1. \A g \in Films : g # f =>
        (InLine(g)' = InLine(g) /\ Served(g)' = Served(g) /\ Path(g)' = Path(g))
  BY DEF Only, InLine, Served, Path, Prompt, Scenes
<1>2. scene'[f] = scene[f] => Path(f)' = Path(f)
  BY DEF Path, Prompt, Scenes
<1>3. /\ \A p \in Paths : Once(queue[p])
      /\ \A p \in Paths, g \in Films : In(g, queue[p]) <=> InLine(g) /\ Path(g) = p
      /\ \A g \in Films : Served(g) => Holds(g) /\ cache[Path(g)] = "none"
  BY DEF Inv, LineInv
<1>4. \A g \in Films : Served(g) => InLine(g)  BY DEF InLine
<1>5. CASE Stays(f)
  <2>1. InLine(f)' = InLine(f) /\ (InLine(f) => Path(f)' = Path(f)) /\ queue' = queue
        /\ Fewer /\ (Served(f)' => InLine(f)')
    BY <1>2, <1>5 DEF Stays, InLine
  <2>2. \A p \in Paths, g \in Films : In(g, queue'[p]) <=> InLine(g)' /\ Path(g)' = p
    BY <1>1, <1>3, <2>1
  <2>3. ASSUME NEW g \in Films, Served(g)' PROVE Holds(g)' /\ cache'[Path(g)'] = "none"
    <3>1. InLine(g) /\ Path(g)' = Path(g) /\ Path(g) \in Paths
      BY <1>0, <1>1, <1>4, <2>1, <2>3
    <3>2. Holds(g) /\ cache[Path(g)] = "none"
      BY <1>1, <1>3, <1>5, <2>3 DEF Stays
    <3>3. cache'[Path(g)] = "none"  BY <2>1, <3>1, <3>2 DEF Fewer
    <3>. QED  BY <2>1, <3>1, <3>2, <3>3 DEF Holds
  <2>. QED  BY <1>3, <2>1, <2>2, <2>3 DEF LineInv
<1>6. CASE Joins(f)
  <2>. DEFINE q == queue[Path(f)]
  <2>1. Path(f) \in Paths /\ q \in Seq(Films) /\ Once(q) /\ ~In(f, q) /\ Path(f)' = Path(f)
        /\ InLine(f)' /\ ~Served(f)'
    BY <1>0, <1>2, <1>3, <1>6 DEF Joins, InLine, Served, Asking
  <2>2. /\ Once(Append(q, f)) /\ Append(q, f) # <<>>
        /\ \A g \in Films : In(g, Append(q, f)) <=> In(g, q) \/ g = f
        /\ q # <<>> => Head(Append(q, f)) = Head(q)
    BY <2>1, JoinLine
  <2>3. \A p \in Paths : queue'[p] = IF p = Path(f) THEN Append(q, f) ELSE queue[p]
    BY <1>0, <1>6 DEF Joins
  <2>. HIDE DEF q
  <2>4. \A p \in Paths : Once(queue'[p])  BY <1>3, <2>2, <2>3
  <2>5. ASSUME NEW p \in Paths, NEW g \in Films
        PROVE  In(g, queue'[p]) <=> InLine(g)' /\ Path(g)' = p
    BY <1>1, <1>3, <2>1, <2>2, <2>3 DEF q
  <2>6. ASSUME NEW g \in Films, Served(g)' PROVE Holds(g)' /\ cache'[Path(g)'] = "none"
    <3>1. g # f /\ Served(g) /\ Path(g)' = Path(g) /\ Path(g) \in Paths
      BY <1>0, <1>1, <1>4, <2>1, <2>6
    <3>2. queue[Path(g)] # <<>> /\ Head(queue[Path(g)]) = g /\ cache[Path(g)] = "none"
      BY <1>3, <3>1 DEF Holds
    <3>3. queue'[Path(g)] # <<>> /\ Head(queue'[Path(g)]) = g
      BY <2>2, <2>3, <3>1, <3>2 DEF q
    <3>. QED  BY <1>6, <3>1, <3>2, <3>3 DEF Joins, Holds
  <2>. QED  BY <2>4, <2>5, <2>6 DEF LineInv
<1>7. CASE Leaves(f)
  <2>. DEFINE q == queue[Path(f)]
  <2>1. Path(f) \in Paths /\ q \in Seq(Films) /\ Once(q) /\ q # <<>> /\ Head(q) = f
        /\ ~InLine(f)' /\ ~Served(f)'
    BY <1>0, <1>3, <1>7 DEF Leaves, Holds, InLine
  <2>2. Once(Tail(q)) /\ \A g \in Films : In(g, Tail(q)) <=> In(g, q) /\ g # f
    BY <2>1, LeaveLine
  <2>3. \A p \in Paths : queue'[p] = IF p = Path(f) THEN Tail(q) ELSE queue[p]
    BY <1>0, <1>7 DEF Leaves, Unlocked
  <2>. HIDE DEF q
  <2>4. \A p \in Paths : Once(queue'[p])  BY <1>3, <2>2, <2>3
  <2>5. ASSUME NEW p \in Paths, NEW g \in Films
        PROVE  In(g, queue'[p]) <=> InLine(g)' /\ Path(g)' = p
    <3>1. CASE g = f
      <4>1. In(f, queue[p]) => Path(f) = p  BY <1>3
      <4>. QED  BY <2>1, <2>2, <2>3, <3>1, <4>1 DEF q
    <3>2. CASE g # f
      BY <1>1, <1>3, <2>1, <2>2, <2>3, <3>2 DEF q
    <3>. QED  BY <3>1, <3>2
  <2>6. ASSUME NEW g \in Films, Served(g)' PROVE Holds(g)' /\ cache'[Path(g)'] = "none"
    <3>1. g # f /\ Served(g) /\ Path(g)' = Path(g) /\ Path(g) \in Paths
      BY <1>0, <1>1, <1>4, <2>1, <2>6
    <3>2. queue[Path(g)] # <<>> /\ Head(queue[Path(g)]) = g /\ cache[Path(g)] = "none"
      BY <1>3, <3>1 DEF Holds
    <3>3. Path(g) # Path(f)  BY <2>1, <3>1, <3>2 DEF q
    <3>4. queue'[Path(g)] = queue[Path(g)]  BY <2>3, <3>1, <3>3
    <3>5. cache'[Path(g)] = cache[Path(g)]  BY <1>0, <1>7, <3>1, <3>3 DEF Leaves
    <3>. QED  BY <3>1, <3>2, <3>4, <3>5 DEF Holds
  <2>. QED  BY <2>4, <2>5, <2>6 DEF LineInv
<1>. QED  BY <1>5, <1>6, <1>7

-----------------------------------------------------------------------------
\* The pictures of a film: those from the cache are the files at their paths, unless
\* another film's render removed them, and the scenes with a picture are those passed
\* that have a prompt.

PathOf(f, i) == <<ScriptOf[f], Scenes(f)[i]>>
Passed(f, i) == i < scene[f] \/ (i = scene[f] /\ at[f] = "pause")

KeptAt(f, i) ==
  shown[f][i].from = "cache" =>
    /\ Scenes(f)[i] # NoPrompt /\ shown[f][i].look \in Makers
    /\ i \notin swept[f] => shown[f][i].look = cache[PathOf(f, i)]

ShownAt(f, i) ==
  IF Passed(f, i) THEN shown[f][i] = NoPicture <=> Scenes(f)[i] = NoPrompt
  ELSE shown[f][i] = NoPicture

PictureInv == \A f \in Films : \A i \in DOMAIN Scenes(f) : KeptAt(f, i) /\ ShownAt(f, i)

\* There is no picture at first.
LEMMA PictureInit == Init => PictureInv
<1>. SUFFICES ASSUME Init, NEW f \in Films, NEW i \in DOMAIN Scenes(f)
              PROVE  KeptAt(f, i) /\ ShownAt(f, i)
  BY DEF PictureInv
<1>1. shown[f][i] = NoPicture /\ scene[f] = 1 /\ at[f] = "idle" /\ i \in Nat \ {0}
  BY NothingType, ScenesType DEF Init
<1>. QED  BY <1>1 DEF KeptAt, ShownAt, Passed, NoPicture

\* A step's effect on the film's mapping: none, a scene without a prompt or with a
\* picture is passed, the scene gets its picture, or the film ends, and its render leaves
\* the pictures of the other films or marks them.
Keeps(f) ==
  /\ shown'[f] = shown[f] /\ scene'[f] = scene[f] /\ UNCHANGED <<cache, swept>>
  /\ at[f] # "pause" /\ at'[f] # "pause"

Ends(f) ==
  /\ shown'[f] = Nothing(f) /\ scene'[f] = 1 /\ at'[f] # "pause"
  /\ \A g \in Films \ {f} : \A i \in DOMAIN Scenes(g) :
       PathOf(g, i) \in Paths /\ shown[g][i].from = "cache" /\ i \notin swept'[g] =>
         i \notin swept[g] /\ cache'[PathOf(g, i)] = cache[PathOf(g, i)]

Passes(f) ==
  /\ shown'[f] = shown[f] /\ scene'[f] = scene[f] + 1 /\ UNCHANGED <<cache, swept>>
  /\ at[f] = "pause" \/ Prompt(f) = NoPrompt
  /\ at'[f] # "pause"

Shows(f, from, look) ==
  /\ at[f] \in Busy \ {"pause"} /\ at'[f] = "pause" /\ scene'[f] = scene[f] /\ UNCHANGED swept
  /\ \A i \in DOMAIN Scenes(f) :
       shown'[f][i] = IF i = scene[f] THEN [from |-> from, look |-> look] ELSE shown[f][i]
  /\ \/ from = "stock" /\ UNCHANGED cache
     \/ /\ from = "cache" /\ look \in Makers
        /\ cache[Path(f)] \in {"none", look} /\ cache' = [cache EXCEPT ![Path(f)] = look]

\* A film's step keeps all pictures, ends the film, passes a scene, or shows it a
\* picture.
LEMMA PictureShape ==
  ASSUME Inv, NEW f \in Films, Begin(f) \/ Step(f)
  PROVE  \/ Keeps(f) \/ Ends(f) \/ Passes(f)
         \/ \E from \in {"stock", "cache"}, look \in Makers \union {"photo", "torn"} :
              Shows(f, from, look)
<1>. USE DEF files, request, mapping, budget
<1>0. /\ TypeInv /\ at \in [Films -> Places] /\ scene \in [Films -> Nat]
      /\ shown = [g \in Films |-> shown[g]]
      /\ cache \in [Paths -> {"none"} \union Makers]
      /\ stock \in [Prompts -> {"none", "torn", "photo"}]
  BY DEF Inv, TypeInv, TypeOK
<1>1. CASE Begin(f)
  BY <1>0, <1>1 DEF Keeps, Begin, Goto
<1>2. CASE Scene(f)
  <2>1. CASE Prompt(f) = NoPrompt  BY <1>0, <1>2, <2>1 DEF Passes, Scene
  <2>2. CASE Prompt(f) # NoPrompt  BY <1>0, <1>2, <2>2 DEF Keeps, Scene, Goto
  <2>. QED  BY <2>1, <2>2
<1>3. CASE End(f) \/ Answered(f) \/ HfFails(f) \/ TooMany(f) \/ AskAgain(f)
           \/ PollinationsFails(f) \/ StoreFails(f)
  BY <1>0, <1>3
  DEF Keeps, End, Answered, HfFails, TooMany, AskAgain, PollinationsFails, StoreFails, Goto
<1>4. CASE Pause(f)
  BY <1>0, <1>4 DEF Passes, Pause, Goto
<1>5. CASE Search(f)
  <2>1. at[f] = "search" /\ at[f] \in Busy /\ Prompt(f) \in Prompts
    BY <1>0, <1>5, PathType DEF Search, Busy, Places
  <2>2. CASE Goto(f, "lock") /\ shown' = shown
    BY <1>0, <1>5, <2>1, <2>2 DEF Keeps, Search, Goto
  <2>3. CASE \E look \in {"photo", "torn"} : Show(f, "stock", look)
    <3>1. PICK look \in {"photo", "torn"} : Show(f, "stock", look)  BY <2>3
    <3>2. Shows(f, "stock", look)
      BY <1>0, <1>5, <2>1, <3>1, ShowType DEF Shows, Search
    <3>. QED  BY <3>2
  <2>. QED  BY <1>0, <1>5, <2>1, <2>2, <2>3 DEF Search
<1>6. CASE Enter(f)
  <2>1. at[f] = "lock" /\ at[f] \in Busy /\ Path(f) \in Paths
    BY <1>0, <1>6, PathType DEF Enter, Busy, Places
  <2>2. CASE cache[Path(f)] = "none"
    BY <1>0, <1>6, <2>1, <2>2 DEF Keeps, Enter, Goto, FirstMaker
  <2>3. CASE cache[Path(f)] # "none"
    <3>1. PICK look \in Makers : look = cache[Path(f)]  BY <1>0, <2>1, <2>3
    <3>2. Show(f, "cache", look) /\ cache' = cache /\ scene' = scene /\ swept' = swept
      BY <1>6, <2>3, <3>1 DEF Enter
    <3>3. cache' = [cache EXCEPT ![Path(f)] = look]  BY <1>0, <3>1, <3>2
    <3>4. /\ at'[f] = "pause"
          /\ \A i \in DOMAIN Scenes(f) :
               shown'[f][i] = IF i = scene[f] THEN [from |-> "cache", look |-> look]
                              ELSE shown[f][i]
      BY <1>0, <2>1, <3>2, ShowType
    <3>5. Shows(f, "cache", look)
      BY <2>1, <3>1, <3>2, <3>3, <3>4 DEF Shows
    <3>. QED  BY <3>5
  <2>. QED  BY <2>2, <2>3
<1>7. CASE Store(f)
  <2>1. at[f] = "store" /\ at[f] \in Busy /\ Path(f) \in Paths
    BY <1>0, <1>7, PathType DEF Store, Busy, Places
  <2>2. PICK look \in Makers : look = art[f]  BY <1>0, <2>1 DEF TypeInv
  <2>3. cache[Path(f)] = "none"  BY <2>1 DEF Inv, LineInv, Served
  <2>4. Show(f, "cache", look) /\ scene' = scene /\ cache' = [cache EXCEPT ![Path(f)] = look]
        /\ swept' = swept
    BY <1>7, <2>2 DEF Store
  <2>5. Shows(f, "cache", look)
    BY <1>0, <2>1, <2>2, <2>3, <2>4, ShowType DEF Shows
  <2>. QED  BY <2>5
<1>8. CASE Render(f) \/ CommitFails(f)
  <2>1. shown'[f] = Nothing(f) /\ scene'[f] = 1 /\ at'[f] = "idle"
    <3>1. /\ shown' = [shown EXCEPT ![f] = Nothing(f)] /\ scene' = [scene EXCEPT ![f] = 1]
          /\ at' = [at EXCEPT ![f] = "idle"]
      BY <1>8 DEF Render, CommitFails, Leave, Goto
    <3>. QED  BY <1>0, <3>1
  <2>2. ASSUME NEW g \in Films \ {f}, NEW i \in DOMAIN Scenes(g), PathOf(g, i) \in Paths,
               shown[g][i].from = "cache", i \notin swept'[g]
        PROVE  i \notin swept[g] /\ cache'[PathOf(g, i)] = cache[PathOf(g, i)]
    <3>1. CASE CommitFails(f)
      <4>1. swept \in [Films -> SUBSET Nat]  BY <1>0 DEF TypeInv, TypeOK
      <4>. QED  BY <2>2, <3>1, <4>1 DEF CommitFails
    <3>2. CASE Render(f)
      <4>1. i \in FromCache(g)  BY <2>2 DEF FromCache
      <4>2. swept'[g] = IF ScriptOf[g] = ScriptOf[f] THEN FromCache(g) ELSE swept[g]
        BY <3>2 DEF Render
      <4>3. ScriptOf[g] # ScriptOf[f] /\ i \notin swept[g]  BY <2>2, <4>1, <4>2
      <4>4. ~OfScript(f, PathOf(g, i))  BY <4>3 DEF OfScript, PathOf
      <4>5. cache'[PathOf(g, i)] = IF OfScript(f, PathOf(g, i)) THEN "none" ELSE cache[PathOf(g, i)]
        BY <2>2, <3>2 DEF Render
      <4>. QED  BY <4>3, <4>4, <4>5
    <3>. QED  BY <1>8, <3>1, <3>2
  <2>. QED  BY <2>1, <2>2 DEF Ends
<1>. QED  BY <1>1, <1>2, <1>3, <1>4, <1>5, <1>6, <1>7, <1>8 DEF Step

\* What is shown to a film stays what it is, whichever it does.
LEMMA PictureStep ==
  ASSUME Inv, PictureInv, NEW f \in Films, Only(f), Begin(f) \/ Step(f)
  PROVE  PictureInv'
<1>0. /\ TypeInv /\ cache \in [Paths -> {"none"} \union Makers] /\ scene \in [Films -> Nat]
  BY DEF Inv, TypeInv, TypeOK
<1>1. \A g \in Films : \A i \in DOMAIN Scenes(g) : PathOf(g, i)' = PathOf(g, i)
  BY DEF PathOf, Scenes
<1>2. \A g \in Films : Scenes(g)' = Scenes(g) /\ DOMAIN Scenes(g) \subseteq Nat
  BY ScenesType DEF Scenes
\* The cache gains pictures that no film is shown yet, or loses marked ones.
<1>3. ASSUME NEW g \in Films, NEW i \in DOMAIN Scenes(g), shown[g][i].from = "cache",
             g = f => ~Ends(f)
      PROVE  /\ Scenes(g)[i] # NoPrompt /\ shown[g][i].look \in Makers
             /\ i \notin swept'[g] => shown[g][i].look = cache'[PathOf(g, i)]
  <2>1. /\ Scenes(g)[i] # NoPrompt /\ shown[g][i].look \in Makers
        /\ i \notin swept[g] => shown[g][i].look = cache[PathOf(g, i)]
    BY <1>3 DEF PictureInv, KeptAt
  <2>2. PathOf(g, i) \in Paths  BY <2>1, ScenesType DEF PathOf
  <2>3. CASE cache' = cache /\ swept' = swept  BY <2>1, <2>3
  <2>4. CASE \E from \in {"stock", "cache"}, look \in Makers \union {"photo", "torn"} :
               Shows(f, from, look)
    <3>1. PICK from \in {"stock", "cache"}, look \in Makers \union {"photo", "torn"} :
            Shows(f, from, look)
      BY <2>4
    <3>2. CASE cache[Path(f)] \in {"none", look} /\ cache' = [cache EXCEPT ![Path(f)] = look]
      <4>1. swept' = swept  BY <3>1 DEF Shows
      <4>. QED  BY <1>0, <2>1, <2>2, <3>2, <4>1 DEF Makers
    <3>. QED  BY <2>3, <3>1, <3>2 DEF Shows
  <2>5. CASE Ends(f)
    <3>1. g # f  BY <1>3, <2>5
    <3>. QED  BY <1>3, <2>1, <2>2, <2>5, <3>1 DEF Ends
  <2>. QED  BY <2>3, <2>4, <2>5, PictureShape DEF Keeps, Passes
<1>4. ASSUME NEW g \in Films \ {f}, NEW i \in DOMAIN Scenes(g)
      PROVE  KeptAt(g, i)' /\ ShownAt(g, i)'
  <2>1. shown'[g] = shown[g] /\ (Passed(g, i)' <=> Passed(g, i))  BY DEF Only, Passed
  <2>2. ShownAt(g, i)  BY DEF PictureInv
  <2>3. ShownAt(g, i)'  BY <1>2, <2>1, <2>2 DEF ShownAt
  <2>. QED  BY <1>1, <1>2, <1>3, <2>1, <2>3 DEF KeptAt
<1>5. ASSUME NEW i \in DOMAIN Scenes(f)
      PROVE  KeptAt(f, i)' /\ ShownAt(f, i)'
  <2>0. i \in Nat \ {0} /\ scene[f] \in Nat /\ ShownAt(f, i)
    BY <1>0, ScenesType DEF PictureInv
  <2>1. CASE Keeps(f) /\ ~Ends(f)
    <3>1. Passed(f, i)' <=> Passed(f, i)  BY <2>1 DEF Keeps, Passed
    <3>. QED  BY <1>1, <1>2, <1>3, <2>0, <2>1, <3>1 DEF KeptAt, ShownAt, Keeps
  <2>2. CASE Ends(f)
    <3>1. shown'[f][i] = NoPicture  BY <2>2, NothingType DEF Ends
    <3>2. ~Passed(f, i)'  BY <2>0, <2>2 DEF Passed, Ends
    <3>. QED  BY <3>1, <3>2 DEF KeptAt, ShownAt, NoPicture
  <2>3. CASE Passes(f) /\ ~Ends(f)
    <3>1. Passed(f, i)' <=> i <= scene[f]  BY <2>0, <2>3 DEF Passed, Passes
    <3>2. i < scene[f] => Passed(f, i)  BY DEF Passed
    <3>3. i > scene[f] => ~Passed(f, i)  BY <2>0 DEF Passed
    <3>4. ShownAt(f, i)'
      <4>1. CASE i = scene[f]
        BY <1>2, <2>0, <2>3, <3>1, <4>1 DEF ShownAt, Passes, Passed, Prompt
      <4>2. CASE i # scene[f]
        BY <1>2, <2>0, <2>3, <3>1, <3>2, <3>3, <4>2 DEF ShownAt, Passes
      <4>. QED  BY <4>1, <4>2
    <3>. QED  BY <1>1, <1>2, <1>3, <2>3, <3>4 DEF KeptAt, Passes
  <2>4. CASE \E from \in {"stock", "cache"}, look \in Makers \union {"photo", "torn"} :
               Shows(f, from, look)
    <3>1. PICK from \in {"stock", "cache"}, look \in Makers \union {"photo", "torn"} :
            Shows(f, from, look)
      BY <2>4
    <3>e. CASE Ends(f)  BY <2>2, <3>e
    <3>2. at[f] \in Busy /\ at[f] # "pause" /\ scene'[f] = scene[f] /\ at'[f] = "pause"
          /\ shown'[f][i] = IF i = scene[f] THEN [from |-> from, look |-> look] ELSE shown[f][i]
      BY <3>1 DEF Shows
    <3>3. CASE i = scene[f] /\ ~Ends(f)
      <4>1. Scenes(f)[i] # NoPrompt /\ Path(f) = PathOf(f, i) /\ Path(f) \in Paths
        BY <1>0, <3>2, <3>3, PathType DEF TypeInv, Prompt, Path, PathOf
      <4>2. shown'[f][i] = [from |-> from, look |-> look] /\ Passed(f, i)'
        BY <3>2, <3>3 DEF Passed
      <4>3. from = "cache" => look \in Makers /\ cache'[Path(f)] = look
        BY <1>0, <3>1, <4>1 DEF Shows
      <4>4. shown'[f][i] # NoPicture  BY <4>2 DEF NoPicture
      <4>. QED  BY <1>1, <1>2, <4>1, <4>2, <4>3, <4>4 DEF KeptAt, ShownAt
    <3>4. CASE i # scene[f] /\ ~Ends(f)
      <4>1. (Passed(f, i)' <=> Passed(f, i)) /\ shown'[f][i] = shown[f][i]
        BY <3>2, <3>4 DEF Passed
      <4>2. KeptAt(f, i)'  BY <1>1, <1>2, <1>3, <3>4, <4>1 DEF KeptAt
      <4>. QED  BY <1>1, <1>2, <2>0, <4>1, <4>2 DEF ShownAt
    <3>. QED  BY <3>e, <3>3, <3>4
  <2>. QED  BY <2>1, <2>2, <2>3, <2>4, PictureShape
<1>. QED
  <2>1. \A g \in Films : \A i \in DOMAIN Scenes(g) : KeptAt(g, i)' /\ ShownAt(g, i)'
    BY <1>4, <1>5
  <2>. QED  BY <1>2, <2>1 DEF PictureInv

-----------------------------------------------------------------------------
\* A step without a failure keeps the film going or empties its script's directory.
LEMMA DiskStep ==
  ASSUME Inv, DiskFreed, [Next]_vars
  PROVE  DiskFreed'
<1>. SUFFICES ASSUME faults' = MaxFaults, NEW p \in Paths, cache'[p] # "none"
              PROVE  \E g \in Films : OfScript(g, p) /\ at'[g] # "idle"
  BY DEF DiskFreed, OfScript
<1>. USE DEF files, request, mapping, budget
<1>0. /\ faults \in 0..MaxFaults /\ MaxFaults \in Nat /\ at \in [Films -> Places]
      /\ cache \in [Paths -> {"none"} \union Makers]
  BY ImagesAssumption DEF Inv, TypeInv, TypeOK
<1>1. \A k : ~Fault(k)  BY <1>0 DEF Fault
<1>2. cache[p] # "none" /\ faults = MaxFaults => \E g \in Films : OfScript(g, p) /\ at[g] # "idle"
  BY DEF DiskFreed
<1>3. ASSUME NEW f \in Films, Begin(f) \/ Step(f)
      PROVE  \E g \in Films : OfScript(g, p) /\ at'[g] # "idle"
  <2>1. faults = MaxFaults
    BY <1>1, <1>3 DEF Step, Begin, Scene, End, Search, Enter, Answered, HfFails, TooMany,
       AskAgain, PollinationsFails, Store, StoreFails, Pause, Render, CommitFails
  <2>2. Only(f)
    BY <1>3, StepType DEF Inv, LineInv
  <2>3. CASE Render(f)
    <3>1. ~OfScript(f, p) /\ cache[p] # "none"  BY <2>3 DEF Render
    <3>2. PICK g \in Films : OfScript(g, p) /\ at[g] # "idle"  BY <1>2, <2>1, <3>1
    <3>. QED  BY <2>2, <3>1, <3>2 DEF Only
  <2>4. CASE ~Render(f)
    <3>1. at'[f] # "idle"
      <4>1. CASE Begin(f) \/ Scene(f) \/ End(f) \/ Pause(f) \/ Enter(f)
        BY <1>0, <4>1 DEF Begin, Scene, End, Pause, Enter, Show, Goto, FirstMaker
      <4>2. CASE Search(f)  BY <1>0, <4>2 DEF Search, Show, Goto
      <4>3. CASE Answered(f) \/ HfFails(f) \/ TooMany(f) \/ AskAgain(f) \/ PollinationsFails(f)
                 \/ Store(f)
        BY <1>0, <4>3
        DEF Answered, HfFails, TooMany, AskAgain, PollinationsFails, Store, Show, Goto
      <4>. QED
        BY <1>1, <1>3, <2>4, <4>1, <4>2, <4>3 DEF Step, StoreFails, CommitFails
    <3>2. CASE cache[p] # "none"
      <4>1. PICK g \in Films : OfScript(g, p) /\ at[g] # "idle"  BY <1>2, <2>1, <3>2
      <4>. QED  BY <2>2, <3>1, <4>1 DEF Only
    <3>3. CASE cache[p] = "none"
      <4>1. Store(f)
        BY <1>3, <2>4, <3>3 DEF Step, Begin, Scene, End, Search, Enter, Answered, HfFails,
           TooMany, AskAgain, PollinationsFails, StoreFails, Pause, CommitFails
      <4>2. p = Path(f)  BY <1>0, <3>3, <4>1 DEF Store
      <4>. QED  BY <3>1, <4>2 DEF OfScript, Path
    <3>. QED  BY <3>2, <3>3
  <2>. QED  BY <2>3, <2>4
<1>4. CASE Crash  BY <1>1, <1>4 DEF Crash
<1>5. CASE UNCHANGED vars
  BY <1>2, <1>5 DEF vars
<1>. QED  BY <1>3, <1>4, <1>5 DEF Next

-----------------------------------------------------------------------------
\* The process dies: the lines and mappings are gone, the cached files are whole.
LEMMA CrashStep ==
  ASSUME TypeInv, Crash
  PROVE  TypeInv' /\ LineInv' /\ PictureInv'
<1>0. /\ cache \in [Paths -> {"none"} \union Makers] /\ keys \in [stock : BOOLEAN, hf : BOOLEAN]
      /\ stock \in [Prompts -> {"none", "torn", "photo"}] /\ films \in 0..MaxFilms
  BY DEF TypeInv, TypeOK
<1>1. /\ \A f \in Films : 1 \in 1..(Len(Scenes(f)) + 1)
      /\ \A f \in Films : \A i \in DOMAIN Scenes(f) : i \in Nat \ {0}
  BY ScenesType
<1>2. cache' = cache /\ stock' \in [Prompts -> {"none", "torn", "photo"}]
  BY <1>0 DEF Crash, CacheLeft, StockLeft
<1>3. /\ faults' \in 0..MaxFaults /\ queue' \in [Paths -> Seq(Films)]
      /\ at' \in [Films -> Places] /\ tries' \in [Films -> 0..MaxRetries]
      /\ art' \in [Films -> {"none"} \union Makers] /\ scene' \in [Films -> Nat]
  BY FaultType, ImagesAssumption DEF Crash, Places
<1>4. /\ \A f \in Films : at'[f] = "idle" /\ scene'[f] = 1 /\ shown'[f] = Nothing(f)
      /\ shown' = [f \in Films |-> shown'[f]] /\ keys' = keys /\ films' = films
      /\ swept' \in [Films -> SUBSET Nat]
      /\ \A p \in Paths : queue'[p] = <<>>
  BY DEF Crash
<1>5. TypeInv'
  <2>1. /\ \A f \in Films : scene'[f] \in 1..(Len(Scenes(f)) + 1)
        /\ \A f \in Films : shown'[f] \in [DOMAIN Scenes(f) -> Pictures \union {NoPicture}]
    BY <1>1, <1>4, NothingType
  <2>2. TypeOK'  BY <1>0, <1>2, <1>3, <1>4, <2>1 DEF TypeOK, Scenes
  <2>. QED  BY <1>3, <1>4, <2>2 DEF TypeInv, Busy
<1>6. LineInv'
  BY <1>3, <1>4 DEF LineInv, Once, In, InLine, Served, Asking
<1>7. PictureInv'
  <2>1. ASSUME NEW f \in Films, NEW i \in DOMAIN Scenes(f) PROVE KeptAt(f, i)' /\ ShownAt(f, i)'
    <3>1. shown'[f][i] = NoPicture /\ ~Passed(f, i)'
      BY <1>1, <1>4, NothingType DEF Passed
    <3>. QED  BY <3>1 DEF KeptAt, ShownAt, NoPicture
  <2>2. \A f \in Films : Scenes(f)' = Scenes(f)  BY DEF Scenes
  <2>. QED  BY <2>1, <2>2 DEF PictureInv
<1>. QED  BY <1>5, <1>6, <1>7

\* Every step keeps the types, the lines and the pictures.
LEMMA InvStep == Inv /\ PictureInv /\ [Next]_vars => Inv' /\ PictureInv'
<1>. SUFFICES ASSUME Inv, PictureInv, [Next]_vars PROVE Inv' /\ PictureInv'
  OBVIOUS
<1>1. CASE \E f \in Films : Begin(f) \/ Step(f)
  <2>1. PICK f \in Films : Begin(f) \/ Step(f)  BY <1>1
  <2>2. TypeInv /\ (Served(f) => Holds(f))  BY DEF Inv, LineInv
  <2>3. TypeInv' /\ Only(f)  BY <2>1, <2>2, StepType
  <2>4. Joins(f) => Path(f) \in Paths
    <3>1. ASSUME Joins(f) PROVE TypeInv' /\ at'[f] \in Busy /\ Path(f)' = Path(f)
      BY <2>3, <3>1 DEF Joins, Busy, Places, Path, Prompt, Scenes
    <3>2. ASSUME TypeInv', at'[f] \in Busy PROVE Path(f)' \in Paths
      <4>1. scene'[f] \in DOMAIN Scenes(f)' /\ Prompt(f)' # NoPrompt
        BY <3>2 DEF TypeInv
      <4>2. scene'[f] \in DOMAIN Scenes(f) /\ Scenes(f)[scene'[f]] # NoPrompt
        BY <4>1 DEF Prompt, Scenes
      <4>3. <<ScriptOf[f], Scenes(f)[scene'[f]]>> \in Paths  BY <4>2, ScenesType
      <4>. QED  BY <4>3 DEF Path, Prompt, Scenes
    <3>. QED  BY <3>1, <3>2
  <2>5. LineInv'  BY <2>1, <2>3, <2>4, LineShape, LineStep
  <2>6. PictureInv'  BY <2>1, <2>3, PictureStep
  <2>. QED  BY <2>3, <2>5, <2>6 DEF Inv
<1>2. CASE Crash
  BY <1>2, CrashStep DEF Inv
<1>3. CASE UNCHANGED vars
  <2>1. TypeInv'  BY <1>3 DEF Inv, TypeInv, TypeOK, vars, Prompt, Scenes
  <2>2. LineInv'  BY <1>3 DEF Inv, LineInv, vars, InLine, Served, Holds, Path, Prompt, Scenes
  <2>3. PictureInv'
    BY <1>3 DEF PictureInv, KeptAt, ShownAt, Passed, PathOf, vars, Scenes
  <2>. QED  BY <2>1, <2>2, <2>3 DEF Inv
<1>. QED  BY <1>1, <1>2, <1>3 DEF Next

\* The invariant holds at first.
LEMMA InvInit == Init => Inv /\ PictureInv
BY TypeInit, LineInit, PictureInit DEF Inv

\* Every reachable state is well-typed, and no cached picture is ever torn.
THEOREM TypeCorrect == Spec => []TypeOK
<1>1. Inv => TypeOK  BY DEF Inv, TypeInv
<1>. QED  BY <1>1, InvInit, InvStep, PTL DEF Spec

\* However many films of a script are made at once, a picture is asked for by one
\* of them, and not when it is there already.
THEOREM AskedOnly == Spec => []AskedOnce
<1>1. Inv => AskedOnce
  BY DEF Inv, LineInv, AskedOnce, Served, Holds
<1>. QED  BY <1>1, InvInit, InvStep, PTL DEF Spec

\* The pictures a film was handed are whole, and the files at their paths until it is
\* rendered, unless the render of another film of its script removed them: for any
\* other films, failed writes, failed commits and crashes.
THEOREM HandedPicturesStay == Spec => []PicturesStay
<1>1. PictureInv => PicturesStay
  BY DEF PictureInv, KeptAt, PathOf, PicturesStay, FromCache
<1>. QED  BY <1>1, InvInit, InvStep, PTL DEF Spec

\* Without a failure no picture stays on the disk when all films of its script are done.
THEOREM PicturesRemoved == Spec => []DiskFreed
<1>1. Init => DiskFreed  BY DEF Init, DiskFreed
<1>. QED  BY <1>1, InvInit, InvStep, DiskStep, PTL DEF Spec

\* Whatever the providers answer, a passed scene has a picture if it has a prompt.
THEOREM PassedScenesIllustrated == Spec => []ScenesIllustrated
<1>1. PictureInv => ScenesIllustrated
  BY DEF PictureInv, ShownAt, Passed, ScenesIllustrated
<1>. QED  BY <1>1, InvInit, InvStep, PTL DEF Spec
=============================================================================
