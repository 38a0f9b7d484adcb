----------------------------- MODULE UpkeepProofs -----------------------------
(***************************************************************************)
(* What keeps a published film and its database in order over the weeks.   *)
(* First the cross-post to Instagram: its invariants, for any number of    *)
(* films and ticks, any retention, delay, retry cap, token life and        *)
(* warning window.  Then the database schema: whatever route of upgrades,  *)
(* downgrades and create_all calls a database took, it serves the models   *)
(* at the head revision, an upgrade stops in four known places only, and a *)
(* downgrade by one step is undone by the upgrade, but for those that drop *)
(* what the upgrade expects or leave an enum type that it creates.         *)
(***************************************************************************)
EXTENDS CrossPosting, SchemaMigrations, FiniteSetTheorems, TLAPS

USE CrossPostingAssumption DEF Gone, Unscheduled

\* Types, by the part of the system they belong to.
UploadRow == [status : {"none", "waiting", "published"}, due : Unscheduled..Delay,
              posted : BOOLEAN, tries : Nat, dead : BOOLEAN]

MediaOK ==
  /\ done \in SUBSET Films
  /\ file \in [Films -> Gone..(Retention + 1)] /\ late \in SUBSET Films
  /\ row \in [Films -> UploadRow]
  /\ sweep \in [on : BOOLEAN, kept : SUBSET Films] /\ raced \in SUBSET Films

Place == [at : {"idle", "next", "asking", "made", "mark", "failed"},
          left : SUBSET Films, up : SUBSET Films, tries : [Films -> Nat]]

PostsOK ==
  /\ tick \in [Ticks -> Place]
  /\ reels \in [Films -> Nat] /\ excuses \in [Films -> Nat]

TokensOK ==
  /\ env \in Token /\ store \in [file : {"absent", "set", "torn"}, token : Token]
  /\ checked \in BOOLEAN /\ faults \in Nat /\ lapses \in 0..Warn

TypeInv == MediaOK /\ PostsOK /\ TokensOK

\* The parts are the type invariant.
LEMMA Parts == TypeInv => TypeOK
BY DEF TypeInv, TypeOK, MediaOK, PostsOK, TokensOK, Place, UploadRow

-----------------------------------------------------------------------------
\* What the building blocks of the actions write.

\* A new, an aged or a refreshed token is a token.
LEMMA TokenTypes ==
  /\ NewToken \in Token
  /\ \A k \in Token : Older(k) \in Token
  /\ \A n \in 0..Warn : Longer(n) \in 0..Warn
<1>1. NewToken \in Token BY DEF NewToken, Token
<1>2. ASSUME NEW k \in Token PROVE Older(k) \in Token
  <2>1. Older(k) = [k EXCEPT !.age = IF k.age < Life THEN k.age + 1 ELSE k.age] BY DEF Older
  <2>2. k.age \in 0..Life BY DEF Token
  <2>. QED BY <2>1, <2>2 DEF Token
<1>3. \A n \in 0..Warn : Longer(n) \in 0..Warn BY DEF Longer
<1>. QED BY <1>1, <1>2, <1>3

\* A fault counts one more.
LEMMA FaultType == ASSUME faults \in Nat, NEW k, Fault(k) PROVE faults' \in Nat
BY DEF Fault

\* An excuse counts one more for its film.
LEMMA ExcuseType == ASSUME PostsOK, NEW up, Excuse(up) PROVE excuses' \in [Films -> Nat]
BY DEF PostsOK, Excuse

\* Where a tick may be moved to.
LEMMA PlaceType ==
  ASSUME PostsOK, NEW t \in Ticks
  PROVE  /\ Idle \in Place
         /\ \A to \in {"idle", "next", "asking", "made", "mark", "failed"} :
              Moves(t, to) => tick' \in [Ticks -> Place]
         /\ Returns(t) => tick' \in [Ticks -> Place]
         /\ Aborts(t) => tick' \in [Ticks -> Place]
<1>1. Idle \in Place BY DEF Idle, Place
<1>2. tick[t] \in Place BY DEF PostsOK
<1>3. ASSUME NEW to \in {"idle", "next", "asking", "made", "mark", "failed"}, Moves(t, to)
      PROVE  tick' \in [Ticks -> Place]
  <2>1. [tick[t] EXCEPT !.at = to] \in Place BY <1>2 DEF Place
  <2>2. tick' = [tick EXCEPT ![t] = [tick[t] EXCEPT !.at = to]] BY <1>3 DEF Moves
  <2>. QED BY <2>1, <2>2 DEF PostsOK
<1>4. ASSUME Returns(t) PROVE tick' \in [Ticks -> Place]
  <2>1. [[tick[t] EXCEPT !.at = "next"] EXCEPT !.up = {}] \in Place BY <1>2 DEF Place
  <2>2. tick' = [tick EXCEPT ![t] = [[tick[t] EXCEPT !.at = "next"] EXCEPT !.up = {}]]
    BY <1>4 DEF Returns, PostsOK
  <2>. QED BY <2>1, <2>2 DEF PostsOK
<1>5. Aborts(t) => tick' \in [Ticks -> Place] BY <1>1 DEF Aborts, PostsOK
<1>. QED BY <1>1, <1>3, <1>4, <1>5

\* The rows after a post, and after a failed one: only the film that was up
\* changes, and neither its status nor its day.
LEMMA RowTypes ==
  ASSUME MediaOK, PostsOK, NEW t \in Ticks, Posted(t) \/ Counted(t)
  PROVE  /\ row' \in [Films -> UploadRow]
         /\ \A f \in Films : /\ row'[f].status = row[f].status /\ row'[f].due = row[f].due
                             /\ row[f].posted => row'[f].posted
                             /\ row[f].dead => row'[f].dead
<1>1. \A f \in Films : row[f] \in UploadRow /\ tick[t].tries[f] \in Nat
  BY DEF MediaOK, PostsOK, Place
<1>2. CASE Posted(t)
  <2>1. \A f \in Films : [row[f] EXCEPT !.posted = TRUE] \in UploadRow BY <1>1 DEF UploadRow
  <2>. QED BY <1>1, <1>2, <2>1 DEF Posted, UploadRow
<1>3. CASE Counted(t)
  <2>. DEFINE New(f) == [row[f] EXCEPT !.tries = tick[t].tries[f] + 1,
                                       !.dead = @ \/ tick[t].tries[f] + 1 >= Cap]
  <2>1. ASSUME NEW f \in Films PROVE New(f) \in UploadRow /\ New(f).status = row[f].status
          /\ New(f).due = row[f].due /\ New(f).posted = row[f].posted
          /\ (row[f].dead => New(f).dead)
    <3>. DEFINE n == tick[t].tries[f] + 1
                d == row[f].dead \/ n >= Cap
    <3>1. n \in Nat /\ d \in BOOLEAN /\ (row[f].dead => d) BY <1>1 DEF UploadRow
    <3>2. New(f) = [row[f] EXCEPT !.tries = n, !.dead = d] BY <1>1 DEF UploadRow
    <3>. HIDE DEF n, d, New
    <3>. QED BY <1>1, <3>1, <3>2 DEF UploadRow
  <2>2. row' = [f \in Films |-> IF f \in tick[t].up THEN New(f) ELSE row[f]]
    BY <1>3 DEF Counted
  <2>. QED BY <1>1, <2>1, <2>2
<1>. QED BY <1>2, <1>3

-----------------------------------------------------------------------------
\* The first state is well-typed.
LEMMA TypeInit == Init => TypeInv
<1>. SUFFICES ASSUME Init PROVE MediaOK /\ PostsOK /\ TokensOK BY DEF TypeInv
<1>1. MediaOK BY DEF Init, MediaOK, UploadRow
<1>2. PostsOK BY DEF Init, PostsOK, Idle, Place
<1>3. TokensOK
  <2>1. \A d \in BOOLEAN : [NewToken EXCEPT !.dated = d] \in Token BY TokenTypes DEF Token
  <2>2. env \in Token BY <2>1 DEF Init
  <2>3. store \in [file : {"absent", "set", "torn"}, token : Token]
    BY TokenTypes DEF Init, Absent
  <2>4. 0 \in 0..Warn OBVIOUS
  <2>5. checked \in BOOLEAN /\ faults \in Nat /\ lapses \in 0..Warn BY <2>4 DEF Init
  <2>. QED BY <2>2, <2>3, <2>5 DEF TokensOK
<1>. QED BY <1>1, <1>2, <1>3

\* Rendering and publication.
LEMMA MediaType ==
  ASSUME MediaOK, NEW f \in Films, NEW b \in BOOLEAN,
         RenderStarts(f) \/ RenderEnds(f) \/ MakesUpload(f) \/ Publishes(f, b)
  PROVE  MediaOK'
<1>1. CASE RenderStarts(f) BY <1>1 DEF RenderStarts, MediaOK
<1>2. CASE RenderEnds(f) BY <1>2 DEF RenderEnds, MediaOK
<1>3. CASE MakesUpload(f)
  <2>1. [row[f] EXCEPT !.status = "waiting"] \in UploadRow BY DEF MediaOK, UploadRow
  <2>2. row' = [row EXCEPT ![f] = [row[f] EXCEPT !.status = "waiting"]] BY <1>3 DEF MakesUpload
  <2>3. row' \in [Films -> UploadRow] BY <2>1, <2>2 DEF MediaOK
  <2>. QED BY <1>3, <2>3 DEF MakesUpload, MediaOK
<1>4. CASE Publishes(f, b)
  <2>. DEFINE New == [[row[f] EXCEPT !.status = "published"]
                        EXCEPT !.due = IF b THEN Delay ELSE Unscheduled]
  <2>0. (IF b THEN Delay ELSE Unscheduled) \in Unscheduled..Delay OBVIOUS
  <2>1. New \in UploadRow BY <2>0 DEF MediaOK, UploadRow
  <2>2. row' = [row EXCEPT ![f] = New] BY <1>4 DEF Publishes, MediaOK
  <2>3. row' \in [Films -> UploadRow] BY <2>1, <2>2 DEF MediaOK
  <2>. QED BY <1>4, <2>3 DEF Publishes, MediaOK
<1>. QED BY <1>1, <1>2, <1>3, <1>4

\* The token's actions.
LEMMA TokenType ==
  ASSUME TokensOK, Check \/ ManualRefresh \/ Revoke \/ Regenerate
  PROVE  TokensOK'
<1>1. Renewed => store' \in [file : {"absent", "set", "torn"}, token : Token] /\ lapses' \in 0..Warn
      /\ faults' \in Nat
  BY TokenTypes DEF Renewed, TokensOK
<1>2. NotRenewed => store' = store /\ faults' \in Nat BY FaultType DEF NotRenewed, TokensOK
<1>3. CASE Check BY <1>1, <1>2, <1>3, TokenTypes DEF Check, TokensOK
<1>4. CASE ManualRefresh BY <1>1, <1>2, <1>4 DEF ManualRefresh, TokensOK
<1>5. CASE Revoke
  <2>1. [store EXCEPT !.token.live = FALSE] \in [file : {"absent", "set", "torn"}, token : Token]
    BY DEF TokensOK, Token
  <2>2. [env EXCEPT !.live = FALSE] \in Token BY DEF TokensOK, Token
  <2>. QED BY <1>5, <2>1, <2>2, FaultType DEF Revoke, TokensOK
<1>6. CASE Regenerate BY <1>6, TokenTypes DEF Regenerate, TokensOK
<1>. QED BY <1>3, <1>4, <1>5, <1>6

\* A tick's steps.
LEMMA TickType ==
  ASSUME TypeInv, NEW t \in Ticks, TickSteps(t)
  PROVE  TypeInv'
<1>. USE DEF TypeInv
<1>1. CASE TickLists(t)
  <2>. DEFINE due == {f \in Films : Due(f)}
              new == [at |-> "next", left |-> due, up |-> {},
                      tries |-> [f \in Films |-> IF f \in due THEN row[f].tries ELSE 0]]
  <2>1. \A f \in Films : row[f].tries \in Nat BY DEF MediaOK, UploadRow
  <2>2. new \in Place BY <2>1 DEF Place
  <2>3. tick' = [tick EXCEPT ![t] = new] BY <1>1 DEF TickLists
  <2>4. tick' \in [Ticks -> Place] BY <2>2, <2>3 DEF PostsOK
  <2>5. excuses' \in [Films -> Nat] BY <1>1, ExcuseType DEF TickLists
  <2>6. faults' \in Nat BY <1>1, FaultType DEF TickLists, TokensOK
  <2>. QED BY <1>1, <2>4, <2>5, <2>6 DEF TickLists, MediaOK, PostsOK, TokensOK, media, tokens
<1>2. CASE TickAsks(t)
  <2>1. PICK f \in tick[t].left :
          tick' = [tick EXCEPT ![t] = [tick[t] EXCEPT !.at = "asking", !.up = {f}, !.left = @ \ {f}]]
    BY <1>2 DEF TickAsks
  <2>2. [tick[t] EXCEPT !.at = "asking", !.up = {f}, !.left = @ \ {f}] \in Place
    BY DEF PostsOK, Place
  <2>3. tick' \in [Ticks -> Place] BY <2>1, <2>2 DEF PostsOK
  <2>. QED BY <1>2, <2>3 DEF TickAsks, MediaOK, PostsOK, TokensOK, media, tokens
<1>3. CASE TickEnds(t)
  BY <1>3, PlaceType DEF TickEnds, MediaOK, PostsOK, TokensOK, media, tokens
<1>4. CASE MakesReel(t)
  <2>1. reels' \in [Films -> Nat] BY <1>4 DEF MakesReel, PostsOK
  <2>. QED BY <1>4, <2>1, PlaceType DEF MakesReel, MediaOK, PostsOK, TokensOK, media, tokens
<1>5. CASE Refused(t)
  BY <1>5, PlaceType, FaultType DEF Refused, MediaOK, PostsOK, TokensOK, media, tokens
<1>6. CASE Answered(t)
  BY <1>6, PlaceType DEF Answered, MediaOK, PostsOK, TokensOK, media, tokens
<1>7. CASE AnswerLost(t)
  BY <1>7, PlaceType, FaultType, ExcuseType
  DEF AnswerLost, MediaOK, PostsOK, TokensOK, media, tokens
<1>8. CASE Marks(t)
  BY <1>8, PlaceType, RowTypes DEF Marks, MediaOK, PostsOK, TokensOK, tokens
<1>9. CASE MarkLost(t)
  BY <1>9, PlaceType, RowTypes, FaultType, ExcuseType
  DEF MarkLost, MediaOK, PostsOK, TokensOK, tokens
<1>10. CASE Counts(t)
  BY <1>10, PlaceType, RowTypes DEF Counts, MediaOK, PostsOK, TokensOK, tokens
<1>11. CASE CountLost(t)
  BY <1>11, PlaceType, RowTypes, FaultType DEF CountLost, MediaOK, PostsOK, TokensOK, tokens
<1>. QED BY <1>1, <1>2, <1>3, <1>4, <1>5, <1>6, <1>7, <1>8, <1>9, <1>10, <1>11 DEF TickSteps

\* Crash and time.
LEMMA CrashType ==
  ASSUME TypeInv, Crash
  PROVE  TypeInv'
<1>. USE DEF TypeInv
<1>1. store' \in [file : {"absent", "set", "torn"}, token : Token] /\ faults' \in Nat
  BY TokenTypes, FaultType DEF Crash, TokensOK, Torn
<1>2. lapses' \in 0..Warn BY TokenTypes DEF Crash, TokensOK
<1>3. tick' \in [Ticks -> Place] BY DEF Crash, Idle, Place
<1>4. excuses' \in [Films -> Nat] BY ExcuseType DEF Crash
<1>. QED BY <1>1, <1>2, <1>3, <1>4 DEF Crash, MediaOK, PostsOK, TokensOK

\* A day that passes keeps the types (check_and_refresh_token, the daily job).
LEMMA DayType ==
  ASSUME TypeInv, Day
  PROVE  TypeInv'
<1>. USE DEF TypeInv
<1>1. file' \in [Films -> Gone..(Retention + 1)] BY DEF Day, MediaOK
<1>2. row' \in [Films -> UploadRow]
  <2>1. \A f \in Films : row[f].due > 0 => [row[f] EXCEPT !.due = @ - 1] \in UploadRow
    BY DEF MediaOK, UploadRow
  <2>. QED BY <2>1 DEF Day, MediaOK
<1>3. env' \in Token BY TokenTypes DEF Day, TokensOK
<1>4. store' \in [file : {"absent", "set", "torn"}, token : Token]
  <2>1. Older(store.token) \in Token BY TokenTypes DEF TokensOK
  <2>2. [store EXCEPT !.token = Older(store.token)]
          \in [file : {"absent", "set", "torn"}, token : Token]
    BY <2>1 DEF TokensOK
  <2>3. store' \in {store, [store EXCEPT !.token = Older(store.token)]} BY DEF Day
  <2>. QED BY <2>2, <2>3 DEF TokensOK
<1>. QED BY <1>1, <1>2, <1>3, <1>4 DEF Day, MediaOK, PostsOK, TokensOK, posts

\* Every step keeps the types.
LEMMA TypeStep == TypeInv /\ [Next]_vars => TypeInv'
<1>. SUFFICES ASSUME TypeInv, [Next]_vars PROVE TypeInv' OBVIOUS
<1>. USE DEF TypeInv
<1>1. ASSUME NEW f \in Films, NEW b \in BOOLEAN,
             RenderStarts(f) \/ RenderEnds(f) \/ MakesUpload(f) \/ Publishes(f, b)
      PROVE  TypeInv'
  <2>1. MediaOK' BY <1>1, MediaType
  <2>2. UNCHANGED <<posts, tokens, faults>>
    BY <1>1 DEF RenderStarts, RenderEnds, MakesUpload, Publishes
  <2>. QED BY <2>1, <2>2 DEF posts, tokens, PostsOK, TokensOK
<1>2. CASE SweepReads \/ SweepDeletes
  <2>1. MediaOK'
    <3>1. CASE SweepReads BY <3>1 DEF SweepReads, MediaOK
    <3>2. CASE SweepDeletes BY <3>2 DEF SweepDeletes, MediaOK
    <3>. QED BY <1>2, <3>1, <3>2
  <2>2. UNCHANGED <<posts, tokens, faults>> BY <1>2 DEF SweepReads, SweepDeletes
  <2>. QED BY <2>1, <2>2 DEF posts, tokens, PostsOK, TokensOK
<1>3. CASE Check \/ ManualRefresh \/ Revoke \/ Regenerate
  <2>1. TokensOK' BY <1>3, TokenType
  <2>2. UNCHANGED <<media, posts>> BY <1>3 DEF Check, ManualRefresh, Revoke, Regenerate
  <2>. QED BY <2>1, <2>2 DEF media, posts, MediaOK, PostsOK
<1>4. ASSUME NEW t \in Ticks, TickSteps(t) PROVE TypeInv' BY <1>4, TickType
<1>5. CASE Crash BY <1>5, CrashType
<1>6. CASE Day BY <1>6, DayType
<1>7. CASE UNCHANGED vars BY <1>7 DEF vars, MediaOK, PostsOK, TokensOK
<1>. QED BY <1>1, <1>2, <1>3, <1>4, <1>5, <1>6, <1>7 DEF Next

\* Every variable keeps its type.
THEOREM TypeCorrect == Spec => []TypeOK
BY TypeInit, TypeStep, Parts, PTL DEF Spec

-----------------------------------------------------------------------------
(* The token.  Each day of the warning window ends in a renewal or in a    *)
(* lapse: the age, with today's check counted, is never ahead of the       *)
(* lapses by more than the days before the window.                         *)
TokenInv ==
  store.file # "torn" /\ Current.live
    => lapses = Warn \/ lapses + (Life - Warn) >= Current.age + (IF checked THEN 1 ELSE 0)

\* The token is fresh at first.
LEMMA TokenInit == Init => TokenInv
BY DEF Init, TokenInv, Absent, NewToken, Current, Stored

\* Outside the window a check finds nothing to do.
LEMMA NotClose ==
  ASSUME TokensOK, ~CloseToExpiry
  PROVE  Current.age + 1 <= Life - Warn
BY DEF TokensOK, CloseToExpiry, Remaining, Current, Stored, Token

\* Every step keeps the token no older than the lapses of its checks explain.
LEMMA TokenStep == TypeInv /\ TokenInv /\ [Next]_vars => TokenInv'
<1>. SUFFICES ASSUME TypeInv, TokenInv, [Next]_vars PROVE TokenInv' OBVIOUS
<1>t. TokensOK BY DEF TypeInv
<1>age. Current.age \in 0..Life /\ lapses \in 0..Warn BY <1>t DEF TokensOK, Token, Current, Stored
<1>1. ASSUME UNCHANGED tokens PROVE TokenInv'
  BY <1>1 DEF tokens, TokenInv, Current, Stored
<1>r. ASSUME Renewed PROVE TokenInv'
  BY <1>r DEF Renewed, TokenInv, Current, Stored, NewToken
<1>2. CASE Check
  <2>1. CASE ~CloseToExpiry
    <3>1. Current' = Current /\ lapses' = lapses /\ store' = store
      BY <1>2, <2>1 DEF Check, Current, Stored
    <3>. QED BY <1>age, <1>t, <2>1, <3>1, NotClose DEF TokenInv
  <2>2. CASE CloseToExpiry /\ NotRenewed /\ lapses' = Longer(lapses)
    <3>1. Current' = Current /\ store' = store BY <1>2, <2>2 DEF Check, NotRenewed, Current, Stored
    <3>2. checked' = TRUE /\ checked = FALSE BY <1>2, <1>t DEF Check, TokensOK
    <3>. QED BY <1>age, <2>2, <3>1, <3>2 DEF TokenInv, Longer
  <2>. QED BY <1>2, <1>r, <2>1, <2>2 DEF Check
<1>3. CASE ManualRefresh
  <2>1. CASE NotRenewed /\ UNCHANGED lapses
    BY <1>1, <1>3, <2>1 DEF ManualRefresh, NotRenewed, tokens
  <2>. QED BY <1>3, <1>r, <2>1 DEF ManualRefresh
<1>4. CASE Revoke
  <2>1. ~Current'.live BY <1>4, <1>t DEF Revoke, Current, Stored, TokensOK, Token
  <2>. QED BY <2>1 DEF TokenInv
<1>5. CASE Regenerate
  <2>1. CASE Stored
    <3>1. Current' = Current /\ lapses' = lapses /\ store' = store
      BY <1>5, <2>1 DEF Regenerate, Current, Stored
    <3>2. Current.live => Current.age >= Life BY <1>5, <1>age DEF Regenerate, Valid
    <3>3. Current.live /\ store.file # "torn" => lapses = Warn BY <1>age, <1>t, <3>2 DEF TokenInv, TokensOK
    <3>. QED BY <3>1, <3>3 DEF TokenInv
  <2>2. CASE ~Stored
    <3>1. Current' = NewToken /\ lapses' = 0 /\ checked' = TRUE
      BY <1>5, <2>2 DEF Regenerate, Current, Stored
    <3>. QED BY <3>1 DEF TokenInv, NewToken
  <2>. QED BY <2>1, <2>2
<1>6. CASE Crash
  <2>1. CASE store' = Torn BY <2>1 DEF TokenInv, Torn
  <2>2. CASE store' = store
    <3>1. Current' = Current /\ lapses' = Longer(lapses) /\ checked' = TRUE
      BY <1>6, <2>2 DEF Crash, Current, Stored
    <3>. QED BY <1>age, <2>2, <3>1 DEF TokenInv, Longer
  <2>. QED BY <1>6, <2>1, <2>2 DEF Crash
<1>7. CASE Day
  <2>1. Current' = Older(Current)
    <3>1. CASE Stored
      <4>1. store' = [store EXCEPT !.token = Older(store.token)] BY <1>7, <3>1 DEF Day
      <4>. QED BY <1>t, <3>1, <4>1 DEF Stored, Current, TokensOK
    <3>2. CASE ~Stored BY <1>7, <3>2 DEF Day, Stored, Current
    <3>. QED BY <3>1, <3>2
  <2>2. Current \in Token BY <1>t DEF TokensOK, Current, Stored
  <2>3. Older(Current) = [Current EXCEPT !.age = IF Current.age < Life THEN Current.age + 1
                                                ELSE Current.age]
    BY DEF Older
  <2>4. Older(Current).live = Current.live /\ Older(Current).age <= Current.age + 1
        /\ Older(Current).age \in 0..Life
    BY <2>2, <2>3 DEF Token
  <2>5. store'.file = store.file BY <1>7, <1>t DEF Day, TokensOK
  <2>6. checked /\ ~checked' /\ lapses' = lapses BY <1>7 DEF Day
  <2>. HIDE DEF TypeInv
  <2>. QED BY <1>age, <2>1, <2>4, <2>5, <2>6 DEF TokenInv
<1>8. ASSUME NEW f \in Films, NEW b \in BOOLEAN,
             RenderStarts(f) \/ RenderEnds(f) \/ MakesUpload(f) \/ Publishes(f, b)
      PROVE  TokenInv'
  BY <1>1, <1>8 DEF RenderStarts, RenderEnds, MakesUpload, Publishes
<1>9. CASE SweepReads \/ SweepDeletes BY <1>1, <1>9 DEF SweepReads, SweepDeletes
<1>10. ASSUME NEW t \in Ticks, TickSteps(t) PROVE TokenInv'
  BY <1>1, <1>10 DEF TickSteps, TickLists, TickAsks, TickEnds, MakesReel, Refused, Answered,
     AnswerLost, Marks, MarkLost, Counts, CountLost
<1>11. CASE UNCHANGED vars BY <1>1, <1>11 DEF vars, tokens
<1>. QED BY <1>2, <1>3, <1>4, <1>5, <1>6, <1>7, <1>8, <1>9, <1>10, <1>11 DEF Next

\* A token runs out only after as many lapses as the window has days.
THEOREM TokenStaysAlive == Spec => []TokenAlive
<1>1. TypeInv /\ TokenInv => TokenAlive
  BY DEF TypeInv, TokensOK, TokenInv, TokenAlive, Current, Stored, Token
<1>. QED BY TypeInit, TypeStep, TokenInit, TokenStep, <1>1, PTL DEF Spec

-----------------------------------------------------------------------------
(* The files.  What the sweep will spare includes every upload waiting     *)
(* since before it began, and a film published in time keeps enough of the *)
(* retention for the days its cross-post still waits.                      *)
Spared(f) ==
  row[f].status = "waiting" /\ f \notin raced
    => file[f] # Gone /\ (sweep.on => f \in sweep.kept)

Fresh(f) ==
  /\ row[f].status = "published" /\ row[f].due # Unscheduled
  /\ ~row[f].posted /\ ~row[f].dead /\ f \notin late
  => file[f] # Gone /\ file[f] + row[f].due <= Retention

MediaInv == \A f \in Films : Spared(f) /\ Fresh(f)

\* No film has been rendered at first.
LEMMA MediaInit == Init => MediaInv
BY DEF Init, MediaInv, Spared, Fresh

\* A render, the upload row and its publication keep what is known of the files.
LEMMA PublicationStep ==
  ASSUME MediaOK, MediaInv, NEW f \in Films, NEW b \in BOOLEAN,
         RenderStarts(f) \/ RenderEnds(f) \/ MakesUpload(f) \/ Publishes(f, b)
  PROVE  MediaInv'
<1>. SUFFICES ASSUME NEW g \in Films PROVE Spared(g)' /\ Fresh(g)' BY DEF MediaInv
<1>i. Spared(g) /\ Fresh(g) BY DEF MediaInv
<1>t. file[g] \in Gone..(Retention + 1) /\ row[g] \in UploadRow BY DEF MediaOK
<1>1. CASE RenderStarts(f) BY <1>1, <1>i DEF RenderStarts, Spared, Fresh
<1>2. CASE RenderEnds(f)
  <2>1. row' = row /\ raced' = raced /\ late' = late /\ sweep' = sweep BY <1>2 DEF RenderEnds
  <2>2. file'[g] = IF g = f THEN 0 ELSE file[g] BY <1>2 DEF RenderEnds, MediaOK
  <2>3. row[g].due \in Unscheduled..Delay BY <1>t DEF UploadRow
  <2>. QED BY <1>i, <1>t, <2>1, <2>2, <2>3 DEF Spared, Fresh
<1>3. CASE MakesUpload(f)
  <2>1. file' = file /\ late' = late /\ sweep' = sweep BY <1>3 DEF MakesUpload
  <2>2. row'[g] = IF g = f THEN [row[f] EXCEPT !.status = "waiting"] ELSE row[g]
    BY <1>3 DEF MakesUpload, MediaOK
  <2>3. CASE g = f
    <3>1. row'[g].status = "waiting" BY <1>t, <2>2, <2>3 DEF UploadRow
    <3>2. g \notin raced' => ~sweep.on /\ file[g] # Gone BY <1>3, <2>3 DEF MakesUpload
    <3>. QED BY <2>1, <3>1, <3>2 DEF Spared, Fresh
  <2>4. CASE g # f
    <3>1. g \notin raced' => g \notin raced BY <1>3 DEF MakesUpload
    <3>. QED BY <1>i, <2>1, <2>2, <2>4, <3>1 DEF Spared, Fresh
  <2>. QED BY <2>3, <2>4
<1>4. CASE Publishes(f, b)
  <2>1. file' = file /\ raced' = raced /\ sweep' = sweep BY <1>4 DEF Publishes
  <2>2. CASE g = f
    <3>1. row'[g] = [[row[g] EXCEPT !.status = "published"]
                       EXCEPT !.due = IF b THEN Delay ELSE Unscheduled]
      BY <1>4, <2>2 DEF Publishes, MediaOK
    <3>2. row'[g].status = "published" /\ row'[g].due \in {Delay, Unscheduled}
      BY <1>t, <3>1 DEF UploadRow
    <3>3. g \notin late' => file[g] # Gone /\ file[g] + Delay <= Retention
      BY <1>4, <1>t, <2>2 DEF Publishes
    <3>. QED BY <1>t, <2>1, <3>2, <3>3 DEF Spared, Fresh
  <2>3. CASE g # f
    <3>1. row'[g] = row[g] BY <1>4, <2>3 DEF Publishes, MediaOK
    <3>2. g \notin late' => g \notin late BY <1>4 DEF Publishes
    <3>. QED BY <1>i, <2>1, <3>1, <3>2 DEF Spared, Fresh
  <2>. QED BY <2>2, <2>3
<1>. QED BY <1>1, <1>2, <1>3, <1>4

\* A tick writes of a row only that it is posted, counted or dead.
LEMMA TickWrites ==
  ASSUME TypeInv, NEW t \in Ticks, TickSteps(t)
  PROVE  /\ UNCHANGED <<done, file, sweep, raced, late>>
         /\ \A f \in Films : /\ row'[f].status = row[f].status /\ row'[f].due = row[f].due
                             /\ row[f].posted => row'[f].posted
                             /\ row[f].dead => row'[f].dead
<1>1. CASE UNCHANGED media BY <1>1 DEF media
<1>2. CASE Marks(t) \/ MarkLost(t) \/ Counts(t) \/ CountLost(t)
  <2>1. UNCHANGED <<done, file, sweep, raced, late>> BY <1>2 DEF Marks, MarkLost, Counts, CountLost
  <2>2. Posted(t) \/ Counted(t) \/ row' = row BY <1>2 DEF Marks, MarkLost, Counts, CountLost
  <2>. QED BY <2>1, <2>2, RowTypes DEF TypeInv
<1>. QED BY <1>1, <1>2 DEF TickSteps, TickLists, TickAsks, TickEnds, MakesReel, Refused,
            Answered, AnswerLost

\* Every step keeps what is known of the files: the sweep removes none an upload needs.
LEMMA MediaStep == TypeInv /\ MediaInv /\ [Next]_vars => MediaInv'
<1>. SUFFICES ASSUME TypeInv, MediaInv, [Next]_vars PROVE MediaInv' OBVIOUS
<1>t. MediaOK BY DEF TypeInv
<1>1. ASSUME UNCHANGED <<file, row, sweep, raced, late>> PROVE MediaInv'
  BY <1>1 DEF MediaInv, Spared, Fresh
<1>2. ASSUME NEW f \in Films, NEW b \in BOOLEAN,
             RenderStarts(f) \/ RenderEnds(f) \/ MakesUpload(f) \/ Publishes(f, b)
      PROVE  MediaInv'
  BY <1>2, <1>t, PublicationStep
<1>3. CASE SweepReads
  <2>1. \A f \in Films : row[f].status = "waiting" => f \in sweep'.kept BY <1>3 DEF SweepReads
  <2>. QED BY <1>3, <2>1 DEF SweepReads, MediaInv, Spared, Fresh
<1>4. CASE SweepDeletes
  <2>1. \A f \in Films : file'[f] = IF file[f] > Retention /\ f \notin sweep.kept THEN Gone ELSE file[f]
    BY <1>4 DEF SweepDeletes
  <2>2. ~sweep'.on /\ sweep.on /\ row' = row /\ raced' = raced /\ late' = late
    BY <1>4 DEF SweepDeletes
  <2>. SUFFICES ASSUME NEW f \in Films PROVE Spared(f)' /\ Fresh(f)' BY DEF MediaInv
  <2>3. Spared(f) /\ Fresh(f) /\ file[f] \in Gone..(Retention + 1) /\ row[f].due \in Unscheduled..Delay
    BY <1>t DEF MediaInv, MediaOK, UploadRow
  <2>. QED BY <2>1, <2>2, <2>3 DEF Spared, Fresh
<1>5. CASE Check \/ ManualRefresh \/ Revoke \/ Regenerate
  BY <1>1, <1>5 DEF Check, ManualRefresh, Revoke, Regenerate, media
<1>6. ASSUME NEW t \in Ticks, TickSteps(t), NEW f \in Films PROVE Spared(f)' /\ Fresh(f)'
  <2>1. Spared(f) /\ Fresh(f) BY DEF MediaInv
  <2>2. UNCHANGED <<file, sweep, raced, late>> BY <1>6, TickWrites
  <2>3. row'[f].status = row[f].status /\ row'[f].due = row[f].due BY <1>6, TickWrites
  <2>4. row[f].posted \/ row[f].dead => row'[f].posted \/ row'[f].dead BY <1>6, TickWrites
  <2>5. Spared(f)' BY <2>1, <2>2, <2>3 DEF Spared
  <2>6. Fresh(f)' BY <2>1, <2>2, <2>3, <2>4 DEF Fresh
  <2>. QED BY <2>5, <2>6
<1>7. CASE Crash
  <2>1. UNCHANGED <<file, row, raced, late>> /\ ~sweep'.on BY <1>7 DEF Crash
  <2>. QED BY <2>1 DEF MediaInv, Spared, Fresh
<1>8. CASE Day
  <2>. SUFFICES ASSUME NEW f \in Films PROVE Spared(f)' /\ Fresh(f)' BY DEF MediaInv
  <2>1. Spared(f) /\ Fresh(f) /\ file[f] \in Gone..(Retention + 1) /\ row[f] \in UploadRow
    BY <1>t DEF MediaInv, MediaOK
  <2>2. UNCHANGED <<sweep, raced, late>> /\ ~Due(f) BY <1>8 DEF Day
  <2>3. file'[f] = IF file[f] \in 0..Retention THEN file[f] + 1 ELSE file[f] BY <1>8 DEF Day
  <2>4. row'[f] = IF row[f].due > 0 THEN [row[f] EXCEPT !.due = @ - 1] ELSE row[f] BY <1>8 DEF Day
  <2>5. /\ row'[f].status = row[f].status /\ row'[f].posted = row[f].posted
        /\ row'[f].dead = row[f].dead
        /\ row'[f].due = IF row[f].due > 0 THEN row[f].due - 1 ELSE row[f].due
    BY <2>1, <2>4 DEF UploadRow
  <2>6. row[f].due \in Unscheduled..Delay BY <2>1 DEF UploadRow
  <2>7. Spared(f)' BY <2>1, <2>2, <2>3, <2>5 DEF Spared
  <2>8. Fresh(f)' BY <2>1, <2>2, <2>3, <2>5, <2>6 DEF Fresh, Due
  <2>. QED BY <2>7, <2>8
<1>9. CASE UNCHANGED vars BY <1>1, <1>9 DEF vars
<1>. QED BY <1>2, <1>3, <1>4, <1>5, <1>6, <1>7, <1>8, <1>9 DEF Next, MediaInv

\* The sweep leaves what publication needs, and what a timely cross-post needs.
THEOREM FilesStay == Spec => []FilesNeeded
<1>1. TypeInv /\ MediaInv => FilesNeeded
  BY DEF TypeInv, MediaOK, MediaInv, Spared, Fresh, FilesNeeded, Due
<1>. QED BY TypeInit, TypeStep, MediaInit, MediaStep, <1>1, PTL DEF Spec

-----------------------------------------------------------------------------
(* The Reels.  Every tick that holds a film may add one; a film that nobody*)
(* holds and whose row does not say posted will be held once more.         *)
PlaceInv ==
  \A t \in Ticks : /\ tick[t].left \cap tick[t].up = {}
                   /\ tick[t].at = "idle" => tick[t].left = {}

Open(f) == ~row[f].posted /\ Holders(f) = {} /\ Claimants(f) = {}

ReelInv ==
  \A f \in Films :
    reels[f] + Cardinality(Holders(f)) + (IF Open(f) THEN 1 ELSE 0) <= excuses[f] + 1

Holds(t, f) == f \in tick[t].left \/ (tick[t].at = "asking" /\ f \in tick[t].up)
Claims(t, f) == tick[t].at \in {"made", "mark"} /\ f \in tick[t].up

\* A set, counted with and without one of its possible elements.
LEMMA Split ==
  ASSUME NEW S, IsFiniteSet(S), NEW x
  PROVE  /\ Cardinality(S \ {x}) \in Nat
         /\ Cardinality(S) = Cardinality(S \ {x}) + (IF x \in S THEN 1 ELSE 0)
         /\ S = {} <=> Cardinality(S \ {x}) = 0 /\ x \notin S
<1>1. Cardinality(S) \in Nat BY FS_CardinalityType
<1>2. IsFiniteSet(S \ {x}) /\ Cardinality(S \ {x}) = IF x \in S THEN Cardinality(S) - 1 ELSE Cardinality(S)
  BY FS_RemoveElement
<1>3. Cardinality(S \ {x}) \in Nat BY <1>2, FS_CardinalityType
<1>4. Cardinality(S \ {x}) = 0 <=> S \ {x} = {} BY <1>2, FS_EmptySet
<1>. QED BY <1>1, <1>2, <1>3, <1>4

\* When one tick moves, the others hold and claim what they did.
LEMMA OneMoves ==
  ASSUME NEW f, NEW t \in Ticks, \A u \in Ticks \ {t} : tick'[u] = tick[u]
  PROVE  \E n \in Nat, c \in BOOLEAN :
           /\ Cardinality(Holders(f)) = n + (IF Holds(t, f) THEN 1 ELSE 0)
           /\ Cardinality(Holders(f)') = n + (IF Holds(t, f)' THEN 1 ELSE 0)
           /\ Holders(f) = {} <=> n = 0 /\ ~Holds(t, f)
           /\ Holders(f)' = {} <=> n = 0 /\ ~Holds(t, f)'
           /\ Claimants(f) = {} <=> ~c /\ ~Claims(t, f)
           /\ Claimants(f)' = {} <=> ~c /\ ~Claims(t, f)'
<1>1. Holders(f) = {u \in Ticks : Holds(u, f)} /\ Holders(f)' = {u \in Ticks : Holds(u, f)'}
  BY DEF Holders, Holds
<1>2. Claimants(f) = {u \in Ticks : Claims(u, f)} /\ Claimants(f)' = {u \in Ticks : Claims(u, f)'}
  BY DEF Claimants, Claims
<1>3. IsFiniteSet(Holders(f)) /\ IsFiniteSet(Holders(f)') BY <1>1, FS_Subset
<1>4. Holders(f) \ {t} = Holders(f)' \ {t} BY <1>1 DEF Holds
<1>5. Claimants(f) \ {t} = Claimants(f)' \ {t} BY <1>2 DEF Claims
<1>6. (t \in Holders(f) <=> Holds(t, f)) /\ (t \in Holders(f)' <=> Holds(t, f)') BY <1>1
<1>7. (t \in Claimants(f) <=> Claims(t, f)) /\ (t \in Claimants(f)' <=> Claims(t, f)') BY <1>2
<1>. DEFINE n == Cardinality(Holders(f) \ {t})
            c == Claimants(f) \ {t} # {}
<1>8. /\ n \in Nat
      /\ Cardinality(Holders(f)) = n + (IF Holds(t, f) THEN 1 ELSE 0)
      /\ Holders(f) = {} <=> n = 0 /\ ~Holds(t, f)
  BY <1>3, <1>6, Split
<1>9. /\ Cardinality(Holders(f)') = n + (IF Holds(t, f)' THEN 1 ELSE 0)
      /\ Holders(f)' = {} <=> n = 0 /\ ~Holds(t, f)'
  BY <1>3, <1>4, <1>6, Split
<1>10. /\ Claimants(f) = {} <=> ~c /\ ~Claims(t, f)
       /\ Claimants(f)' = {} <=> ~c /\ ~Claims(t, f)'
  BY <1>5, <1>7
<1>11. c \in BOOLEAN OBVIOUS
<1>. HIDE DEF n, c
<1>. QED BY <1>8, <1>9, <1>10, <1>11

\* No Reel is out at first.
LEMMA ReelInit == Init => PlaceInv /\ ReelInv
<1>. SUFFICES ASSUME Init PROVE PlaceInv /\ ReelInv OBVIOUS
<1>1. PlaceInv BY DEF Init, PlaceInv, Idle
<1>2. ASSUME NEW f \in Films PROVE Holders(f) = {} BY DEF Init, Holders, Idle
<1>3. ASSUME NEW f \in Films
      PROVE  reels[f] + Cardinality(Holders(f)) + (IF Open(f) THEN 1 ELSE 0) <= excuses[f] + 1
  <2>1. Cardinality(Holders(f)) = 0 BY <1>2, FS_EmptySet
  <2>2. reels[f] = 0 /\ excuses[f] = 0 BY DEF Init
  <2>. HIDE DEF Open
  <2>. QED BY <2>1, <2>2
<1>. QED BY <1>1, <1>3 DEF ReelInv

\* The places of a tick.
LEMMA PlaceStep == TypeInv /\ PlaceInv /\ [Next]_vars => PlaceInv'
<1>. SUFFICES ASSUME TypeInv, PlaceInv, [Next]_vars PROVE PlaceInv' OBVIOUS
<1>t. tick \in [Ticks -> Place] BY DEF TypeInv, PostsOK
<1>1. ASSUME UNCHANGED tick PROVE PlaceInv' BY <1>1 DEF PlaceInv
<1>2. ASSUME NEW t \in Ticks, TickSteps(t) PROVE PlaceInv'
  <2>0. tick[t] \in Place BY <1>t
  <2>1. \A u \in Ticks \ {t} : tick'[u] = tick[u]
    BY <1>2, <1>t DEF TickSteps, TickLists, TickAsks, TickEnds, MakesReel, Refused, Answered,
       AnswerLost, Marks, MarkLost, Counts, CountLost, Moves, Returns, Aborts
  <2>2. tick'[t].left \cap tick'[t].up = {} /\ (tick'[t].at = "idle" => tick'[t].left = {})
    <3>1. CASE TickLists(t) BY <1>t, <3>1 DEF TickLists
    <3>2. CASE TickAsks(t)
      <4>1. PICK f \in tick[t].left :
              tick' = [tick EXCEPT ![t] = [tick[t] EXCEPT !.at = "asking", !.up = {f}, !.left = @ \ {f}]]
        BY <3>2 DEF TickAsks
      <4>. QED BY <1>t, <2>0, <4>1 DEF Place
    <3>3. CASE TickEnds(t) \/ Aborts(t) BY <1>t, <3>3 DEF TickEnds, Aborts, Idle
    <3>4. CASE Returns(t) BY <1>t, <2>0, <3>4 DEF Returns, Place
    <3>5. ASSUME NEW to \in {"made", "failed", "mark"}, Moves(t, to)
          PROVE  tick'[t].left \cap tick'[t].up = {} /\ (tick'[t].at = "idle" => tick'[t].left = {})
      <4>1. tick'[t] = [tick[t] EXCEPT !.at = to] BY <1>t, <3>5 DEF Moves
      <4>. QED BY <2>0, <4>1 DEF Place, PlaceInv
    <3>. QED BY <1>2, <3>1, <3>2, <3>3, <3>4, <3>5
         DEF TickSteps, MakesReel, Refused, Answered, AnswerLost, Marks, MarkLost, Counts, CountLost
  <2>. QED BY <2>1, <2>2 DEF PlaceInv
<1>3. CASE Crash BY <1>3 DEF Crash, PlaceInv, Idle
<1>4. ASSUME NEW f \in Films, NEW b \in BOOLEAN,
             RenderStarts(f) \/ RenderEnds(f) \/ MakesUpload(f) \/ Publishes(f, b)
      PROVE  PlaceInv'
  BY <1>1, <1>4 DEF RenderStarts, RenderEnds, MakesUpload, Publishes, posts
<1>5. CASE SweepReads \/ SweepDeletes \/ Check \/ ManualRefresh \/ Revoke \/ Regenerate \/ Day
  BY <1>1, <1>5 DEF SweepReads, SweepDeletes, Check, ManualRefresh, Revoke, Regenerate, Day, posts
<1>6. CASE UNCHANGED vars BY <1>1, <1>6 DEF vars
<1>. QED BY <1>2, <1>3, <1>4, <1>5, <1>6 DEF Next

\* The arithmetic of a tick's step for one film: n other ticks hold it, c is
\* whether another one claims it; before and after the step, r and r2 are its
\* Reels, e and e2 its excuses, h and h2 whether the tick holds it, k and k2
\* whether it claims it, p and p2 whether its row says posted.
LEMMA Reckoning ==
  ASSUME NEW n \in Nat, NEW r \in Nat, NEW r2 \in Nat, NEW e \in Nat, NEW e2 \in Nat,
         NEW c \in BOOLEAN, NEW h \in BOOLEAN, NEW h2 \in BOOLEAN, NEW k \in BOOLEAN,
         NEW k2 \in BOOLEAN, NEW p \in BOOLEAN, NEW p2 \in BOOLEAN,
         r + (n + (IF h THEN 1 ELSE 0))
           + (IF ~p /\ n = 0 /\ ~h /\ ~c /\ ~k THEN 1 ELSE 0) <= e + 1,
         e2 >= e, p => p2,
         \/ r2 = r /\ (h2 => h) /\ (k => k2 \/ p2 \/ e2 = e + 1)
         \/ r2 = r + 1 /\ h /\ ~h2 /\ k2
         \/ r2 = r /\ ~p /\ ~h /\ h2 /\ ~k /\ (e2 = e + 1 \/ (n = 0 /\ ~c))
  PROVE  r2 + (n + (IF h2 THEN 1 ELSE 0))
           + (IF ~p2 /\ n = 0 /\ ~h2 /\ ~c /\ ~k2 THEN 1 ELSE 0) <= e2 + 1
OBVIOUS

\* What a tick's step does to one film.
LEMMA TickDoes ==
  ASSUME TypeInv, PlaceInv, NEW t \in Ticks, TickSteps(t), NEW f \in Films
  PROVE  /\ \A u \in Ticks \ {t} : tick'[u] = tick[u]
         /\ excuses'[f] >= excuses[f] /\ (row[f].posted => row'[f].posted)
         /\ \/ reels'[f] = reels[f] /\ (Holds(t, f)' => Holds(t, f))
               /\ (Claims(t, f) => Claims(t, f)' \/ row'[f].posted \/ excuses'[f] = excuses[f] + 1)
            \/ reels'[f] = reels[f] + 1 /\ Holds(t, f) /\ ~Holds(t, f)' /\ Claims(t, f)'
            \/ reels'[f] = reels[f] /\ ~row[f].posted /\ ~Holds(t, f) /\ Holds(t, f)'
               /\ ~Claims(t, f)
               /\ (excuses'[f] = excuses[f] + 1 \/ (Holders(f) = {} /\ Claimants(f) = {}))
<1>t. tick \in [Ticks -> Place] /\ tick[t] \in Place BY DEF TypeInv, PostsOK
<1>n. excuses[f] \in Nat /\ reels[f] \in Nat /\ row[f] \in UploadRow
  BY DEF TypeInv, PostsOK, MediaOK
<1>p. row[f].posted => row'[f].posted BY TickWrites
<1>u. \A u \in Ticks \ {t} : tick'[u] = tick[u]
  BY <1>t DEF TickSteps, TickLists, TickAsks, TickEnds, MakesReel, Refused, Answered,
     AnswerLost, Marks, MarkLost, Counts, CountLost, Moves, Returns, Aborts
<1>e. ASSUME NEW up, Excuse(up)
      PROVE  excuses'[f] = IF f \in up THEN excuses[f] + 1 ELSE excuses[f]
  BY <1>e DEF Excuse
<1>m. ASSUME NEW to, Moves(t, to)
      PROVE  tick'[t].at = to /\ tick'[t].left = tick[t].left /\ tick'[t].up = tick[t].up
  <2>1. tick'[t] = [tick[t] EXCEPT !.at = to] BY <1>t, <1>m DEF Moves
  <2>. QED BY <1>t, <2>1 DEF Place
<1>r. ASSUME Returns(t)
      PROVE  tick'[t].at = "next" /\ tick'[t].left = tick[t].left /\ tick'[t].up = {}
  BY <1>t, <1>r DEF Returns, Place
<1>a. ASSUME Aborts(t) PROVE tick'[t].at = "idle" /\ tick'[t].left = {} /\ tick'[t].up = {}
  BY <1>t, <1>a DEF Aborts, Idle
<1>1. CASE TickLists(t)
  <2>1. tick'[t].at = "next" /\ tick'[t].left = {g \in Films : Due(g)} /\ tick'[t].up = {}
    BY <1>t, <1>1 DEF TickLists
  <2>2. ~Holds(t, f) /\ ~Claims(t, f) BY <1>1 DEF TickLists, PlaceInv, Holds, Claims
  <2>3. Holds(t, f)' <=> Due(f) BY <2>1 DEF Holds
  <2>4. reels' = reels BY <1>1 DEF TickLists
  <2>5. excuses'[f] = IF f \in {g \in {x \in Films : Due(x)} : Holders(g) \cup Claimants(g) # {}}
                        THEN excuses[f] + 1 ELSE excuses[f]
    BY <1>1, <1>e DEF TickLists
  <2>6. Due(f) => ~row[f].posted BY DEF Due
  <2>7. Due(f) => excuses'[f] = excuses[f] + 1 \/ (Holders(f) = {} /\ Claimants(f) = {}) BY <2>5
  <2>8. excuses'[f] >= excuses[f] BY <1>n, <2>5
  <2>. QED BY <1>u, <1>p, <2>2, <2>3, <2>4, <2>6, <2>7, <2>8
<1>2. CASE TickAsks(t)
  <2>1. PICK g \in tick[t].left :
          tick' = [tick EXCEPT ![t] = [tick[t] EXCEPT !.at = "asking", !.up = {g}, !.left = @ \ {g}]]
    BY <1>2 DEF TickAsks
  <2>2. tick'[t].left = tick[t].left \ {g} /\ tick'[t].up = {g} BY <1>t, <2>1 DEF Place
  <2>3. (Holds(t, f)' => Holds(t, f)) /\ ~Claims(t, f) BY <1>2, <2>2 DEF TickAsks, Holds, Claims
  <2>. QED BY <1>2, <1>n, <1>u, <1>p, <2>3 DEF TickAsks
<1>3. CASE TickEnds(t)
  <2>1. ~Holds(t, f)' /\ ~Claims(t, f) BY <1>3, <1>a DEF TickEnds, Aborts, Holds, Claims
  <2>. QED BY <1>3, <1>n, <1>u, <1>p, <2>1 DEF TickEnds
<1>4. CASE MakesReel(t)
  <2>1. tick'[t].at = "made" /\ tick'[t].left = tick[t].left /\ tick'[t].up = tick[t].up
        /\ tick[t].at = "asking"
    BY <1>4, <1>m DEF MakesReel
  <2>2. reels'[f] = (IF f \in tick[t].up THEN reels[f] + 1 ELSE reels[f]) /\ excuses' = excuses
    BY <1>4 DEF MakesReel
  <2>3. tick[t].left \cap tick[t].up = {} BY DEF PlaceInv
  <2>4. CASE f \in tick[t].up
    <3>1. Holds(t, f) /\ ~Holds(t, f)' /\ Claims(t, f)' BY <2>1, <2>3, <2>4 DEF Holds, Claims
    <3>. QED BY <1>n, <1>u, <1>p, <2>2, <2>4, <3>1
  <2>5. CASE f \notin tick[t].up
    <3>1. (Holds(t, f)' => Holds(t, f)) /\ ~Claims(t, f) BY <2>1, <2>5 DEF Holds, Claims
    <3>. QED BY <1>n, <1>u, <1>p, <2>2, <2>5, <3>1
  <2>. QED BY <2>4, <2>5
<1>5. CASE Refused(t)
  <2>1. tick'[t].at = "failed" /\ tick'[t].left = tick[t].left /\ tick[t].at = "asking"
    BY <1>5, <1>m DEF Refused
  <2>2. (Holds(t, f)' => Holds(t, f)) /\ ~Claims(t, f) BY <2>1 DEF Holds, Claims
  <2>. QED BY <1>5, <1>n, <1>u, <1>p, <2>2 DEF Refused
<1>6. CASE Answered(t)
  <2>1. tick'[t].at = "mark" /\ tick'[t].left = tick[t].left /\ tick'[t].up = tick[t].up
    BY <1>6, <1>m DEF Answered
  <2>2. (Holds(t, f)' => Holds(t, f)) /\ (Claims(t, f) => Claims(t, f)')
    BY <2>1 DEF Holds, Claims
  <2>. QED BY <1>6, <1>n, <1>u, <1>p, <2>2 DEF Answered
<1>7. CASE AnswerLost(t)
  <2>1. tick'[t].at = "failed" /\ tick'[t].left = tick[t].left BY <1>7, <1>m DEF AnswerLost
  <2>2. Holds(t, f)' => Holds(t, f) BY <2>1 DEF Holds
  <2>3. excuses'[f] = IF f \in tick[t].up THEN excuses[f] + 1 ELSE excuses[f]
    BY <1>7, <1>e DEF AnswerLost
  <2>4. excuses'[f] >= excuses[f] /\ (Claims(t, f) => excuses'[f] = excuses[f] + 1)
    BY <1>n, <2>3 DEF Claims
  <2>. QED BY <1>7, <1>u, <1>p, <2>2, <2>4 DEF AnswerLost
<1>s. Posted(t) => (Claims(t, f) => row'[f].posted)
  BY <1>n DEF Posted, Claims, UploadRow
<1>8. CASE Marks(t)
  <2>1. Holds(t, f)' => Holds(t, f) BY <1>8, <1>r DEF Marks, Holds
  <2>2. Claims(t, f) => row'[f].posted BY <1>8, <1>s DEF Marks
  <2>. QED BY <1>8, <1>n, <1>u, <1>p, <2>1, <2>2 DEF Marks
<1>9. CASE MarkLost(t)
  <2>1. ~Holds(t, f)' BY <1>9, <1>a DEF MarkLost, Holds
  <2>2. reels' = reels BY <1>9 DEF MarkLost
  <2>3. CASE Excuse(tick[t].up)
    <3>1. excuses'[f] = IF f \in tick[t].up THEN excuses[f] + 1 ELSE excuses[f] BY <1>e, <2>3
    <3>2. excuses'[f] >= excuses[f] /\ (Claims(t, f) => excuses'[f] = excuses[f] + 1)
      BY <1>n, <3>1 DEF Claims
    <3>. QED BY <1>u, <1>p, <2>1, <2>2, <3>2
  <2>4. CASE Posted(t) /\ UNCHANGED excuses BY <1>n, <1>u, <1>p, <1>s, <2>1, <2>2, <2>4
  <2>. QED BY <1>9, <2>3, <2>4 DEF MarkLost
<1>10. CASE Counts(t) \/ CountLost(t)
  <2>1. ~Claims(t, f) BY <1>10 DEF Counts, CountLost, Claims
  <2>2. Holds(t, f)' => Holds(t, f) BY <1>10, <1>r, <1>a DEF Counts, CountLost, Holds
  <2>3. reels' = reels /\ excuses' = excuses BY <1>10 DEF Counts, CountLost
  <2>. QED BY <1>n, <1>u, <1>p, <2>1, <2>2, <2>3
<1>. QED BY <1>1, <1>2, <1>3, <1>4, <1>5, <1>6, <1>7, <1>8, <1>9, <1>10 DEF TickSteps

\* Every step keeps what is known of the Reels: their number, the rows and the excuses.
LEMMA ReelStep == TypeInv /\ TypeInv' /\ PlaceInv /\ ReelInv /\ [Next]_vars => ReelInv'
<1>. SUFFICES ASSUME TypeInv, TypeInv', PlaceInv, ReelInv, [Next]_vars PROVE ReelInv' OBVIOUS
<1>t. \A f \in Films : /\ reels[f] \in Nat /\ excuses[f] \in Nat /\ row[f].posted \in BOOLEAN
                      /\ reels'[f] \in Nat /\ excuses'[f] \in Nat /\ row'[f].posted \in BOOLEAN
  BY DEF TypeInv, PostsOK, MediaOK, UploadRow
<1>1. ASSUME NEW t \in Ticks, TickSteps(t) PROVE ReelInv'
  <2>. SUFFICES ASSUME NEW f \in Films
       PROVE  reels'[f] + Cardinality(Holders(f)') + (IF Open(f)' THEN 1 ELSE 0) <= excuses'[f] + 1
    BY DEF ReelInv
  <2>1. \A u \in Ticks \ {t} : tick'[u] = tick[u] BY <1>1, TickDoes
  <2>2. PICK n \in Nat, c \in BOOLEAN :
          /\ Cardinality(Holders(f)) = n + (IF Holds(t, f) THEN 1 ELSE 0)
          /\ Cardinality(Holders(f)') = n + (IF Holds(t, f)' THEN 1 ELSE 0)
          /\ Holders(f) = {} <=> n = 0 /\ ~Holds(t, f)
          /\ Holders(f)' = {} <=> n = 0 /\ ~Holds(t, f)'
          /\ Claimants(f) = {} <=> ~c /\ ~Claims(t, f)
          /\ Claimants(f)' = {} <=> ~c /\ ~Claims(t, f)'
    BY <2>1, OneMoves
  <2>. DEFINE h == Holds(t, f)  h2 == Holds(t, f)'  k == Claims(t, f)  k2 == Claims(t, f)'
              r == reels[f]  r2 == reels'[f]  e == excuses[f]  e2 == excuses'[f]
              p == row[f].posted  p2 == row'[f].posted
  <2>3. h \in BOOLEAN /\ h2 \in BOOLEAN /\ k \in BOOLEAN /\ k2 \in BOOLEAN BY DEF Holds, Claims
  <2>4. r \in Nat /\ r2 \in Nat /\ e \in Nat /\ e2 \in Nat /\ p \in BOOLEAN /\ p2 \in BOOLEAN
    BY <1>t
  <2>5. r + (n + (IF h THEN 1 ELSE 0))
          + (IF ~p /\ n = 0 /\ ~h /\ ~c /\ ~k THEN 1 ELSE 0) <= e + 1
    <3>1. r + Cardinality(Holders(f)) + (IF Open(f) THEN 1 ELSE 0) <= e + 1 BY DEF ReelInv
    <3>2. Open(f) <=> ~p /\ n = 0 /\ ~h /\ ~c /\ ~k BY <2>2 DEF Open
    <3>3. Cardinality(Holders(f)) = n + (IF h THEN 1 ELSE 0) BY <2>2
    <3>. QED BY <3>1, <3>2, <3>3
  <2>6. /\ e2 >= e /\ (p => p2)
        /\ \/ r2 = r /\ (h2 => h) /\ (k => k2 \/ p2 \/ e2 = e + 1)
           \/ r2 = r + 1 /\ h /\ ~h2 /\ k2
           \/ r2 = r /\ ~p /\ ~h /\ h2 /\ ~k /\ (e2 = e + 1 \/ (n = 0 /\ ~c))
    BY <1>1, <2>2, TickDoes
  <2>7. Open(f)' <=> ~p2 /\ n = 0 /\ ~h2 /\ ~c /\ ~k2 BY <2>2 DEF Open
  <2>8. Cardinality(Holders(f)') = n + (IF h2 THEN 1 ELSE 0) BY <2>2
  <2>. HIDE DEF h, h2, k, k2, r, r2, e, e2, p, p2
  <2>9. r2 + (n + (IF h2 THEN 1 ELSE 0))
          + (IF ~p2 /\ n = 0 /\ ~h2 /\ ~c /\ ~k2 THEN 1 ELSE 0) <= e2 + 1
    BY <2>3, <2>4, <2>5, <2>6, Reckoning
  <2>. QED BY <2>7, <2>8, <2>9 DEF r2, e2
<1>2. ASSUME UNCHANGED posts, \A f \in Films : row'[f].posted = row[f].posted PROVE ReelInv'
  BY <1>2 DEF posts, ReelInv, Open, Holders, Claimants
<1>3. ASSUME NEW f \in Films, NEW b \in BOOLEAN,
             RenderStarts(f) \/ RenderEnds(f) \/ MakesUpload(f) \/ Publishes(f, b)
      PROVE  ReelInv'
  <2>1. \A g \in Films : row[g] \in UploadRow BY DEF TypeInv, MediaOK
  <2>2. \A g \in Films : row'[g].posted = row[g].posted
    BY <1>3, <2>1 DEF RenderStarts, RenderEnds, MakesUpload, Publishes, UploadRow, TypeInv, MediaOK
  <2>. QED BY <1>2, <1>3, <2>2 DEF RenderStarts, RenderEnds, MakesUpload, Publishes
<1>4. CASE SweepReads \/ SweepDeletes \/ Check \/ ManualRefresh \/ Revoke \/ Regenerate
  BY <1>2, <1>4 DEF SweepReads, SweepDeletes, Check, ManualRefresh, Revoke, Regenerate, media
<1>5. CASE Day
  <2>1. \A f \in Films : row[f] \in UploadRow BY DEF TypeInv, MediaOK
  <2>2. \A f \in Films : row'[f].posted = row[f].posted BY <1>5, <2>1 DEF Day, UploadRow
  <2>. QED BY <1>2, <1>5, <2>2 DEF Day
<1>6. CASE Crash
  <2>. SUFFICES ASSUME NEW f \in Films
       PROVE  reels'[f] + Cardinality(Holders(f)') + (IF Open(f)' THEN 1 ELSE 0) <= excuses'[f] + 1
    BY DEF ReelInv
  <2>1. Holders(f)' = {} BY <1>6 DEF Crash, Holders, Idle
  <2>2. Cardinality(Holders(f)') = 0 BY <2>1, FS_EmptySet
  <2>3. excuses'[f] = IF Claimants(f) # {} THEN excuses[f] + 1 ELSE excuses[f]
    BY <1>6 DEF Crash, Excuse
  <2>4. reels'[f] = reels[f] /\ row'[f] = row[f] BY <1>6 DEF Crash
  <2>5. IsFiniteSet(Holders(f)) BY FS_Subset DEF Holders
  <2>6. /\ Cardinality(Holders(f)) \in Nat
        /\ Holders(f) # {} => Cardinality(Holders(f)) >= 1
    BY <2>5, FS_CardinalityType, FS_EmptySet
  <2>7. reels[f] + Cardinality(Holders(f)) + (IF Open(f) THEN 1 ELSE 0) <= excuses[f] + 1
    BY DEF ReelInv
  <2>8. Open(f)' => ~row[f].posted BY <2>4 DEF Open
  <2>9. ~row[f].posted => Open(f) \/ Holders(f) # {} \/ Claimants(f) # {} BY DEF Open
  <2>. HIDE DEF Open
  <2>. QED BY <1>t, <2>2, <2>3, <2>4, <2>6, <2>7, <2>8, <2>9
<1>7. CASE UNCHANGED vars BY <1>2, <1>7 DEF vars, posts
<1>. QED BY <1>1, <1>3, <1>4, <1>5, <1>6, <1>7 DEF Next

\* A film is posted once, and once more per excuse.
THEOREM PostedOnce == Spec => []ReelOnce
<1>1. TypeInv /\ ReelInv => ReelOnce
  <2>. SUFFICES ASSUME TypeInv, ReelInv, NEW f \in Films PROVE reels[f] <= 1 + excuses[f]
    BY DEF ReelOnce
  <2>1. IsFiniteSet(Holders(f)) BY FS_Subset DEF Holders
  <2>2. Cardinality(Holders(f)) \in Nat BY <2>1, FS_CardinalityType
  <2>3. reels[f] \in Nat /\ excuses[f] \in Nat BY DEF TypeInv, PostsOK
  <2>4. reels[f] + Cardinality(Holders(f)) + (IF Open(f) THEN 1 ELSE 0) <= excuses[f] + 1
    BY DEF ReelInv
  <2>. HIDE DEF Open
  <2>. QED BY <2>2, <2>3, <2>4
<1>. QED BY TypeInit, TypeStep, ReelInit, PlaceStep, ReelStep, <1>1, PTL DEF Spec

-----------------------------------------------------------------------------
(***************************************************************************)
(* The schema.  What every revision does to every table is written out     *)
(* once: UpStep and DownStep, in terms of the shape a table has at a       *)
(* revision (Shaped).  Each migration is shown to be such a step, and the  *)
(* commands, which walk the chain, follow by induction over the revisions. *)
(***************************************************************************)
HIDE CrossPostingAssumption DEF Gone, Unscheduled

\* Databases, tables: functions and records with the fields the model gives them.
IsTable(tab) ==
  tab = [refs |-> tab.refs, cols |-> tab.cols, key |-> tab.key,
         indexes |-> tab.indexes, defaults |-> tab.defaults]
IsSchema(s) == s = [t \in DOMAIN s |-> s[t]] /\ \A t \in DOMAIN s : IsTable(s[t])
IsDb(d) == d = [schema |-> d.schema, rows |-> d.rows] /\ IsSchema(d.schema)

\* e is d with another schema, of tables ts.
Remade(d, e, ts) == IsDb(e) /\ e.rows = d.rows /\ DOMAIN e.schema = ts
\* Only table t is another in s than in old.
Only(t, s, old) == \A u \in DOMAIN s \ {t} : s[u] = old[u]

Row(refs, cols, key, indexes, defaults) ==
  [refs |-> refs, cols |-> cols, key |-> key, indexes |-> indexes, defaults |-> defaults]

LEMMA Rows ==
  ASSUME NEW a, NEW b, NEW c, NEW d, NEW e
  PROVE  /\ IsTable(Row(a, b, c, d, e))
         /\ Row(a, b, c, d, e).refs = a /\ Row(a, b, c, d, e).cols = b /\ Row(a, b, c, d, e).key = c
         /\ Row(a, b, c, d, e).indexes = d /\ Row(a, b, c, d, e).defaults = e
BY DEF IsTable, Row

\* One field of a table replaced.
LEMMA Fields ==
  ASSUME NEW tab, IsTable(tab), NEW v
  PROVE  /\ [tab EXCEPT !.refs = v] = Row(v, tab.cols, tab.key, tab.indexes, tab.defaults)
         /\ [tab EXCEPT !.cols = v] = Row(tab.refs, v, tab.key, tab.indexes, tab.defaults)
         /\ [tab EXCEPT !.indexes = v] = Row(tab.refs, tab.cols, tab.key, v, tab.defaults)
         /\ [tab EXCEPT !.defaults = v] = Row(tab.refs, tab.cols, tab.key, tab.indexes, v)
<1>1. PICK a, b, c, d, e : tab = [refs |-> a, cols |-> b, key |-> c, indexes |-> d, defaults |-> e]
  BY DEF IsTable
<1>2. tab.refs = a /\ tab.cols = b /\ tab.key = c /\ tab.indexes = d /\ tab.defaults = e
  BY <1>1
<1>3. [tab EXCEPT !.refs = v] = Row(v, b, c, d, e)  BY <1>1 DEF Row
<1>4. [tab EXCEPT !.cols = v] = Row(a, v, c, d, e)  BY <1>1 DEF Row
<1>5. [tab EXCEPT !.indexes = v] = Row(a, b, c, v, e)  BY <1>1 DEF Row
<1>6. [tab EXCEPT !.defaults = v] = Row(a, b, c, d, v)  BY <1>1 DEF Row
<1> QED BY <1>2, <1>3, <1>4, <1>5, <1>6

\* What the statements make of a table.
LEMMA Rewidened ==
  ASSUME NEW tab, IsTable(tab), NEW x, NEW y
  PROVE  [[tab EXCEPT !.cols = x] EXCEPT !.defaults = y] = Row(tab.refs, x, tab.key, tab.indexes, y)
<1> DEFINE a == [tab EXCEPT !.cols = x]
<1>1. a = Row(tab.refs, x, tab.key, tab.indexes, tab.defaults)  BY Fields
<1> HIDE DEF a
<1>2. IsTable(a)  BY <1>1, Rows
<1>3. [a EXCEPT !.defaults = y] = Row(a.refs, a.cols, a.key, a.indexes, y)  BY <1>2, Fields
<1> QED BY <1>1, <1>3, Rows DEF a

LEMMA WidenedIs ==
  ASSUME NEW tab, IsTable(tab), NEW cols, NEW defaulted
  PROVE  Widened(tab, cols, defaulted) =
           Row(tab.refs, tab.cols \cup cols, tab.key, tab.indexes, tab.defaults \cup defaulted)
BY Rewidened DEF Widened

LEMMA NarrowedIs ==
  ASSUME NEW tab, IsTable(tab), NEW cols
  PROVE  Narrowed(tab, cols) =
           Row(tab.refs, tab.cols \ cols, tab.key, tab.indexes, tab.defaults \ cols)
BY Rewidened DEF Narrowed

LEMMA UndefaultedIs ==
  ASSUME NEW tab, IsTable(tab)
  PROVE  Undefaulted(tab) = Row(tab.refs, tab.cols, tab.key, tab.indexes, {})
BY Fields DEF Undefaulted

LEMMA PlainIs ==
  ASSUME NEW tab, IsTable(tab)
  PROVE  Plain(tab) = Row({Ref(r.col, r.parent, "none") : r \in tab.refs}, tab.cols, tab.key, {}, {})
<1> DEFINE new == {Ref(r.col, r.parent, "none") : r \in tab.refs}
           a == [tab EXCEPT !.refs = new]
           b == [a EXCEPT !.indexes = {}]
<1>0. Plain(tab) = [b EXCEPT !.defaults = {}]  BY DEF Plain
<1> HIDE DEF new
<1>1. a = Row(new, tab.cols, tab.key, tab.indexes, tab.defaults)  BY Fields
<1> HIDE DEF a
<1>2. IsTable(a)  BY <1>1, Rows
<1>r. a.refs = new /\ a.cols = tab.cols /\ a.key = tab.key /\ a.defaults = tab.defaults
  BY <1>1, Rows
<1>b. b = Row(a.refs, a.cols, a.key, {}, a.defaults)  BY <1>2, Fields
<1>3. b = Row(new, tab.cols, tab.key, {}, tab.defaults)  BY <1>r, <1>b
<1> HIDE DEF b
<1>4. IsTable(b)  BY <1>3, Rows
<1>5. [b EXCEPT !.defaults = {}] = Row(b.refs, b.cols, b.key, b.indexes, {})  BY <1>4, Fields
<1> QED BY <1>0, <1>3, <1>5, Rows DEF new

\* A database with another table.
LEMMA Retabled ==
  ASSUME NEW d, IsDb(d), NEW t \in DOMAIN d.schema, NEW tab, IsTable(tab)
  PROVE  LET e == Alter(d, t, tab) IN
         /\ Remade(d, e, DOMAIN d.schema) /\ Only(t, e.schema, d.schema) /\ e.schema[t] = tab
BY DEF IsDb, IsSchema, Remade, Only, Alter

\* ADD COLUMN.
LEMMA Adding ==
  ASSUME NEW d, IsDb(d), NEW t, NEW cols, NEW defaulted, NEW e \in AddColumns(d, t, cols, defaulted)
  PROVE  /\ t \in DOMAIN d.schema /\ d.schema[t].cols \cap cols = {}
         /\ Remade(d, e, DOMAIN d.schema) /\ Only(t, e.schema, d.schema)
         /\ e.schema[t].refs = d.schema[t].refs /\ e.schema[t].cols = d.schema[t].cols \cup cols
         /\ e.schema[t].key = d.schema[t].key /\ e.schema[t].indexes = d.schema[t].indexes
         /\ e.schema[t].defaults = d.schema[t].defaults \cup defaulted
<1>1. t \in DOMAIN d.schema /\ d.schema[t].cols \cap cols = {}
      /\ e = Alter(d, t, Widened(d.schema[t], cols, defaulted))
  BY DEF AddColumns
<1>2. IsTable(d.schema[t])  BY <1>1 DEF IsDb, IsSchema
<1> DEFINE old == d.schema[t]
           tab == Row(old.refs, old.cols \cup cols, old.key, old.indexes, old.defaults \cup defaulted)
<1>3. Widened(old, cols, defaulted) = tab  BY <1>2, WidenedIs
<1>4. IsTable(tab)  BY Rows
<1> HIDE DEF tab
<1>5. Remade(d, e, DOMAIN d.schema) /\ Only(t, e.schema, d.schema) /\ e.schema[t] = tab
  BY <1>1, <1>3, <1>4, Retabled
<1> USE DEF tab
<1> QED BY <1>1, <1>5, Rows

LEMMA Dropping ==
  ASSUME NEW d, IsDb(d), NEW t, NEW cols, NEW e \in DropColumns(d, t, cols)
  PROVE  /\ t \in DOMAIN d.schema /\ cols \subseteq d.schema[t].cols
         /\ Remade(d, e, DOMAIN d.schema) /\ Only(t, e.schema, d.schema)
         /\ e.schema[t].refs = d.schema[t].refs /\ e.schema[t].cols = d.schema[t].cols \ cols
         /\ e.schema[t].key = d.schema[t].key /\ e.schema[t].indexes = d.schema[t].indexes
         /\ e.schema[t].defaults = d.schema[t].defaults \ cols
<1>1. t \in DOMAIN d.schema /\ cols \subseteq d.schema[t].cols
      /\ e = Alter(d, t, Narrowed(d.schema[t], cols))
  BY DEF DropColumns
<1>2. IsTable(d.schema[t])  BY <1>1 DEF IsDb, IsSchema
<1> DEFINE old == d.schema[t]
           tab == Row(old.refs, old.cols \ cols, old.key, old.indexes, old.defaults \ cols)
<1>3. Narrowed(old, cols) = tab  BY <1>2, NarrowedIs
<1>4. IsTable(tab)  BY Rows
<1> HIDE DEF tab
<1>5. Remade(d, e, DOMAIN d.schema) /\ Only(t, e.schema, d.schema) /\ e.schema[t] = tab
  BY <1>1, <1>3, <1>4, Retabled
<1> USE DEF tab
<1> QED BY <1>1, <1>5, Rows

LEMMA Indexing ==
  ASSUME NEW d, IsDb(d), NEW t \in DOMAIN d.schema, NEW indexes
  PROVE  LET e == Index(d, t, indexes) old == d.schema[t] IN
         /\ Remade(d, e, DOMAIN d.schema) /\ Only(t, e.schema, d.schema)
         /\ e.schema[t].refs = old.refs /\ e.schema[t].cols = old.cols /\ e.schema[t].key = old.key
         /\ e.schema[t].indexes = indexes /\ e.schema[t].defaults = old.defaults
<1>1. IsTable(d.schema[t])  BY DEF IsDb, IsSchema
<1> DEFINE old == d.schema[t]
           tab == Row(old.refs, old.cols, old.key, indexes, old.defaults)
<1>2. [old EXCEPT !.indexes = indexes] = tab  BY <1>1, Fields
<1>3. IsTable(tab)  BY Rows
<1> HIDE DEF tab
<1>4. LET e == Alter(d, t, tab) IN
      Remade(d, e, DOMAIN d.schema) /\ Only(t, e.schema, d.schema) /\ e.schema[t] = tab
  BY <1>3, Retabled
<1>5. /\ tab.refs = old.refs /\ tab.cols = old.cols /\ tab.key = old.key
      /\ tab.indexes = indexes /\ tab.defaults = old.defaults
  BY Rows DEF tab
<1> QED BY <1>2, <1>4, <1>5 DEF Index

\* CREATE TABLE and DROP TABLE.
LEMMA Creating ==
  ASSUME NEW d, IsDb(d), NEW new, IsSchema(new), NEW e \in Create(d, new)
  PROVE  /\ DOMAIN new \cap DOMAIN d.schema = {}
         /\ \A t \in DOMAIN new : Parents(new[t]) \subseteq DOMAIN new \cup DOMAIN d.schema
         /\ IsDb(e) /\ e.rows = d.rows /\ DOMAIN e.schema = DOMAIN d.schema \cup DOMAIN new
         /\ \A t \in DOMAIN d.schema : e.schema[t] = d.schema[t]
         /\ \A t \in DOMAIN new : e.schema[t] = new[t]
BY DEF IsDb, IsSchema, Create, With

LEMMA Removing ==
  ASSUME NEW d, IsDb(d), NEW ts, NEW e \in Drop(d, ts)
  PROVE  /\ ts \subseteq DOMAIN d.schema
         /\ \A t \in DOMAIN d.schema \ ts : Parents(d.schema[t]) \cap ts = {}
         /\ IsDb(e) /\ e.rows = d.rows \ ts /\ DOMAIN e.schema = DOMAIN d.schema \ ts
         /\ \A t \in DOMAIN e.schema : e.schema[t] = d.schema[t]
BY DEF IsDb, IsSchema, Drop

-----------------------------------------------------------------------------
Initial == {"users", "channels", "topics", "research", "scripts", "storyboards", "quality_reports",
            "videos", "thumbnails", "uploads", "analytics", "agent_logs"}

\* The models' tables, and the tables of the initial revision.
LEMMA TablesAre ==
  /\ Tables = Initial \cup Chat \cup {"voices", "pipeline_runs", "channel_automations"}
  /\ Chat = {"chat_sessions", "chat_messages", "chat_unresolved", "knowledge_docs"}
BY DEF Tables, Metadata, Initial, Chat, ChatTables

LEMMA ModelsAre ==
  /\ Metadata["users"] = Row({}, {}, "uuid", {}, {})
  /\ Metadata["agent_logs"] = Row({}, {}, "uuid", {}, {})
  /\ Metadata["channels"] = Row({}, {"timezone", "is_archived"}, "uuid", {}, {})
  /\ Metadata["topics"] = Row({Ref("channel_id", "channels", "none")}, {}, "uuid", {}, {})
  /\ Metadata["research"] = Row({Ref("topic_id", "topics", "none")}, {}, "uuid", {}, {})
  /\ Metadata["scripts"] =
       Row({Ref("topic_id", "topics", "none"), Ref("channel_id", "channels", "none")},
           {"seo_gate_score", "voice_gender"}, "uuid", {}, {})
  /\ \A t \in {"quality_reports", "storyboards", "videos"} :
       Metadata[t] = Row({Ref("script_id", "scripts", "none")}, {}, "uuid", {}, {})
  /\ Metadata["thumbnails"] =
       Row({Ref("script_id", "scripts", "none")}, {"script_id"}, "uuid", {}, {})
  /\ Metadata["voices"] =
       Row({Ref("script_id", "scripts", "none")}, {"voice_gender"}, "uuid", {}, {})
  /\ Metadata["uploads"] =
       Row({Ref("video_id", "videos", "none")},
           {"publish_status"} \cup RetryColumns \cup InstagramColumns \cup InstagramRetryColumns,
           "uuid", {}, {})
  /\ Metadata["analytics"] = Row({Ref("upload_id", "uploads", "none")}, {}, "uuid", {}, {})
  /\ Metadata["pipeline_runs"] =
       Row({Ref("topic_id", "topics", "none"), Ref("channel_id", "channels", "none"),
            Ref("script_id", "scripts", "none"), Ref("video_id", "videos", "none"),
            Ref("upload_id", "uploads", "none")}, RetryColumns, "uuid", {}, {})
  /\ Metadata["channel_automations"] =
       Row({Ref("channel_id", "channels", "cascade")}, {}, "uuid", {}, {})
  /\ Metadata["chat_messages"] =
       Row({Ref("session_id", "chat_sessions", "cascade")}, {}, "uuid", {}, {})
  /\ \A t \in {"chat_sessions", "chat_unresolved", "knowledge_docs"} :
       Metadata[t] = Row({}, {}, "uuid", {}, {})
<1> USE DEF Metadata, Table, Row
<1>1. Metadata["users"] = Row({}, {}, "uuid", {}, {})  BY DEF User
<1>2. Metadata["agent_logs"] = Row({}, {}, "uuid", {}, {})  BY DEF AgentLog
<1>3. Metadata["channels"] = Row({}, {"timezone", "is_archived"}, "uuid", {}, {})  BY DEF Channel
<1>4. Metadata["topics"] = Row({Ref("channel_id", "channels", "none")}, {}, "uuid", {}, {})
  BY DEF Topic
<1>5. Metadata["research"] = Row({Ref("topic_id", "topics", "none")}, {}, "uuid", {}, {})
  BY DEF Research
<1>6. Metadata["scripts"] =
        Row({Ref("topic_id", "topics", "none"), Ref("channel_id", "channels", "none")},
            {"seo_gate_score", "voice_gender"}, "uuid", {}, {})
  BY DEF Script
<1>7. \A t \in {"quality_reports", "storyboards", "videos"} :
        Metadata[t] = Row({Ref("script_id", "scripts", "none")}, {}, "uuid", {}, {})
  BY DEF QualityReport, Storyboard, Video
<1>8. Metadata["thumbnails"] =
        Row({Ref("script_id", "scripts", "none")}, {"script_id"}, "uuid", {}, {})
  BY DEF Thumbnail
<1>9. Metadata["voices"] =
        Row({Ref("script_id", "scripts", "none")}, {"voice_gender"}, "uuid", {}, {})
  BY DEF Voice
<1>a. Metadata["uploads"] =
        Row({Ref("video_id", "videos", "none")},
            {"publish_status"} \cup RetryColumns \cup InstagramColumns \cup InstagramRetryColumns,
            "uuid", {}, {})
  <2>1. {"publish_status", "retry_count", "max_retries", "next_retry_at",
         "instagram_scheduled_at", "instagram_posted", "instagram_posted_at",
         "instagram_media_id", "instagram_retry_count",
         "instagram_failed_permanently"}
          = {"publish_status"} \cup RetryColumns \cup InstagramColumns \cup InstagramRetryColumns
    BY DEF RetryColumns, InstagramColumns, InstagramRetryColumns
  <2> QED BY <2>1 DEF Upload
<1>b. Metadata["analytics"] = Row({Ref("upload_id", "uploads", "none")}, {}, "uuid", {}, {})
  BY DEF Analytics
<1>c. Metadata["pipeline_runs"] =
        Row({Ref("topic_id", "topics", "none"), Ref("channel_id", "channels", "none"),
             Ref("script_id", "scripts", "none"), Ref("video_id", "videos", "none"),
             Ref("upload_id", "uploads", "none")}, RetryColumns, "uuid", {}, {})
  BY DEF PipelineRun, RetryColumns
<1>d. Metadata["channel_automations"] =
        Row({Ref("channel_id", "channels", "cascade")}, {}, "uuid", {}, {})
  BY DEF ChannelAutomation
<1>e. Metadata["chat_messages"] =
        Row({Ref("session_id", "chat_sessions", "cascade")}, {}, "uuid", {}, {})
  BY DEF ChatMessage
<1>f. \A t \in {"chat_sessions", "chat_unresolved", "knowledge_docs"} :
        Metadata[t] = Row({}, {}, "uuid", {}, {})
  BY DEF ChatSession, ChatUnresolved, KnowledgeDoc
<1> HIDE DEF Metadata, Table, Row
<1> QED BY <1>1, <1>2, <1>3, <1>4, <1>5, <1>6, <1>7, <1>8, <1>9, <1>a, <1>b, <1>c, <1>d, <1>e, <1>f

LEMMA CreatedIs ==
  ASSUME NEW refs
  PROVE  Created(refs) = Row(refs, {}, "uuid", {"*"}, {"*"})
BY DEF Created, Row

LEMMA InitialAre ==
  /\ IsSchema(InitialTables) /\ DOMAIN InitialTables = Initial
  /\ \A t \in {"users", "channels", "agent_logs"} : InitialTables[t] = Created({})
  /\ InitialTables["topics"] = Created({Ref("channel_id", "channels", "cascade")})
  /\ InitialTables["research"] = Created({Ref("topic_id", "topics", "cascade")})
  /\ InitialTables["scripts"] =
       Created({Ref("topic_id", "topics", "cascade"), Ref("channel_id", "channels", "cascade")})
  /\ \A t \in {"quality_reports", "storyboards", "videos"} :
       InitialTables[t] = Created({Ref("script_id", "scripts", "cascade")})
  /\ InitialTables["thumbnails"] =
       Row({Ref("video_id", "videos", "cascade")}, {}, "uuid", {}, {"*"})
  /\ InitialTables["uploads"] = Created({Ref("video_id", "videos", "cascade")})
  /\ InitialTables["analytics"] = Created({Ref("upload_id", "uploads", "cascade")})
<1>1. /\ DOMAIN Accounts = {"users", "channels"} /\ DOMAIN Ideas = {"topics", "research", "scripts"}
      /\ DOMAIN Artefacts = {"storyboards", "quality_reports", "videos", "thumbnails"}
      /\ DOMAIN Publications = {"uploads", "analytics", "agent_logs"}
  BY DEF Accounts, Ideas, Artefacts, Publications
<1>2. /\ DOMAIN InitialTables = Initial /\ InitialTables = [t \in Initial |-> InitialTables[t]]
      /\ \A t \in DOMAIN Accounts : InitialTables[t] = Accounts[t]
      /\ \A t \in DOMAIN Ideas : InitialTables[t] = Ideas[t]
      /\ \A t \in DOMAIN Artefacts : InitialTables[t] = Artefacts[t]
      /\ \A t \in DOMAIN Publications : InitialTables[t] = Publications[t]
  BY <1>1 DEF InitialTables, With, Initial
<1>3. \A t \in {"users", "channels", "agent_logs"} : InitialTables[t] = Created({})
  BY <1>1, <1>2 DEF Accounts, Publications
<1>4. InitialTables["topics"] = Created({Ref("channel_id", "channels", "cascade")})
  BY <1>1, <1>2 DEF Ideas
<1>5. InitialTables["research"] = Created({Ref("topic_id", "topics", "cascade")})
  BY <1>1, <1>2 DEF Ideas
<1>6. InitialTables["scripts"] =
        Created({Ref("topic_id", "topics", "cascade"), Ref("channel_id", "channels", "cascade")})
  BY <1>1, <1>2 DEF Ideas
<1>7. \A t \in {"quality_reports", "storyboards", "videos"} :
        InitialTables[t] = Created({Ref("script_id", "scripts", "cascade")})
  BY <1>1, <1>2 DEF Artefacts
<1>8. InitialTables["thumbnails"] =
        Row({Ref("video_id", "videos", "cascade")}, {}, "uuid", {}, {"*"})
  <2> DEFINE tab == Created({Ref("video_id", "videos", "cascade")})
  <2>1. tab = Row({Ref("video_id", "videos", "cascade")}, {}, "uuid", {"*"}, {"*"})  BY CreatedIs
  <2>2. InitialTables["thumbnails"] = [tab EXCEPT !.indexes = {}]  BY <1>1, <1>2 DEF Artefacts
  <2> HIDE DEF tab
  <2>3. IsTable(tab)  BY <2>1, Rows
  <2>4. [tab EXCEPT !.indexes = {}] = Row(tab.refs, tab.cols, tab.key, {}, tab.defaults)
    BY <2>3, Fields
  <2> QED BY <2>1, <2>2, <2>4, Rows
<1>9. InitialTables["uploads"] = Created({Ref("video_id", "videos", "cascade")})
  BY <1>1, <1>2 DEF Publications
<1>a. InitialTables["analytics"] = Created({Ref("upload_id", "uploads", "cascade")})
  BY <1>1, <1>2 DEF Publications
<1>b. \A refs : IsTable(Created(refs))  BY CreatedIs, Rows
<1>c. \A t \in Initial : IsTable(InitialTables[t])
  BY <1>b, <1>3, <1>4, <1>5, <1>6, <1>7, <1>8, <1>9, <1>a, Rows DEF Initial
<1> QED BY <1>2, <1>3, <1>4, <1>5, <1>6, <1>7, <1>8, <1>9, <1>a, <1>c DEF IsSchema

\* The initial tables differ from the models' in their delete rules, and in the thumbnails.
LEMMA InitialRefs ==
  /\ \A t \in Initial \ {"thumbnails"} :
       {Ref(r.col, r.parent, "none") : r \in InitialTables[t].refs} = Metadata[t].refs
  /\ \A t \in Initial : Parents(InitialTables[t]) \subseteq Initial
  /\ "scripts" \in Parents(InitialTables["storyboards"])
  /\ \A t \in Initial : InitialTables[t] =
       Row(InitialTables[t].refs, {}, "uuid", IF t = "thumbnails" THEN {} ELSE {"*"}, {"*"})
<1>1. \A a, b, c : Ref(a, b, c).col = a /\ Ref(a, b, c).parent = b  BY DEF Ref
<1>2. ASSUME NEW a, NEW b PROVE {Ref(r.col, r.parent, "none") : r \in {Ref(a, b, "cascade")}} = {Ref(a, b, "none")}
  BY <1>1
<1>3. ASSUME NEW a, NEW b, NEW c, NEW d
      PROVE  {Ref(r.col, r.parent, "none") : r \in {Ref(a, b, "cascade"), Ref(c, d, "cascade")}}
               = {Ref(a, b, "none"), Ref(c, d, "none")}
  BY <1>1
<1>4. \A t \in Initial \ {"thumbnails"} : InitialTables[t] = Created(InitialTables[t].refs)
  BY InitialAre, CreatedIs, Rows DEF Initial
<1>5. \A t \in Initial : InitialTables[t] =
       Row(InitialTables[t].refs, {}, "uuid", IF t = "thumbnails" THEN {} ELSE {"*"}, {"*"})
  BY <1>4, InitialAre, CreatedIs, Rows DEF Initial
<1>6. /\ \A t \in {"users", "channels", "agent_logs"} : InitialTables[t].refs = {}
      /\ InitialTables["topics"].refs = {Ref("channel_id", "channels", "cascade")}
      /\ InitialTables["research"].refs = {Ref("topic_id", "topics", "cascade")}
      /\ InitialTables["scripts"].refs =
           {Ref("topic_id", "topics", "cascade"), Ref("channel_id", "channels", "cascade")}
      /\ \A t \in {"quality_reports", "storyboards", "videos"} :
           InitialTables[t].refs = {Ref("script_id", "scripts", "cascade")}
      /\ InitialTables["thumbnails"].refs = {Ref("video_id", "videos", "cascade")}
      /\ InitialTables["uploads"].refs = {Ref("video_id", "videos", "cascade")}
      /\ InitialTables["analytics"].refs = {Ref("upload_id", "uploads", "cascade")}
  BY InitialAre, CreatedIs, Rows
<1>7. \A t \in Initial : Parents(InitialTables[t]) \subseteq Initial
  BY <1>1, <1>6 DEF Parents, Initial
<1>8. "scripts" \in Parents(InitialTables["storyboards"])
  BY <1>1, <1>6 DEF Parents
<1>m. /\ \A t \in {"users", "channels", "agent_logs"} : Metadata[t].refs = {}
      /\ Metadata["topics"].refs = {Ref("channel_id", "channels", "none")}
      /\ Metadata["research"].refs = {Ref("topic_id", "topics", "none")}
      /\ Metadata["scripts"].refs =
           {Ref("topic_id", "topics", "none"), Ref("channel_id", "channels", "none")}
      /\ \A t \in {"quality_reports", "storyboards", "videos"} :
           Metadata[t].refs = {Ref("script_id", "scripts", "none")}
      /\ Metadata["uploads"].refs = {Ref("video_id", "videos", "none")}
      /\ Metadata["analytics"].refs = {Ref("upload_id", "uploads", "none")}
  BY ModelsAre, Rows
<1>9. \A t \in Initial \ {"thumbnails"} :
        {Ref(r.col, r.parent, "none") : r \in InitialTables[t].refs} = Metadata[t].refs
  <2> DEFINE Plainly(refs) == {Ref(r.col, r.parent, "none") : r \in refs}
  <2>1. Plainly({}) = {}  OBVIOUS
  <2>2. \A a, b : Plainly({Ref(a, b, "cascade")}) = {Ref(a, b, "none")}  BY <1>2
  <2>3. \A a, b, c, d : Plainly({Ref(a, b, "cascade"), Ref(c, d, "cascade")})
                          = {Ref(a, b, "none"), Ref(c, d, "none")}  BY <1>3
  <2> HIDE DEF Plainly
  <2>4. \A t \in {"users", "channels", "agent_logs"} :
          Plainly(InitialTables[t].refs) = Metadata[t].refs
    BY <2>1, <1>6, <1>m
  <2>5. \A t \in {"quality_reports", "storyboards", "videos"} :
          Plainly(InitialTables[t].refs) = Metadata[t].refs
    <3>1. TAKE t \in {"quality_reports", "storyboards", "videos"}
    <3>2. InitialTables[t].refs = {Ref("script_id", "scripts", "cascade")}  BY <1>6
    <3>3. Metadata[t].refs = {Ref("script_id", "scripts", "none")}  BY <1>m
    <3> QED BY <3>2, <3>3, <2>2
  <2>6. Plainly(InitialTables["topics"].refs) = Metadata["topics"].refs  BY <2>2, <1>6, <1>m
  <2>7. Plainly(InitialTables["research"].refs) = Metadata["research"].refs  BY <2>2, <1>6, <1>m
  <2>8. Plainly(InitialTables["uploads"].refs) = Metadata["uploads"].refs  BY <2>2, <1>6, <1>m
  <2>9. Plainly(InitialTables["analytics"].refs) = Metadata["analytics"].refs  BY <2>2, <1>6, <1>m
  <2>a. Plainly(InitialTables["scripts"].refs) = Metadata["scripts"].refs  BY <2>3, <1>6, <1>m
  <2>b. \A t \in Initial \ {"thumbnails"} : Plainly(InitialTables[t].refs) = Metadata[t].refs
    BY <2>4, <2>5, <2>6, <2>7, <2>8, <2>9, <2>a DEF Initial
  <2> QED BY <2>b DEF Plainly
<1> QED BY <1>5, <1>7, <1>8, <1>9

-----------------------------------------------------------------------------
\* The revision that adds column c.
Added(c) ==
  CASE c = "script_id" -> 2                    [] c = "publish_status" -> 8
    [] c \in RetryColumns -> 9                 [] c \in {"timezone", "is_archived"} -> 10
    [] c = "seo_gate_score" -> 11              [] c = "voice_gender" -> 13
    [] c \in InstagramColumns -> 14            [] c \in InstagramRetryColumns -> 15

\* The columns revision i adds to table t.
Gained(i, t) ==
  CASE i = 2 /\ t = "thumbnails" -> {"script_id"}
    [] i = 8 /\ t = "uploads" -> {"publish_status"}
    [] i = 9 /\ t \in {"uploads", "pipeline_runs"} -> RetryColumns
    [] i = 10 /\ t = "channels" -> {"timezone", "is_archived"}
    [] i = 11 /\ t = "scripts" -> {"seo_gate_score"}
    [] i = 13 /\ t \in {"scripts", "voices"} -> {"voice_gender"}
    [] i = 14 /\ t = "uploads" -> InstagramColumns
    [] i = 15 /\ t = "uploads" -> InstagramRetryColumns
    [] OTHER -> {}

\* Revision r as the migrations build it: table t has these columns, ...
ColsAt(r, t) == {c \in Metadata[t].cols : Added(c) <= r}

RefsAt(r, t) ==
  IF r = 1 /\ t \in Initial THEN InitialTables[t].refs
  ELSE IF r < 12 /\ t = "pipeline_runs" THEN PipelineTable["pipeline_runs"].refs
  ELSE Metadata[t].refs

\* ... and these tables are there.
Native(r) ==
  (IF r >= 1 THEN Initial ELSE {}) \cup (IF r = 4 \/ r >= 7 THEN {"voices"} ELSE {}) \cup
  (IF r >= 8 THEN {"pipeline_runs"} ELSE {}) \cup (IF r >= 10 THEN {"channel_automations"} ELSE {}) \cup
  (IF r >= 17 THEN Chat ELSE {})

LEMMA AddedIs ==
  /\ Added("script_id") = 2 /\ Added("publish_status") = 8
  /\ \A c \in RetryColumns : Added(c) = 9
  /\ Added("timezone") = 10 /\ Added("is_archived") = 10
  /\ Added("seo_gate_score") = 11 /\ Added("voice_gender") = 13
  /\ \A c \in InstagramColumns : Added(c) = 14
  /\ \A c \in InstagramRetryColumns : Added(c) = 15
BY DEF Added, RetryColumns, InstagramColumns, InstagramRetryColumns

LEMMA ModelCols ==
  /\ Metadata["channels"].cols = {"timezone", "is_archived"}
  /\ Metadata["scripts"].cols = {"seo_gate_score", "voice_gender"}
  /\ Metadata["thumbnails"].cols = {"script_id"} /\ Metadata["voices"].cols = {"voice_gender"}
  /\ Metadata["uploads"].cols =
       {"publish_status"} \cup RetryColumns \cup InstagramColumns \cup InstagramRetryColumns
  /\ Metadata["pipeline_runs"].cols = RetryColumns
  /\ \A t \in Tables \ {"channels", "scripts", "thumbnails", "voices", "uploads", "pipeline_runs"} :
       Metadata[t].cols = {}
<1>1. \A t \in Tables \ {"channels", "scripts", "thumbnails", "voices", "uploads", "pipeline_runs"} :
        Metadata[t].cols = {}
  BY ModelsAre, Rows, TablesAre DEF Initial
<1> QED BY <1>1, ModelsAre, Rows

LEMMA NewIs ==
  ASSUME NEW i \in 1..17, NEW t \in Tables
  PROVE  Gained(i, t) = {c \in Metadata[t].cols : Added(c) = i}
<1>1. CASE t = "channels"  BY <1>1, ModelCols, AddedIs DEF Gained
<1>2. CASE t = "scripts"  BY <1>2, ModelCols, AddedIs DEF Gained
<1>3. CASE t = "thumbnails"  BY <1>3, ModelCols, AddedIs DEF Gained
<1>4. CASE t = "voices"  BY <1>4, ModelCols, AddedIs DEF Gained
<1>5. CASE t = "uploads"  BY <1>5, ModelCols, AddedIs DEF Gained
<1>6. CASE t = "pipeline_runs"  BY <1>6, ModelCols, AddedIs DEF Gained
<1>7. CASE t \notin {"channels", "scripts", "thumbnails", "voices", "uploads", "pipeline_runs"}
  BY <1>7, ModelCols DEF Gained
<1> QED BY <1>1, <1>2, <1>3, <1>4, <1>5, <1>6, <1>7

\* Each revision adds its columns, and the last has all of the models'.
LEMMA ColsGrow ==
  ASSUME NEW t \in Tables
  PROVE  /\ \A i \in 1..17 : /\ ColsAt(i, t) = ColsAt(i - 1, t) \cup Gained(i, t)
                             /\ ColsAt(i - 1, t) = ColsAt(i, t) \ Gained(i, t)
                             /\ Gained(i, t) \subseteq Metadata[t].cols
         /\ ColsAt(0, t) = {} /\ ColsAt(1, t) = {} /\ ColsAt(17, t) = Metadata[t].cols
<1>1. \A c \in Metadata[t].cols : Added(c) \in 2..15
  <2>1. t \in {"channels", "scripts", "thumbnails", "voices", "uploads", "pipeline_runs"}
          => \A c \in Metadata[t].cols : Added(c) \in 2..15
    BY ModelCols, AddedIs
  <2> QED BY <2>1, ModelCols
<1>2. \A i \in 1..17 : Gained(i, t) = {c \in Metadata[t].cols : Added(c) = i}
  BY NewIs
<1>3. \A i \in 1..17 : /\ ColsAt(i, t) = ColsAt(i - 1, t) \cup Gained(i, t)
                       /\ ColsAt(i - 1, t) = ColsAt(i, t) \ Gained(i, t)
                       /\ Gained(i, t) \subseteq Metadata[t].cols
  BY <1>1, <1>2 DEF ColsAt
<1> QED BY <1>1, <1>3 DEF ColsAt

\* The tables later revisions create.
LEMMA VoicesIs ==
  /\ IsSchema(VoicesTable) /\ DOMAIN VoicesTable = {"voices"}
  /\ VoicesTable["voices"] = Row(Metadata["voices"].refs, {}, "uuid", {}, {})
<1>1. Metadata["voices"].refs = {Ref("script_id", "scripts", "none")}  BY ModelsAre, Rows
<1>2. VoicesTable["voices"] = Row({Ref("script_id", "scripts", "none")}, {}, "uuid", {}, {})
  BY DEF VoicesTable, Table, Row
<1>3. DOMAIN VoicesTable = {"voices"} /\ VoicesTable = [t \in {"voices"} |-> VoicesTable[t]]
  BY DEF VoicesTable
<1> QED BY <1>1, <1>2, <1>3, Rows DEF IsSchema

LEMMA PipelineIs ==
  LET tab == PipelineTable["pipeline_runs"] IN
  /\ IsSchema(PipelineTable) /\ DOMAIN PipelineTable = {"pipeline_runs"}
  /\ tab = Row(tab.refs, {}, "uuid", {"*"}, {"*"})
  /\ {Ref(r.col, r.parent, "none") : r \in tab.refs} = Metadata["pipeline_runs"].refs
  /\ Parents(tab) = {"topics", "channels", "scripts", "videos", "uploads"}
<1> DEFINE refs == {Ref("topic_id", "topics", "cascade"), Ref("channel_id", "channels", "cascade"),
                    Ref("script_id", "scripts", "null"), Ref("video_id", "videos", "null"),
                    Ref("upload_id", "uploads", "null")}
<1>1. /\ DOMAIN PipelineTable = {"pipeline_runs"} /\ PipelineTable["pipeline_runs"] = Created(refs)
      /\ PipelineTable = [t \in {"pipeline_runs"} |-> PipelineTable[t]]
  BY DEF PipelineTable
<1>2. \A a, b, c : Ref(a, b, c).col = a /\ Ref(a, b, c).parent = b  BY DEF Ref
<1>3. {r.parent : r \in refs} = {"topics", "channels", "scripts", "videos", "uploads"}
  BY <1>2
<1>4. {Ref(r.col, r.parent, "none") : r \in refs} =
        {Ref("topic_id", "topics", "none"), Ref("channel_id", "channels", "none"),
         Ref("script_id", "scripts", "none"), Ref("video_id", "videos", "none"),
         Ref("upload_id", "uploads", "none")}
  BY <1>2
<1>5. {Ref(r.col, r.parent, "none") : r \in refs} = Metadata["pipeline_runs"].refs
  BY <1>4, ModelsAre, Rows
<1> HIDE DEF refs
<1>6. PipelineTable["pipeline_runs"] = Row(refs, {}, "uuid", {"*"}, {"*"})
  BY <1>1, CreatedIs
<1>7. PipelineTable["pipeline_runs"].refs = refs  BY <1>6, Rows
<1>8. IsTable(PipelineTable["pipeline_runs"])  BY <1>6, Rows
<1> QED BY <1>1, <1>3, <1>5, <1>6, <1>7, <1>8 DEF IsSchema, Parents

LEMMA AutomationIs ==
  /\ IsSchema(AutomationTable) /\ DOMAIN AutomationTable = {"channel_automations"}
  /\ AutomationTable["channel_automations"] =
       Row(Metadata["channel_automations"].refs, {}, "uuid", {}, {"*"})
  /\ Parents(AutomationTable["channel_automations"]) = {"channels"}
<1> DEFINE refs == {Ref("channel_id", "channels", "cascade")}
           tab == Created(refs)
<1>1. Metadata["channel_automations"].refs = refs  BY ModelsAre, Rows
<1>2. {r.parent : r \in refs} = {"channels"}  BY DEF Ref
<1>3. /\ DOMAIN AutomationTable = {"channel_automations"}
      /\ AutomationTable = [t \in {"channel_automations"} |-> AutomationTable[t]]
      /\ AutomationTable["channel_automations"] = [tab EXCEPT !.indexes = {}]
  BY DEF AutomationTable
<1> HIDE DEF refs
<1>4. tab = Row(refs, {}, "uuid", {"*"}, {"*"})  BY CreatedIs
<1> HIDE DEF tab
<1>5. IsTable(tab)  BY <1>4, Rows
<1>6. [tab EXCEPT !.indexes = {}] = Row(tab.refs, tab.cols, tab.key, {}, tab.defaults)
  BY <1>5, Fields
<1>7. AutomationTable["channel_automations"] = Row(refs, {}, "uuid", {}, {"*"})
  BY <1>3, <1>4, <1>6, Rows
<1> QED BY <1>1, <1>2, <1>3, <1>7, Rows DEF IsSchema, Parents

LEMMA ChatIs ==
  ASSUME NEW key
  PROVE  /\ IsSchema(ChatTables(key)) /\ DOMAIN ChatTables(key) = Chat
         /\ \A t \in Chat :
              /\ ChatTables(key)[t] =
                   Row(Metadata[t].refs, {}, key,
                       IF t = "chat_messages" THEN {"*"} ELSE {},
                       IF t = "knowledge_docs" THEN {"*"} ELSE {})
              /\ Parents(ChatTables(key)[t]) \subseteq Chat
<1>1. DOMAIN ChatTables(key) = Chat /\ ChatTables(key) = [t \in Chat |-> ChatTables(key)[t]]
  BY TablesAre DEF ChatTables
<1>2. /\ ChatTables(key)["chat_sessions"] = Row({}, {}, key, {}, {})
      /\ ChatTables(key)["chat_unresolved"] = Row({}, {}, key, {}, {})
  BY DEF ChatTables, ChatSession, ChatUnresolved, Table, Row
<1>3. ChatTables(key)["chat_messages"] =
        Row({Ref("session_id", "chat_sessions", "cascade")}, {}, key, {"*"}, {})
  BY DEF ChatTables, ChatMessage, Table, Row
<1>4. ChatTables(key)["knowledge_docs"] = Row({}, {}, key, {}, {"*"})
  BY DEF ChatTables, KnowledgeDoc, Table, Row
<1>5. /\ \A t \in Chat \ {"chat_messages"} : Metadata[t].refs = {}
      /\ Metadata["chat_messages"].refs = {Ref("session_id", "chat_sessions", "cascade")}
  BY ModelsAre, Rows, TablesAre
<1>6. \A t \in Chat : ChatTables(key)[t] =
        Row(Metadata[t].refs, {}, key, IF t = "chat_messages" THEN {"*"} ELSE {},
            IF t = "knowledge_docs" THEN {"*"} ELSE {})
  BY <1>2, <1>3, <1>4, <1>5, TablesAre
<1>7. {r.parent : r \in {Ref("session_id", "chat_sessions", "cascade")}} = {"chat_sessions"}
  BY DEF Ref
<1>8. \A t \in Chat : {r.parent : r \in Metadata[t].refs} \subseteq Chat
  BY <1>5, <1>7, TablesAre
<1>9. \A t \in Chat : ChatTables(key)[t].refs = Metadata[t].refs /\ IsTable(ChatTables(key)[t])
  BY <1>6, Rows
<1> QED BY <1>1, <1>6, <1>8, <1>9 DEF IsSchema, Parents

\* Which tables revision i makes, and which it drops.
Made(i) ==
  CASE i = 1 -> Initial               [] i \in {4, 7} -> {"voices"}
    [] i = 8 -> {"pipeline_runs"}     [] i = 10 -> {"channel_automations"}
    [] i \in {16, 17} -> Chat         [] OTHER -> {}
Dropped(i) == IF i \in {5, 6} THEN {"voices"} ELSE {}

\* ... and table t has this key, these indexes and these server defaults.
KeyAt(r, t) == IF r = 16 /\ t \in Chat THEN "text" ELSE "uuid"

IndexesAt(r, t) ==
  IF (r = 1 /\ t \in Initial \ {"thumbnails"}) \/ (r < 12 /\ t = "pipeline_runs") \/ t = "chat_messages"
  THEN {"*"}
  ELSE IF r \in 8..11 /\ t = "uploads" THEN {"publish_status"} ELSE {}

Defaulted(r) ==
  IF r < 12 THEN {"publish_status", "retry_count", "max_retries", "timezone", "is_archived",
                  "seo_gate_score"}
            ELSE {"instagram_posted"} \cup InstagramRetryColumns

DefaultsAt(r, t) ==
  (ColsAt(r, t) \cap Defaulted(r)) \cup
  (IF r = 1 \/ (r < 12 /\ t \in {"pipeline_runs", "channel_automations"}) \/ t = "knowledge_docs"
   THEN {"*"} ELSE {})

Shaped(r, t, tab) ==
  /\ tab.refs = RefsAt(r, t) /\ tab.cols = ColsAt(r, t) /\ tab.key = KeyAt(r, t)
  /\ tab.indexes = IndexesAt(r, t) /\ tab.defaults = DefaultsAt(r, t)

\* What revision i does to a table t that is there, and what its downgrade does.
Follows(i, t, old, new) ==
  /\ new.refs = old.refs /\ new.key = old.key /\ new.cols = old.cols \cup Gained(i, t)
  /\ new.indexes = IF i = 8 /\ t = "uploads" THEN {"publish_status"} ELSE old.indexes
  /\ Gained(i, t) \cap old.cols = {} =>
       new.defaults = old.defaults \cup (Gained(i, t) \cap Defaulted(i))

Precedes(i, t, old, new) ==
  /\ Gained(i, t) \subseteq old.cols
  /\ new.refs = old.refs /\ new.key = old.key /\ new.cols = old.cols \ Gained(i, t)
  /\ new.indexes = IF i = 8 /\ t = "uploads" THEN {} ELSE old.indexes
  /\ new.defaults = old.defaults \ Gained(i, t)

UpStep(i, d, e) ==
  /\ IsDb(e) /\ e.rows \subseteq d.rows
  /\ DOMAIN e.schema = (DOMAIN d.schema \cup Made(i)) \ Dropped(i)
  /\ \A t \in DOMAIN e.schema :
       \/ t \in Made(i) /\ Shaped(i, t, e.schema[t])
       \/ t \in DOMAIN d.schema /\ (t \in Made(i) => i = 16) /\ Follows(i, t, d.schema[t], e.schema[t])

DownStep(i, d, e) ==
  /\ IsDb(e) /\ e.rows \subseteq d.rows
  /\ Made(i) \subseteq DOMAIN d.schema /\ Dropped(i) \cap DOMAIN d.schema = {}
  /\ DOMAIN e.schema = (DOMAIN d.schema \ Made(i)) \cup Dropped(i)
  /\ \A t \in DOMAIN e.schema :
       \/ t \in Dropped(i) /\ Shaped(i - 1, t, e.schema[t])
       \/ t \in DOMAIN d.schema /\ Precedes(i, t, d.schema[t], e.schema[t])

LEMMA InitialStep ==
  ASSUME NEW d, IsDb(d), NEW e \in UpInitial(d)
  PROVE  UpStep(1, d, e)
<1>1. ASSUME NEW t \in Initial PROVE Shaped(1, t, InitialTables[t])
  <2>1. /\ InitialTables[t].cols = {} /\ InitialTables[t].key = "uuid" /\ InitialTables[t].defaults = {"*"}
        /\ InitialTables[t].indexes = IF t = "thumbnails" THEN {} ELSE {"*"}
    BY InitialRefs, Rows
  <2>2. ColsAt(1, t) = {}  BY TablesAre, ColsGrow
  <2>3. t \notin {"pipeline_runs", "chat_messages"}  BY DEF Initial
  <2> QED BY <2>1, <2>2, <2>3 DEF Shaped, RefsAt, KeyAt, IndexesAt, DefaultsAt
<1>2. IsDb(e) /\ e.rows = d.rows /\ DOMAIN e.schema = DOMAIN d.schema \cup Initial
      /\ (\A t \in DOMAIN d.schema : e.schema[t] = d.schema[t])
      /\ (\A t \in Initial : e.schema[t] = InitialTables[t])
  BY InitialAre, Creating DEF UpInitial
<1>3. \A t : Gained(1, t) = {}  BY DEF Gained
<1>4. \A t \in DOMAIN d.schema : Follows(1, t, d.schema[t], e.schema[t])
  BY <1>2, <1>3 DEF Follows
<1>5. Made(1) = Initial /\ Dropped(1) = {}  BY DEF Made, Dropped
<1> QED BY <1>1, <1>2, <1>4, <1>5 DEF UpStep, Remade

LEMMA VoicesShaped ==
  ASSUME NEW i \in 2..12
  PROVE  Shaped(i, "voices", VoicesTable["voices"])
<1>1. /\ VoicesTable["voices"].refs = Metadata["voices"].refs /\ VoicesTable["voices"].cols = {}
      /\ VoicesTable["voices"].key = "uuid" /\ VoicesTable["voices"].indexes = {}
      /\ VoicesTable["voices"].defaults = {}
  BY VoicesIs, Rows
<1>2. ColsAt(i, "voices") = {}  BY ModelCols, AddedIs DEF ColsAt
<1>3. /\ RefsAt(i, "voices") = Metadata["voices"].refs /\ KeyAt(i, "voices") = "uuid"
      /\ IndexesAt(i, "voices") = {}
  BY TablesAre DEF RefsAt, KeyAt, IndexesAt, Initial
<1>4. DefaultsAt(i, "voices") = {}  BY <1>2 DEF DefaultsAt
<1> QED BY <1>1, <1>2, <1>3, <1>4 DEF Shaped

\* The voices table comes and goes (revisions 4 to 7).
LEMMA VoicesMade ==
  ASSUME NEW d, IsDb(d), NEW e \in Create(d, VoicesTable)
  PROVE  /\ IsDb(e) /\ e.rows = d.rows /\ DOMAIN e.schema = DOMAIN d.schema \cup {"voices"}
         /\ "voices" \notin DOMAIN d.schema
         /\ \A t \in DOMAIN d.schema : e.schema[t] = d.schema[t]
         /\ e.schema["voices"] = VoicesTable["voices"]
BY VoicesIs, Creating

LEMMA VoicesDropped ==
  ASSUME NEW d, IsDb(d), NEW e \in Drop(d, {"voices"})
  PROVE  /\ IsDb(e) /\ e.rows \subseteq d.rows /\ DOMAIN e.schema = DOMAIN d.schema \ {"voices"}
         /\ "voices" \in DOMAIN d.schema
         /\ \A t \in DOMAIN e.schema : e.schema[t] = d.schema[t]
BY Removing

LEMMA VoicesSteps ==
  ASSUME NEW d, IsDb(d), NEW e
  PROVE  /\ \A i \in {4, 7} : e \in Create(d, VoicesTable) => UpStep(i, d, e)
         /\ \A i \in {5, 6} : e \in DropIfExists(d, "voices") => UpStep(i, d, e)
         /\ \A i \in {4, 7} : e \in Drop(d, {"voices"}) => DownStep(i, d, e)
         /\ \A i \in {5, 6} : e \in Create(d, VoicesTable) => DownStep(i, d, e)
<1>1. \A i \in 4..7 : \A t : Gained(i, t) = {}  BY DEF Gained
<1>2. /\ \A i \in {4, 7} : Made(i) = {"voices"} /\ Dropped(i) = {}
      /\ \A i \in {5, 6} : Made(i) = {} /\ Dropped(i) = {"voices"}
  BY DEF Made, Dropped
<1>3. \A i \in 4..7 : \A t, tab : Follows(i, t, tab, tab) /\ Precedes(i, t, tab, tab)
  BY <1>1 DEF Follows, Precedes
<1>4. \A i \in {4, 7} : e \in Create(d, VoicesTable) => UpStep(i, d, e)
  BY <1>2, <1>3, VoicesMade, VoicesShaped DEF UpStep
<1>5. \A i \in {5, 6} : e \in DropIfExists(d, "voices") => UpStep(i, d, e)
  BY <1>2, <1>3, VoicesDropped DEF UpStep, DropIfExists
<1>6. \A i \in {4, 7} : e \in Drop(d, {"voices"}) => DownStep(i, d, e)
  BY <1>2, <1>3, VoicesDropped DEF DownStep
<1>7. \A i \in {5, 6} : e \in Create(d, VoicesTable) => DownStep(i, d, e)
  BY <1>2, <1>3, VoicesMade, VoicesShaped DEF DownStep
<1> QED BY <1>4, <1>5, <1>6, <1>7

\* A revision that adds columns to one table only, and its downgrade.
LEMMA AddStep ==
  ASSUME NEW i \in {11, 14, 15}, NEW d, IsDb(d), NEW t, NEW cols, NEW defaulted,
         cols \subseteq Gained(i, t), Gained(i, t) \subseteq cols \cup d.schema[t].cols,
         cols = Gained(i, t) => defaulted = Gained(i, t) \cap Defaulted(i),
         \A u : u # t => Gained(i, u) = {}, NEW e \in AddColumns(d, t, cols, defaulted)
  PROVE  UpStep(i, d, e)
<1>1. Made(i) = {} /\ Dropped(i) = {}  BY DEF Made, Dropped
<1>2. Follows(i, t, d.schema[t], e.schema[t])
  <2>1. /\ e.schema[t].refs = d.schema[t].refs /\ e.schema[t].cols = d.schema[t].cols \cup cols
        /\ e.schema[t].key = d.schema[t].key /\ e.schema[t].indexes = d.schema[t].indexes
        /\ e.schema[t].defaults = d.schema[t].defaults \cup defaulted
    BY Adding
  <2>2. e.schema[t].cols = d.schema[t].cols \cup Gained(i, t)  BY <2>1
  <2>3. Gained(i, t) \cap d.schema[t].cols = {} => cols = Gained(i, t)  OBVIOUS
  <2> QED BY <2>1, <2>2, <2>3 DEF Follows
<1>3. /\ Remade(d, e, DOMAIN d.schema) /\ t \in DOMAIN d.schema /\ Only(t, e.schema, d.schema)
  BY Adding
<1>4. \A u \in DOMAIN d.schema \ {t} : Follows(i, u, d.schema[u], e.schema[u])
  BY <1>3 DEF Follows, Only, Remade
<1> QED BY <1>1, <1>2, <1>3, <1>4 DEF UpStep, Remade

LEMMA DropStep ==
  ASSUME NEW i \in {11, 14, 15}, NEW d, IsDb(d), NEW t, \A u : u # t => Gained(i, u) = {},
         NEW e \in DropColumns(d, t, Gained(i, t))
  PROVE  DownStep(i, d, e)
<1>1. Made(i) = {} /\ Dropped(i) = {}  BY DEF Made, Dropped
<1>2. Precedes(i, t, d.schema[t], e.schema[t])  BY Dropping DEF Precedes
<1>3. /\ Remade(d, e, DOMAIN d.schema) /\ t \in DOMAIN d.schema /\ Only(t, e.schema, d.schema)
  BY Dropping
<1>4. \A u \in DOMAIN d.schema \ {t} : Precedes(i, u, d.schema[u], e.schema[u])
  BY <1>3 DEF Precedes, Only, Remade
<1> QED BY <1>1, <1>2, <1>3, <1>4 DEF DownStep, Remade

LEMMA ColumnSteps ==
  ASSUME NEW d, IsDb(d), NEW e
  PROVE  /\ e \in UpSeoGate(d) => UpStep(11, d, e)
         /\ e \in UpInstagram(d) => UpStep(14, d, e)
         /\ e \in UpInstagramRetry(d) => UpStep(15, d, e)
         /\ e \in DownSeoGate(d) => DownStep(11, d, e)
         /\ e \in DownInstagram(d) => DownStep(14, d, e)
         /\ e \in DownInstagramRetry(d) => DownStep(15, d, e)
<1>1. /\ Gained(11, "scripts") = {"seo_gate_score"} /\ \A t : t # "scripts" => Gained(11, t) = {}
      /\ Gained(14, "uploads") = InstagramColumns /\ \A t : t # "uploads" => Gained(14, t) = {}
      /\ Gained(15, "uploads") = InstagramRetryColumns /\ \A t : t # "uploads" => Gained(15, t) = {}
  BY DEF Gained
<1>2. /\ {"seo_gate_score"} \cap Defaulted(11) = {"seo_gate_score"}
      /\ InstagramColumns \cap Defaulted(14) = {"instagram_posted"}
      /\ InstagramRetryColumns \cap Defaulted(15) = InstagramRetryColumns
  BY DEF Defaulted, InstagramColumns, InstagramRetryColumns
<1>3. e \in UpSeoGate(d) => UpStep(11, d, e)
  BY <1>1, <1>2, AddStep DEF UpSeoGate
<1>4. ASSUME e \in UpInstagram(d) PROVE UpStep(14, d, e)
  <2> DEFINE missing == InstagramColumns \ d.schema["uploads"].cols
  <2>1. e \in AddColumns(d, "uploads", missing, {"instagram_posted"} \cap missing)
    BY <1>4 DEF UpInstagram, AddMissing
  <2>2. /\ missing \subseteq InstagramColumns
        /\ InstagramColumns \subseteq missing \cup d.schema["uploads"].cols
        /\ missing = InstagramColumns => {"instagram_posted"} \cap missing = {"instagram_posted"}
    BY <1>2
  <2> HIDE DEF missing
  <2> QED BY <2>1, <2>2, <1>1, <1>2, AddStep
<1>5. ASSUME e \in UpInstagramRetry(d) PROVE UpStep(15, d, e)
  <2> DEFINE missing == InstagramRetryColumns \ d.schema["uploads"].cols
  <2>1. e \in AddColumns(d, "uploads", missing, InstagramRetryColumns \cap missing)
    BY <1>5 DEF UpInstagramRetry, AddMissing
  <2>2. /\ missing \subseteq InstagramRetryColumns
        /\ InstagramRetryColumns \subseteq missing \cup d.schema["uploads"].cols
    OBVIOUS
  <2> HIDE DEF missing
  <2> QED BY <2>1, <2>2, <1>1, <1>2, AddStep
<1>6. /\ e \in DownSeoGate(d) => DownStep(11, d, e)
      /\ e \in DownInstagram(d) => DownStep(14, d, e)
      /\ e \in DownInstagramRetry(d) => DownStep(15, d, e)
  BY <1>1, DropStep DEF DownSeoGate, DownInstagram, DownInstagramRetry
<1> QED BY <1>3, <1>4, <1>5, <1>6

\* One table of several gains, or loses, its new columns.
LEMMA Grows ==
  ASSUME NEW i \in 1..17, NEW d, IsDb(d), NEW t, ~(i = 8 /\ t = "uploads"),
         NEW cols, cols = Gained(i, t), NEW defaulted, defaulted = cols \cap Defaulted(i),
         NEW e \in AddColumns(d, t, cols, defaulted)
  PROVE  /\ t \in DOMAIN d.schema /\ Remade(d, e, DOMAIN d.schema) /\ Only(t, e.schema, d.schema)
         /\ Follows(i, t, d.schema[t], e.schema[t])
BY Adding DEF Follows

LEMMA Shrinks ==
  ASSUME NEW i \in 1..17, NEW d, IsDb(d), NEW t, ~(i = 8 /\ t = "uploads"),
         NEW cols, cols = Gained(i, t), NEW e \in DropColumns(d, t, cols)
  PROVE  /\ t \in DOMAIN d.schema /\ Remade(d, e, DOMAIN d.schema) /\ Only(t, e.schema, d.schema)
         /\ Precedes(i, t, d.schema[t], e.schema[t])
BY Dropping DEF Precedes

LEMMA NothingNew ==
  ASSUME NEW i \in 1..17, NEW t, Gained(i, t) = {}, NEW tab
  PROVE  Follows(i, t, tab, tab) /\ Precedes(i, t, tab, tab)
<1>1. ~(i = 8 /\ t = "uploads")  BY DEF Gained
<1> QED BY <1>1 DEF Follows, Precedes

LEMMA VoiceGenderSteps ==
  ASSUME NEW d, IsDb(d), NEW e
  PROVE  /\ e \in UpVoiceGender(d) => UpStep(13, d, e)
         /\ e \in DownVoiceGender(d) => DownStep(13, d, e)
<1> DEFINE cols == {"voice_gender"}
<1>1. /\ cols = Gained(13, "scripts") /\ cols = Gained(13, "voices")
      /\ \A t : t \notin {"scripts", "voices"} => Gained(13, t) = {}
  BY DEF Gained
<1>2. cols \cap Defaulted(13) = {}  BY DEF Defaulted, InstagramRetryColumns
<1>3. Made(13) = {} /\ Dropped(13) = {}  BY DEF Made, Dropped
<1>4. ASSUME e \in UpVoiceGender(d) PROVE UpStep(13, d, e)
  <2>1. PICK x \in AddColumns(d, "scripts", cols, {}) : e \in AddColumns(x, "voices", cols, {})
    BY <1>4 DEF UpVoiceGender, Then
  <2> HIDE DEF cols
  <2>2. /\ Remade(d, x, DOMAIN d.schema) /\ Only("scripts", x.schema, d.schema)
        /\ "scripts" \in DOMAIN d.schema /\ Follows(13, "scripts", d.schema["scripts"], x.schema["scripts"])
    BY <1>1, <1>2, <2>1, Grows
  <2>3. /\ Remade(x, e, DOMAIN x.schema) /\ Only("voices", e.schema, x.schema)
        /\ "voices" \in DOMAIN x.schema /\ Follows(13, "voices", x.schema["voices"], e.schema["voices"])
    BY <1>1, <1>2, <2>1, <2>2, Grows DEF Remade
  <2>4. \A t \in DOMAIN d.schema \ {"scripts", "voices"} : e.schema[t] = d.schema[t]
    BY <2>2, <2>3 DEF Only, Remade
  <2>5. \A t \in DOMAIN d.schema \ {"scripts", "voices"} : Follows(13, t, d.schema[t], d.schema[t])
    BY <1>1, NothingNew
  <2> QED BY <1>3, <2>2, <2>3, <2>4, <2>5 DEF UpStep, Remade, Only
<1>5. ASSUME e \in DownVoiceGender(d) PROVE DownStep(13, d, e)
  <2>1. PICK x \in DropColumns(d, "voices", cols) : e \in DropColumns(x, "scripts", cols)
    BY <1>5 DEF DownVoiceGender, Then
  <2> HIDE DEF cols
  <2>2. /\ Remade(d, x, DOMAIN d.schema) /\ Only("voices", x.schema, d.schema)
        /\ "voices" \in DOMAIN d.schema /\ Precedes(13, "voices", d.schema["voices"], x.schema["voices"])
    BY <1>1, <2>1, Shrinks
  <2>3. /\ Remade(x, e, DOMAIN x.schema) /\ Only("scripts", e.schema, x.schema)
        /\ "scripts" \in DOMAIN x.schema /\ Precedes(13, "scripts", x.schema["scripts"], e.schema["scripts"])
    BY <1>1, <2>1, <2>2, Shrinks DEF Remade
  <2>4. \A t \in DOMAIN d.schema \ {"scripts", "voices"} : e.schema[t] = d.schema[t]
    BY <2>2, <2>3 DEF Only, Remade
  <2>5. \A t \in DOMAIN d.schema \ {"scripts", "voices"} : Precedes(13, t, d.schema[t], d.schema[t])
    BY <1>1, NothingNew
  <2> QED BY <1>3, <2>2, <2>3, <2>4, <2>5 DEF DownStep, Remade, Only
<1> QED BY <1>4, <1>5

LEMMA RetrySteps ==
  ASSUME NEW d, IsDb(d), NEW e
  PROVE  /\ e \in UpRetry(d) => UpStep(9, d, e)
         /\ e \in DownRetry(d) => DownStep(9, d, e)
<1> DEFINE cols == RetryColumns
           defaulted == {"retry_count", "max_retries"}
<1>1. /\ cols = Gained(9, "pipeline_runs") /\ cols = Gained(9, "uploads")
      /\ \A t : t \notin {"pipeline_runs", "uploads"} => Gained(9, t) = {}
  BY DEF Gained
<1>2. defaulted = cols \cap Defaulted(9)  BY DEF Defaulted, RetryColumns
<1>3. Made(9) = {} /\ Dropped(9) = {}  BY DEF Made, Dropped
<1>4. ASSUME e \in UpRetry(d) PROVE UpStep(9, d, e)
  <2>1. PICK x \in AddColumns(d, "pipeline_runs", cols, defaulted) :
          e \in AddColumns(x, "uploads", cols, defaulted)
    BY <1>4 DEF UpRetry, Then
  <2> HIDE DEF cols, defaulted
  <2>2. /\ Remade(d, x, DOMAIN d.schema) /\ Only("pipeline_runs", x.schema, d.schema)
        /\ "pipeline_runs" \in DOMAIN d.schema
        /\ Follows(9, "pipeline_runs", d.schema["pipeline_runs"], x.schema["pipeline_runs"])
    BY <1>1, <1>2, <2>1, Grows
  <2>3. /\ Remade(x, e, DOMAIN x.schema) /\ Only("uploads", e.schema, x.schema)
        /\ "uploads" \in DOMAIN x.schema /\ Follows(9, "uploads", x.schema["uploads"], e.schema["uploads"])
    BY <1>1, <1>2, <2>1, <2>2, Grows DEF Remade
  <2>4. \A t \in DOMAIN d.schema \ {"pipeline_runs", "uploads"} : e.schema[t] = d.schema[t]
    BY <2>2, <2>3 DEF Only, Remade
  <2>5. \A t \in DOMAIN d.schema \ {"pipeline_runs", "uploads"} : Follows(9, t, d.schema[t], d.schema[t])
    BY <1>1, NothingNew
  <2> QED BY <1>3, <2>2, <2>3, <2>4, <2>5 DEF UpStep, Remade, Only
<1>5. ASSUME e \in DownRetry(d) PROVE DownStep(9, d, e)
  <2>1. PICK x \in DropColumns(d, "pipeline_runs", cols) : e \in DropColumns(x, "uploads", cols)
    BY <1>5 DEF DownRetry, Then
  <2> HIDE DEF cols
  <2>2. /\ Remade(d, x, DOMAIN d.schema) /\ Only("pipeline_runs", x.schema, d.schema)
        /\ "pipeline_runs" \in DOMAIN d.schema
        /\ Precedes(9, "pipeline_runs", d.schema["pipeline_runs"], x.schema["pipeline_runs"])
    BY <1>1, <2>1, Shrinks
  <2>3. /\ Remade(x, e, DOMAIN x.schema) /\ Only("uploads", e.schema, x.schema)
        /\ "uploads" \in DOMAIN x.schema /\ Precedes(9, "uploads", x.schema["uploads"], e.schema["uploads"])
    BY <1>1, <2>1, <2>2, Shrinks DEF Remade
  <2>4. \A t \in DOMAIN d.schema \ {"pipeline_runs", "uploads"} : e.schema[t] = d.schema[t]
    BY <2>2, <2>3 DEF Only, Remade
  <2>5. \A t \in DOMAIN d.schema \ {"pipeline_runs", "uploads"} : Precedes(9, t, d.schema[t], d.schema[t])
    BY <1>1, NothingNew
  <2> QED BY <1>3, <2>2, <2>3, <2>4, <2>5 DEF DownStep, Remade, Only
<1> QED BY <1>4, <1>5

LEMMA MadeShaped ==
  /\ Shaped(8, "pipeline_runs", PipelineTable["pipeline_runs"])
  /\ Shaped(10, "channel_automations", AutomationTable["channel_automations"])
  /\ \A t \in Chat : /\ Shaped(16, t, ChatTables("text")[t])
                     /\ Shaped(17, t, ChatTables("uuid")[t])
<1>1. Shaped(8, "pipeline_runs", PipelineTable["pipeline_runs"])
  <2> DEFINE tab == PipelineTable["pipeline_runs"]
  <2>1. tab.cols = {} /\ tab.key = "uuid" /\ tab.indexes = {"*"} /\ tab.defaults = {"*"}
    BY PipelineIs, Rows
  <2>2. ColsAt(8, "pipeline_runs") = {}  BY ModelCols, AddedIs DEF ColsAt
  <2>3. RefsAt(8, "pipeline_runs") = tab.refs  BY DEF RefsAt
  <2>4. KeyAt(8, "pipeline_runs") = "uuid" /\ IndexesAt(8, "pipeline_runs") = {"*"}
    BY DEF KeyAt, IndexesAt
  <2>5. DefaultsAt(8, "pipeline_runs") = {"*"}  BY <2>2 DEF DefaultsAt
  <2> QED BY <2>1, <2>2, <2>3, <2>4, <2>5 DEF Shaped
<1>2. Shaped(10, "channel_automations", AutomationTable["channel_automations"])
  <2> DEFINE tab == AutomationTable["channel_automations"]
  <2>1. /\ tab.refs = Metadata["channel_automations"].refs /\ tab.cols = {} /\ tab.key = "uuid"
        /\ tab.indexes = {} /\ tab.defaults = {"*"}
    BY AutomationIs, Rows
  <2>2. ColsAt(10, "channel_automations") = {}
    BY ModelCols, TablesAre DEF ColsAt
  <2>3. RefsAt(10, "channel_automations") = tab.refs  BY <2>1 DEF RefsAt
  <2>4. KeyAt(10, "channel_automations") = "uuid" /\ IndexesAt(10, "channel_automations") = {}
    BY DEF KeyAt, IndexesAt
  <2>5. DefaultsAt(10, "channel_automations") = {"*"}  BY <2>2 DEF DefaultsAt
  <2> QED BY <2>1, <2>2, <2>3, <2>4, <2>5 DEF Shaped
<1>3. ASSUME NEW key \in {"text", "uuid"}, NEW i \in 16..17, key = KeyAt(i, "chat_sessions"), NEW t \in Chat
      PROVE  Shaped(i, t, ChatTables(key)[t])
  <2>1. /\ ChatTables(key)[t].refs = Metadata[t].refs /\ ChatTables(key)[t].cols = {}
        /\ ChatTables(key)[t].key = key
        /\ ChatTables(key)[t].indexes = (IF t = "chat_messages" THEN {"*"} ELSE {})
        /\ ChatTables(key)[t].defaults = (IF t = "knowledge_docs" THEN {"*"} ELSE {})
    BY ChatIs, Rows
  <2>2. t \in Tables /\ t \notin Initial \cup {"pipeline_runs", "channel_automations", "voices"}
    BY TablesAre DEF Initial
  <2>3. Metadata[t].cols = {}  BY <2>2, ModelCols DEF Initial
  <2>4. ColsAt(i, t) = {}  BY <2>3 DEF ColsAt
  <2>5. RefsAt(i, t) = Metadata[t].refs /\ KeyAt(i, t) = key  BY <1>3, <2>2, TablesAre DEF RefsAt, KeyAt
  <2>6. IndexesAt(i, t) = IF t = "chat_messages" THEN {"*"} ELSE {}  BY <2>2 DEF IndexesAt, Initial
  <2>7. DefaultsAt(i, t) = IF t = "knowledge_docs" THEN {"*"} ELSE {}  BY <2>2, <2>4 DEF DefaultsAt
  <2> QED BY <2>1, <2>4, <2>5, <2>6, <2>7 DEF Shaped
<1>4. KeyAt(16, "chat_sessions") = "text" /\ KeyAt(17, "chat_sessions") = "uuid"
  BY TablesAre DEF KeyAt
<1> QED BY <1>1, <1>2, <1>3, <1>4

LEMMA AutomationSteps ==
  ASSUME NEW d, IsDb(d), NEW e
  PROVE  /\ e \in UpAutomation(d) => UpStep(10, d, e)
         /\ e \in DownAutomation(d) => DownStep(10, d, e)
<1> DEFINE cols == {"timezone", "is_archived"}
           ts == {"channel_automations"}
<1>1. cols = Gained(10, "channels") /\ \A t : t # "channels" => Gained(10, t) = {}
  BY DEF Gained
<1>2. cols = cols \cap Defaulted(10)  BY DEF Defaulted
<1>3. Made(10) = ts /\ Dropped(10) = {}  BY DEF Made, Dropped
<1>4. ASSUME e \in UpAutomation(d) PROVE UpStep(10, d, e)
  <2>1. PICK x \in AddColumns(d, "channels", cols, cols) : e \in Create(x, AutomationTable)
    BY <1>4 DEF UpAutomation, Then
  <2> HIDE DEF cols
  <2>2. /\ Remade(d, x, DOMAIN d.schema) /\ Only("channels", x.schema, d.schema)
        /\ "channels" \in DOMAIN d.schema /\ Follows(10, "channels", d.schema["channels"], x.schema["channels"])
    BY <1>1, <1>2, <2>1, Grows
  <2>3. /\ IsDb(e) /\ e.rows = x.rows /\ DOMAIN e.schema = DOMAIN x.schema \cup ts
        /\ \A t \in DOMAIN x.schema : e.schema[t] = x.schema[t]
        /\ e.schema["channel_automations"] = AutomationTable["channel_automations"]
    BY <2>1, <2>2, AutomationIs, Creating DEF Remade
  <2>4. \A t \in DOMAIN d.schema \ {"channels"} : e.schema[t] = d.schema[t]
    BY <2>2, <2>3 DEF Only, Remade
  <2>5. \A t \in DOMAIN d.schema \ {"channels"} : Follows(10, t, d.schema[t], d.schema[t])
    BY <1>1, NothingNew
  <2> QED BY <1>3, <2>2, <2>3, <2>4, <2>5, MadeShaped DEF UpStep, Remade
<1>5. ASSUME e \in DownAutomation(d) PROVE DownStep(10, d, e)
  <2>1. PICK x \in Drop(d, ts) : e \in DropColumns(x, "channels", cols)
    BY <1>5 DEF DownAutomation, Then
  <2> HIDE DEF cols, ts
  <2>2. /\ IsDb(x) /\ x.rows = d.rows \ ts /\ DOMAIN x.schema = DOMAIN d.schema \ ts
        /\ ts \subseteq DOMAIN d.schema /\ \A t \in DOMAIN x.schema : x.schema[t] = d.schema[t]
    BY <2>1, Removing
  <2>3. /\ Remade(x, e, DOMAIN x.schema) /\ Only("channels", e.schema, x.schema)
        /\ "channels" \in DOMAIN x.schema /\ Precedes(10, "channels", x.schema["channels"], e.schema["channels"])
    <3>1. IsDb(x) /\ cols = Gained(10, "channels") /\ e \in DropColumns(x, "channels", cols)
      BY <1>1, <2>1, <2>2
    <3> QED BY <3>1, Shrinks
  <2>4. \A t \in DOMAIN x.schema \ {"channels"} : e.schema[t] = d.schema[t]
    BY <2>2, <2>3 DEF Only, Remade
  <2>5. \A t \in DOMAIN d.schema \ {"channels"} : Precedes(10, t, d.schema[t], d.schema[t])
    BY <1>1, NothingNew
  <2> QED BY <1>3, <2>2, <2>3, <2>4, <2>5 DEF DownStep, Remade
<1> QED BY <1>4, <1>5

LEMMA PipelineSteps ==
  ASSUME NEW d, IsDb(d), NEW e
  PROVE  /\ e \in UpPipeline(d) => UpStep(8, d, e)
         /\ e \in DownPipeline(d) => DownStep(8, d, e)
<1> DEFINE cols == {"publish_status"}
           ts == {"pipeline_runs"}
<1>1. cols = Gained(8, "uploads") /\ \A t : t # "uploads" => Gained(8, t) = {}
  BY DEF Gained
<1>2. cols = cols \cap Defaulted(8)  BY DEF Defaulted
<1>3. Made(8) = ts /\ Dropped(8) = {}  BY DEF Made, Dropped
<1>4. ASSUME e \in UpPipeline(d) PROVE UpStep(8, d, e)
  <2>1. PICK x \in AddColumns(d, "uploads", cols, cols) :
          \E y \in Create(x, PipelineTable) : e = Index(y, "uploads", cols)
    BY <1>4 DEF UpPipeline, Then
  <2>a. PICK y \in Create(x, PipelineTable) : e = Index(y, "uploads", cols)
    BY <2>1
  <2> HIDE DEF cols
  <2>2. /\ Remade(d, x, DOMAIN d.schema) /\ Only("uploads", x.schema, d.schema)
        /\ "uploads" \in DOMAIN d.schema
    BY <2>1, Adding
  <2>b. LET old == d.schema["uploads"] new == x.schema["uploads"] IN
        /\ new.refs = old.refs /\ new.cols = old.cols \cup cols /\ new.key = old.key
        /\ new.defaults = old.defaults \cup cols
    BY <2>1, Adding
  <2>3. /\ IsDb(y) /\ y.rows = x.rows /\ DOMAIN y.schema = DOMAIN x.schema \cup ts
        /\ \A t \in DOMAIN x.schema : y.schema[t] = x.schema[t]
        /\ y.schema["pipeline_runs"] = PipelineTable["pipeline_runs"]
        /\ "pipeline_runs" \notin DOMAIN x.schema
    BY <2>2, PipelineIs, Creating DEF Remade
  <2>4. "uploads" \in DOMAIN y.schema  BY <2>2, <2>3 DEF Remade
  <2>c. Remade(y, e, DOMAIN y.schema) /\ Only("uploads", e.schema, y.schema)
    BY <2>a, <2>3, <2>4, Indexing
  <2>d. LET old == y.schema["uploads"] new == e.schema["uploads"] IN
        /\ new.refs = old.refs /\ new.cols = old.cols /\ new.key = old.key
        /\ new.indexes = cols /\ new.defaults = old.defaults
    BY <2>a, <2>3, <2>4, Indexing
  <2>e. y.schema["uploads"] = x.schema["uploads"]  BY <2>2, <2>3 DEF Remade
  <2>f. Follows(8, "uploads", d.schema["uploads"], e.schema["uploads"])
    <3>1. Gained(8, "uploads") \cap Defaulted(8) = cols  BY <1>1, <1>2
    <3>2. cols = {"publish_status"}  BY DEF cols
    <3> QED BY <1>1, <3>1, <3>2, <2>b, <2>d, <2>e DEF Follows
  <2>5. \A t \in DOMAIN d.schema \ {"uploads"} : e.schema[t] = d.schema[t]
    BY <2>2, <2>3, <2>c DEF Only, Remade
  <2>6. \A t \in DOMAIN d.schema \ {"uploads"} : Follows(8, t, d.schema[t], d.schema[t])
    BY <1>1, NothingNew
  <2>7. e.schema["pipeline_runs"] = PipelineTable["pipeline_runs"]
    BY <2>3, <2>c DEF Only, Remade
  <2>8. DOMAIN e.schema = DOMAIN d.schema \cup ts /\ IsDb(e) /\ e.rows = d.rows
    BY <2>2, <2>3, <2>c DEF Remade
  <2> QED BY <1>3, <2>5, <2>6, <2>7, <2>8, <2>f, MadeShaped DEF UpStep
<1>5. ASSUME e \in DownPipeline(d) PROVE DownStep(8, d, e)
  <2>1. PICK x \in Drop(d, ts) : \E y \in DropColumns(x, "uploads", cols) : e = Index(y, "uploads", {})
    BY <1>5 DEF DownPipeline, Then
  <2>a. PICK y \in DropColumns(x, "uploads", cols) : e = Index(y, "uploads", {})
    BY <2>1
  <2> HIDE DEF cols, ts
  <2>2. /\ IsDb(x) /\ x.rows = d.rows \ ts /\ DOMAIN x.schema = DOMAIN d.schema \ ts
        /\ ts \subseteq DOMAIN d.schema /\ \A t \in DOMAIN x.schema : x.schema[t] = d.schema[t]
    BY <2>1, Removing
  <2>3. /\ Remade(x, y, DOMAIN x.schema) /\ Only("uploads", y.schema, x.schema)
        /\ "uploads" \in DOMAIN x.schema
    BY <2>2, Dropping
  <2>b. LET old == x.schema["uploads"] new == y.schema["uploads"] IN
        /\ cols \subseteq old.cols
        /\ new.refs = old.refs /\ new.cols = old.cols \ cols /\ new.key = old.key
        /\ new.defaults = old.defaults \ cols
    BY <2>2, Dropping
  <2>4. "uploads" \in DOMAIN y.schema /\ IsDb(y)  BY <2>2, <2>3 DEF Remade
  <2>c. Remade(y, e, DOMAIN y.schema) /\ Only("uploads", e.schema, y.schema)
    BY <2>a, <2>4, Indexing
  <2>d. LET old == y.schema["uploads"] new == e.schema["uploads"] IN
        /\ new.refs = old.refs /\ new.cols = old.cols /\ new.key = old.key
        /\ new.indexes = {} /\ new.defaults = old.defaults
    BY <2>a, <2>4, Indexing
  <2>f. Precedes(8, "uploads", d.schema["uploads"], e.schema["uploads"])
    <3>1. x.schema["uploads"] = d.schema["uploads"]  BY <2>2, <2>3
    <3> QED BY <1>1, <3>1, <2>b, <2>d DEF Precedes
  <2>5. \A t \in DOMAIN x.schema \ {"uploads"} : e.schema[t] = d.schema[t]
    BY <2>2, <2>3, <2>c DEF Only, Remade
  <2>6. \A t \in DOMAIN d.schema \ {"uploads"} : Precedes(8, t, d.schema[t], d.schema[t])
    BY <1>1, NothingNew
  <2>8. DOMAIN e.schema = DOMAIN d.schema \ ts /\ IsDb(e) /\ e.rows \subseteq d.rows
    BY <2>2, <2>3, <2>c DEF Remade
  <2> QED BY <1>3, <2>2, <2>5, <2>6, <2>8, <2>f DEF DownStep
<1> QED BY <1>4, <1>5

LEMMA ChatSteps ==
  ASSUME NEW d, IsDb(d), NEW e
  PROVE  /\ e \in UpChat(d) => UpStep(16, d, e)
         /\ e \in UpChatUuid(d) => UpStep(17, d, e) /\ Chat \subseteq DOMAIN d.schema
         /\ \A i \in {16, 17} : e \in Drop(d, Chat) => DownStep(i, d, e)
<1>1. \A i \in {16, 17} : \A t : Gained(i, t) = {}  BY DEF Gained
<1>2. \A i \in {16, 17} : Made(i) = Chat /\ Dropped(i) = {}  BY DEF Made, Dropped
<1>3. \A i \in {16, 17} : \A t, tab : Follows(i, t, tab, tab) /\ Precedes(i, t, tab, tab)
  BY <1>1, NothingNew
<1>4. ASSUME e \in UpChat(d) PROVE UpStep(16, d, e)
  <2> DEFINE new == [t \in Chat \ DOMAIN d.schema |-> ChatTables("text")[t]]
  <2>1. e \in Create(d, new)  BY <1>4 DEF UpChat
  <2>2. IsSchema(new) /\ DOMAIN new = Chat \ DOMAIN d.schema
    BY ChatIs DEF IsSchema
  <2>3. \A t \in DOMAIN new : new[t] = ChatTables("text")[t]  OBVIOUS
  <2> HIDE DEF new
  <2>4. /\ IsDb(e) /\ e.rows = d.rows /\ DOMAIN e.schema = DOMAIN d.schema \cup DOMAIN new
        /\ \A t \in DOMAIN d.schema : e.schema[t] = d.schema[t]
        /\ \A t \in DOMAIN new : e.schema[t] = new[t]
    BY <2>1, <2>2, Creating
  <2>5. DOMAIN e.schema = (DOMAIN d.schema \cup Chat)  BY <2>2, <2>4
  <2>6. \A t \in DOMAIN new : Shaped(16, t, e.schema[t])  BY <2>2, <2>3, <2>4, MadeShaped
  <2>7. \A t \in DOMAIN d.schema : Follows(16, t, d.schema[t], e.schema[t])  BY <1>3, <2>4
  <2> QED BY <1>2, <2>2, <2>4, <2>5, <2>6, <2>7 DEF UpStep
<1>5. ASSUME e \in UpChatUuid(d) PROVE UpStep(17, d, e) /\ Chat \subseteq DOMAIN d.schema
  <2>1. PICK x \in Drop(d, Chat) : e \in Create(x, ChatTables("uuid"))
    BY <1>5 DEF UpChatUuid, Then
  <2>2. /\ IsDb(x) /\ x.rows = d.rows \ Chat /\ DOMAIN x.schema = DOMAIN d.schema \ Chat
        /\ Chat \subseteq DOMAIN d.schema /\ \A t \in DOMAIN x.schema : x.schema[t] = d.schema[t]
    BY <2>1, Removing
  <2>3. /\ IsDb(e) /\ e.rows = x.rows /\ DOMAIN e.schema = DOMAIN x.schema \cup Chat
        /\ \A t \in DOMAIN x.schema : e.schema[t] = x.schema[t]
        /\ \A t \in Chat : e.schema[t] = ChatTables("uuid")[t]
    BY <2>1, <2>2, ChatIs, Creating
  <2>4. \A t \in DOMAIN x.schema : Follows(17, t, d.schema[t], e.schema[t])  BY <1>3, <2>2, <2>3
  <2>5. \A t \in Chat : Shaped(17, t, e.schema[t])  BY <2>3, MadeShaped
  <2> QED BY <1>2, <2>2, <2>3, <2>4, <2>5 DEF UpStep
<1>6. ASSUME NEW i \in {16, 17}, e \in Drop(d, Chat) PROVE DownStep(i, d, e)
  <2>1. /\ IsDb(e) /\ e.rows \subseteq d.rows /\ DOMAIN e.schema = DOMAIN d.schema \ Chat
        /\ Chat \subseteq DOMAIN d.schema /\ \A t \in DOMAIN e.schema : e.schema[t] = d.schema[t]
    BY <1>6, Removing
  <2> QED BY <1>2, <1>3, <2>1 DEF DownStep
<1> QED BY <1>4, <1>5, <1>6

\* Every revision but 45d7c2c90c5a and 9867e4d709e3 creates, adds or drops.
LEMMA UpSteps ==
  ASSUME NEW i \in 1..17 \ {2, 12}, NEW d, IsDb(d), NEW e \in Up(i, d)
  PROVE  UpStep(i, d, e)
<1>1. CASE i = 1  BY <1>1, InitialStep DEF Up
<1>3. CASE i = 3
  <2>1. \A t : Gained(3, t) = {}  BY DEF Gained
  <2>2. \A t, tab : Follows(3, t, tab, tab)  BY <2>1, NothingNew
  <2>3. Made(3) = {} /\ Dropped(3) = {}  BY DEF Made, Dropped
  <2>4. e = d  BY <1>3 DEF Up
  <2> QED BY <1>3, <2>2, <2>3, <2>4 DEF UpStep
<1>4. CASE i \in 4..7
  <2>1. i \in {4, 7} => e \in Create(d, VoicesTable)  BY DEF Up, UpAddVoice, UpRestoreVoice
  <2>2. i \in {5, 6} => e \in DropIfExists(d, "voices")  BY DEF Up, UpAddVideo, UpAddUpload
  <2> QED BY <1>4, <2>1, <2>2, VoicesSteps
<1>8. CASE i = 8  BY <1>8, PipelineSteps DEF Up
<1>9. CASE i = 9  BY <1>9, RetrySteps DEF Up
<1>a. CASE i = 10  BY <1>a, AutomationSteps DEF Up
<1>b. CASE i = 11  BY <1>b, ColumnSteps DEF Up
<1>c. CASE i = 13  BY <1>c, VoiceGenderSteps DEF Up
<1>d. CASE i = 14  BY <1>d, ColumnSteps DEF Up
<1>e. CASE i = 15  BY <1>e, ColumnSteps DEF Up
<1>f. CASE i = 16  BY <1>f, ChatSteps DEF Up
<1>g. CASE i = 17  BY <1>g, ChatSteps DEF Up
<1> QED BY <1>1, <1>3, <1>4, <1>8, <1>9, <1>a, <1>b, <1>c, <1>d, <1>e, <1>f, <1>g

\* These two, and the initial revision once its tables are there, have no way back.
LEMMA DownSteps ==
  ASSUME NEW i \in 2..17, NEW d, IsDb(d), NEW e \in Down(i, d)
  PROVE  i \notin {2, 12} /\ DownStep(i, d, e)
<1>1. i \notin {2, 12}
  BY DEF Down, DownThumbnailUsesScript, DownKokoro, DropUnnamedConstraint
<1>3. CASE i = 3
  <2>1. \A t : Gained(3, t) = {}  BY DEF Gained
  <2>2. \A t, tab : Precedes(3, t, tab, tab)  BY <2>1, NothingNew
  <2>3. Made(3) = {} /\ Dropped(3) = {}  BY DEF Made, Dropped
  <2>4. e = d  BY <1>3 DEF Down
  <2> QED BY <1>3, <2>2, <2>3, <2>4 DEF DownStep
<1>4. CASE i \in 4..7
  <2>1. i \in {4, 7} => e \in Drop(d, {"voices"})  BY DEF Down, DownAddVoice, DownRestoreVoice
  <2>2. i \in {5, 6} => e \in Create(d, VoicesTable)  BY DEF Down, DownAddVideo, DownAddUpload
  <2> QED BY <1>4, <2>1, <2>2, VoicesSteps
<1>8. CASE i = 8  BY <1>8, PipelineSteps DEF Down
<1>9. CASE i = 9  BY <1>9, RetrySteps DEF Down
<1>a. CASE i = 10  BY <1>a, AutomationSteps DEF Down
<1>b. CASE i = 11  BY <1>b, ColumnSteps DEF Down
<1>c. CASE i = 13  BY <1>c, VoiceGenderSteps DEF Down
<1>d. CASE i = 14  BY <1>d, ColumnSteps DEF Down
<1>e. CASE i = 15  BY <1>e, ColumnSteps DEF Down
<1>f. CASE i = 16  BY <1>f, ChatSteps DEF Down, DownChat
<1>g. CASE i = 17  BY <1>g, ChatSteps DEF Down, DownChatUuid
<1> QED BY <1>1, <1>3, <1>4, <1>8, <1>9, <1>a, <1>b, <1>c, <1>d, <1>e, <1>f, <1>g

LEMMA DownInitialRefused ==
  ASSUME NEW d, {"storyboards"} \subseteq DOMAIN d.schema, "scripts" \in Parents(d.schema["storyboards"])
  PROVE  Down(1, d) = {}
<1>1. "scripts" \in DOMAIN InitialTables \ {"storyboards"} /\ "storyboards" \notin DOMAIN InitialTables \ {"storyboards"}
  BY InitialAre DEF Initial
<1>2. DownInitial(d) = {}  BY <1>1 DEF DownInitial, Drop
<1> QED BY <1>2 DEF Down

-----------------------------------------------------------------------------
\* 45d7c2c90c5a and 9867e4d709e3, table by table.
Plainly(refs) == {Ref(r.col, r.parent, "none") : r \in refs}

LEMMA ThumbnailStep ==
  ASSUME NEW d, IsDb(d), NEW e \in Up(2, d)
  PROVE  /\ "thumbnails" \notin d.rows /\ Remade(d, e, DOMAIN d.schema)
         /\ \A t \in DOMAIN d.schema : e.schema[t].key = d.schema[t].key
         /\ \A t \in DOMAIN d.schema \cap Initial : e.schema[t].indexes = {} /\ e.schema[t].defaults = {}
         /\ \A t \in (DOMAIN d.schema \cap Initial) \ {"thumbnails"} :
              e.schema[t].refs = Plainly(d.schema[t].refs) /\ e.schema[t].cols = d.schema[t].cols
         /\ "thumbnails" \in DOMAIN d.schema =>
              e.schema["thumbnails"].refs = Metadata["thumbnails"].refs /\ e.schema["thumbnails"].cols = {"script_id"}
         /\ \A t \in DOMAIN d.schema \ Initial : e.schema[t] = d.schema[t]
<1> DEFINE thumb(tab) == [Plain(tab) EXCEPT !.cols = {"script_id"}, !.refs = {Ref("script_id", "scripts", "none")}]
           new(t) == IF t = "thumbnails" THEN thumb(d.schema[t])
                     ELSE IF t \in DOMAIN InitialTables THEN Plain(d.schema[t]) ELSE d.schema[t]
<1>0. e \in UpThumbnailUsesScript(d)  BY DEF Up
<1>1. "thumbnails" \notin d.rows  BY <1>0 DEF UpThumbnailUsesScript
<1>2. e = [d EXCEPT !.schema = [t \in DOMAIN d.schema |-> new(t)]]
  BY <1>0, <1>1 DEF UpThumbnailUsesScript
<1>3. \A tab : IsTable(tab) => thumb(tab) = Row({Ref("script_id", "scripts", "none")}, {"script_id"}, tab.key, {}, {})
  <2> SUFFICES ASSUME NEW tab, IsTable(tab)
               PROVE  thumb(tab) = Row({Ref("script_id", "scripts", "none")}, {"script_id"}, tab.key, {}, {})
    OBVIOUS
  <2> DEFINE refs == {Ref(r.col, r.parent, "none") : r \in tab.refs}
             ref == {Ref("script_id", "scripts", "none")}
             plain == Row(refs, tab.cols, tab.key, {}, {})
  <2>1. Plain(tab) = plain  BY PlainIs
  <2>t. thumb(tab) = [plain EXCEPT !.cols = {"script_id"}, !.refs = ref]  BY <2>1
  <2> HIDE DEF refs, ref, thumb, plain
  <2>2. [plain EXCEPT !.cols = {"script_id"}, !.refs = ref] =
          [[plain EXCEPT !.cols = {"script_id"}] EXCEPT !.refs = ref]
    OBVIOUS
  <2> DEFINE step == [plain EXCEPT !.cols = {"script_id"}]
  <2>3. IsTable(plain)  BY Rows DEF plain
  <2>4. step = Row(plain.refs, {"script_id"}, plain.key, plain.indexes, plain.defaults)
    BY <2>3, Fields
  <2>5. step = Row(plain.refs, {"script_id"}, tab.key, {}, {})  BY <2>4, Rows DEF plain
  <2> HIDE DEF step
  <2>6. IsTable(step)  BY <2>5, Rows
  <2>7. [step EXCEPT !.refs = ref] = Row(ref, step.cols, step.key, step.indexes, step.defaults)
    BY <2>6, Fields
  <2>8. [step EXCEPT !.refs = ref] = Row(ref, {"script_id"}, tab.key, {}, {})
    BY <2>5, <2>7, Rows
  <2> QED BY <2>t, <2>2, <2>8 DEF ref, step
<1> HIDE DEF thumb
<1>4. \A t \in DOMAIN d.schema : IsTable(d.schema[t])  BY DEF IsDb, IsSchema
<1>r. Metadata["thumbnails"].refs = {Ref("script_id", "scripts", "none")}  BY ModelsAre, Rows
<1>5. ASSUME NEW t \in DOMAIN d.schema
      PROVE  /\ IsTable(new(t)) /\ new(t).key = d.schema[t].key
             /\ t \in Initial => new(t).indexes = {} /\ new(t).defaults = {}
             /\ t \in Initial \ {"thumbnails"} => new(t).refs = Plainly(d.schema[t].refs) /\ new(t).cols = d.schema[t].cols
             /\ t = "thumbnails" => new(t).refs = Metadata["thumbnails"].refs /\ new(t).cols = {"script_id"}
             /\ t \notin Initial => new(t) = d.schema[t]
  <2> DEFINE ref == {Ref("script_id", "scripts", "none")}
             refs == {Ref(r.col, r.parent, "none") : r \in d.schema[t].refs}
             tab == d.schema[t]
  <2>0. IsTable(tab) /\ "thumbnails" \in Initial /\ DOMAIN InitialTables = Initial
    BY <1>4, InitialAre DEF Initial
  <2>r. refs = Plainly(tab.refs)  BY DEF Plainly
  <2>3. t = "thumbnails" => new(t) = Row(ref, {"script_id"}, tab.key, {}, {})  BY <1>3, <2>0
  <2>2. t \in Initial \ {"thumbnails"} => new(t) = Row(refs, tab.cols, tab.key, {}, {})
    BY <2>0, PlainIs
  <2>4. t \notin Initial => new(t) = tab  BY <2>0
  <2> HIDE DEF new, refs, ref, tab
  <2>5. CASE t = "thumbnails"  BY <2>5, <2>0, <2>3, <1>r, Rows DEF tab, ref
  <2>6. CASE t \in Initial \ {"thumbnails"}  BY <2>6, <2>r, <2>2, Rows DEF tab
  <2>7. CASE t \notin Initial  BY <2>7, <2>0, <2>4 DEF tab
  <2> QED BY <2>5, <2>6, <2>7
<1> HIDE DEF new
<1>6. e.rows = d.rows /\ e.schema = [t \in DOMAIN d.schema |-> new(t)] /\ e = [schema |-> e.schema, rows |-> e.rows]
  BY <1>2 DEF IsDb
<1>7. Remade(d, e, DOMAIN d.schema)
  BY <1>5, <1>6 DEF Remade, IsDb, IsSchema
<1>8. \A t \in DOMAIN d.schema : e.schema[t] = new(t)  BY <1>6
<1> QED BY <1>1, <1>5, <1>7, <1>8

LEMMA KokoroStep ==
  ASSUME NEW d, IsDb(d), NEW e \in Up(12, d)
  PROVE  /\ Remade(d, e, DOMAIN d.schema)
         /\ \A t \in DOMAIN d.schema :
              /\ e.schema[t].cols = d.schema[t].cols /\ e.schema[t].key = d.schema[t].key
              /\ t # "pipeline_runs" => e.schema[t].refs = d.schema[t].refs
              /\ t \notin {"pipeline_runs", "uploads"} => e.schema[t].indexes = d.schema[t].indexes
              /\ t \in {"pipeline_runs", "uploads"} => e.schema[t].indexes = {}
              /\ t \in {"pipeline_runs", "uploads", "channel_automations", "channels", "scripts"}
                   => e.schema[t].defaults = {}
              /\ t \notin {"pipeline_runs", "uploads", "channel_automations", "channels", "scripts"}
                   => e.schema[t] = d.schema[t]
         /\ "pipeline_runs" \in DOMAIN d.schema =>
              e.schema["pipeline_runs"].refs = Plainly(d.schema["pipeline_runs"].refs)
<1> DEFINE new(t) ==
      CASE t = "pipeline_runs" -> Plain(d.schema[t])
        [] t = "uploads" -> Undefaulted([d.schema[t] EXCEPT !.indexes = {}])
        [] t \in {"channel_automations", "channels", "scripts"} -> Undefaulted(d.schema[t])
        [] OTHER -> d.schema[t]
<1>0. e \in UpKokoro(d)  BY DEF Up
<1>1. e = [d EXCEPT !.schema = [t \in DOMAIN d.schema |-> new(t)]]
  BY <1>0 DEF UpKokoro
<1>2. \A t \in DOMAIN d.schema : IsTable(d.schema[t])  BY DEF IsDb, IsSchema
<1>3. ASSUME NEW t \in DOMAIN d.schema
      PROVE  /\ IsTable(new(t)) /\ new(t).cols = d.schema[t].cols /\ new(t).key = d.schema[t].key
             /\ t # "pipeline_runs" => new(t).refs = d.schema[t].refs
             /\ t = "pipeline_runs" => new(t).refs = Plainly(d.schema[t].refs)
             /\ t \notin {"pipeline_runs", "uploads"} => new(t).indexes = d.schema[t].indexes
             /\ t \in {"pipeline_runs", "uploads"} => new(t).indexes = {}
             /\ t \in {"pipeline_runs", "uploads", "channel_automations", "channels", "scripts"}
                  => new(t).defaults = {}
             /\ t \notin {"pipeline_runs", "uploads", "channel_automations", "channels", "scripts"}
                  => new(t) = d.schema[t]
  <2> DEFINE tab == d.schema[t]
             bare == [tab EXCEPT !.indexes = {}]
             refs == {Ref(r.col, r.parent, "none") : r \in tab.refs}
  <2>0. IsTable(tab)  BY <1>2
  <2>r. refs = Plainly(tab.refs)  BY DEF Plainly
  <2>1. t = "pipeline_runs" => new(t) = Row(refs, tab.cols, tab.key, {}, {})  BY <2>0, PlainIs
  <2>2. bare = Row(tab.refs, tab.cols, tab.key, {}, tab.defaults)  BY <2>0, Fields
  <2>u. t = "uploads" => new(t) = Undefaulted(bare)  OBVIOUS
  <2>3. t \in {"channel_automations", "channels", "scripts"} =>
          new(t) = Row(tab.refs, tab.cols, tab.key, tab.indexes, {})
    BY <2>0, UndefaultedIs
  <2>4. t \notin {"pipeline_runs", "uploads", "channel_automations", "channels", "scripts"} => new(t) = tab
    OBVIOUS
  <2> HIDE DEF new, tab, bare, refs
  <2>5. IsTable(bare)  BY <2>2, Rows
  <2>6. Undefaulted(bare) = Row(bare.refs, bare.cols, bare.key, bare.indexes, {})  BY <2>5, UndefaultedIs
  <2>7. t = "uploads" => new(t) = Row(tab.refs, tab.cols, tab.key, {}, {})  BY <2>u, <2>2, <2>6, Rows
  <2>a. CASE t = "pipeline_runs"  BY <2>a, <2>1, <2>r, Rows DEF tab
  <2>b. CASE t = "uploads"  BY <2>b, <2>7, Rows DEF tab
  <2>c. CASE t \in {"channel_automations", "channels", "scripts"}  BY <2>c, <2>3, Rows DEF tab
  <2>d. CASE t \notin {"pipeline_runs", "uploads", "channel_automations", "channels", "scripts"}
    BY <2>d, <2>0, <2>4 DEF tab
  <2> QED BY <2>a, <2>b, <2>c, <2>d
<1> HIDE DEF new
<1>4. e.rows = d.rows /\ e.schema = [t \in DOMAIN d.schema |-> new(t)] /\ e = [schema |-> e.schema, rows |-> e.rows]
  BY <1>1 DEF IsDb
<1>5. Remade(d, e, DOMAIN d.schema)
  BY <1>3, <1>4 DEF Remade, IsDb, IsSchema
<1>6. \A t \in DOMAIN d.schema : e.schema[t] = new(t)  BY <1>4
<1> QED BY <1>3, <1>5, <1>6

-----------------------------------------------------------------------------
\* What the models find, on every database: at revision r table t has its
\* foreign keys and columns of no other revision than those up to r or all of
\* the models' (create_all).
Serves(r, t, tab) ==
  /\ tab.refs = RefsAt(r, t) /\ tab.key = "uuid"
  /\ ColsAt(r, t) \subseteq tab.cols /\ tab.cols \subseteq Metadata[t].cols

Served(r, d) ==
  /\ IsDb(d) /\ Native(r) \subseteq DOMAIN d.schema
  /\ \A t \in Native(r) : Serves(r, t, d.schema[t])
  /\ r = 0 => \A t \in DOMAIN d.schema : t \in Tables /\ d.schema[t] = Metadata[t]

LEMMA NativeTables == \A r : Native(r) \subseteq Tables
BY TablesAre DEF Native

\* The foreign keys change at the revisions 2 and 12 only.
LEMMA RefsStay ==
  ASSUME NEW i \in 2..17, NEW t, i = 2 => t \notin Initial, i = 12 => t # "pipeline_runs"
  PROVE  RefsAt(i, t) = RefsAt(i - 1, t)
BY DEF RefsAt, Initial

LEMMA NativeGrows ==
  ASSUME NEW i \in 1..17
  PROVE  /\ Native(i) \subseteq (Native(i - 1) \ Dropped(i)) \cup Made(i)
         /\ Native(i - 1) \subseteq (Native(i) \ Made(i)) \cup Dropped(i)
         /\ Made(i) \cap Dropped(i) = {} /\ Dropped(i) \cap Native(i) = {}
         /\ i # 16 => Made(i) \subseteq Native(i)
<1>1. "voices" \notin Initial \cup Chat /\ Initial \cap Chat = {}
      /\ {"pipeline_runs", "channel_automations"} \cap (Initial \cup Chat) = {}
  BY TablesAre DEF Initial
<1>2. CASE i \in 1..3  BY <1>1, <1>2 DEF Native, Made, Dropped
<1>3. CASE i = 4  BY <1>1, <1>3 DEF Native, Made, Dropped
<1>4. CASE i \in 5..6  BY <1>1, <1>4 DEF Native, Made, Dropped
<1>5. CASE i \in 7..8  BY <1>1, <1>5 DEF Native, Made, Dropped
<1>6. CASE i \in 9..10  BY <1>1, <1>6 DEF Native, Made, Dropped
<1>7. CASE i \in 11..15  BY <1>1, <1>7 DEF Native, Made, Dropped
<1>8. CASE i \in 16..17  BY <1>1, <1>8 DEF Native, Made, Dropped
<1> QED BY <1>2, <1>3, <1>4, <1>5, <1>6, <1>7, <1>8

LEMMA ShapedServes ==
  ASSUME NEW r \in 1..17, NEW t \in Native(r), NEW tab, Shaped(r, t, tab)
  PROVE  Serves(r, t, tab)
<1>1. r = 16 => t \notin Chat  BY TablesAre DEF Native, Initial
<1>2. KeyAt(r, t) = "uuid"  BY <1>1 DEF KeyAt
<1> QED BY <1>2 DEF Shaped, Serves, ColsAt

LEMMA ServedUp ==
  ASSUME NEW i \in 1..17, NEW d, Served(i - 1, d), NEW e \in Up(i, d)
  PROVE  Served(i, e)
<1>0. IsDb(d) /\ Native(i - 1) \subseteq DOMAIN d.schema /\ \A t \in Native(i - 1) : Serves(i - 1, t, d.schema[t])
  BY DEF Served
<1>1. CASE i \notin {2, 12}
  <2>1. UpStep(i, d, e)  BY <1>0, <1>1, UpSteps
  <2>2. ASSUME NEW t \in Native(i) PROVE t \in DOMAIN e.schema /\ Serves(i, t, e.schema[t])
    <3>1. t \in DOMAIN e.schema  BY <1>0, <2>1, NativeGrows DEF UpStep
    <3>2. CASE t \in Made(i) /\ Shaped(i, t, e.schema[t])  BY <3>1, <3>2, ShapedServes
    <3>3. CASE t \in DOMAIN d.schema /\ (t \in Made(i) => i = 16) /\ Follows(i, t, d.schema[t], e.schema[t])
      <4>1. i = 16 => t \notin Made(i)  BY TablesAre DEF Made, Native, Initial
      <4>2. t \in Native(i - 1)  BY <3>3, <4>1, NativeGrows
      <4>3. Serves(i - 1, t, d.schema[t]) /\ t \in Tables  BY <1>0, <4>2, NativeTables
      <4>4. i # 1  BY <4>2 DEF Native
      <4>5. RefsAt(i, t) = RefsAt(i - 1, t)  BY <1>1, <4>4, RefsStay
      <4>6. ColsAt(i, t) = ColsAt(i - 1, t) \cup Gained(i, t) /\ Gained(i, t) \subseteq Metadata[t].cols
        BY <4>3, ColsGrow
      <4> QED BY <3>1, <3>3, <4>3, <4>5, <4>6 DEF Serves, Follows
    <3> QED BY <2>1, <3>1, <3>2, <3>3 DEF UpStep
  <2> QED BY <2>1, <2>2 DEF Served, UpStep
<1>2. CASE i = 2
  <2>1. Native(1) = Initial /\ Native(2) = Initial  BY DEF Native
  <2>2. Remade(d, e, DOMAIN d.schema)  BY <1>0, <1>2, ThumbnailStep
  <2>3. ASSUME NEW t \in Initial PROVE Serves(2, t, e.schema[t])
    <3>1. t \in DOMAIN d.schema /\ Serves(1, t, d.schema[t]) /\ t \in Tables
      BY <1>0, <1>2, <2>1, NativeTables
    <3>2. RefsAt(1, t) = InitialTables[t].refs /\ RefsAt(2, t) = Metadata[t].refs
      BY DEF RefsAt, Initial
    <3>3. e.schema[t].key = "uuid"  BY <1>0, <1>2, <3>1, ThumbnailStep DEF Serves
    <3>4. CASE t # "thumbnails"
      <4>1. Gained(2, t) = {}  BY <3>4 DEF Gained
      <4>a. 2 \in 1..17 /\ 2 - 1 = 1  OBVIOUS
      <4>b. ColsAt(2, t) = ColsAt(2 - 1, t) \cup Gained(2, t)  BY <3>1, <4>a, ColsGrow
      <4>2. ColsAt(2, t) = ColsAt(1, t)  BY <4>1, <4>a, <4>b
      <4>3. e.schema[t].refs = Plainly(d.schema[t].refs) /\ e.schema[t].cols = d.schema[t].cols
        BY <1>0, <1>2, <3>1, <3>4, ThumbnailStep
      <4>4. Plainly(InitialTables[t].refs) = Metadata[t].refs  BY <3>4, InitialRefs DEF Plainly
      <4> QED BY <3>1, <3>2, <3>3, <4>2, <4>3, <4>4 DEF Serves
    <3>5. CASE t = "thumbnails"
      <4>1. e.schema[t].refs = Metadata[t].refs /\ e.schema[t].cols = {"script_id"}
        BY <1>0, <1>2, <3>1, <3>5, ThumbnailStep
      <4>2. Metadata[t].cols = {"script_id"}  BY <3>5, ModelCols
      <4> QED BY <3>2, <3>3, <4>1, <4>2, <3>5, AddedIs DEF Serves, ColsAt
    <3> QED BY <3>4, <3>5
  <2> QED BY <1>0, <1>2, <2>1, <2>2, <2>3 DEF Served, Remade
<1>3. CASE i = 12
  <2>1. Native(11) = Native(12) /\ "pipeline_runs" \in Native(11)  BY DEF Native
  <2>2. Remade(d, e, DOMAIN d.schema)  BY <1>0, <1>3, KokoroStep
  <2>3. ASSUME NEW t \in Native(12) PROVE Serves(12, t, e.schema[t])
    <3>1. t \in DOMAIN d.schema /\ Serves(11, t, d.schema[t]) /\ t \in Tables
      BY <1>0, <1>3, <2>1, NativeTables
    <3>2. e.schema[t].cols = d.schema[t].cols /\ e.schema[t].key = d.schema[t].key
      BY <1>0, <1>3, <3>1, KokoroStep
    <3>3. Gained(12, t) = {}  BY DEF Gained
    <3>4. ColsAt(12, t) = ColsAt(11, t)  BY <3>1, <3>3, ColsGrow
    <3>5. CASE t # "pipeline_runs"
      <4>1. e.schema[t].refs = d.schema[t].refs  BY <1>0, <1>3, <3>1, <3>5, KokoroStep
      <4>2. RefsAt(12, t) = RefsAt(11, t)  BY <3>5, RefsStay
      <4> QED BY <3>1, <3>2, <3>4, <4>1, <4>2 DEF Serves
    <3>6. CASE t = "pipeline_runs"
      <4>1. e.schema[t].refs = Plainly(d.schema[t].refs)  BY <1>0, <1>3, <3>1, <3>6, KokoroStep
      <4>2. RefsAt(11, t) = PipelineTable["pipeline_runs"].refs /\ RefsAt(12, t) = Metadata[t].refs
        BY <3>6 DEF RefsAt, Initial
      <4>3. Plainly(PipelineTable["pipeline_runs"].refs) = Metadata["pipeline_runs"].refs
        BY PipelineIs DEF Plainly
      <4> QED BY <3>1, <3>2, <3>4, <3>6, <4>1, <4>2, <4>3 DEF Serves
    <3> QED BY <3>5, <3>6
  <2> QED BY <1>0, <1>3, <2>1, <2>2, <2>3 DEF Served, Remade
<1> QED BY <1>1, <1>2, <1>3

LEMMA ServedDown ==
  ASSUME NEW i \in 1..17, NEW d, Served(i, d), NEW e \in Down(i, d)
  PROVE  i \notin {1, 2, 12} /\ DownStep(i, d, e) /\ Served(i - 1, e)
<1>0. IsDb(d) /\ Native(i) \subseteq DOMAIN d.schema /\ \A t \in Native(i) : Serves(i, t, d.schema[t])
  BY DEF Served
<1>1. i # 1
  <2> SUFFICES ASSUME i = 1 PROVE FALSE  OBVIOUS
  <2>1. "storyboards" \in Native(1) /\ "storyboards" \in Initial  BY DEF Native, Initial
  <2>2. d.schema["storyboards"].refs = InitialTables["storyboards"].refs
    BY <1>0, <2>1 DEF Serves, RefsAt
  <2>3. "scripts" \in Parents(d.schema["storyboards"])
    BY <2>2, InitialRefs DEF Parents
  <2> QED BY <1>0, <2>1, <2>3, DownInitialRefused
<1>2. i \notin {2, 12} /\ DownStep(i, d, e)  BY <1>0, <1>1, DownSteps
<1>3. ASSUME NEW t \in Native(i - 1) PROVE t \in DOMAIN e.schema /\ Serves(i - 1, t, e.schema[t])
  <2>1. t \in DOMAIN e.schema  BY <1>0, <1>2, NativeGrows DEF DownStep
  <2>2. CASE t \in Dropped(i) /\ Shaped(i - 1, t, e.schema[t])
    BY <1>1, <2>1, <2>2, ShapedServes
  <2>3. CASE t \in DOMAIN d.schema /\ Precedes(i, t, d.schema[t], e.schema[t])
    <3>1. t \in Native(i)  BY <1>2, <2>3, NativeGrows DEF DownStep
    <3>2. Serves(i, t, d.schema[t]) /\ t \in Tables  BY <1>0, <3>1, NativeTables
    <3>3. RefsAt(i, t) = RefsAt(i - 1, t)  BY <1>1, <1>2, RefsStay
    <3>4. ColsAt(i - 1, t) = ColsAt(i, t) \ Gained(i, t)  BY <3>2, ColsGrow
    <3> QED BY <2>1, <2>3, <3>2, <3>3, <3>4 DEF Serves, Precedes
  <2> QED BY <1>2, <2>1, <2>2, <2>3 DEF DownStep
<1> QED BY <1>1, <1>2, <1>3 DEF Served, DownStep

-----------------------------------------------------------------------------
\* The revision chain is finite: induction along it.
LEMMA ChainInduction ==
  ASSUME NEW S, NEW a \in 0..17, a \in S, \A n \in S : n \in 0..16 => n + 1 \in S
  PROVE  a..17 \subseteq S
<1>1. \A n \in 0..16 : n \in S => n + 1 \in S  OBVIOUS
<1>2. ASSUME NEW k \in a..17 PROVE k \in S  BY <1>1
<1> QED BY <1>2

\* "alembic upgrade": f[i] are the databases after revision i.
After(i, D) == UNION {Up(i, x) : x \in D}

Climbs(from, top, d, f) ==
  f = [i \in from..top |-> IF i = from THEN {d} ELSE After(i, f[i - 1])]

LEMMA ClimbsExist ==
  ASSUME NEW from \in 0..17, NEW d, NEW top \in from..17
  PROVE  \E f : Climbs(from, top, d, f)
<1> DEFINE S == {n \in from..17 : \E f : Climbs(from, n, d, f)}
<1>1. from \in S
  <2> DEFINE f == [i \in from..from |-> IF i = from THEN {d} ELSE {}]
  <2>1. Climbs(from, from, d, f)  BY DEF Climbs
  <2> QED BY <2>1
<1>2. ASSUME NEW n \in S, n \in 0..16 PROVE n + 1 \in S
  <2>1. PICK f : Climbs(from, n, d, f)  OBVIOUS
  <2> DEFINE g == [i \in from..(n + 1) |-> IF i = n + 1 THEN After(n + 1, f[n]) ELSE f[i]]
  <2>2. ASSUME NEW i \in from..(n + 1)
        PROVE  g[i] = IF i = from THEN {d} ELSE After(i, g[i - 1])
    <3>0. n \in from..17 /\ n + 1 \in from..17  BY <1>2
    <3>1. CASE i = n + 1
      <4>1. i # from /\ i - 1 \in from..(n + 1) /\ i - 1 # n + 1 /\ i - 1 = n  BY <3>0, <3>1
      <4>2. g[i] = After(n + 1, f[n]) /\ g[i - 1] = f[n]  BY <3>1, <4>1
      <4> QED BY <3>1, <4>1, <4>2
    <3>2. CASE i # n + 1
      <4>1. i \in from..n /\ (i # from => i - 1 \in from..n)  BY <3>0, <3>2
      <4>2. g[i] = f[i] /\ (i # from => g[i - 1] = f[i - 1])  BY <3>0, <4>1
      <4>3. f[i] = IF i = from THEN {d} ELSE After(i, f[i - 1])  BY <2>1, <4>1 DEF Climbs
      <4> QED BY <4>2, <4>3
    <3> QED BY <3>1, <3>2
  <2>3. Climbs(from, n + 1, d, g)  BY <2>2 DEF Climbs
  <2>4. n + 1 \in from..17  BY <1>2
  <2> QED BY <2>3, <2>4
<1> HIDE DEF S
<1>3. from..17 \subseteq S  BY <1>1, <1>2, ChainInduction
<1> QED BY <1>3 DEF S

Route(from, top, d, f) ==
  /\ UpgradeTo(from, top, d) = f[top] /\ f[from] = {d}
  /\ \A i \in (from + 1)..top : f[i] = UNION {Up(i, x) : x \in f[i - 1]}

LEMMA UpgradeIs ==
  ASSUME NEW from \in 0..17, NEW top \in from..17, NEW d
  PROVE  \E f : Route(from, top, d, f)
<1> DEFINE F == CHOOSE f : Climbs(from, top, d, f)
<1>1. Climbs(from, top, d, F)  BY ClimbsExist
<1>2. UpgradeTo(from, top, d) = F[top]  BY DEF UpgradeTo, Climbs, Then, After
<1> HIDE DEF F
<1>3. \A i \in from..top : F[i] = IF i = from THEN {d} ELSE After(i, F[i - 1])  BY <1>1 DEF Climbs
<1>4. from \in from..top  OBVIOUS
<1>5. \A i \in (from + 1)..top : F[i] = After(i, F[i - 1])
  <2> TAKE i \in (from + 1)..top
  <2>1. i \in from..top /\ i # from  OBVIOUS
  <2> QED BY <1>3, <2>1
<1>6. \A i \in (from + 1)..top : F[i] = UNION {Up(i, x) : x \in F[i - 1]}  BY <1>5 DEF After
<1>7. F[from] = {d}  BY <1>3, <1>4
<1>8. Route(from, top, d, F)  BY <1>2, <1>6, <1>7 DEF Route
<1> QED BY <1>8

LEMMA ServedUpgrade ==
  ASSUME NEW from \in 0..17, NEW top \in from..17, NEW d, Served(from, d), NEW e \in UpgradeTo(from, top, d)
  PROVE  Served(top, e)
<1>0. PICK f : Route(from, top, d, f)  BY UpgradeIs
<1>1. /\ UpgradeTo(from, top, d) = f[top] /\ f[from] = {d}
      /\ \A i \in (from + 1)..top : f[i] = UNION {Up(i, x) : x \in f[i - 1]}
  BY <1>0 DEF Route
<1> DEFINE S == {n \in from..17 : n <= top => \A x \in f[n] : Served(n, x)}
<1>2. from \in S  BY <1>1
<1>3. ASSUME NEW n \in S, n \in 0..16 PROVE n + 1 \in S
  <2> SUFFICES ASSUME n + 1 <= top, NEW y \in f[n + 1] PROVE Served(n + 1, y)
    BY <1>3
  <2>1. n + 1 \in (from + 1)..top /\ (n + 1) - 1 = n /\ n + 1 \in 1..17  BY <1>3
  <2>2. PICK x \in f[n] : y \in Up(n + 1, x)  BY <1>1, <2>1
  <2>3. Served(n, x)  BY <2>1
  <2> QED BY <2>1, <2>2, <2>3, ServedUp
<1> HIDE DEF S
<1>4. from..17 \subseteq S  BY <1>2, <1>3, ChainInduction
<1> QED BY <1>1, <1>4 DEF S

-----------------------------------------------------------------------------
\* The enum types: those the voices need may be there or not between the
\* revisions 2 and 6, the others belong to their revisions.
RestTypes(r) ==
  (IF r >= 8 THEN RunTypes ELSE {}) \cup (IF r >= 10 THEN {"automationstatus"} ELSE {})

NoVoice(ts) == VoiceTypes \cap ts = {}

TypesServed(r, ts) == (r >= 7 => VoiceTypes \subseteq ts) /\ RestTypes(r) \subseteq ts

TypesBuilt(r, ts) ==
  /\ ts \ VoiceTypes = RestTypes(r) /\ (VoiceTypes \subseteq ts \/ NoVoice(ts))
  /\ r <= 1 => NoVoice(ts)
  /\ r = 4 \/ r >= 7 => VoiceTypes \subseteq ts

\* Where CREATE TYPE meets a type that is there.
Twice(i, ts, from) ==
  \/ i = 4 /\ VoiceTypes \subseteq ts
  \/ i = 7 /\ ~CreateTypeHeeded /\ from >= 4

LEMMA TypesApart ==
  /\ VoiceTypes \cap RunTypes = {} /\ "automationstatus" \notin VoiceTypes \cup RunTypes
  /\ "voiceprovider" \in VoiceTypes /\ RunTypes = {"publishstatus", "pipelinestatus"}
  /\ ModelTypes = VoiceTypes \cup RunTypes \cup {"automationstatus"}
BY DEF VoiceTypes, RunTypes, ModelTypes

LEMMA TypesServedUp ==
  ASSUME NEW i \in 1..17, NEW ts, TypesServed(i - 1, ts), NEW from, NEW us \in UpTypes(i, ts, from)
  PROVE  TypesServed(i, us)
<1>1. CASE i \notin {5, 6, 7, 8, 10}
  <2>1. ts \subseteq us  BY <1>1 DEF UpTypes, CreateTypes
  <2>2. i >= 7 => i - 1 >= 7  BY <1>1
  <2>3. RestTypes(i) = RestTypes(i - 1)  BY <1>1 DEF RestTypes
  <2> QED BY <2>1, <2>2, <2>3 DEF TypesServed
<1>2. CASE i \in {5, 6}  BY <1>2 DEF TypesServed, RestTypes
<1>3. CASE i = 7
  <2>1. VoiceTypes \subseteq us  BY <1>3 DEF UpTypes, RestoreVoiceTypes, CreateTypes
  <2> QED BY <1>3, <2>1 DEF TypesServed, RestTypes
<1>4. CASE i = 8
  <2>1. us \in CreateTypes(ts \cup {"publishstatus"}, {"pipelinestatus"})  BY <1>4 DEF UpTypes, PipelineTypes
  <2>2. us = ts \cup RunTypes  BY <2>1, TypesApart DEF CreateTypes
  <2> QED BY <1>4, <2>2 DEF TypesServed, RestTypes
<1>5. CASE i = 10
  <2>1. us = ts \cup {"automationstatus"}  BY <1>5 DEF UpTypes, CreateTypes
  <2> QED BY <1>5, <2>1 DEF TypesServed, RestTypes
<1> QED BY <1>1, <1>2, <1>3, <1>4, <1>5

LEMMA TypesServedDown ==
  ASSUME NEW i \in 1..17, NEW ts, TypesServed(i, ts), NEW us \in DownTypes(i, ts)
  PROVE  TypesServed(i - 1, us)
<1>1. CASE i \notin {8, 10}
  <2>1. ts \subseteq us  BY <1>1 DEF DownTypes, CreateTypes
  <2>2. RestTypes(i - 1) = RestTypes(i) \/ i < 8  BY <1>1 DEF RestTypes
  <2>3. i < 8 => RestTypes(i - 1) = {}  BY DEF RestTypes
  <2> QED BY <2>1, <2>2, <2>3 DEF TypesServed
<1>2. CASE i = 8
  <2>1. us = ts \ RunTypes /\ RestTypes(7) = {} /\ i - 1 = 7  BY <1>2 DEF DownTypes, RestTypes
  <2> QED BY <1>2, <2>1, TypesApart DEF TypesServed
<1>3. CASE i = 10
  <2>1. us = ts \ {"automationstatus"} /\ RestTypes(9) = RunTypes /\ RunTypes \subseteq RestTypes(10) /\ i - 1 = 9
    BY <1>3 DEF DownTypes, RestTypes
  <2> QED BY <1>3, <2>1, TypesApart DEF TypesServed
<1> QED BY <1>1, <1>2, <1>3

LEMMA TypesBuiltUp ==
  ASSUME NEW i \in 1..17, NEW ts, TypesBuilt(i - 1, ts), NEW from \in 0..17
  PROVE  /\ UpTypes(i, ts, from) = {} <=> Twice(i, ts, from)
         /\ \A us \in UpTypes(i, ts, from) : TypesBuilt(i, us)
         /\ i <= 3 => UpTypes(i, ts, from) = {ts}
<1> DEFINE us == UpTypes(i, ts, from)
<1>0. ts \ VoiceTypes = RestTypes(i - 1) /\ (VoiceTypes \subseteq ts \/ NoVoice(ts))
      /\ (i - 1 = 4 \/ i - 1 >= 7 => VoiceTypes \subseteq ts)
  BY DEF TypesBuilt
<1>s. ASSUME NEW x, us = {x}, ~Twice(i, ts, from), TypesBuilt(i, x), i <= 3 => x = ts
      PROVE  /\ us = {} <=> Twice(i, ts, from)
             /\ \A y \in us : TypesBuilt(i, y)
             /\ i <= 3 => us = {ts}
  <2> HIDE DEF us
  <2>1. us # {}  BY <1>s
  <2>2. \A y \in us : TypesBuilt(i, y)  BY <1>s
  <2>3. i <= 3 => us = {ts}  BY <1>s
  <2> QED BY <1>s, <2>1, <2>2, <2>3
<1>v. VoiceTypes \subseteq ts => ~NoVoice(ts)  BY TypesApart DEF NoVoice
<1>1. CASE i <= 3
  <2>1. us = {ts} /\ ~Twice(i, ts, from)  BY <1>1 DEF UpTypes, Twice
  <2>2. RestTypes(i) = RestTypes(i - 1)  BY <1>1 DEF RestTypes
  <2> QED BY <1>1, <2>1, <2>2, <1>0 DEF TypesBuilt
<1>2. CASE i = 4
  <2>1. RestTypes(i) = RestTypes(i - 1)  BY <1>2 DEF RestTypes
  <2>2. us = IF NoVoice(ts) THEN {ts \cup VoiceTypes} ELSE {}
    BY <1>2 DEF UpTypes, CreateTypes, NoVoice
  <2>3. Twice(i, ts, from) <=> VoiceTypes \subseteq ts  BY <1>2 DEF Twice
  <2>4. TypesBuilt(i, ts \cup VoiceTypes)  BY <1>0, <1>2, <2>1 DEF TypesBuilt
  <2>5. CASE NoVoice(ts)
    <3>1. us = {ts \cup VoiceTypes} /\ ~Twice(i, ts, from)  BY <1>v, <2>2, <2>3, <2>5
    <3> QED BY <1>2, <2>4, <3>1, <1>s
  <2>6. CASE ~NoVoice(ts)
    <3>1. us = {} /\ Twice(i, ts, from)  BY <1>0, <2>2, <2>3, <2>6
    <3> QED BY <1>2, <3>1
  <2> QED BY <2>5, <2>6
<1>3. CASE i \in {5, 6}
  <2>1. RestTypes(i) = RestTypes(i - 1)  BY <1>3 DEF RestTypes
  <2>2. us = {ts \ VoiceTypes} /\ ~Twice(i, ts, from)  BY <1>3 DEF UpTypes, Twice
  <2>3. TypesBuilt(i, ts \ VoiceTypes)  BY <1>0, <1>3, <2>1 DEF TypesBuilt, NoVoice
  <2> QED BY <1>3, <2>2, <2>3, <1>s
<1>4. CASE i = 7
  <2>1. RestTypes(i) = RestTypes(i - 1)  BY <1>4 DEF RestTypes
  <2>2. us = RestoreVoiceTypes(ts, from)  BY <1>4 DEF UpTypes
  <2>3. CreateTypes(ts \cup VoiceTypes, VoiceTypes) = {}  BY TypesApart DEF CreateTypes
  <2>4. us = IF CreateTypeHeeded \/ from < 4 THEN {ts \cup VoiceTypes} ELSE {}
    BY <2>2, <2>3 DEF RestoreVoiceTypes
  <2>5. TypesBuilt(i, ts \cup VoiceTypes)  BY <1>0, <1>4, <2>1 DEF TypesBuilt
  <2>6. Twice(i, ts, from) <=> ~CreateTypeHeeded /\ from >= 4  BY <1>4 DEF Twice
  <2>7. CASE CreateTypeHeeded \/ from < 4
    <3>1. us = {ts \cup VoiceTypes}  BY <2>4, <2>7
    <3>2. ~CreateTypeHeeded => ~(from >= 4)  BY <2>7
    <3>3. ~Twice(i, ts, from)  BY <2>6, <3>2
    <3>4. ~(i <= 3)  BY <1>4
    <3> QED BY <2>5, <3>1, <3>3, <3>4, <1>s, Zenon
  <2>8. CASE ~(CreateTypeHeeded \/ from < 4)
    <3>1. us = {}  BY <2>4, <2>8
    <3>2. Twice(i, ts, from)  BY <2>6, <2>8
    <3> QED BY <1>4, <3>1, <3>2
  <2> QED BY <2>7, <2>8
<1>5. CASE i = 8
  <2>1. RestTypes(i - 1) = {} /\ RestTypes(i) = RunTypes  BY <1>5 DEF RestTypes
  <2>2. us = CreateTypes(ts \cup {"publishstatus"}, {"pipelinestatus"})  BY <1>5 DEF UpTypes, PipelineTypes
  <2>3. "pipelinestatus" \notin ts \cup {"publishstatus"}  BY <1>0, <2>1, TypesApart
  <2>n. (ts \cup {"publishstatus"}) \cup {"pipelinestatus"} = ts \cup RunTypes  BY TypesApart
  <2>4. us = {ts \cup RunTypes}  BY <2>2, <2>3, <2>n DEF CreateTypes
  <2>5. ~Twice(i, ts, from)  BY <1>5 DEF Twice
  <2>6. TypesBuilt(i, ts \cup RunTypes)  BY <1>0, <1>5, <2>1, TypesApart DEF TypesBuilt
  <2> QED BY <1>5, <2>4, <2>5, <2>6, <1>s
<1>6. CASE i = 10
  <2>1. RestTypes(i - 1) = RunTypes /\ RestTypes(i) = RunTypes \cup {"automationstatus"}  BY <1>6 DEF RestTypes
  <2>2. "automationstatus" \notin ts  BY <1>0, <2>1, TypesApart
  <2>3. us = {ts \cup {"automationstatus"}}  BY <1>6, <2>2 DEF UpTypes, CreateTypes
  <2>4. ~Twice(i, ts, from)  BY <1>6 DEF Twice
  <2>5. TypesBuilt(i, ts \cup {"automationstatus"})  BY <1>0, <1>6, <2>1, TypesApart DEF TypesBuilt
  <2>6. ~(i <= 3)  BY <1>6
  <2> QED BY <2>3, <2>4, <2>5, <2>6, <1>s, Zenon
<1>7. CASE i = 9 \/ i >= 11
  <2>1. RestTypes(i) = RestTypes(i - 1)  BY <1>7 DEF RestTypes
  <2>2. "voiceprovider" \in ts  BY <1>0, <1>7, TypesApart
  <2>3. us = {ts} /\ ~Twice(i, ts, from)  BY <1>7, <2>2 DEF UpTypes, Twice
  <2>4. TypesBuilt(i, ts)  BY <1>0, <1>7, <2>1 DEF TypesBuilt
  <2> QED BY <1>7, <2>3, <2>4, <1>s
<1> QED BY <1>1, <1>2, <1>3, <1>4, <1>5, <1>6, <1>7

\* A step back leaves the types its upgrade finds again, or would create twice.
LEMMA TypesBuiltDown ==
  ASSUME NEW i \in 1..17, i # 2, NEW ts, TypesBuilt(i, ts), NEW us \in DownTypes(i, ts)
  PROVE  /\ TypesBuilt(i - 1, us)
         /\ Twice(i, us, i - 1) \/ ts \in UpTypes(i, us, i - 1)
<1>0. ts \ VoiceTypes = RestTypes(i) /\ (VoiceTypes \subseteq ts \/ NoVoice(ts))
      /\ (i = 4 \/ i >= 7 => VoiceTypes \subseteq ts) /\ (i <= 1 => NoVoice(ts))
  BY DEF TypesBuilt
<1>1. CASE i \in {1, 3, 4, 7}
  <2>1. us = ts /\ RestTypes(i - 1) = RestTypes(i)  BY <1>1 DEF DownTypes, RestTypes
  <2>2. TypesBuilt(i - 1, us)  BY <1>0, <1>1, <2>1 DEF TypesBuilt
  <2>3. i \in {1, 3} => ts \in UpTypes(i, us, i - 1)  BY <1>1, <2>1 DEF UpTypes
  <2>4. i = 4 => Twice(i, us, i - 1)  BY <1>0, <2>1 DEF Twice
  <2>5. i = 7 /\ ~CreateTypeHeeded => Twice(i, us, i - 1)  BY DEF Twice
  <2>6. i = 7 /\ CreateTypeHeeded => ts \in UpTypes(i, us, i - 1)
    BY <1>0, <2>1 DEF UpTypes, RestoreVoiceTypes
  <2> QED BY <1>1, <2>2, <2>3, <2>4, <2>5, <2>6
<1>2. CASE i \in {5, 6}
  <2>1. us = ts \cup VoiceTypes /\ NoVoice(ts)  BY <1>2 DEF DownTypes, CreateTypes, NoVoice
  <2>2. RestTypes(i - 1) = RestTypes(i)  BY <1>2 DEF RestTypes
  <2>3. TypesBuilt(i - 1, us)  BY <1>0, <1>2, <2>1, <2>2 DEF TypesBuilt
  <2>4. ts = us \ VoiceTypes  BY <2>1 DEF NoVoice
  <2> QED BY <1>2, <2>3, <2>4 DEF UpTypes
<1>3. CASE i = 8
  <2>1. us = ts \ RunTypes /\ RestTypes(i - 1) = {} /\ RestTypes(i) = RunTypes  BY <1>3 DEF DownTypes, RestTypes
  <2>2. TypesBuilt(i - 1, us)  BY <1>0, <1>3, <2>1, TypesApart DEF TypesBuilt
  <2>3. ts = us \cup RunTypes  BY <1>0, <2>1
  <2>4. ts = (us \cup {"publishstatus"}) \cup {"pipelinestatus"} /\ "pipelinestatus" \notin us \cup {"publishstatus"}
    BY <2>1, <2>3, TypesApart
  <2>5. ts \in CreateTypes(us \cup {"publishstatus"}, {"pipelinestatus"})  BY <2>4 DEF CreateTypes
  <2>6. ts \in UpTypes(i, us, i - 1)  BY <1>3, <2>5 DEF UpTypes, PipelineTypes
  <2> QED BY <2>2, <2>6
<1>4. CASE i = 10
  <2>1. /\ us = ts \ {"automationstatus"} /\ RestTypes(i - 1) = RunTypes
        /\ RestTypes(i) = RunTypes \cup {"automationstatus"}
    BY <1>4 DEF DownTypes, RestTypes
  <2>2. TypesBuilt(i - 1, us)  BY <1>0, <1>4, <2>1, TypesApart DEF TypesBuilt
  <2>3. ts = us \cup {"automationstatus"}  BY <1>0, <2>1
  <2>4. ts \in UpTypes(i, us, i - 1)  BY <1>4, <2>1, <2>3 DEF UpTypes, CreateTypes
  <2> QED BY <2>2, <2>4
<1>5. CASE i = 9 \/ i >= 11
  <2>1. us = ts /\ RestTypes(i - 1) = RestTypes(i)  BY <1>5 DEF DownTypes, RestTypes
  <2>2. TypesBuilt(i - 1, us)  BY <1>0, <1>5, <2>1 DEF TypesBuilt
  <2>3. "voiceprovider" \in ts  BY <1>0, <1>5, TypesApart
  <2>4. ts \in UpTypes(i, us, i - 1)  BY <1>5, <2>1, <2>3 DEF UpTypes
  <2> QED BY <2>2, <2>4
<1> QED BY <1>1, <1>2, <1>3, <1>4, <1>5

\* The types along "alembic upgrade", as Climbs and Route for the tables.
AfterTypes(i, D, from) == UNION {UpTypes(i, x, from) : x \in D}

ClimbsTypes(from, top, ts, f) ==
  f = [i \in from..top |-> IF i = from THEN {ts} ELSE AfterTypes(i, f[i - 1], from)]

LEMMA ClimbsTypesExist ==
  ASSUME NEW from \in 0..17, NEW ts, NEW top \in from..17
  PROVE  \E f : ClimbsTypes(from, top, ts, f)
<1> DEFINE S == {n \in from..17 : \E f : ClimbsTypes(from, n, ts, f)}
<1>1. from \in S
  <2> DEFINE f == [i \in from..from |-> IF i = from THEN {ts} ELSE {}]
  <2>1. ClimbsTypes(from, from, ts, f)  BY DEF ClimbsTypes
  <2> QED BY <2>1
<1>2. ASSUME NEW n \in S, n \in 0..16 PROVE n + 1 \in S
  <2>1. PICK f : ClimbsTypes(from, n, ts, f)  OBVIOUS
  <2> DEFINE g == [i \in from..(n + 1) |-> IF i = n + 1 THEN AfterTypes(n + 1, f[n], from) ELSE f[i]]
  <2>2. ASSUME NEW i \in from..(n + 1)
        PROVE  g[i] = IF i = from THEN {ts} ELSE AfterTypes(i, g[i - 1], from)
    <3>0. n \in from..17 /\ n + 1 \in from..17  BY <1>2
    <3>1. CASE i = n + 1
      <4>1. i # from /\ i - 1 \in from..(n + 1) /\ i - 1 # n + 1 /\ i - 1 = n  BY <3>0, <3>1
      <4>2. g[i] = AfterTypes(n + 1, f[n], from) /\ g[i - 1] = f[n]  BY <3>1, <4>1
      <4> QED BY <3>1, <4>1, <4>2
    <3>2. CASE i # n + 1
      <4>1. i \in from..n /\ (i # from => i - 1 \in from..n)  BY <3>0, <3>2
      <4>2. g[i] = f[i] /\ (i # from => g[i - 1] = f[i - 1])  BY <3>0, <4>1
      <4>3. f[i] = IF i = from THEN {ts} ELSE AfterTypes(i, f[i - 1], from)  BY <2>1, <4>1 DEF ClimbsTypes
      <4> QED BY <4>2, <4>3
    <3> QED BY <3>1, <3>2
  <2>3. ClimbsTypes(from, n + 1, ts, g)  BY <2>2 DEF ClimbsTypes
  <2>4. n + 1 \in from..17  BY <1>2
  <2> QED BY <2>3, <2>4
<1> HIDE DEF S
<1>3. from..17 \subseteq S  BY <1>1, <1>2, ChainInduction
<1> QED BY <1>3 DEF S

RouteTypes(from, top, ts, f) ==
  /\ TypesTo(from, top, ts) = f[top] /\ f[from] = {ts}
  /\ \A i \in (from + 1)..top : f[i] = UNION {UpTypes(i, x, from) : x \in f[i - 1]}

LEMMA TypesToIs ==
  ASSUME NEW from \in 0..17, NEW top \in from..17, NEW ts
  PROVE  \E f : RouteTypes(from, top, ts, f)
<1> DEFINE F == CHOOSE f : ClimbsTypes(from, top, ts, f)
<1>1. ClimbsTypes(from, top, ts, F)  BY ClimbsTypesExist
<1>2. TypesTo(from, top, ts) = F[top]  BY DEF TypesTo, ClimbsTypes, Then, AfterTypes
<1> HIDE DEF F
<1>3. \A i \in from..top : F[i] = IF i = from THEN {ts} ELSE AfterTypes(i, F[i - 1], from)
  BY <1>1 DEF ClimbsTypes
<1>4. from \in from..top  OBVIOUS
<1>5. \A i \in (from + 1)..top : F[i] = AfterTypes(i, F[i - 1], from)
  <2> TAKE i \in (from + 1)..top
  <2>1. i \in from..top /\ i # from  OBVIOUS
  <2> QED BY <1>3, <2>1
<1>6. \A i \in (from + 1)..top : F[i] = UNION {UpTypes(i, x, from) : x \in F[i - 1]}
  BY <1>5 DEF AfterTypes
<1>7. F[from] = {ts}  BY <1>3, <1>4
<1>8. RouteTypes(from, top, ts, F)  BY <1>2, <1>6, <1>7 DEF RouteTypes
<1> QED BY <1>8

LEMMA TypesUpgrade ==
  ASSUME NEW from \in 0..17, NEW top \in from..17, NEW ts, NEW us \in TypesTo(from, top, ts)
  PROVE  /\ TypesServed(from, ts) => TypesServed(top, us)
         /\ TypesBuilt(from, ts) => TypesBuilt(top, us)
<1>0. PICK f : RouteTypes(from, top, ts, f)  BY TypesToIs
<1>1. /\ TypesTo(from, top, ts) = f[top] /\ f[from] = {ts}
      /\ \A i \in (from + 1)..top : f[i] = UNION {UpTypes(i, x, from) : x \in f[i - 1]}
  BY <1>0 DEF RouteTypes
<1> DEFINE Kept(n, x) == /\ TypesServed(from, ts) => TypesServed(n, x)
                         /\ TypesBuilt(from, ts) => TypesBuilt(n, x)
           S == {n \in from..17 : n <= top => \A x \in f[n] : Kept(n, x)}
<1>2. from \in S  BY <1>1
<1>3. ASSUME NEW n \in S, n \in 0..16 PROVE n + 1 \in S
  <2> SUFFICES ASSUME n + 1 <= top, NEW y \in f[n + 1] PROVE Kept(n + 1, y)
    BY <1>3
  <2>1. n + 1 \in (from + 1)..top /\ (n + 1) - 1 = n /\ n + 1 \in 1..17  BY <1>3
  <2>2. PICK x \in f[n] : y \in UpTypes(n + 1, x, from)  BY <1>1, <2>1
  <2>3. Kept(n, x)  BY <2>1
  <2> QED BY <2>1, <2>2, <2>3, TypesServedUp, TypesBuiltUp
<1> HIDE DEF S
<1>4. from..17 \subseteq S  BY <1>2, <1>3, ChainInduction
<1> QED BY <1>1, <1>4 DEF S

\* When the types let an upgrade to the head through.
LEMMA TypesReach ==
  ASSUME NEW from \in 0..17, NEW ts, TypesBuilt(from, ts), from \in {2, 3} => NoVoice(ts),
         from \in 4..6 => CreateTypeHeeded
  PROVE  TypesTo(from, 17, ts) # {}
<1>0. PICK f : RouteTypes(from, 17, ts, f)  BY TypesToIs
<1>1. /\ TypesTo(from, 17, ts) = f[17] /\ f[from] = {ts}
      /\ \A i \in (from + 1)..17 : f[i] = UNION {UpTypes(i, x, from) : x \in f[i - 1]}
  BY <1>0 DEF RouteTypes
<1> DEFINE Ready(n, x) == TypesBuilt(n, x) /\ (n <= 3 => NoVoice(x))
           S == {n \in from..17 : \E x \in f[n] : Ready(n, x)}
<1>2. from \in S
  <2>1. from <= 3 => NoVoice(ts)  BY DEF TypesBuilt
  <2> QED BY <1>1, <2>1
<1>3. ASSUME NEW n \in S, n \in 0..16 PROVE n + 1 \in S
  <2>1. n + 1 \in (from + 1)..17 /\ (n + 1) - 1 = n /\ n + 1 \in 1..17 /\ n + 1 \in from..17  BY <1>3
  <2>2. PICK x \in f[n] : Ready(n, x)  OBVIOUS
  <2>3. ~Twice(n + 1, x, from)
    <3>1. VoiceTypes \subseteq x => ~NoVoice(x)  BY TypesApart DEF NoVoice
    <3>2. n + 1 = 4 => ~(VoiceTypes \subseteq x)  BY <2>1, <2>2, <3>1
    <3>3. n + 1 = 7 => CreateTypeHeeded \/ from < 4  BY <2>1
    <3> QED BY <3>2, <3>3 DEF Twice
  <2>4. PICK y \in UpTypes(n + 1, x, from) : TRUE  BY <2>1, <2>2, <2>3, TypesBuiltUp
  <2>5. y \in f[n + 1]  BY <1>1, <2>1, <2>4
  <2>6. TypesBuilt(n + 1, y)  BY <2>1, <2>2, <2>4, TypesBuiltUp
  <2>7. n + 1 <= 3 => y = x  BY <2>1, <2>2, <2>4, TypesBuiltUp
  <2>8. Ready(n + 1, y)  BY <2>1, <2>2, <2>6, <2>7
  <2> QED BY <2>1, <2>5, <2>8
<1> HIDE DEF S
<1>4. from..17 \subseteq S  BY <1>2, <1>3, ChainInduction
<1> QED BY <1>1, <1>4 DEF S

\* ... and when not: at revision 4, or at revision 7.
LEMMA TypesStop ==
  ASSUME NEW from \in 2..6, NEW ts, TypesBuilt(from, ts),
         from \in {2, 3} => VoiceTypes \subseteq ts, from \in 4..6 => ~CreateTypeHeeded
  PROVE  TypesTo(from, 17, ts) = {}
<1>0. PICK f : RouteTypes(from, 17, ts, f)  BY TypesToIs
<1>1. /\ TypesTo(from, 17, ts) = f[17] /\ f[from] = {ts}
      /\ \A i \in (from + 1)..17 : f[i] = UNION {UpTypes(i, x, from) : x \in f[i - 1]}
  BY <1>0 DEF RouteTypes
<1> DEFINE last == IF from \in {2, 3} THEN 4 ELSE 7
           S == {n \in from..17 : /\ n < last => \A x \in f[n] : TypesBuilt(n, x) /\ (n <= 3 => x = ts)
                                  /\ n >= last => f[n] = {}}
<1>2. from \in S  BY <1>1
<1>3. ASSUME NEW n \in S, n \in 0..16 PROVE n + 1 \in S
  <2>1. n + 1 \in (from + 1)..17 /\ (n + 1) - 1 = n /\ n + 1 \in 1..17 /\ n + 1 \in from..17  BY <1>3
  <2>2. f[n + 1] = UNION {UpTypes(n + 1, x, from) : x \in f[n]}  BY <1>1, <2>1
  <2>3. CASE n >= last  BY <2>1, <2>2, <2>3
  <2>4. CASE n < last
    <3>1. \A x \in f[n] : TypesBuilt(n, x) /\ (n <= 3 => x = ts)  BY <2>4
    <3>2. ASSUME NEW y \in f[n + 1] PROVE n + 1 < last /\ TypesBuilt(n + 1, y) /\ (n + 1 <= 3 => y = ts)
      <4>1. PICK x \in f[n] : y \in UpTypes(n + 1, x, from)  BY <2>2
      <4>a. TypesBuilt((n + 1) - 1, x) /\ n + 1 \in 1..17 /\ from \in 0..17  BY <2>1, <3>1
      <4>b. /\ UpTypes(n + 1, x, from) = {} <=> Twice(n + 1, x, from)
            /\ \A us \in UpTypes(n + 1, x, from) : TypesBuilt(n + 1, us)
            /\ n + 1 <= 3 => UpTypes(n + 1, x, from) = {x}
        BY <4>a, TypesBuiltUp
      <4>2. TypesBuilt(n + 1, y) /\ (n + 1 <= 3 => y = x) /\ ~Twice(n + 1, x, from)
        BY <4>1, <4>b
      <4>3. n + 1 # last
        <5>1. CASE from \in {2, 3}
          <6>1. n + 1 = 4 => x = ts  BY <3>1
          <6> QED BY <4>2, <5>1, <6>1 DEF Twice
        <5>2. CASE from \in 4..6  BY <4>2, <5>2 DEF Twice
        <5> QED BY <5>1, <5>2
      <4>4. n + 1 <= last  BY <2>1, <2>4
      <4> QED BY <2>1, <3>1, <4>2, <4>3, <4>4
    <3>3. n + 1 >= last => f[n + 1] = {}  BY <2>1, <3>2
    <3> QED BY <2>1, <3>2, <3>3
  <2> QED BY <2>1, <2>3, <2>4
<1> HIDE DEF S
<1>4. from..17 \subseteq S  BY <1>2, <1>3, ChainInduction
<1> QED BY <1>1, <1>4 DEF S

-----------------------------------------------------------------------------
RevInv == rev \in 0..17
ServedInv ==
  /\ RevInv /\ Served(rev, db) /\ TypesServed(rev, types)
  /\ rev = 0 => DOMAIN db.schema = {} \/ ModelTypes \subseteq types

LEMMA EmptyIs == IsDb(EmptyDb) /\ DOMAIN EmptyDb.schema = {} /\ EmptyDb.rows = {}
BY DEF IsDb, IsSchema, EmptyDb

LEMMA ServedInit == InitSchema => ServedInv
<1> SUFFICES ASSUME InitSchema PROVE ServedInv  OBVIOUS
<1>1. Native(0) = {}  BY DEF Native
<1>2. TypesServed(0, {})  BY DEF TypesServed, RestTypes
<1> QED BY <1>1, <1>2, EmptyIs DEF InitSchema, ServedInv, RevInv, Served

\* create_all makes the tables that are not there as the models have them.
Completed(d, e) ==
  /\ IsDb(e) /\ e.rows = d.rows /\ DOMAIN e.schema = DOMAIN d.schema \cup Tables
  /\ \A t \in DOMAIN d.schema : e.schema[t] = d.schema[t]
  /\ \A t \in Tables \ DOMAIN d.schema : e.schema[t] = Metadata[t]

LEMMA CreateAllIs ==
  ASSUME NEW d, IsDb(d), NEW e, e = [d EXCEPT !.schema = With(@, Metadata)]
  PROVE  Completed(d, e)
<1>1. \A t \in Tables : IsTable(Metadata[t])  BY ModelsAre, Rows, TablesAre DEF Initial
<1>2. e.rows = d.rows /\ e.schema = With(d.schema, Metadata) /\ e = [schema |-> e.schema, rows |-> e.rows]
  BY DEF IsDb
<1>3. /\ DOMAIN e.schema = DOMAIN d.schema \cup Tables
      /\ \A t \in DOMAIN d.schema : e.schema[t] = d.schema[t]
      /\ \A t \in Tables \ DOMAIN d.schema : e.schema[t] = Metadata[t]
      /\ e.schema = [t \in DOMAIN e.schema |-> e.schema[t]]
  BY <1>2 DEF With, Tables
<1>4. \A t \in DOMAIN e.schema : IsTable(e.schema[t])  BY <1>1, <1>3 DEF IsDb, IsSchema
<1> QED BY <1>2, <1>3, <1>4 DEF IsDb, IsSchema, Completed

LEMMA ServedStep == ServedInv /\ [NextSchema]_schemaVars => ServedInv'
<1> SUFFICES ASSUME ServedInv, [NextSchema]_schemaVars PROVE ServedInv'  OBVIOUS
<1>0. /\ rev \in 0..17 /\ Served(rev, db) /\ IsDb(db) /\ TypesServed(rev, types)
      /\ rev = 0 => DOMAIN db.schema = {} \/ ModelTypes \subseteq types
  BY DEF ServedInv, RevInv, Served
<1>1. ASSUME NEW target \in 1..HeadRevision, Deploy(target) PROVE ServedInv'
  <2>1. /\ rev' = target /\ target \in (rev + 1)..17 /\ db' \in UpgradeTo(rev, target, db)
        /\ types' \in TypesTo(rev, target, types)
    BY <1>1 DEF Deploy, HeadRevision
  <2>2. target \in rev..17 /\ target # 0  BY <1>0, <2>1
  <2>3. Served(target, db')  BY <1>0, <2>1, <2>2, ServedUpgrade
  <2>4. TypesServed(target, types')  BY <1>0, <2>1, <2>2, TypesUpgrade
  <2> QED BY <1>0, <2>1, <2>2, <2>3, <2>4 DEF ServedInv, RevInv
<1>2. CASE Downgrade
  <2>1. /\ rev \in 1..17 /\ db' \in Down(rev, db) /\ types' \in DownTypes(rev, types)
        /\ rev' = rev - 1
    BY <1>0, <1>2 DEF Downgrade
  <2>2. rev # 1 /\ Served(rev - 1, db')  BY <1>0, <2>1, ServedDown
  <2>3. TypesServed(rev - 1, types')  BY <1>0, <2>1, TypesServedDown
  <2> QED BY <1>0, <2>1, <2>2, <2>3 DEF ServedInv, RevInv
<1>3. CASE CreateAll
  <2>1. /\ rev' = rev /\ db' = [db EXCEPT !.schema = With(@, Metadata)]
        /\ types' = types \cup ModelTypes
    BY <1>3 DEF CreateAll
  <2>2. Completed(db, db')  BY <1>0, <2>1, CreateAllIs
  <2>3. Served(rev, db')  BY <1>0, <2>2 DEF Served, Completed
  <2>4. TypesServed(rev, types')  BY <1>0, <2>1 DEF TypesServed
  <2> QED BY <1>0, <2>1, <2>3, <2>4 DEF ServedInv, RevInv
<1>4. CASE Stamp
  <2>1. /\ rev = 0 /\ rev' = 13 /\ db' = db /\ types' = types
        /\ Tables \subseteq DOMAIN db.schema
    BY <1>4 DEF Stamp
  <2>2. ASSUME NEW t \in Native(13) PROVE t \in DOMAIN db.schema /\ Serves(13, t, db.schema[t])
    <3>1. t \in Tables  BY NativeTables
    <3>2. db.schema[t] = Metadata[t] /\ t \in DOMAIN db.schema  BY <1>0, <2>1, <3>1 DEF Served
    <3>3. RefsAt(13, t) = Metadata[t].refs  BY DEF RefsAt
    <3>4. Metadata[t].key = "uuid"
      <4>1. \A x \in Initial : Metadata[x].key = "uuid"  BY ModelsAre, Rows DEF Initial
      <4>2. \A x \in Chat \cup {"voices", "pipeline_runs", "channel_automations"} : Metadata[x].key = "uuid"
        BY ModelsAre, Rows, TablesAre
      <4> QED BY <3>1, <4>1, <4>2, TablesAre
    <3> QED BY <3>2, <3>3, <3>4 DEF Serves, ColsAt
  <2>3. Served(13, db)  BY <1>0, <2>2 DEF Served
  <2>4. DOMAIN db.schema # {}  BY <2>1, TablesAre
  <2>5. ModelTypes \subseteq types  BY <1>0, <2>1, <2>4
  <2>6. TypesServed(13, types)  BY <2>5, TypesApart DEF TypesServed, RestTypes
  <2> QED BY <2>1, <2>3, <2>6 DEF ServedInv, RevInv
<1>5. ASSUME NEW t \in Tracked, Use(t) PROVE ServedInv'
  <2>1. rev' = rev /\ types' = types /\ db' = [db EXCEPT !.rows = @ \cup {t}]  BY <1>5 DEF Use
  <2>2. IsDb(db') /\ db'.schema = db.schema  BY <1>0, <2>1 DEF IsDb
  <2> QED BY <1>0, <2>1, <2>2 DEF ServedInv, RevInv, Served
<1>6. CASE UNCHANGED schemaVars
  BY <1>6 DEF schemaVars, ServedInv, RevInv
<1> QED BY <1>1, <1>2, <1>3, <1>4, <1>5, <1>6 DEF NextSchema

LEMMA ServedServes == ServedInv => HeadServesModels
<1>0. ASSUME ServedInv, rev = HeadRevision PROVE ModelTypes \subseteq types
  <2>1. TypesServed(17, types)  BY <1>0 DEF ServedInv, HeadRevision
  <2> QED BY <2>1, TypesApart DEF TypesServed, RestTypes
<1> SUFFICES ASSUME ServedInv, rev = HeadRevision, NEW t \in Tables
             PROVE  /\ t \in DOMAIN db.schema
                    /\ db.schema[t].cols = Metadata[t].cols
                    /\ db.schema[t].refs = Metadata[t].refs
                    /\ db.schema[t].key = Metadata[t].key
  BY <1>0 DEF HeadServesModels
<1>1. rev = 17 /\ Served(17, db)  BY DEF ServedInv, HeadRevision
<1>2. t \in Native(17)  BY TablesAre DEF Native
<1>3. t \in DOMAIN db.schema /\ Serves(17, t, db.schema[t])  BY <1>1, <1>2 DEF Served
<1>4. ColsAt(17, t) = Metadata[t].cols  BY ColsGrow
<1>5. RefsAt(17, t) = Metadata[t].refs  BY DEF RefsAt
<1>6. Metadata[t].key = "uuid"
  <2>1. \A x \in Initial : Metadata[x].key = "uuid"  BY ModelsAre, Rows DEF Initial
  <2>2. \A x \in Chat \cup {"voices", "pipeline_runs", "channel_automations"} : Metadata[x].key = "uuid"
    BY ModelsAre, Rows, TablesAre
  <2> QED BY <2>1, <2>2, TablesAre
<1> QED BY <1>3, <1>4, <1>5, <1>6 DEF Serves

\* For any Tracked and DevMode, and whatever route a database took (upgrades to
\* any release's head, steps back, create_all in development, stamps), at the
\* head revision every table the ORM maps is there with the columns, foreign
\* keys and key type of its model, and every enum type that is not of the
\* initial revision (migrations/versions/*, database/models/*).
THEOREM HeadServes == SchemaSpec => []HeadServesModels
<1>1. SchemaSpec => []ServedInv
  BY ServedInit, ServedStep, PTL DEF SchemaSpec
<1> QED BY <1>1, ServedServes, PTL

-----------------------------------------------------------------------------
\* A database that only migrations built: exactly the tables of its revision
\* (a step back may leave the voices at 5, or 16 without the chat), as shaped.
Extra(r) == IF r = 5 THEN {"voices"} ELSE IF r = 16 THEN Chat ELSE {}

Built(r, d) ==
  /\ IsDb(d) /\ Native(r) \subseteq DOMAIN d.schema /\ DOMAIN d.schema \subseteq Native(r) \cup Extra(r)
  /\ r = 16 => Chat \subseteq DOMAIN d.schema \/ Chat \cap DOMAIN d.schema = {}
  /\ \A t \in DOMAIN d.schema : Shaped(r, t, d.schema[t])
  /\ r = 0 => d.rows = {}

LEMMA ExtraTables == \A r : Extra(r) \subseteq Tables /\ Extra(r) \cap Native(r) = {}
BY TablesAre DEF Extra, Native, Initial

LEMMA BuiltServed ==
  ASSUME NEW r \in 0..17, NEW d, Built(r, d)
  PROVE  Served(r, d)
<1>1. CASE r = 0
  <2>1. Native(0) = {} /\ Extra(0) = {}  BY DEF Native, Extra
  <2> QED BY <1>1, <2>1 DEF Built, Served
<1>2. CASE r \in 1..17
  BY <1>2, ShapedServes DEF Built, Served
<1> QED BY <1>1, <1>2

LEMMA NewColumns ==
  ASSUME NEW i \in 1..17, NEW t
  PROVE  "*" \notin Gained(i, t)
BY DEF Gained, RetryColumns, InstagramColumns, InstagramRetryColumns

LEMMA LaterShape ==
  ASSUME NEW i \in 3..17 \ {12}, NEW t \in Tables, i \in {16, 17} => t \notin Chat
  PROVE  /\ RefsAt(i, t) = RefsAt(i - 1, t) /\ KeyAt(i, t) = KeyAt(i - 1, t)
         /\ ~(i = 8 /\ t = "uploads") => IndexesAt(i, t) = IndexesAt(i - 1, t)
         /\ i = 8 /\ t = "uploads" => IndexesAt(i, t) = {"publish_status"} /\ IndexesAt(i - 1, t) = {}
         /\ Defaulted(i) = Defaulted(i - 1)
         /\ DefaultsAt(i, t) = DefaultsAt(i - 1, t) \cup (Gained(i, t) \cap Defaulted(i))
         /\ DefaultsAt(i - 1, t) = DefaultsAt(i, t) \ Gained(i, t)
<1>1. RefsAt(i, t) = RefsAt(i - 1, t)  BY RefsStay
<1>2. KeyAt(i, t) = KeyAt(i - 1, t)  BY DEF KeyAt
<1>3. ~(i = 8 /\ t = "uploads") => IndexesAt(i, t) = IndexesAt(i - 1, t)
  BY DEF IndexesAt
<1>4. i = 8 /\ t = "uploads" => IndexesAt(i, t) = {"publish_status"} /\ IndexesAt(i - 1, t) = {}
  BY DEF IndexesAt
<1>5. Defaulted(i) = Defaulted(i - 1)  BY DEF Defaulted
<1>6. /\ ColsAt(i, t) = ColsAt(i - 1, t) \cup Gained(i, t)
      /\ ColsAt(i - 1, t) = ColsAt(i, t) \ Gained(i, t)
  BY ColsGrow
<1> DEFINE star(r) == IF r = 1 \/ (r < 12 /\ t \in {"pipeline_runs", "channel_automations"}) \/ t = "knowledge_docs"
                      THEN {"*"} ELSE {}
<1>7. star(i) = star(i - 1) /\ star(i) \subseteq {"*"}  OBVIOUS
<1>8. \A r : DefaultsAt(r, t) = (ColsAt(r, t) \cap Defaulted(r)) \cup star(r)  BY DEF DefaultsAt
<1> HIDE DEF star
<1>9. star(i) \cap Gained(i, t) = {}  BY <1>7, NewColumns
<1>a. DefaultsAt(i, t) = DefaultsAt(i - 1, t) \cup (Gained(i, t) \cap Defaulted(i))
  BY <1>5, <1>6, <1>7, <1>8
<1>b. DefaultsAt(i - 1, t) = DefaultsAt(i, t) \ Gained(i, t)
  BY <1>5, <1>6, <1>7, <1>8, <1>9
<1> QED BY <1>1, <1>2, <1>3, <1>4, <1>5, <1>a, <1>b

LEMMA ShapedUp ==
  ASSUME NEW i \in 3..17 \ {12}, NEW t \in Tables, i \in {16, 17} => t \notin Chat,
         NEW old, Shaped(i - 1, t, old), NEW new, Follows(i, t, old, new)
  PROVE  Shaped(i, t, new)
<1>1. Gained(i, t) \cap old.cols = {} /\ ColsAt(i, t) = old.cols \cup Gained(i, t)  BY ColsGrow DEF Shaped
<1>2. new.refs = RefsAt(i, t) /\ new.key = KeyAt(i, t)  BY LaterShape DEF Shaped, Follows
<1>3. new.indexes = IndexesAt(i, t)
  <2>1. CASE i = 8 /\ t = "uploads"  BY <2>1, LaterShape DEF Shaped, Follows
  <2>2. CASE ~(i = 8 /\ t = "uploads")  BY <2>2, LaterShape DEF Shaped, Follows
  <2> QED BY <2>1, <2>2
<1>4. new.defaults = DefaultsAt(i, t)
  <2>1. old.defaults = DefaultsAt(i - 1, t)  BY DEF Shaped
  <2>2. new.defaults = old.defaults \cup (Gained(i, t) \cap Defaulted(i))  BY <1>1 DEF Follows
  <2>3. DefaultsAt(i, t) = DefaultsAt(i - 1, t) \cup (Gained(i, t) \cap Defaulted(i))  BY LaterShape
  <2> QED BY <2>1, <2>2, <2>3
<1>5. new.cols = ColsAt(i, t)  BY <1>1 DEF Shaped, Follows
<1> QED BY <1>2, <1>3, <1>4, <1>5 DEF Shaped

LEMMA ShapedDown ==
  ASSUME NEW i \in 3..17 \ {12}, NEW t \in Tables, i \in {16, 17} => t \notin Chat,
         NEW old, Shaped(i, t, old), NEW new, Precedes(i, t, old, new)
  PROVE  Shaped(i - 1, t, new)
<1>1. ColsAt(i - 1, t) = old.cols \ Gained(i, t)  BY ColsGrow DEF Shaped
<1>2. new.refs = RefsAt(i - 1, t) /\ new.key = KeyAt(i - 1, t)  BY LaterShape DEF Shaped, Precedes
<1>3. new.indexes = IndexesAt(i - 1, t)
  <2>1. CASE i = 8 /\ t = "uploads"  BY <2>1, LaterShape DEF Shaped, Precedes
  <2>2. CASE ~(i = 8 /\ t = "uploads")  BY <2>2, LaterShape DEF Shaped, Precedes
  <2> QED BY <2>1, <2>2
<1>4. new.defaults = DefaultsAt(i - 1, t)  BY <1>1, LaterShape DEF Shaped, Precedes
<1>5. new.cols = ColsAt(i - 1, t)  BY <1>1 DEF Shaped, Precedes
<1> QED BY <1>2, <1>3, <1>4, <1>5 DEF Shaped

LEMMA ExtraMoves ==
  ASSUME NEW i \in 1..17
  PROVE  /\ (Native(i - 1) \cup Extra(i - 1) \cup Made(i)) \ Dropped(i) \subseteq Native(i) \cup Extra(i)
         /\ ((Native(i) \cup Extra(i)) \ Made(i)) \cup Dropped(i) \subseteq Native(i - 1) \cup Extra(i - 1)
         /\ i # 16 /\ i # 17 => (Native(i) \cup Extra(i)) \cap Chat = {}
         /\ i = 17 => Made(i) = Chat
         /\ i = 16 => Made(i) = Chat /\ (Native(15) \cup Extra(15)) \cap Chat = {}
<1>1. "voices" \notin Initial \cup Chat /\ Initial \cap Chat = {}
      /\ {"pipeline_runs", "channel_automations"} \cap (Initial \cup Chat) = {}
  BY TablesAre DEF Initial
<1>2. CASE i \in 1..3  BY <1>1, <1>2 DEF Native, Made, Dropped, Extra
<1>3. CASE i = 4  BY <1>1, <1>3 DEF Native, Made, Dropped, Extra
<1>4. CASE i \in 5..6  BY <1>1, <1>4 DEF Native, Made, Dropped, Extra
<1>5. CASE i \in 7..8  BY <1>1, <1>5 DEF Native, Made, Dropped, Extra
<1>6. CASE i \in 9..10  BY <1>1, <1>6 DEF Native, Made, Dropped, Extra
<1>7. CASE i \in 11..15  BY <1>1, <1>7 DEF Native, Made, Dropped, Extra
<1>8. CASE i = 16  BY <1>1, <1>8 DEF Native, Made, Dropped, Extra
<1>9. CASE i = 17  BY <1>1, <1>9 DEF Native, Made, Dropped, Extra
<1> QED BY <1>2, <1>3, <1>4, <1>5, <1>6, <1>7, <1>8, <1>9

LEMMA BuiltUp ==
  ASSUME NEW i \in 1..17, NEW d, Built(i - 1, d), NEW e \in Up(i, d)
  PROVE  Built(i, e)
<1>0. /\ IsDb(d) /\ Native(i - 1) \subseteq DOMAIN d.schema
      /\ DOMAIN d.schema \subseteq Native(i - 1) \cup Extra(i - 1)
      /\ \A t \in DOMAIN d.schema : Shaped(i - 1, t, d.schema[t]) /\ t \in Tables
  BY NativeTables, ExtraTables DEF Built
<1>s. IsDb(e) /\ Native(i) \subseteq DOMAIN e.schema
  <2>1. Served(i - 1, d)  BY BuiltServed
  <2> QED BY <2>1, ServedUp DEF Served
<1>1. CASE i \notin {2, 12}
  <2>1. UpStep(i, d, e)  BY <1>0, <1>1, UpSteps
  <2>2. DOMAIN e.schema \subseteq Native(i) \cup Extra(i)  BY <1>0, <2>1, ExtraMoves DEF UpStep
  <2>3. i = 16 => Chat \subseteq DOMAIN e.schema
    <3> HAVE i = 16
    <3>1. Made(i) = Chat /\ Dropped(i) = {}  BY DEF Made, Dropped
    <3> QED BY <2>1, <3>1 DEF UpStep
  <2>4. ASSUME NEW t \in DOMAIN e.schema PROVE Shaped(i, t, e.schema[t])
    <3>1. CASE t \in Made(i) /\ Shaped(i, t, e.schema[t])  BY <3>1
    <3>2. CASE t \in DOMAIN d.schema /\ (t \in Made(i) => i = 16) /\ Follows(i, t, d.schema[t], e.schema[t])
      <4>1. Shaped(i - 1, t, d.schema[t]) /\ t \in Tables /\ t \in Native(i - 1) \cup Extra(i - 1)
        BY <1>0, <3>2
      <4>2. i # 1  BY <4>1 DEF Native, Extra
      <4>3. i \in {16, 17} => t \notin Chat
        BY <3>2, <4>1, ExtraMoves
      <4> QED BY <1>1, <3>2, <4>1, <4>2, <4>3, ShapedUp
    <3> QED BY <2>1, <3>1, <3>2 DEF UpStep
  <2> QED BY <1>s, <2>2, <2>3, <2>4 DEF Built
<1>2. CASE i = 2
  <2>1. Native(1) = Initial /\ Native(2) = Initial /\ Extra(1) = {}  BY DEF Native, Extra
  <2>a. Remade(d, e, DOMAIN d.schema)  BY <1>0, <1>2, ThumbnailStep
  <2>b. Native(1) \subseteq DOMAIN d.schema /\ DOMAIN d.schema \subseteq Native(1) \cup Extra(1)
    BY <1>0, <1>2
  <2>2. Remade(d, e, DOMAIN d.schema) /\ DOMAIN d.schema = Initial  BY <2>1, <2>a, <2>b
  <2>3. ASSUME NEW t \in Initial PROVE Shaped(2, t, e.schema[t])
    <3>1. t \in DOMAIN d.schema /\ Shaped(1, t, d.schema[t]) /\ t \in Tables
      BY <1>0, <1>2, <2>2
    <3>2. RefsAt(2, t) = Metadata[t].refs /\ KeyAt(1, t) = "uuid" /\ KeyAt(2, t) = "uuid"
      BY DEF RefsAt, Initial, KeyAt
    <3>3. /\ e.schema[t].key = d.schema[t].key
          /\ e.schema[t].indexes = {} /\ e.schema[t].defaults = {}
      BY <1>0, <1>2, <3>1, ThumbnailStep
    <3>4. Serves(2, t, e.schema[t])
      <4>1. Served(1, d)  BY <1>2, BuiltServed
      <4>2. Served(2, e)  BY <1>2, <4>1, ServedUp
      <4> QED BY <2>1, <4>2 DEF Served
    <3>5. e.schema[t].cols = ColsAt(2, t) /\ ColsAt(2, t) \cap Defaulted(2) = {}
      <4>1. CASE t # "thumbnails"
        <5>1. e.schema[t].cols = d.schema[t].cols  BY <1>0, <1>2, <3>1, <4>1, ThumbnailStep
        <5>2. Gained(2, t) = {}  BY <4>1 DEF Gained
        <5>3. 2 \in 1..17 /\ 2 - 1 = 1  OBVIOUS
        <5>4. ColsAt(2, t) = ColsAt(2 - 1, t) \cup Gained(2, t)  BY <3>1, <5>3, ColsGrow
        <5>5. ColsAt(1, t) = {}  BY <3>1, ColsGrow
        <5> QED BY <3>1, <5>1, <5>2, <5>3, <5>4, <5>5 DEF Shaped
      <4>2. CASE t = "thumbnails"
        <5>1. e.schema[t].cols = {"script_id"}  BY <1>0, <1>2, <3>1, <4>2, ThumbnailStep
        <5>2. ColsAt(2, t) = {"script_id"}  BY <4>2, ModelCols, AddedIs DEF ColsAt
        <5>3. "script_id" \notin Defaulted(2)  BY DEF Defaulted
        <5> QED BY <5>1, <5>2, <5>3
      <4> QED BY <4>1, <4>2
    <3>6. t \notin {"pipeline_runs", "chat_messages", "channel_automations", "knowledge_docs"}
      BY DEF Initial
    <3>7. IndexesAt(2, t) = {}  BY <3>6 DEF IndexesAt
    <3>8. DefaultsAt(2, t) = {}  BY <3>5, <3>6 DEF DefaultsAt
    <3>9. d.schema[t].key = "uuid"  BY <3>1, <3>2 DEF Shaped
    <3>a. e.schema[t].refs = RefsAt(2, t)  BY <3>4 DEF Serves
    <3> QED BY <3>2, <3>3, <3>5, <3>7, <3>8, <3>9, <3>a DEF Shaped
  <2> QED BY <1>2, <1>s, <2>1, <2>2, <2>3 DEF Built, Remade
<1>3. CASE i = 12
  <2>1. Native(11) = Native(12) /\ Extra(11) = {}  BY DEF Native, Extra
  <2>a. Remade(d, e, DOMAIN d.schema)  BY <1>0, <1>3, KokoroStep
  <2>b. Native(11) \subseteq DOMAIN d.schema /\ DOMAIN d.schema \subseteq Native(11) \cup Extra(11)
    BY <1>0, <1>3
  <2>2. Remade(d, e, DOMAIN d.schema) /\ DOMAIN d.schema = Native(12)  BY <2>1, <2>a, <2>b
  <2>3. ASSUME NEW t \in Native(12) PROVE Shaped(12, t, e.schema[t])
    <3>1. t \in DOMAIN d.schema /\ Shaped(11, t, d.schema[t]) /\ t \in Tables /\ Serves(12, t, e.schema[t])
      <4>1. Served(11, d)  BY <1>3, BuiltServed
      <4>2. Served(12, e)  BY <1>3, <4>1, ServedUp
      <4> QED BY <1>0, <1>3, <2>2, <4>2 DEF Served
    <3>2. e.schema[t].cols = d.schema[t].cols /\ e.schema[t].key = d.schema[t].key
      BY <1>0, <1>3, <3>1, KokoroStep
    <3>3. Gained(12, t) = {}  BY DEF Gained
    <3>4. ColsAt(12, t) = ColsAt(11, t)
      <4>1. 12 \in 1..17 /\ 12 - 1 = 11  OBVIOUS
      <4>2. ColsAt(12, t) = ColsAt(12 - 1, t) \cup Gained(12, t)  BY <3>1, <4>1, ColsGrow
      <4> QED BY <3>3, <4>1, <4>2
    <3>5. KeyAt(12, t) = KeyAt(11, t)  BY DEF KeyAt
    <3>6. e.schema[t].indexes = IndexesAt(12, t)
      <4>1. CASE t \in {"pipeline_runs", "uploads"}
        <5>1. e.schema[t].indexes = {}  BY <1>0, <1>3, <3>1, <4>1, KokoroStep
        <5>2. IndexesAt(12, t) = {}  BY <4>1 DEF IndexesAt
        <5> QED BY <5>1, <5>2
      <4>2. CASE t \notin {"pipeline_runs", "uploads"}
        <5>1. e.schema[t].indexes = d.schema[t].indexes  BY <1>0, <1>3, <3>1, <4>2, KokoroStep
        <5>2. IndexesAt(12, t) = IndexesAt(11, t)  BY <4>2 DEF IndexesAt
        <5> QED BY <3>1, <5>1, <5>2 DEF Shaped
      <4> QED BY <4>1, <4>2
    <3>7. e.schema[t].defaults = DefaultsAt(12, t)
      <4>0. ColsAt(12, t) \cap Defaulted(12) = {}
        BY AddedIs DEF ColsAt, Defaulted, InstagramColumns
      <4>1. CASE t \in {"pipeline_runs", "uploads", "channel_automations", "channels", "scripts"}
        <5>1. e.schema[t].defaults = {}  BY <1>0, <1>3, <3>1, <4>1, KokoroStep
        <5>2. DefaultsAt(12, t) = {}  BY <4>0, <4>1 DEF DefaultsAt
        <5> QED BY <5>1, <5>2
      <4>2. CASE t \notin {"pipeline_runs", "uploads", "channel_automations", "channels", "scripts"}
        <5>1. e.schema[t] = d.schema[t]  BY <1>0, <1>3, <3>1, <4>2, KokoroStep
        <5>2. Metadata[t].cols \subseteq {"script_id", "voice_gender"}
          BY <3>1, <4>2, ModelCols
        <5>3. ColsAt(11, t) \cap Defaulted(11) = {}  BY <5>2 DEF ColsAt, Defaulted
        <5>4. DefaultsAt(12, t) = DefaultsAt(11, t)  BY <4>0, <4>2, <5>3 DEF DefaultsAt
        <5> QED BY <3>1, <5>1, <5>4 DEF Shaped
      <4> QED BY <4>1, <4>2
    <3>8. e.schema[t].refs = RefsAt(12, t)  BY <3>1 DEF Serves
    <3> QED BY <3>1, <3>2, <3>4, <3>5, <3>6, <3>7, <3>8 DEF Shaped
  <2> QED BY <1>3, <1>s, <2>1, <2>2, <2>3 DEF Built, Remade
<1> QED BY <1>1, <1>2, <1>3

LEMMA BuiltDown ==
  ASSUME NEW i \in 1..17, NEW d, Built(i, d), NEW e \in Down(i, d)
  PROVE  i \notin {1, 2, 12} /\ DownStep(i, d, e) /\ Built(i - 1, e)
<1>0. /\ IsDb(d) /\ Native(i) \subseteq DOMAIN d.schema
      /\ DOMAIN d.schema \subseteq Native(i) \cup Extra(i)
      /\ \A t \in DOMAIN d.schema : Shaped(i, t, d.schema[t]) /\ t \in Tables
  BY NativeTables, ExtraTables DEF Built
<1>1. i \notin {1, 2, 12} /\ DownStep(i, d, e) /\ IsDb(e) /\ Native(i - 1) \subseteq DOMAIN e.schema
  <2>1. Served(i, d)  BY BuiltServed
  <2> QED BY <2>1, ServedDown DEF Served
<1>2. DOMAIN e.schema \subseteq Native(i - 1) \cup Extra(i - 1)  BY <1>0, <1>1, ExtraMoves DEF DownStep
<1>3. i = 17 => Chat \cap DOMAIN e.schema = {}
  <2> HAVE i = 17
  <2>1. Made(i) = Chat /\ Dropped(i) = {}  BY DEF Made, Dropped
  <2> QED BY <1>1, <2>1 DEF DownStep
<1>4. ASSUME NEW t \in DOMAIN e.schema PROVE Shaped(i - 1, t, e.schema[t])
  <2>1. CASE t \in Dropped(i) /\ Shaped(i - 1, t, e.schema[t])  BY <2>1
  <2>2. CASE t \in DOMAIN d.schema /\ Precedes(i, t, d.schema[t], e.schema[t])
    <3>1. Shaped(i, t, d.schema[t]) /\ t \in Tables  BY <1>0, <2>2
    <3>2. i \in {16, 17} => t \notin Chat
      <4> HAVE i \in {16, 17}
      <4>1. Made(i) = Chat /\ Dropped(i) = {}  BY DEF Made, Dropped
      <4> QED BY <1>1, <4>1 DEF DownStep
    <3> QED BY <1>1, <2>2, <3>1, <3>2, ShapedDown
  <2> QED BY <1>1, <2>1, <2>2 DEF DownStep
<1> QED BY <1>1, <1>2, <1>3, <1>4 DEF Built

-----------------------------------------------------------------------------
\* When a statement is not refused.
LEMMA Accepted ==
  ASSUME NEW d
  PROVE  /\ \A t, cols, defaulted : t \in DOMAIN d.schema /\ d.schema[t].cols \cap cols = {}
              => AddColumns(d, t, cols, defaulted) # {}
         /\ \A new : /\ DOMAIN new \cap DOMAIN d.schema = {}
                     /\ \A t \in DOMAIN new : Parents(new[t]) \subseteq DOMAIN new \cup DOMAIN d.schema
              => Create(d, new) # {}
         /\ \A ts : /\ ts \subseteq DOMAIN d.schema
                    /\ \A t \in DOMAIN d.schema \ ts : Parents(d.schema[t]) \cap ts = {}
              => Drop(d, ts) # {}
BY DEF AddColumns, Create, Drop

\* The tables of the migrations refer to initial ones, and the chat to itself.
LEMMA ModelParents ==
  ASSUME NEW t \in Tables
  PROVE  {r.parent : r \in Metadata[t].refs} \subseteq IF t \in Chat THEN Chat ELSE Initial
<1>1. \A a, b, c : Ref(a, b, c).parent = b  BY DEF Ref
<1>2. /\ \A x \in {"users", "channels", "agent_logs", "chat_sessions", "chat_unresolved", "knowledge_docs"} :
           Metadata[x].refs = {}
      /\ \A x \in {"quality_reports", "storyboards", "videos", "thumbnails", "voices"} :
           Metadata[x].refs = {Ref("script_id", "scripts", "none")}
  BY ModelsAre, Rows
<1>3. /\ Metadata["topics"].refs = {Ref("channel_id", "channels", "none")}
      /\ Metadata["research"].refs = {Ref("topic_id", "topics", "none")}
      /\ Metadata["scripts"].refs =
           {Ref("topic_id", "topics", "none"), Ref("channel_id", "channels", "none")}
      /\ Metadata["uploads"].refs = {Ref("video_id", "videos", "none")}
      /\ Metadata["analytics"].refs = {Ref("upload_id", "uploads", "none")}
      /\ Metadata["channel_automations"].refs = {Ref("channel_id", "channels", "cascade")}
      /\ Metadata["chat_messages"].refs = {Ref("session_id", "chat_sessions", "cascade")}
      /\ Metadata["pipeline_runs"].refs =
           {Ref("topic_id", "topics", "none"), Ref("channel_id", "channels", "none"),
            Ref("script_id", "scripts", "none"), Ref("video_id", "videos", "none"),
            Ref("upload_id", "uploads", "none")}
  BY ModelsAre, Rows
<1>4. {"topics", "channels", "scripts", "videos", "uploads"} \subseteq Initial /\ "chat_sessions" \in Chat
      /\ "chat_messages" \in Chat
  BY TablesAre DEF Initial
<1>5. CASE t \in {"users", "channels", "agent_logs", "chat_sessions", "chat_unresolved", "knowledge_docs"}
  BY <1>2, <1>5
<1>6. CASE t \in {"quality_reports", "storyboards", "videos", "thumbnails", "voices"}
  <2>1. Metadata[t].refs = {Ref("script_id", "scripts", "none")}  BY <1>2, <1>6
  <2>2. t \notin Chat  BY <1>6, TablesAre
  <2> QED BY <1>1, <1>4, <2>1, <2>2
<1>7. CASE t \in {"topics", "research", "scripts", "uploads", "analytics", "channel_automations", "pipeline_runs"}
  <2>1. t \notin Chat  BY <1>7, TablesAre
  <2>2. \A r \in Metadata[t].refs : r.parent \in {"topics", "channels", "scripts", "videos", "uploads"}
    BY <1>1, <1>3, <1>7
  <2> QED BY <1>4, <2>1, <2>2
<1>8. CASE t = "chat_messages"
  <2>1. Metadata[t].refs = {Ref("session_id", "chat_sessions", "cascade")}  BY <1>3, <1>8
  <2> QED BY <1>1, <1>4, <1>8, <2>1
<1> QED BY <1>5, <1>6, <1>7, <1>8, TablesAre DEF Initial

LEMMA BuiltParents ==
  ASSUME NEW r \in 0..17, NEW d, Built(r, d), NEW t \in DOMAIN d.schema
  PROVE  t \in Tables /\ Parents(d.schema[t]) \subseteq IF t \in Chat THEN Chat ELSE Initial
<1>1. t \in Tables /\ d.schema[t].refs = RefsAt(r, t)  BY NativeTables, ExtraTables DEF Built, Shaped
<1>2. CASE r = 1 /\ t \in Initial
  <2>1. d.schema[t].refs = InitialTables[t].refs  BY <1>1, <1>2 DEF RefsAt
  <2>2. Parents(d.schema[t]) \subseteq Initial  BY <1>2, <2>1, InitialRefs DEF Parents
  <2>3. t \notin Chat  BY <1>2, TablesAre DEF Initial
  <2> QED BY <1>1, <2>2, <2>3
<1>3. CASE r < 12 /\ t = "pipeline_runs" /\ ~(r = 1 /\ t \in Initial)
  <2>1. d.schema[t].refs = PipelineTable["pipeline_runs"].refs  BY <1>1, <1>3 DEF RefsAt
  <2>2. Parents(d.schema[t]) \subseteq Initial  BY <2>1, PipelineIs DEF Parents, Initial
  <2>3. t \notin Chat  BY <1>3, TablesAre
  <2> QED BY <1>1, <2>2, <2>3
<1>4. CASE ~(r = 1 /\ t \in Initial) /\ ~(r < 12 /\ t = "pipeline_runs")
  <2>1. d.schema[t].refs = Metadata[t].refs  BY <1>1, <1>4 DEF RefsAt
  <2> QED BY <1>1, <2>1, ModelParents DEF Parents
<1> QED BY <1>2, <1>3, <1>4

\* Columns a revision adds are not there yet, and one of two statements cannot spoil the other.
LEMMA NotYet ==
  ASSUME NEW i \in 1..17, NEW d, Built(i - 1, d), NEW t \in DOMAIN d.schema
  PROVE  d.schema[t].cols \cap Gained(i, t) = {}
<1>1. t \in Tables /\ d.schema[t].cols = ColsAt(i - 1, t)
  BY NativeTables, ExtraTables DEF Built, Shaped
<1>2. ColsAt(i - 1, t) = ColsAt(i, t) \ Gained(i, t)  BY <1>1, ColsGrow
<1> QED BY <1>1, <1>2

LEMMA AcceptedPipeline ==
  ASSUME NEW d, Built(7, d)
  PROVE  UpPipeline(d) # {}
<1> DEFINE cols == {"publish_status"}
<1>0. IsDb(d) /\ Initial \subseteq DOMAIN d.schema /\ "pipeline_runs" \notin DOMAIN d.schema
  <2>1. Initial \subseteq Native(7) /\ "pipeline_runs" \notin Native(7) \cup Extra(7)
    BY DEF Native, Extra, Initial
  <2> QED BY <2>1 DEF Built
<1>1. cols = Gained(8, "uploads")  BY DEF Gained
<1>2. "uploads" \in DOMAIN d.schema  BY <1>0 DEF Initial
<1>3. d.schema["uploads"].cols \cap cols = {}
  <2>1. 8 \in 1..17 /\ 8 - 1 = 7  OBVIOUS
  <2> QED BY <1>1, <1>2, <2>1, NotYet
<1>c. cols = {"publish_status"}  OBVIOUS
<1> HIDE DEF cols
<1>4. PICK x \in AddColumns(d, "uploads", cols, cols) : TRUE  BY <1>2, <1>3, Accepted
<1>5. DOMAIN x.schema = DOMAIN d.schema  BY <1>0, Adding DEF Remade
<1>6. PICK y \in Create(x, PipelineTable) : TRUE
  <2>1. Parents(PipelineTable["pipeline_runs"]) \subseteq DOMAIN x.schema
    BY <1>0, <1>5, PipelineIs DEF Initial
  <2>2. DOMAIN PipelineTable = {"pipeline_runs"}  BY PipelineIs
  <2>3. Create(x, PipelineTable) # {}  BY <1>0, <1>5, <2>1, <2>2, Accepted
  <2> QED BY <2>3
<1>7. Index(y, "uploads", cols) \in UpPipeline(d)
  BY <1>c, <1>4, <1>6 DEF UpPipeline, Then
<1> QED BY <1>7

LEMMA AcceptedRetry ==
  ASSUME NEW d, Built(8, d)
  PROVE  UpRetry(d) # {}
<1> DEFINE cols == RetryColumns
           defaulted == {"retry_count", "max_retries"}
<1>0. IsDb(d) /\ {"uploads", "pipeline_runs"} \subseteq DOMAIN d.schema
  BY DEF Built, Native, Initial
<1>1. cols = Gained(9, "pipeline_runs") /\ cols = Gained(9, "uploads")  BY DEF Gained
<1>2. d.schema["uploads"].cols \cap cols = {} /\ d.schema["pipeline_runs"].cols \cap cols = {}
  <2>1. 9 \in 1..17 /\ 9 - 1 = 8  OBVIOUS
  <2> QED BY <1>0, <1>1, <2>1, NotYet
<1> HIDE DEF cols, defaulted
<1>3. PICK x \in AddColumns(d, "pipeline_runs", cols, defaulted) : TRUE  BY <1>0, <1>2, Accepted
<1>4. DOMAIN x.schema = DOMAIN d.schema /\ x.schema["uploads"] = d.schema["uploads"]
  BY <1>0, Adding DEF Remade, Only
<1>5. PICK y \in AddColumns(x, "uploads", cols, defaulted) : TRUE  BY <1>0, <1>2, <1>4, Accepted
<1>6. y \in UpRetry(d)  BY <1>3, <1>5 DEF UpRetry, Then, cols, defaulted
<1> QED BY <1>6

LEMMA AcceptedAutomation ==
  ASSUME NEW d, Built(9, d)
  PROVE  UpAutomation(d) # {}
<1> DEFINE cols == {"timezone", "is_archived"}
<1>0. IsDb(d) /\ "channels" \in DOMAIN d.schema /\ "channel_automations" \notin DOMAIN d.schema
  <2>1. "channels" \in Native(9) /\ "channel_automations" \notin Native(9) \cup Extra(9)
    BY DEF Native, Extra, Initial
  <2> QED BY <2>1 DEF Built
<1>1. cols = Gained(10, "channels")  BY DEF Gained
<1>2. d.schema["channels"].cols \cap cols = {}
  <2>1. 10 \in 1..17 /\ 10 - 1 = 9  OBVIOUS
  <2> QED BY <1>0, <1>1, <2>1, NotYet
<1> HIDE DEF cols
<1>3. PICK x \in AddColumns(d, "channels", cols, cols) : TRUE  BY <1>0, <1>2, Accepted
<1>4. DOMAIN x.schema = DOMAIN d.schema  BY <1>0, Adding DEF Remade
<1>5. PICK y \in Create(x, AutomationTable) : TRUE
  <2>1. /\ DOMAIN AutomationTable \cap DOMAIN x.schema = {}
        /\ \A t \in DOMAIN AutomationTable : Parents(AutomationTable[t]) \subseteq DOMAIN x.schema
    BY <1>0, <1>4, AutomationIs
  <2>2. Create(x, AutomationTable) # {}  BY <2>1, Accepted
  <2> QED BY <2>2
<1>6. y \in UpAutomation(d)  BY <1>3, <1>5 DEF UpAutomation, Then, cols
<1> QED BY <1>6

LEMMA AcceptedVoiceGender ==
  ASSUME NEW d, Built(12, d)
  PROVE  UpVoiceGender(d) # {}
<1> DEFINE cols == {"voice_gender"}
<1>0. IsDb(d) /\ {"scripts", "voices"} \subseteq DOMAIN d.schema
  BY DEF Built, Native, Initial
<1>1. cols = Gained(13, "scripts") /\ cols = Gained(13, "voices")  BY DEF Gained
<1>2. d.schema["scripts"].cols \cap cols = {} /\ d.schema["voices"].cols \cap cols = {}
  <2>1. 13 \in 1..17 /\ 13 - 1 = 12  OBVIOUS
  <2> QED BY <1>0, <1>1, <2>1, NotYet
<1> HIDE DEF cols
<1>3. PICK x \in AddColumns(d, "scripts", cols, {}) : TRUE  BY <1>0, <1>2, Accepted
<1>4. DOMAIN x.schema = DOMAIN d.schema /\ x.schema["voices"] = d.schema["voices"]
  BY <1>0, Adding DEF Remade, Only
<1>5. PICK y \in AddColumns(x, "voices", cols, {}) : TRUE  BY <1>0, <1>2, <1>4, Accepted
<1>6. y \in UpVoiceGender(d)  BY <1>3, <1>5 DEF UpVoiceGender, Then, cols
<1> QED BY <1>6

LEMMA AcceptedChat ==
  ASSUME NEW d
  PROVE  /\ Built(15, d) => UpChat(d) # {}
         /\ Built(16, d) /\ Chat \subseteq DOMAIN d.schema => UpChatUuid(d) # {}
<1>1. ASSUME Built(15, d) PROVE UpChat(d) # {}
  <2> DEFINE new == [t \in Chat \ DOMAIN d.schema |-> ChatTables("text")[t]]
  <2>1. DOMAIN new = Chat \ DOMAIN d.schema /\ \A t \in DOMAIN new : new[t] = ChatTables("text")[t]
    OBVIOUS
  <2>2. UpChat(d) = Create(d, new)  BY DEF UpChat
  <2> HIDE DEF new
  <2>3. \A t \in DOMAIN new : Parents(new[t]) \subseteq Chat  BY <2>1, ChatIs
  <2>4. /\ DOMAIN new \cap DOMAIN d.schema = {}
        /\ \A t \in DOMAIN new : Parents(new[t]) \subseteq DOMAIN new \cup DOMAIN d.schema
    BY <2>1, <2>3
  <2> QED BY <2>2, <2>4, Accepted
<1>2. ASSUME Built(16, d), Chat \subseteq DOMAIN d.schema PROVE UpChatUuid(d) # {}
  <2>1. \A t \in DOMAIN d.schema \ Chat : Parents(d.schema[t]) \cap Chat = {}
    <3> TAKE t \in DOMAIN d.schema \ Chat
    <3>1. Parents(d.schema[t]) \subseteq Initial  BY <1>2, BuiltParents
    <3>2. Initial \cap Chat = {}  BY TablesAre DEF Initial
    <3> QED BY <3>1, <3>2
  <2>2. Drop(d, Chat) # {}  BY <1>2, <2>1, Accepted
  <2>3. PICK x \in Drop(d, Chat) : TRUE  BY <2>2
  <2>4. DOMAIN x.schema = DOMAIN d.schema \ Chat
    <3>1. IsDb(d)  BY <1>2 DEF Built
    <3> QED BY <3>1, Removing
  <2>5. /\ DOMAIN ChatTables("uuid") = Chat
        /\ \A t \in Chat : Parents(ChatTables("uuid")[t]) \subseteq Chat
    BY ChatIs
  <2>6. Create(x, ChatTables("uuid")) # {}  BY <2>4, <2>5, Accepted
  <2>7. PICK y \in Create(x, ChatTables("uuid")) : TRUE  BY <2>6
  <2>8. y \in UpChatUuid(d)  BY <2>3, <2>7 DEF UpChatUuid, Then
  <2> QED BY <2>8
<1> QED BY <1>1, <1>2

LEMMA AcceptedVoices ==
  ASSUME NEW d, NEW i \in 4..7, Built(i - 1, d)
  PROVE  Up(i, d) # {}
<1>0. /\ Initial \subseteq DOMAIN d.schema
      /\ i \in {4, 7} => "voices" \notin DOMAIN d.schema
  <2>1. /\ Initial \subseteq Native(i - 1)
        /\ i \in {4, 7} => "voices" \notin Native(i - 1) \cup Extra(i - 1)
    BY DEF Native, Extra, Initial
  <2> QED BY <2>1 DEF Built
<1>1. CASE i \in {4, 7}
  <2>1. Parents(VoicesTable["voices"]) = {"scripts"}
    <3>1. VoicesTable["voices"].refs = {Ref("script_id", "scripts", "none")}
      BY VoicesIs, ModelsAre, Rows
    <3>2. {r.parent : r \in {Ref("script_id", "scripts", "none")}} = {"scripts"}  BY DEF Ref
    <3> QED BY <3>1, <3>2 DEF Parents
  <2>2. /\ DOMAIN VoicesTable \cap DOMAIN d.schema = {}
        /\ \A t \in DOMAIN VoicesTable : Parents(VoicesTable[t]) \subseteq DOMAIN d.schema
    BY <1>0, <1>1, <2>1, VoicesIs DEF Initial
  <2>3. Create(d, VoicesTable) # {}  BY <2>2, Accepted
  <2> QED BY <1>1, <2>3 DEF Up, UpAddVoice, UpRestoreVoice
<1>2. CASE i \in {5, 6}
  <2>1. ASSUME NEW t \in DOMAIN d.schema PROVE Parents(d.schema[t]) \cap {"voices"} = {}
    <3>1. Parents(d.schema[t]) \subseteq Initial \cup Chat  BY BuiltParents
    <3>2. "voices" \notin Initial \cup Chat  BY TablesAre DEF Initial
    <3> QED BY <3>1, <3>2
  <2>2. "voices" \in DOMAIN d.schema => Drop(d, {"voices"}) # {}  BY <2>1, Accepted
  <2>3. DropIfExists(d, "voices") # {}  BY <2>2 DEF DropIfExists
  <2> QED BY <1>2, <2>3 DEF Up, UpAddVideo, UpAddUpload
<1> QED BY <1>1, <1>2

\* The two places where an upgrade is refused, and no other.
LEMMA AcceptedUp ==
  ASSUME NEW i \in 1..17, NEW d, Built(i - 1, d), i = 2 => "thumbnails" \notin d.rows,
         i = 17 => Chat \subseteq DOMAIN d.schema
  PROVE  Up(i, d) # {}
<1>0. IsDb(d)  BY DEF Built
<1>1. CASE i = 1
  <2>1. DOMAIN d.schema = {}  BY <1>1 DEF Built, Native, Extra
  <2>2. Create(d, InitialTables) # {}  BY <2>1, InitialAre, InitialRefs, Accepted
  <2> QED BY <1>1, <2>2 DEF Up, UpInitial
<1>2. CASE i = 2
  <2>1. \E x : UpThumbnailUsesScript(d) = {x}  BY <1>2, Zenon DEF UpThumbnailUsesScript
  <2> QED BY <1>2, <2>1 DEF Up
<1>3. CASE i = 3  BY <1>3 DEF Up
<1>4. CASE i \in 4..7  BY <1>4, AcceptedVoices
<1>8. CASE i = 8  BY <1>8, AcceptedPipeline DEF Up
<1>9. CASE i = 9  BY <1>9, AcceptedRetry DEF Up
<1>a. CASE i = 10  BY <1>a, AcceptedAutomation DEF Up
<1>b. CASE i = 11
  <2>1. "scripts" \in DOMAIN d.schema /\ Gained(11, "scripts") = {"seo_gate_score"}
    BY <1>b DEF Built, Native, Initial, Gained
  <2>2. d.schema["scripts"].cols \cap {"seo_gate_score"} = {}  BY <1>b, <2>1, NotYet
  <2>3. UpSeoGate(d) # {}  BY <2>1, <2>2, Accepted DEF UpSeoGate
  <2> QED BY <1>b, <2>3 DEF Up
<1>c. CASE i = 12
  <2>1. \E x : UpKokoro(d) = {x}  BY Zenon DEF UpKokoro
  <2> QED BY <1>c, <2>1 DEF Up
<1>d. CASE i = 13  BY <1>d, AcceptedVoiceGender DEF Up
<1>e. CASE i \in {14, 15}
  <2>1. "uploads" \in DOMAIN d.schema  BY <1>e DEF Built, Native, Initial
  <2>2. \A cols : d.schema["uploads"].cols \cap (cols \ d.schema["uploads"].cols) = {}  OBVIOUS
  <2>3. \A cols, defaulted : AddMissing(d, "uploads", cols, defaulted) # {}
    BY <2>1, <2>2, Accepted DEF AddMissing
  <2> QED BY <1>e, <2>3 DEF Up, UpInstagram, UpInstagramRetry
<1>f. CASE i = 16  BY <1>f, AcceptedChat DEF Up
<1>g. CASE i = 17  BY <1>g, AcceptedChat DEF Up
<1> QED BY <1>1, <1>2, <1>3, <1>4, <1>8, <1>9, <1>a, <1>b, <1>c, <1>d, <1>e, <1>f, <1>g

-----------------------------------------------------------------------------
BuiltInv == RevInv /\ (~foreign => Built(rev, db) /\ TypesBuilt(rev, types))

LEMMA BuiltUpgrade ==
  ASSUME NEW from \in 0..17, NEW top \in from..17, NEW d, Built(from, d), NEW e \in UpgradeTo(from, top, d)
  PROVE  Built(top, e)
<1>0. PICK f : Route(from, top, d, f)  BY UpgradeIs
<1>1. /\ UpgradeTo(from, top, d) = f[top] /\ f[from] = {d}
      /\ \A i \in (from + 1)..top : f[i] = UNION {Up(i, x) : x \in f[i - 1]}
  BY <1>0 DEF Route
<1> DEFINE S == {n \in from..17 : n <= top => \A x \in f[n] : Built(n, x)}
<1>2. from \in S  BY <1>1
<1>3. ASSUME NEW n \in S, n \in 0..16 PROVE n + 1 \in S
  <2> SUFFICES ASSUME n + 1 <= top, NEW y \in f[n + 1] PROVE Built(n + 1, y)
    BY <1>3
  <2>1. n + 1 \in (from + 1)..top /\ (n + 1) - 1 = n /\ n + 1 \in 1..17  BY <1>3
  <2>2. PICK x \in f[n] : y \in Up(n + 1, x)  BY <1>1, <2>1
  <2>3. Built(n, x)  BY <2>1
  <2> QED BY <2>1, <2>2, <2>3, BuiltUp
<1> HIDE DEF S
<1>4. from..17 \subseteq S  BY <1>2, <1>3, ChainInduction
<1> QED BY <1>1, <1>4 DEF S

LEMMA BuiltInit == InitSchema => BuiltInv
<1>1. Native(0) = {} /\ Extra(0) = {}  BY DEF Native, Extra
<1>2. TypesBuilt(0, {})  BY DEF TypesBuilt, RestTypes, NoVoice
<1> QED BY <1>1, <1>2, EmptyIs DEF InitSchema, BuiltInv, RevInv, Built

LEMMA BuiltStep == BuiltInv /\ [NextSchema]_schemaVars => BuiltInv'
<1> SUFFICES ASSUME BuiltInv, [NextSchema]_schemaVars PROVE BuiltInv'  OBVIOUS
<1>0. rev \in 0..17 /\ (~foreign => Built(rev, db) /\ TypesBuilt(rev, types))
  BY DEF BuiltInv, RevInv
<1>1. ASSUME NEW target \in 1..HeadRevision, Deploy(target) PROVE BuiltInv'
  <2>1. /\ rev' = target /\ target \in (rev + 1)..17 /\ db' \in UpgradeTo(rev, target, db)
        /\ types' \in TypesTo(rev, target, types) /\ foreign' = foreign
    BY <1>1 DEF Deploy, HeadRevision
  <2>2. target \in rev..17  BY <1>0, <2>1
  <2>3. ~foreign => Built(target, db')  BY <1>0, <2>1, <2>2, BuiltUpgrade
  <2>4. ~foreign => TypesBuilt(target, types')  BY <1>0, <2>1, <2>2, TypesUpgrade
  <2> QED BY <1>0, <2>1, <2>3, <2>4 DEF BuiltInv, RevInv
<1>2. CASE Downgrade
  <2>1. /\ rev \in 1..17 /\ db' \in Down(rev, db) /\ types' \in DownTypes(rev, types)
        /\ rev' = rev - 1 /\ foreign' = foreign
    BY <1>0, <1>2 DEF Downgrade
  <2>2. ~foreign => rev # 2 /\ Built(rev - 1, db')  BY <1>0, <2>1, BuiltDown
  <2>3. ~foreign => TypesBuilt(rev - 1, types')  BY <1>0, <2>1, <2>2, TypesBuiltDown
  <2> QED BY <1>0, <2>1, <2>2, <2>3 DEF BuiltInv, RevInv
<1>3. CASE CreateAll
  BY <1>0, <1>3 DEF CreateAll, BuiltInv, RevInv
<1>4. CASE Stamp
  <2>1. rev = 0 /\ rev' = 13 /\ foreign' = foreign /\ Tables \subseteq DOMAIN db.schema  BY <1>4 DEF Stamp
  <2>2. ~foreign => DOMAIN db.schema = {}  BY <1>0, <2>1 DEF Built, Native, Extra
  <2>3. Tables # {}  BY TablesAre
  <2> QED BY <2>1, <2>2, <2>3 DEF BuiltInv, RevInv
<1>5. ASSUME NEW t \in Tracked, Use(t) PROVE BuiltInv'
  <2>1. /\ rev' = rev /\ types' = types /\ db' = [db EXCEPT !.rows = @ \cup {t}]
        /\ foreign' = foreign /\ t \in DOMAIN db.schema
    BY <1>5 DEF Use
  <2> SUFFICES ASSUME ~foreign PROVE Built(rev, db')
    BY <1>0, <2>1 DEF BuiltInv, RevInv
  <2>2. IsDb(db') /\ db'.schema = db.schema  BY <1>0, <2>1 DEF IsDb, Built
  <2>3. rev # 0  BY <1>0, <2>1 DEF Built, Native, Extra
  <2> QED BY <1>0, <2>2, <2>3 DEF Built
<1>6. CASE UNCHANGED schemaVars
  BY <1>6 DEF schemaVars, BuiltInv, RevInv
<1> QED BY <1>1, <1>2, <1>3, <1>4, <1>5, <1>6 DEF NextSchema

\* What the tables let through of an upgrade to the head ...
LEMMA Reaches ==
  ASSUME NEW from \in 0..17, NEW d, Built(from, d), from = 1 => "thumbnails" \notin d.rows,
         from = 16 => Chat \cap DOMAIN d.schema # {}
  PROVE  UpgradeTo(from, 17, d) # {}
<1>0. PICK f : Route(from, 17, d, f)  BY UpgradeIs
<1>1. /\ UpgradeTo(from, 17, d) = f[17] /\ f[from] = {d}
      /\ \A i \in (from + 1)..17 : f[i] = UNION {Up(i, x) : x \in f[i - 1]}
  BY <1>0 DEF Route
<1> DEFINE Ready(n, x) == /\ Built(n, x) /\ (n = 1 => "thumbnails" \notin x.rows)
                          /\ (n = 16 => Chat \subseteq DOMAIN x.schema)
           S == {n \in from..17 : \E x \in f[n] : Ready(n, x)}
<1>2. from \in S
  <2>1. from = 16 => Chat \subseteq DOMAIN d.schema  BY DEF Built
  <2> QED BY <1>1, <2>1
<1>3. ASSUME NEW n \in S, n \in 0..16 PROVE n + 1 \in S
  <2>1. n + 1 \in (from + 1)..17 /\ (n + 1) - 1 = n /\ n + 1 \in 1..17 /\ n + 1 \in from..17  BY <1>3
  <2>2. PICK x \in f[n] : Ready(n, x)  OBVIOUS
  <2>3. Up(n + 1, x) # {}
    <3>1. n + 1 = 2 => "thumbnails" \notin x.rows  BY <2>1, <2>2
    <3>2. n + 1 = 17 => Chat \subseteq DOMAIN x.schema  BY <2>1, <2>2
    <3> QED BY <2>1, <2>2, <3>1, <3>2, AcceptedUp
  <2>4. PICK y \in Up(n + 1, x) : TRUE  BY <2>3
  <2>5. y \in f[n + 1]  BY <1>1, <2>1, <2>4
  <2>6. Built(n + 1, y)  BY <2>1, <2>2, <2>4, BuiltUp
  <2>7. n + 1 \notin {2, 12} => UpStep(n + 1, x, y)
    <3>1. IsDb(x)  BY <2>2 DEF Built
    <3> QED BY <2>1, <2>4, <3>1, UpSteps
  <2>8. n + 1 = 1 => "thumbnails" \notin y.rows
    <3> HAVE n + 1 = 1
    <3>1. n = 0  BY <2>1
    <3>2. x.rows = {}  BY <2>2, <3>1 DEF Built
    <3> QED BY <2>7, <3>2 DEF UpStep
  <2>9. n + 1 = 16 => Chat \subseteq DOMAIN y.schema
    <3> HAVE n + 1 = 16
    <3>1. Made(n + 1) = Chat /\ Dropped(n + 1) = {}  BY DEF Made, Dropped
    <3> QED BY <2>7, <3>1 DEF UpStep
  <2>a. Ready(n + 1, y)  BY <2>6, <2>8, <2>9
  <2> QED BY <2>1, <2>5, <2>a
<1> HIDE DEF S
<1>4. from..17 \subseteq S  BY <1>2, <1>3, ChainInduction
<1> QED BY <1>1, <1>4 DEF S

\* ... and what they stop.
LEMMA Stops ==
  ASSUME NEW d, NEW from \in {1, 16}, Built(from, d),
         from = 1 => "thumbnails" \in d.rows, from = 16 => Chat \cap DOMAIN d.schema = {}
  PROVE  UpgradeTo(from, 17, d) = {}
<1>0. PICK f : Route(from, 17, d, f)  BY UpgradeIs
<1>1. /\ UpgradeTo(from, 17, d) = f[17] /\ f[from] = {d}
      /\ \A i \in (from + 1)..17 : f[i] = UNION {Up(i, x) : x \in f[i - 1]}
  BY <1>0 DEF Route
<1>2. Up(from + 1, d) = {}
  <2>1. IsDb(d)  BY DEF Built
  <2>2. CASE from = 1  BY <2>1, <2>2, ThumbnailStep
  <2>3. CASE from = 16
    <3>1. Chat # {}  BY TablesAre
    <3>2. UpChatUuid(d) = {}  BY <2>1, <2>3, <3>1, ChatSteps
    <3> QED BY <2>3, <3>2 DEF Up
  <2> QED BY <2>2, <2>3
<1>3. f[from + 1] = {}
  <2>1. from + 1 \in (from + 1)..17 /\ (from + 1) - 1 = from  OBVIOUS
  <2> QED BY <1>1, <1>2, <2>1
<1> DEFINE S == {n \in (from + 1)..17 : f[n] = {}}
<1>4. from + 1 \in S /\ from + 1 \in 0..17  BY <1>3
<1>5. ASSUME NEW n \in S, n \in 0..16 PROVE n + 1 \in S
  <2>1. n + 1 \in (from + 1)..17 /\ (n + 1) - 1 = n /\ f[n] = {}  BY <1>5
  <2> QED BY <1>1, <2>1
<1> HIDE DEF S
<1>6. (from + 1)..17 \subseteq S  BY <1>4, <1>5, ChainInduction
<1> QED BY <1>1, <1>6 DEF S

LEMMA BuiltBlocks == BuiltInv => OnlyKnownBlocks
<1> DEFINE refused == UpgradeTo(rev, 17, db) = {}
           retyped == TypesTo(rev, 17, types) = {}
           thumbs == rev = 1 /\ "thumbnails" \in db.rows
           leftover == rev \in {2, 3} /\ VoiceTypes \subseteq types
           halfway == rev \in 4..6 /\ ~CreateTypeHeeded
           chatless == rev = 16 /\ Chat \cap DOMAIN db.schema = {}
<1> SUFFICES ASSUME BuiltInv, ~foreign
             PROVE  (refused \/ retyped) <=> thumbs \/ leftover \/ halfway \/ chatless
  BY DEF OnlyKnownBlocks, HeadRevision
<1>1. rev \in 0..17 /\ Built(rev, db) /\ TypesBuilt(rev, types)  BY DEF BuiltInv, RevInv
<1>2. thumbs \/ chatless => refused  BY <1>1, Stops
<1>3. leftover \/ halfway => retyped  BY <1>1, TypesStop
<1>4. ~thumbs /\ ~chatless => ~refused  BY <1>1, Reaches
<1>5. ~leftover /\ ~halfway => ~retyped
  <2>1. VoiceTypes \subseteq types \/ NoVoice(types)  BY <1>1 DEF TypesBuilt
  <2> QED BY <1>1, <2>1, TypesReach
<1> HIDE DEF refused, retyped, thumbs, leftover, halfway, chatless
<1> QED BY <1>2, <1>3, <1>4, <1>5

\* On a database that migrations alone built, "alembic upgrade head" (Dockerfile
\* runs it before the server) is refused in exactly four places: at the initial
\* revision with thumbnails stored; after a step back over 3292438b4131, which
\* leaves enum types; between that revision and 1556a22b425e, when the SQLAlchemy
\* installed does not heed create_type=False; and one below the head once the
\* downgrade of e6f7a8b9c0d1 has dropped the chat tables.  Everywhere else it
\* succeeds, whichever SQLAlchemy is installed.
THEOREM BlocksAreKnown == SchemaSpec => []OnlyKnownBlocks
<1>1. SchemaSpec => []BuiltInv
  BY BuiltInit, BuiltStep, PTL DEF SchemaSpec
<1> QED BY <1>1, BuiltBlocks, PTL

LEMMA SameShape ==
  ASSUME NEW r, NEW t, NEW a, NEW b, IsTable(a), IsTable(b), Shaped(r, t, a), Shaped(r, t, b)
  PROVE  a = b
BY DEF IsTable, Shaped

LEMMA Undone ==
  ASSUME NEW i \in 1..16, NEW d, Built(i, d), NEW e \in Down(i, d)
  PROVE  \E x \in UpgradeTo(i - 1, i, e) : x.schema = d.schema
<1>1. i \notin {1, 2, 12} /\ DownStep(i, d, e) /\ Built(i - 1, e)  BY BuiltDown
<1>2. Up(i, e) # {}  BY <1>1, AcceptedUp
<1>3. PICK x \in Up(i, e) : TRUE  BY <1>2
<1>4. UpStep(i, e, x) /\ Built(i, x)
  <2>1. IsDb(e)  BY <1>1 DEF Built
  <2> QED BY <1>1, <2>1, UpSteps, BuiltUp
<1>5. DOMAIN x.schema = DOMAIN d.schema
  BY <1>1, <1>4, NativeGrows DEF UpStep, DownStep
<1>6. ASSUME NEW t \in DOMAIN d.schema PROVE x.schema[t] = d.schema[t]
  <2>1. Shaped(i, t, d.schema[t]) /\ IsTable(d.schema[t])  BY DEF Built, IsDb, IsSchema
  <2>2. Shaped(i, t, x.schema[t]) /\ IsTable(x.schema[t])  BY <1>4, <1>5 DEF Built, IsDb, IsSchema
  <2> QED BY <2>1, <2>2, SameShape
<1>7. x.schema = d.schema
  <2>1. IsSchema(x.schema) /\ IsSchema(d.schema)  BY <1>4 DEF Built, IsDb
  <2> QED BY <1>5, <1>6, <2>1 DEF IsSchema
<1>8. x \in UpgradeTo(i - 1, i, e)
  <2>1. i - 1 \in 0..17 /\ i \in (i - 1)..17 /\ i \in ((i - 1) + 1)..i  OBVIOUS
  <2>2. PICK f : Route(i - 1, i, e, f)  BY <2>1, UpgradeIs
  <2>3. UpgradeTo(i - 1, i, e) = UNION {Up(i, y) : y \in {e}}  BY <2>1, <2>2 DEF Route
  <2> QED BY <1>3, <2>3
<1> QED BY <1>7, <1>8

LEMMA TypesUndone ==
  ASSUME NEW i \in 1..16, i # 2, i \notin OneWay, NEW ts, TypesBuilt(i, ts), NEW us \in DownTypes(i, ts)
  PROVE  ts \in TypesTo(i - 1, i, us)
<1>1. ~Twice(i, us, i - 1)  BY DEF Twice, OneWay
<1>2. ts \in UpTypes(i, us, i - 1)  BY <1>1, TypesBuiltDown
<1>3. i - 1 \in 0..17 /\ i \in (i - 1)..17 /\ i \in ((i - 1) + 1)..i  OBVIOUS
<1>4. PICK f : RouteTypes(i - 1, i, us, f)  BY <1>3, TypesToIs
<1>5. TypesTo(i - 1, i, us) = UNION {UpTypes(i, y, i - 1) : y \in {us}}  BY <1>3, <1>4 DEF RouteTypes
<1> QED BY <1>2, <1>5

\* "alembic downgrade -1" on such a database is undone by the upgrade, but from
\* the head and from the two revisions that leave enum types behind (1556a22b425e
\* only when SQLAlchemy does not heed create_type=False): every table, column,
\* rule, index and enum type comes back.
\* (Revisions 1, 2 and 12 cannot be stepped back over: PostgreSQL or Alembic
\* refuses a statement of their downgrades.)
THEOREM StepsBackAreUndone == SchemaSpec => StepBackIsUndone
<1> DEFINE Undo == (rev' < rev /\ ~foreign /\ rev \notin OneWay) =>
                     /\ \E d \in UpgradeTo(rev', rev, db') : d.schema = db.schema
                     /\ types \in TypesTo(rev', rev, types')
<1>1. ASSUME BuiltInv, [NextSchema]_schemaVars PROVE Undo
  <2> SUFFICES ASSUME rev' < rev, ~foreign, rev \notin OneWay
               PROVE  /\ \E d \in UpgradeTo(rev', rev, db') : d.schema = db.schema
                      /\ types \in TypesTo(rev', rev, types')
    OBVIOUS
  <2>1. rev \in 0..17 /\ Built(rev, db) /\ TypesBuilt(rev, types)  BY <1>1 DEF BuiltInv, RevInv
  <2>2. Downgrade
    <3>1. ASSUME NEW target \in 1..HeadRevision, Deploy(target) PROVE FALSE
      BY <2>1, <3>1 DEF Deploy, HeadRevision
    <3>2. ~CreateAll /\ ~Stamp /\ (\A t \in Tracked : ~Use(t)) /\ ~(UNCHANGED schemaVars)
      BY <2>1 DEF CreateAll, Stamp, Use, schemaVars
    <3> QED BY <1>1, <3>1, <3>2 DEF NextSchema
  <2>3. rev # 17  BY DEF OneWay, HeadRevision
  <2>4. rev \in 1..16 /\ rev' = rev - 1 /\ db' \in Down(rev, db) /\ types' \in DownTypes(rev, types)
    BY <2>1, <2>2, <2>3 DEF Downgrade
  <2>5. rev # 2  BY <2>1, <2>4, BuiltDown
  <2>6. \E d \in UpgradeTo(rev', rev, db') : d.schema = db.schema  BY <2>1, <2>4, Undone
  <2>7. types \in TypesTo(rev', rev, types')  BY <2>1, <2>4, <2>5, TypesUndone
  <2> QED BY <2>6, <2>7
<1>2. BuiltInv /\ [NextSchema]_schemaVars => [Undo]_schemaVars
  BY <1>1
<1>3. SchemaSpec => []BuiltInv
  BY BuiltInit, BuiltStep, PTL DEF SchemaSpec
<1>4. SchemaSpec => [][Undo]_schemaVars
  BY <1>2, <1>3, PTL DEF SchemaSpec
<1> QED BY <1>4 DEF StepBackIsUndone
=============================================================================
