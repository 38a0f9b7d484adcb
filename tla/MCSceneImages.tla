---------------------------- MODULE MCSceneImages ----------------------------
(***************************************************************************)
(* Two films of one script; its second scene says nothing.  They are made  *)
(* by an application that is started after its database was migrated       *)
(* ("alembic upgrade head" before uvicorn), which happens while it is      *)
(* down.  Bounds: it starts on the database of a first deployment, and is  *)
(* not stopped for a migration again.                                      *)
(***************************************************************************)
EXTENDS SceneImages, SchemaMigrations

CONSTANTS s1, p1, p2

MCScriptOf == [f \in Films |-> s1]
MCScenesOf == [s \in {s1} |-> <<p1, NoPrompt, p2>>]

FirstDeployment ==
  [dbs |-> UpgradeTo(0, HeadRevision, EmptyDb),
   typesMade |-> TypesTo(0, HeadRevision, {})]

\* The application is down, or was started and leaves the schema alone.
Stopped == Init /\ UNCHANGED vars
Running ==
  /\ rev = HeadRevision /\ ~foreign
  /\ db \in FirstDeployment.dbs
  /\ types \in FirstDeployment.typesMade
  /\ UNCHANGED schemaVars

Migration ==
  \/ \E target \in 1..HeadRevision : Stopped /\ Deploy(target)
  \/ Stopped /\ Downgrade
  \/ Stopped /\ CreateAll
  \/ Stopped /\ Stamp
  \/ \E t \in Tracked : Stopped /\ Use(t)

FilmStep ==
  \/ \E f \in Films :
       \/ Running /\ Begin(f)
       \/ Running /\ Scene(f)
       \/ Running /\ End(f)
       \/ Running /\ Search(f)
       \/ Running /\ Enter(f)
       \/ Running /\ Answered(f)
       \/ Running /\ HfFails(f)
       \/ Running /\ TooMany(f)
       \/ Running /\ AskAgain(f)
       \/ Running /\ PollinationsFails(f)
       \/ Running /\ Store(f)
       \/ Running /\ StoreFails(f)
       \/ Running /\ Pause(f)
       \/ Running /\ Render(f)
       \/ Running /\ CommitFails(f)
  \/ Running /\ Crash

FirstStart == Init /\ InitSchema

DeployedSpec ==
  /\ FirstStart
  /\ [][Migration \/ FilmStep]_<<vars, schemaVars>>
  /\ \A f \in Films : WF_vars(Step(f))
=============================================================================
