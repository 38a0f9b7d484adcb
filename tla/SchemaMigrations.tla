--------------------------- MODULE SchemaMigrations ---------------------------
(***************************************************************************)
(* The Alembic revisions of the studio's PostgreSQL database, as programs  *)
(* on an abstract schema, and the commands that run them: a release        *)
(* deploys with "alembic upgrade" to its own head, an operator may step    *)
(* back, init_db may create_all in development, and the deployment guide   *)
(* stamps such a database.  env.py runs one command in one transaction and *)
(* PostgreSQL's DDL is transactional: a command that fails changes         *)
(* nothing, so only commands that succeed are steps here.                  *)
(*                                                                         *)
(* A revision is two programs, one on the tables and one on the enum types *)
(* of the database.  Each maps what it finds to the set of its outcomes:   *)
(* one, or none when a statement is refused.  A command succeeds when both *)
(* do (no type is dropped while a column of it is left).  The text of a    *)
(* column and the labels of a type are left out.                           *)
(***************************************************************************)
EXTENDS Integers, OrmModels

CONSTANTS
  Tracked,      \* bound: tables for which the model records whether they hold rows
  DevMode,      \* settings.dev_auto_create_tables may be on
  CreateTypeHeeded  \* the installed SQLAlchemy (requirements.txt pins none) heeds
                    \* create_type=False on a sa.Enum inside op.create_table

ASSUME MigrationAssumption ==
  /\ Tracked \subseteq Tables
  /\ DevMode \in BOOLEAN
  /\ CreateTypeHeeded \in BOOLEAN

VARIABLES
  rev,          \* revisions applied, 0: no alembic_version row
  db,           \* [schema |-> table to its shape, rows |-> tables holding rows]
  types,        \* enum types made since the initial revision
  foreign       \* create_all made a table that no revision made

schemaVars == <<rev, db, types, foreign>>

(***************************************************************************)
(* PostgreSQL statements, as Alembic's operations emit them.               *)
(***************************************************************************)
Then(D, F(_)) == UNION {F(d) : d \in D}

Parents(tab) == {r.parent : r \in tab.refs}

\* The tables of old, and those of new that it has not.
With(old, new) ==
  [t \in DOMAIN old \cup DOMAIN new |-> IF t \in DOMAIN old THEN old[t] ELSE new[t]]

\* CREATE TABLE for every table of new: none exists yet, every parent does.
Create(d, new) ==
  IF /\ DOMAIN new \cap DOMAIN d.schema = {}
     /\ \A t \in DOMAIN new :
          Parents(new[t]) \subseteq DOMAIN new \cup DOMAIN d.schema
  THEN {[d EXCEPT !.schema = With(@, new)]}
  ELSE {}

\* DROP TABLE for every table of ts: all exist, no other table refers to them.
Drop(d, ts) ==
  LET rest == DOMAIN d.schema \ ts IN
  IF ts \subseteq DOMAIN d.schema /\ \A t \in rest : Parents(d.schema[t]) \cap ts = {}
  THEN {[schema |-> [t \in rest |-> d.schema[t]], rows |-> d.rows \ ts]}
  ELSE {}

DropIfExists(d, t) == IF t \in DOMAIN d.schema THEN Drop(d, {t}) ELSE {d}

Alter(d, t, tab) == [d EXCEPT !.schema = [@ EXCEPT ![t] = tab]]

\* ADD COLUMN; defaulted are those that carry a server default.
Widened(tab, cols, defaulted) ==
  [tab EXCEPT !.cols = @ \cup cols, !.defaults = @ \cup defaulted]

AddColumns(d, t, cols, defaulted) ==
  IF t \in DOMAIN d.schema /\ d.schema[t].cols \cap cols = {}
  THEN {Alter(d, t, Widened(d.schema[t], cols, defaulted))}
  ELSE {}

Narrowed(tab, cols) == [tab EXCEPT !.cols = @ \ cols, !.defaults = @ \ cols]

DropColumns(d, t, cols) ==
  IF t \in DOMAIN d.schema /\ cols \subseteq d.schema[t].cols
  THEN {Alter(d, t, Narrowed(d.schema[t], cols))}
  ELSE {}

\* CREATE INDEX and DROP INDEX: the secondary indexes of t from now on.
Index(d, t, indexes) == Alter(d, t, [d.schema[t] EXCEPT !.indexes = indexes])

\* DROP CONSTRAINT with no name: Alembic cannot emit it and raises.
DropUnnamedConstraint(d) == {}

(***************************************************************************)
(* 0001_initial.                                                           *)
(***************************************************************************)
Created(refs) ==
  [refs |-> refs, cols |-> {}, key |-> "uuid", indexes |-> {"*"}, defaults |-> {"*"}]

Accounts == [users |-> Created({}), channels |-> Created({})]

Ideas ==
  [topics |-> Created({Ref("channel_id", "channels", "cascade")}),
   research |-> Created({Ref("topic_id", "topics", "cascade")}),
   scripts |-> Created({Ref("topic_id", "topics", "cascade"),
                      Ref("channel_id", "channels", "cascade")})]

Artefacts ==
  [storyboards |-> Created({Ref("script_id", "scripts", "cascade")}),
   quality_reports |-> Created({Ref("script_id", "scripts", "cascade")}),
   videos |-> Created({Ref("script_id", "scripts", "cascade")}),
   thumbnails |-> [Created({Ref("video_id", "videos", "cascade")})
                     EXCEPT !.indexes = {}]]

Publications ==
  [uploads |-> Created({Ref("video_id", "videos", "cascade")}),
   analytics |-> Created({Ref("upload_id", "uploads", "cascade")}),
   agent_logs |-> Created({})]

InitialTables == With(With(Accounts, Ideas), With(Artefacts, Publications))

UpInitial(d) == Create(d, InitialTables)

\* The list of drop_table calls leaves storyboards out.
DownInitial(d) == Drop(d, DOMAIN InitialTables \ {"storyboards"})

(***************************************************************************)
(* 45d7c2c90c5a: no server defaults, no indexes, no ON DELETE rules, and   *)
(* a thumbnail belongs to a script (a NOT NULL column without a default).  *)
(***************************************************************************)
Plain(tab) ==
  [tab EXCEPT !.refs = {Ref(r.col, r.parent, "none") : r \in tab.refs},
              !.indexes = {}, !.defaults = {}]

UpThumbnailUsesScript(d) ==
  IF "thumbnails" \in d.rows THEN {} ELSE
  {[d EXCEPT !.schema = [t \in DOMAIN @ |->
      IF t = "thumbnails"
      THEN [Plain(@[t]) EXCEPT !.cols = {"script_id"},
                               !.refs = {Ref("script_id", "scripts", "none")}]
      ELSE IF t \in DOMAIN InitialTables THEN Plain(@[t]) ELSE @[t]]]}

DownThumbnailUsesScript(d) == DropUnnamedConstraint(d)

(***************************************************************************)
(* 3292438b4131, d119ce13fc55, f075aeb4928a and 1556a22b425e: the voices   *)
(* table is created, dropped twice and created again.                      *)
(***************************************************************************)
VoicesTable ==
  [voices |-> Table({Ref("script_id", "scripts", "none")}, {})]

UpAddVoice(d) == Create(d, VoicesTable)
DownAddVoice(d) == Drop(d, {"voices"})
UpAddVideo(d) == DropIfExists(d, "voices")
DownAddVideo(d) == Create(d, VoicesTable)
UpAddUpload(d) == DropIfExists(d, "voices")
DownAddUpload(d) == Create(d, VoicesTable)
UpRestoreVoice(d) == Create(d, VoicesTable)
DownRestoreVoice(d) == Drop(d, {"voices"})

(***************************************************************************)
(* 20260703_000000 to a1b2c3d4e5f6: pipeline runs, retries, automation,    *)
(* the SEO gate score.                                                     *)
(***************************************************************************)
PipelineTable ==
  [pipeline_runs |-> Created({Ref("topic_id", "topics", "cascade"),
                            Ref("channel_id", "channels", "cascade"),
                            Ref("script_id", "scripts", "null"),
                            Ref("video_id", "videos", "null"),
                            Ref("upload_id", "uploads", "null")})]

UpPipeline(d) ==
  Then(AddColumns(d, "uploads", {"publish_status"}, {"publish_status"}),
       LAMBDA x : {Index(y, "uploads", {"publish_status"}) : y \in Create(x, PipelineTable)})

DownPipeline(d) ==
  Then(Drop(d, {"pipeline_runs"}),
       LAMBDA x : {Index(y, "uploads", {}) :
                     y \in DropColumns(x, "uploads", {"publish_status"})})

RetryColumns == {"retry_count", "max_retries", "next_retry_at"}

UpRetry(d) ==
  Then(AddColumns(d, "pipeline_runs", RetryColumns, {"retry_count", "max_retries"}),
       LAMBDA x : AddColumns(x, "uploads", RetryColumns, {"retry_count", "max_retries"}))

\* Faulty variant: the columns of uploads are left behind.
DownRetryRuns(d) == DropColumns(d, "pipeline_runs", RetryColumns)

DownRetry(d) ==
  Then(DropColumns(d, "pipeline_runs", RetryColumns),
       LAMBDA x : DropColumns(x, "uploads", RetryColumns))

AutomationTable ==
  [channel_automations |->
     [Created({Ref("channel_id", "channels", "cascade")}) EXCEPT !.indexes = {}]]

UpAutomation(d) ==
  Then(AddColumns(d, "channels", {"timezone", "is_archived"},
                  {"timezone", "is_archived"}),
       LAMBDA x : Create(x, AutomationTable))

DownAutomation(d) ==
  Then(Drop(d, {"channel_automations"}),
       LAMBDA x : DropColumns(x, "channels", {"timezone", "is_archived"}))

UpSeoGate(d) == AddColumns(d, "scripts", {"seo_gate_score"}, {"seo_gate_score"})
DownSeoGate(d) == DropColumns(d, "scripts", {"seo_gate_score"})

(***************************************************************************)
(* 9867e4d709e3: the tables added since 45d7c2c90c5a lose their defaults,  *)
(* indexes and ON DELETE rules (channel_automations keeps its foreign key).*)
(***************************************************************************)
Undefaulted(tab) == [tab EXCEPT !.defaults = {}]

\* Faulty variant: the foreign keys of pipeline_runs are left as they were.
UpKokoroKeepsRules(d) ==
  {[d EXCEPT !.schema = [t \in DOMAIN @ |->
      CASE t \in {"pipeline_runs", "uploads"} -> Undefaulted([@[t] EXCEPT !.indexes = {}])
        [] t \in {"channel_automations", "channels", "scripts"} -> Undefaulted(@[t])
        [] OTHER -> @[t]]]}

UpKokoro(d) ==
  {[d EXCEPT !.schema = [t \in DOMAIN @ |->
      CASE t = "pipeline_runs" -> Plain(@[t])
        [] t = "uploads" -> Undefaulted([@[t] EXCEPT !.indexes = {}])
        [] t \in {"channel_automations", "channels", "scripts"} -> Undefaulted(@[t])
        [] OTHER -> @[t]]]}

DownKokoro(d) == DropUnnamedConstraint(d)

UpVoiceGender(d) ==
  Then(AddColumns(d, "scripts", {"voice_gender"}, {}),
       LAMBDA x : AddColumns(x, "voices", {"voice_gender"}, {}))

DownVoiceGender(d) ==
  Then(DropColumns(d, "voices", {"voice_gender"}),
       LAMBDA x : DropColumns(x, "scripts", {"voice_gender"}))

(***************************************************************************)
(* b3c4d5e6f7a8 to e6f7a8b9c0d1 look at the database before they change it.*)
(***************************************************************************)
AddMissing(d, t, cols, defaulted) ==
  LET missing == cols \ d.schema[t].cols IN
  AddColumns(d, t, missing, defaulted \cap missing)

InstagramColumns == {"instagram_scheduled_at", "instagram_posted",
                     "instagram_posted_at", "instagram_media_id"}
InstagramRetryColumns == {"instagram_retry_count", "instagram_failed_permanently"}

UpInstagram(d) == AddMissing(d, "uploads", InstagramColumns, {"instagram_posted"})
DownInstagram(d) == DropColumns(d, "uploads", InstagramColumns)

UpInstagramRetry(d) ==
  AddMissing(d, "uploads", InstagramRetryColumns, InstagramRetryColumns)
DownInstagramRetry(d) == DropColumns(d, "uploads", InstagramRetryColumns)

ChatTables(key) ==
  [chat_sessions |-> [ChatSession EXCEPT !.key = key],
   chat_messages |-> [ChatMessage EXCEPT !.key = key, !.indexes = {"*"}],
   chat_unresolved |-> [ChatUnresolved EXCEPT !.key = key],
   knowledge_docs |-> [KnowledgeDoc EXCEPT !.key = key, !.defaults = {"*"}]]

Chat == DOMAIN ChatTables("uuid")

UpChat(d) ==
  LET new == ChatTables("text") IN
  Create(d, [t \in Chat \ DOMAIN d.schema |-> new[t]])

DownChat(d) == Drop(d, Chat)

\* Faulty variant: the tables are dropped only where they exist.
UpChatUuidIfExists(d) ==
  Then(Drop(d, Chat \cap DOMAIN d.schema), LAMBDA x : Create(x, ChatTables("uuid")))

UpChatUuid(d) == Then(Drop(d, Chat), LAMBDA x : Create(x, ChatTables("uuid")))

DownChatUuid(d) == Drop(d, Chat)

(***************************************************************************)
(* The enum types (those of the initial revision never go again).          *)
(* op.create_table issues CREATE TYPE for the enums of its columns without *)
(* looking whether they exist; from is the revision the command started    *)
(* at, for Alembic remembers what it created since.                        *)
(***************************************************************************)
VoiceTypes == {"voiceprovider", "voicestatus"}
RunTypes == {"publishstatus", "pipelinestatus"}
ModelTypes == VoiceTypes \cup RunTypes \cup {"automationstatus"}

CreateTypes(ts, new) == IF ts \cap new = {} THEN {ts \cup new} ELSE {}

\* Each type is made where it is missing, then the table is created, whose
\* columns say create_type=False: after revision 4 of the same command, or when
\* that is heeded, no second CREATE TYPE is issued.
RestoreVoiceTypes(ts, from) ==
  LET present == ts \cup VoiceTypes IN
  IF CreateTypeHeeded \/ from < 4 THEN {present} ELSE CreateTypes(present, VoiceTypes)

PipelineTypes(ts) == CreateTypes(ts \cup {"publishstatus"}, {"pipelinestatus"})

UpTypes(i, ts, from) ==
  CASE i = 4 -> CreateTypes(ts, VoiceTypes)
    [] i \in {5, 6} -> {ts \ VoiceTypes}
    [] i = 7 -> RestoreVoiceTypes(ts, from)
    [] i = 8 -> PipelineTypes(ts)
    [] i = 10 -> CreateTypes(ts, {"automationstatus"})
    [] i = 12 -> IF "voiceprovider" \in ts THEN {ts} ELSE {}
    [] OTHER -> {ts}

\* The downgrades of revisions 4 and 7 drop the table and leave its types.
DownTypes(i, ts) ==
  CASE i \in {5, 6} -> CreateTypes(ts, VoiceTypes)
    [] i = 8 -> {ts \ RunTypes}
    [] i = 10 -> {ts \ {"automationstatus"}}
    [] OTHER -> {ts}

(***************************************************************************)
(* The revision chain: revision i has down_revision i - 1; a245cfb48e3c    *)
(* does nothing either way.                                                *)
(***************************************************************************)
HeadRevision == 17

Up(i, d) ==
  CASE i = 1 -> UpInitial(d)        [] i = 2 -> UpThumbnailUsesScript(d)
    [] i = 3 -> {d}                 [] i = 4 -> UpAddVoice(d)
    [] i = 5 -> UpAddVideo(d)       [] i = 6 -> UpAddUpload(d)
    [] i = 7 -> UpRestoreVoice(d)   [] i = 8 -> UpPipeline(d)
    [] i = 9 -> UpRetry(d)          [] i = 10 -> UpAutomation(d)
    [] i = 11 -> UpSeoGate(d)       [] i = 12 -> UpKokoro(d)
    [] i = 13 -> UpVoiceGender(d)   [] i = 14 -> UpInstagram(d)
    [] i = 15 -> UpInstagramRetry(d) [] i = 16 -> UpChat(d)
    [] i = 17 -> UpChatUuid(d)

Down(i, d) ==
  CASE i = 1 -> DownInitial(d)      [] i = 2 -> DownThumbnailUsesScript(d)
    [] i = 3 -> {d}                 [] i = 4 -> DownAddVoice(d)
    [] i = 5 -> DownAddVideo(d)     [] i = 6 -> DownAddUpload(d)
    [] i = 7 -> DownRestoreVoice(d) [] i = 8 -> DownPipeline(d)
    [] i = 9 -> DownRetry(d)        [] i = 10 -> DownAutomation(d)
    [] i = 11 -> DownSeoGate(d)     [] i = 12 -> DownKokoro(d)
    [] i = 13 -> DownVoiceGender(d) [] i = 14 -> DownInstagram(d)
    [] i = 15 -> DownInstagramRetry(d) [] i = 16 -> DownChat(d)
    [] i = 17 -> DownChatUuid(d)

\* The revisions from + 1 to target in one transaction.
UpgradeTo(from, target, d) ==
  LET outcomes[i \in from..target] ==
        IF i = from THEN {d} ELSE Then(outcomes[i - 1], LAMBDA x : Up(i, x))
  IN  outcomes[target]

TypesTo(from, target, ts) ==
  LET outcomes[i \in from..target] ==
        IF i = from THEN {ts} ELSE Then(outcomes[i - 1], LAMBDA x : UpTypes(i, x, from))
  IN  outcomes[target]
-----------------------------------------------------------------------------
EmptyDb == [schema |-> [t \in {} |-> Table({}, {})], rows |-> {}]

InitSchema ==
  /\ rev = 0
  /\ db = EmptyDb
  /\ types = {}
  /\ foreign = FALSE

\* "alembic upgrade head" before uvicorn, of a release whose head is target.
Deploy(target) ==
  /\ target \in (rev + 1)..HeadRevision
  /\ db' \in UpgradeTo(rev, target, db)
  /\ types' \in TypesTo(rev, target, types)
  /\ rev' = target
  /\ UNCHANGED foreign

\* "alembic downgrade -1".
Downgrade ==
  /\ rev > 0
  /\ db' \in Down(rev, db)
  /\ types' \in DownTypes(rev, types)
  /\ rev' = rev - 1
  /\ UNCHANGED foreign

\* init_db with dev_auto_create_tables: create_all skips the tables and the
\* types that exist.
CreateAll ==
  /\ DevMode
  /\ ~ Tables \subseteq DOMAIN db.schema
  /\ db' = [db EXCEPT !.schema = With(@, Metadata)]
  /\ types' = types \cup ModelTypes
  /\ foreign' = TRUE
  /\ UNCHANGED rev

\* The deployment guide's "alembic stamp 720ba5c1665d" for such a database.
Stamp ==
  /\ rev = 0
  /\ Tables \subseteq DOMAIN db.schema
  /\ rev' = 13
  /\ UNCHANGED <<db, types, foreign>>

\* The application inserts the first row of a table.
Use(t) ==
  /\ t \in DOMAIN db.schema \ db.rows
  /\ Parents(db.schema[t]) \cap Tracked \subseteq db.rows
  /\ db' = [db EXCEPT !.rows = @ \cup {t}]
  /\ UNCHANGED <<rev, types, foreign>>

NextSchema ==
  \/ \E target \in 1..HeadRevision : Deploy(target)
  \/ Downgrade
  \/ CreateAll
  \/ Stamp
  \/ \E t \in Tracked : Use(t)

SchemaSpec == InitSchema /\ [][NextSchema]_schemaVars
-----------------------------------------------------------------------------
\* Whatever route led there (releases skipped, steps back, tables made by
\* create_all and stamped), a database at the head revision has every table
\* the models map, with their columns, their foreign keys and delete rules,
\* keys of the type the driver casts to, and the enum types of their columns.
HeadServesModels ==
  rev = HeadRevision =>
    /\ ModelTypes \subseteq types
    /\ \A t \in Tables :
         /\ t \in DOMAIN db.schema
         /\ db.schema[t].cols = Metadata[t].cols
         /\ db.schema[t].refs = Metadata[t].refs
         /\ db.schema[t].key = Metadata[t].key

\* Exactly when can "alembic upgrade head", which the start command runs
\* before the server, not succeed on a database that only migrations built?
\* With thumbnails stored under the initial revision (the new column is NOT
\* NULL without a default); after a step back over 3292438b4131, which leaves
\* the enum types that its upgrade creates; from a release between that
\* revision and 1556a22b425e, unless SQLAlchemy heeds create_type=False; and
\* after a step back over e6f7a8b9c0d1, whose downgrade leaves d5e6f7a8b9c0
\* without the tables its upgrade drops.
OnlyKnownBlocks ==
  ~foreign =>
    ((UpgradeTo(rev, HeadRevision, db) = {} \/ TypesTo(rev, HeadRevision, types) = {}) <=>
       \/ rev = 1 /\ "thumbnails" \in db.rows
       \/ rev \in {2, 3} /\ VoiceTypes \subseteq types
       \/ rev \in 4..6 /\ ~CreateTypeHeeded
       \/ rev = 16 /\ Chat \cap DOMAIN db.schema = {})

\* The revisions whose downgrade their upgrade does not undo: that of the head
\* drops the chat tables its upgrade expects to find, those of the two voices
\* revisions leave enum types which the upgrade creates again.
OneWay == {4, HeadRevision} \cup (IF CreateTypeHeeded THEN {} ELSE {7})

\* A step back can be taken again: on a database that only migrations built,
\* upgrading after any other downgrade gives the schema and the enum types
\* that were there before.
StepBackIsUndone ==
  [][(rev' < rev /\ ~foreign /\ rev \notin OneWay) =>
       /\ \E d \in UpgradeTo(rev', rev, db') : d.schema = db.schema
       /\ types \in TypesTo(rev', rev, types')]_schemaVars
=============================================================================
