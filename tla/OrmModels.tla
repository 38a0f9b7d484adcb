------------------------------ MODULE OrmModels ------------------------------
(***************************************************************************)
(* What the SQLAlchemy models of app/database/models expect of the         *)
(* database, one definition per mapped class.  A table is abstracted to    *)
(* what the migrations change about it: its foreign keys (column, parent,  *)
(* ON DELETE rule), the columns that some revision added after the table   *)
(* was created, the type of its key, its secondary indexes and the columns *)
(* that keep a server default ("*": those the table was created with).     *)
(***************************************************************************)

Table(refs, cols) ==
  [refs |-> refs, cols |-> cols, key |-> "uuid", indexes |-> {}, defaults |-> {}]

Ref(col, parent, rule) == [col |-> col, parent |-> parent, rule |-> rule]

Channel == Table({}, {"timezone", "is_archived"})
User == Table({}, {})
AgentLog == Table({}, {})
Topic == Table({Ref("channel_id", "channels", "none")}, {})
Research == Table({Ref("topic_id", "topics", "none")}, {})
Script ==
  Table({Ref("topic_id", "topics", "none"), Ref("channel_id", "channels", "none")},
        {"seo_gate_score", "voice_gender"})
QualityReport == Table({Ref("script_id", "scripts", "none")}, {})
Storyboard == Table({Ref("script_id", "scripts", "none")}, {})
Thumbnail == Table({Ref("script_id", "scripts", "none")}, {"script_id"})
Voice == Table({Ref("script_id", "scripts", "none")}, {"voice_gender"})
Video == Table({Ref("script_id", "scripts", "none")}, {})
Upload ==
  Table({Ref("video_id", "videos", "none")},
        {"publish_status", "retry_count", "max_retries", "next_retry_at",
         "instagram_scheduled_at", "instagram_posted", "instagram_posted_at",
         "instagram_media_id", "instagram_retry_count",
         "instagram_failed_permanently"})
Analytics == Table({Ref("upload_id", "uploads", "none")}, {})
PipelineRun ==
  Table({Ref("topic_id", "topics", "none"), Ref("channel_id", "channels", "none"),
         Ref("script_id", "scripts", "none"), Ref("video_id", "videos", "none"),
         Ref("upload_id", "uploads", "none")},
        {"retry_count", "max_retries", "next_retry_at"})
ChannelAutomation == Table({Ref("channel_id", "channels", "cascade")}, {})
ChatSession == Table({}, {})
ChatMessage == Table({Ref("session_id", "chat_sessions", "cascade")}, {})
ChatUnresolved == Table({}, {})
KnowledgeDoc == Table({}, {})

\* Base.metadata: __tablename__ to the mapped class.
Metadata ==
  [channels |-> Channel, users |-> User, agent_logs |-> AgentLog,
   topics |-> Topic, research |-> Research, scripts |-> Script,
   quality_reports |-> QualityReport, storyboards |-> Storyboard,
   thumbnails |-> Thumbnail, voices |-> Voice, videos |-> Video,
   uploads |-> Upload, analytics |-> Analytics,
   pipeline_runs |-> PipelineRun, channel_automations |-> ChannelAutomation,
   chat_sessions |-> ChatSession, chat_messages |-> ChatMessage,
   chat_unresolved |-> ChatUnresolved, knowledge_docs |-> KnowledgeDoc]

Tables == DOMAIN Metadata
=============================================================================
