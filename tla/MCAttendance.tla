---------------------------- MODULE MCAttendance ----------------------------
(* Small instances of Attendance: an agent, a supervisor, two messages.     *)
EXTENDS Attendance, TLC

CONSTANTS ana, sup
MCUsers    == {ana, sup}
MCElevated == {sup}

NoLate   == {}
FirstIsLate == {1}

AllOps == {"assume", "resume", "transfer", "reply", "media", "note", "patch", "requeue"}
NoOps  == {}
ReplyOps == {"assume", "reply", "requeue"}
AssumeOps == {"assume", "transfer"}

AllHiccups == {"window_passed", "small_talk", "no_agent", "no_credits", "empty_answer",
               "asks_human", "unpublished", "send_fails", "ai_close", "rule_matches",
               "other_blocker"}
NoHiccups  == {}
AsksHuman  == {"asks_human", "rule_matches"}
=============================================================================
