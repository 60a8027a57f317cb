---------------------------- MODULE MCScriptRunner ----------------------------
(* ScriptRunner for TLC: a sentinel script, a channel and pipes of one line. *)
EXTENDS ScriptRunner

MCProgram == <<"plain", "begin", "secret", "end">>
MCTree == {"helper", "daemon"}

===============================================================================
