--------------------------- MODULE MCServiceControl ---------------------------
(* Small instances of ServiceControl for TLC. *)
EXTENDS ServiceControl

TheThreads == {dispatcher, serviceMain, worker}
TheSeverities == {LOG_DEBUG, LOG_NORMAL, LOG_WARNING}
TheLevels == {LOG_DEBUG, LOG_NORMAL, LOG_WARNING, LOG_NONE}
=============================================================================
