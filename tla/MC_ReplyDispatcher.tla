------------------------- MODULE MC_ReplyDispatcher -------------------------
(* Instantiates ReplyDispatcher for TLC: two producer threads (the MQTT   *)
(* delivery thread and one firmware progress thread) sending two replies *)
(* each, so that a push can land in every window of the worker's loop.   *)
EXTENDS ReplyDispatcher

MC_Producers == {"mqtt", "progress"}

\* The MQTT delivery thread and both firmware progress threads
\* (check_download_progress and check_update_progress) at once.
MC_AllProducers == {"mqtt", "download", "update"}
=============================================================================
