--------------------------- MODULE MCWatchManager ---------------------------
(* An instance of WatchManager for TLC.                                    *)
EXTENDS WatchManager
=============================================================================
