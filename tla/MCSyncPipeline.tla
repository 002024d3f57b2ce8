--------------------------- MODULE MCSyncPipeline ---------------------------
(* Small instances of SyncPipeline: two documents.                         *)
EXTENDS SyncPipeline

(* Commands that need the network, and these with the commit.              *)
Network == {"sent", "fetch", "resent"}
AnyCommand == Network \cup {"commit"}
=============================================================================
