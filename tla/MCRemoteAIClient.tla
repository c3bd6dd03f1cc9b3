-------------------------- MODULE MCRemoteAIClient --------------------------
(* Instances of RemoteAIClient for TLC. *)
EXTENDS RemoteAIClient

LoadTwo == <<2, 1>>   \* "askstream", "askstopstream"
=============================================================================
