----------------------------- MODULE MCScripts -----------------------------
(* Instances of Scripts for TLC. *)
EXTENDS Scripts

AllTogether == {<<"publisher", "subscriber">>, <<"viewer", "camera">>, <<"robot", "viewer">>}
OnePublisher == {<<"publisher">>}
CameraAndViewer == {<<"camera", "viewer">>}

StreamTopics == <<Ask, Stop>>
FirstOnly == [s \in Sock |-> IF s = 1 THEN {4} ELSE {}]
Nothing == [s \in Sock |-> {}]
=============================================================================
