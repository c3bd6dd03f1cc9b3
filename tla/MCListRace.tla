----------------------------- MODULE MCListRace -----------------------------
(* Instances of ListRace for TLC: the configuration gives every constant its
   value. *)
EXTENDS ListRace
=============================================================================
