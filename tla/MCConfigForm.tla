---------------------------- MODULE MCConfigForm ----------------------------
(* Two servers, one with two connections, whose libraries have equal keys.  *)
EXTENDS ConfigForm, TLC

CONSTANTS home, friend, lan, relay, wan, movies, shows

Owners == lan :> home @@ relay :> home @@ wan :> friend
Libraries == home :> {movies, shows} @@ friend :> {movies}
Rows == {[section |-> movies, name |-> "classics"]}
=============================================================================
