----------------------------- MODULE MCPlayback -----------------------------
(***************************************************************************)
(* Playback with a tick of five seconds: PING_INTERVAL is 2 ticks, the     *)
(* timeline timeout 1, sock_connect 3 and UPSTREAM_READ_TIMEOUT 6.         *)
(***************************************************************************)
EXTENDS Playback
=============================================================================
