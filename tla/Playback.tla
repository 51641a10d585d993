------------------------------ MODULE Playback ------------------------------
(***************************************************************************)
(* plexio/plex/playback.py: one GET or HEAD of a media part, proxied from  *)
(* Plex to a player, and the heartbeat task that keeps telling Plex where  *)
(* playback is (state "playing") until the stream ends ("stopped").        *)
(*                                                                         *)
(* Two coroutines run here, the response's body iterator (streamer) and    *)
(* the heartbeat, against three outsiders: Plex's media server, Plex's     *)
(* timeline endpoint and the player.  Time passes in ticks; whatever the   *)
(* event loop can do at once it does before the clock moves, and a timeout *)
(* fires on its tick at the latest.  Ages, not a clock, measure time, so   *)
(* that a player may idle for ever in a finite model.                      *)
(***************************************************************************)
EXTENDS Integers

CONSTANTS
  Duration,         (* the title's length in ticks; 0 when Plex has none    *)
  PingInterval,     (* PING_INTERVAL                                        *)
  TimelineTimeout,  (* total timeout of a timeline request                  *)
  ConnectTimeout,   (* sock_connect of the media request                    *)
  ReadTimeout,      (* UPSTREAM_READ_TIMEOUT                                *)
  None              (* Python None                                          *)

ASSUME TimeAssumption ==
  /\ Duration \in Nat
  /\ PingInterval \in Nat \ {0}
  /\ TimelineTimeout \in Nat \ {0}
  /\ ConnectTimeout \in Nat \ {0}
  /\ ReadTimeout \in Nat \ {0}
  /\ None \notin [state : {"playing", "stopped"}, position : 0 .. Duration]

VARIABLES
  method,     (* the request's method                                       *)
  pc,         (* where the request, later the streamer, is                  *)
  age,        (* how long it has been waiting there                         *)
  upstream,   (* the media response: none, open or closed                   *)
  initial,    (* the position the requested byte range starts at            *)
  started,    (* has the first chunk arrived (started_at is not None)       *)
  elapsed,    (* ticks since then, as far as positions can tell             *)
  player,     (* here; left; or left, with the streamer's task cancelled    *)
  stopped,    (* heartbeat_stopped, the event                               *)
  hb,         (* where the heartbeat task is                                *)
  hbAge,      (* how long it has been waiting there                         *)
  sent,       (* the last report sent to Plex's timeline                    *)
  quiet,      (* history: ticks since that report                           *)
  asked       (* history: ticks since the player asked for media            *)

media == <<method, upstream, initial, started, elapsed>>
stream == <<media, asked>>
beat == <<hb, hbAge>>
report == <<sent, quiet>>
vars == <<method, pc, age, upstream, initial, started, elapsed, player, stopped,
          hb, hbAge, sent, quiet, asked>>

MaxQuiet == PingInterval + TimelineTimeout

Lesser(a, b) == IF a < b THEN a ELSE b

(* Ages saturate one past the longest wait anybody asks about.              *)
OldAge == ReadTimeout + ConnectTimeout + TimelineTimeout + 1

Waiting == {"connecting", "headers", "reading", "joining", "stopping"}
Ended == {"done", "abandoned"}

TypeOK ==
  /\ method \in {"GET", "HEAD"}
  /\ pc \in Waiting \cup Ended \cup {"ready", "yielded"}
  /\ age \in 0 .. OldAge
  /\ upstream \in {"none", "open", "closed"}
  /\ initial \in 0 .. Duration
  /\ started \in BOOLEAN
  /\ elapsed \in 0 .. Duration
  /\ player \in {"here", "left", "cancelled"}
  /\ stopped \in BOOLEAN
  /\ hb \in {"none", "created", "sending", "waiting", "finished", "cancelled"}
  /\ hbAge \in 0 .. PingInterval + TimelineTimeout
  /\ sent \in [state : {"playing", "stopped"}, position : 0 .. Duration] \cup {None}
  /\ quiet \in 0 .. MaxQuiet + 1
  /\ asked \in 0 .. OldAge

Init ==
  /\ method \in {"GET", "HEAD"}
  /\ pc = "connecting"
  /\ age = 0
  /\ upstream = "none"
  /\ initial = 0
  /\ started = FALSE
  /\ elapsed = 0
  /\ player = "here"
  /\ stopped = FALSE
  /\ hb = "none"
  /\ hbAge = 0
  /\ sent = None
  /\ quiet = 0
  /\ asked = 0

Go(from, to) ==
  /\ pc = from
  /\ pc' = to
  /\ age' = 0

(* Mutant: the position is not capped at the duration.                      *)
PositionUncapped(e) ==
  IF Duration = 0 THEN 0 ELSE initial + e

(* _position_ms after e ticks of playback.                                  *)
Position(e) ==
  IF Duration = 0 THEN 0 ELSE Lesser(initial + e, Duration)

Report(state, position) ==
  /\ sent' = [state |-> state, position |-> position]
  /\ quiet' = 0

-----------------------------------------------------------------------------
(* proxy_playback: the media request.                                       *)

Connected ==
  /\ Go("connecting", "headers")
  /\ UNCHANGED <<stream, player, stopped, beat, report>>

(* Refused, or not accepted within sock_connect: the request fails.         *)
ConnectFails ==
  /\ Go("connecting", "done")
  /\ UNCHANGED <<stream, player, stopped, beat, report>>

(* The headers arrive: a HEAD is answered and closed; for a GET the range   *)
(* and the total size give the initial position.                            *)
Headers ==
  \/ /\ method = "HEAD"
     /\ Go("headers", "done")
     /\ upstream' = "closed"
     /\ UNCHANGED <<method, initial, started, elapsed, asked, player, stopped, beat, report>>
  \/ /\ method = "GET"
     /\ Go("headers", "ready")
     /\ upstream' = "open"
     /\ initial' \in 0 .. Duration
     /\ UNCHANGED <<method, started, elapsed, asked, player, stopped, beat, report>>

HeadersFail ==
  /\ Go("headers", "done")
  /\ UNCHANGED <<stream, player, stopped, beat, report>>

-----------------------------------------------------------------------------
(* streamer(): reads, yields, and reads again when the player asks.         *)

FirstRead ==
  /\ Go("ready", "reading")
  /\ asked' = 0
  /\ UNCHANGED <<media, player, stopped, beat, report>>

(* A chunk arrives; the first one starts the heartbeat task.                *)
Chunk ==
  /\ Go("reading", "yielded")
  /\ started' = TRUE
  /\ IF started THEN UNCHANGED beat ELSE hb' = "created" /\ hbAge' = 0
  /\ UNCHANGED <<method, upstream, initial, elapsed, asked, player, stopped, report>>

(* Mutant: the read timer runs on while the player is not asking.           *)
NextReadKeepsAge ==
  /\ pc = "yielded"
  /\ pc' = "reading"
  /\ asked' = 0
  /\ UNCHANGED <<age, media, player, stopped, beat, report>>

(* The player takes the chunk and asks for the next one, whenever it likes. *)
NextRead ==
  /\ Go("yielded", "reading")
  /\ asked' = 0
  /\ UNCHANGED <<media, player, stopped, beat, report>>

(* Mutant: the heartbeat task is not awaited.                               *)
UnwindForgetsHeartbeat(from) ==
  /\ Go(from, "done")
  /\ stopped' = TRUE
  /\ upstream' = "closed"
  /\ UNCHANGED <<method, initial, started, elapsed, asked, beat, report>>

(* Mutant: the heartbeat is awaited but not told to stop.                   *)
UnwindForgetsEvent(from) ==
  /\ Go(from, IF hb = "none" THEN "done" ELSE "joining")
  /\ upstream' = "closed"
  /\ UNCHANGED <<method, initial, started, elapsed, asked, stopped, beat, report>>

(* The finally block up to its first await.                                 *)
Unwind(from) ==
  /\ Go(from, IF hb = "none" THEN "done" ELSE "joining")
  /\ stopped' = TRUE
  /\ upstream' = "closed"
  /\ UNCHANGED <<method, initial, started, elapsed, asked, beat, report>>

(* Mutant: only the first chunk is waited for with a timeout.               *)
ReadTimesOutAtStart ==
  /\ age >= ReadTimeout
  /\ ~started
  /\ Unwind("reading")
  /\ UNCHANGED player

(* End of the body, a connection error, or no media for UPSTREAM_READ_      *)
(* TIMEOUT: all leave the loop.                                             *)
BodyEnds == Unwind("reading") /\ UNCHANGED player

ReadTimesOut ==
  /\ age >= ReadTimeout
  /\ Unwind("reading")
  /\ UNCHANGED player

(* Mutant: "stopped" is sent while a heartbeat may be in flight.            *)
JoinedAtOnce ==
  /\ Go("joining", "stopping")
  /\ Report("stopped", Position(elapsed))
  /\ UNCHANGED <<stream, player, stopped, beat>>

(* The heartbeat has ended: report "stopped".                               *)
Joined ==
  /\ hb = "finished"
  /\ Go("joining", "stopping")
  /\ Report("stopped", Position(elapsed))
  /\ UNCHANGED <<stream, player, stopped, beat>>

(* The report is answered, fails, or is given up after its timeout.         *)
StopReturns ==
  /\ Go("stopping", "done")
  /\ UNCHANGED <<stream, player, stopped, beat, report>>

-----------------------------------------------------------------------------
(* The player goes away.  The server framework cancels the response's task: *)
(* a streamer that waits gets the cancellation, one that is suspended in    *)
(* its yield is closed by the event loop in a task of its own, and one that *)
(* never ran is dropped with its response still open.                       *)

Leaves(how) == player = "here" /\ player' = how

DisconnectBeforeFirstRead ==
  /\ Leaves("left")
  /\ Go("ready", "abandoned")
  /\ UNCHANGED <<stream, stopped, beat, report>>

(* Mutant: the clean-up runs on errors only, not in a finally block.        *)
DisconnectInYieldUnhandled ==
  /\ Leaves("left")
  /\ Go("yielded", "done")
  /\ UNCHANGED <<stream, stopped, beat, report>>

DisconnectInYield == Leaves("left") /\ Unwind("yielded")

DisconnectInRead == Leaves("cancelled") /\ Unwind("reading")

DisconnectInFinally ==
  /\ pc \in {"joining", "stopping"}
  /\ Leaves("cancelled")
  /\ UNCHANGED <<pc, age, stream, stopped, beat, report>>

(* Cancelling a task that awaits another one cancels that one too, and the  *)
(* cancellation is delivered again at each await until the task is gone.    *)
JoinCancelled ==
  /\ player = "cancelled"
  /\ Go("joining", "done")
  /\ hb' = IF hb = "finished" THEN hb ELSE "cancelled"
  /\ UNCHANGED <<stream, player, stopped, hbAge, report>>

-----------------------------------------------------------------------------
(* _playback_heartbeat.                                                     *)

(* Mutant: a report that fails ends the heartbeat.                          *)
HbReturnsOnce ==
  /\ hb = "sending"
  /\ hb' \in IF stopped THEN {"finished"} ELSE {"waiting", "finished"}
  /\ hbAge' = 0
  /\ UNCHANGED <<pc, age, stream, player, stopped, report>>

(* Mutant: `now` is not read again before the next report.                  *)
HbPingsStale ==
  /\ hb = "waiting"
  /\ hbAge = PingInterval
  /\ hb' = "sending"
  /\ hbAge' = 0
  /\ Report("playing", Position(0))
  /\ UNCHANGED <<pc, age, stream, player, stopped>>

(* The task runs: its first report is for the moment the stream started.    *)
HbFirst ==
  /\ hb = "created"
  /\ hb' = "sending"
  /\ hbAge' = 0
  /\ Report("playing", Position(0))
  /\ UNCHANGED <<pc, age, stream, player, stopped>>

(* The report is answered, fails, or is given up after its timeout.         *)
HbReturns ==
  /\ hb = "sending"
  /\ hb' = IF stopped THEN "finished" ELSE "waiting"
  /\ hbAge' = 0
  /\ UNCHANGED <<pc, age, stream, player, stopped, report>>

(* stopped.wait() ends because the event is set.                            *)
HbStops ==
  /\ hb = "waiting"
  /\ stopped
  /\ hb' = "finished"
  /\ hbAge' = 0
  /\ UNCHANGED <<pc, age, stream, player, stopped, report>>

(* stopped.wait() times out, perhaps just as the event is being set.        *)
HbPings ==
  /\ hb = "waiting"
  /\ hbAge = PingInterval
  /\ hb' = "sending"
  /\ hbAge' = 0
  /\ Report("playing", Position(elapsed))
  /\ UNCHANGED <<pc, age, stream, player, stopped>>

-----------------------------------------------------------------------------
(* The clock moves when nothing has to happen first.                        *)

StreamerDue ==
  \/ pc = "connecting" /\ age = ConnectTimeout
  \/ pc = "ready"
  \/ pc = "reading" /\ age >= ReadTimeout
  \/ pc = "joining" /\ (hb = "finished" \/ player = "cancelled")
  \/ pc = "stopping" /\ (age = TimelineTimeout \/ player = "cancelled")

(* Mutant: the heartbeat sleeps its interval instead of waiting for the     *)
(* event.                                                                   *)
HeartbeatDueAfterSleep ==
  \/ hb = "created"
  \/ hb = "sending" /\ hbAge = TimelineTimeout
  \/ hb = "waiting" /\ hbAge = PingInterval

HeartbeatDue ==
  \/ hb = "created"
  \/ hb = "sending" /\ hbAge = TimelineTimeout
  \/ hb = "waiting" /\ (hbAge = PingInterval \/ stopped)

Tick ==
  /\ pc \notin Ended
  /\ ~StreamerDue
  /\ ~HeartbeatDue
  /\ age' = Lesser(age + 1, OldAge)
  /\ hbAge' = IF hb \in {"sending", "waiting"} THEN hbAge + 1 ELSE hbAge
  /\ elapsed' = IF started THEN Lesser(elapsed + 1, Duration) ELSE elapsed
  /\ asked' = IF pc = "reading" THEN Lesser(asked + 1, OldAge) ELSE asked
  /\ quiet' = IF sent = None THEN quiet ELSE Lesser(quiet + 1, MaxQuiet + 1)
  /\ UNCHANGED <<method, pc, upstream, initial, started, player, stopped, hb, sent>>

Disconnect ==
  \/ DisconnectBeforeFirstRead \/ DisconnectInYield \/ DisconnectInRead
  \/ DisconnectInFinally

Streamer ==
  \/ FirstRead \/ ReadTimesOut \/ Joined \/ StopReturns \/ JoinCancelled

Heartbeat == HbFirst \/ HbReturns \/ HbStops \/ HbPings

Outside == Connected \/ ConnectFails \/ Headers \/ HeadersFail \/ Chunk \/ NextRead \/ BodyEnds

Over == pc \in Ended /\ hb \notin {"created", "sending", "waiting"} /\ UNCHANGED vars

Next == Tick \/ Streamer \/ Heartbeat \/ Outside \/ Disconnect \/ Over

Spec == Init /\ [][Next]_vars

(* The event loop runs what is ready, the clock does not stand still, and a *)
(* connection attempt ends; headers, media and the player promise nothing.  *)
FairSpec ==
  /\ Spec
  /\ WF_vars(Tick)
  /\ WF_vars(Streamer)
  /\ WF_vars(Heartbeat)
  /\ WF_vars(ConnectFails)

-----------------------------------------------------------------------------
(* Properties.                                                              *)

(* After "stopped" nothing is reported for this stream: a heartbeat still   *)
(* in flight is waited for, so it cannot revive the session in Plex.        *)
NothingAfterStopped ==
  [][sent # None /\ sent.state = "stopped" => sent' = sent]_vars

(* The position Plex was told last is never ahead of the time played since  *)
(* the first chunk, and never behind it by more than an interval and a      *)
(* report's timeout, up to and after the end of the stream: each report     *)
(* reads the clock again, whatever became of the one before.                *)
PositionsFollow ==
  sent # None => /\ sent.position =< Position(elapsed)
                 /\ Position(elapsed) - sent.position =< MaxQuiet

(* While the stream is open Plex hears of it at least once per interval     *)
(* plus one report's timeout, whether or not the player takes any media.    *)
PlexKeepsHearing ==
  started /\ pc \in {"reading", "yielded"} /\ hb # "created"
    => sent # None /\ quiet =< MaxQuiet

(* The end of a stream waits for at most one report in flight: the          *)
(* heartbeat does not sleep out its interval first.                         *)
StopIsPrompt == pc = "joining" => age =< TimelineTimeout

(* A stream that is over, whichever way it ended, has left no heartbeat     *)
(* behind.  It has released its upstream connection too, unless the player  *)
(* left before the body iterator was started: no finally block runs then,   *)
(* and the open response is left to the garbage collector.                  *)
NothingLeftBehind ==
  pc \in Ended =>
    /\ hb \in {"none", "finished", "cancelled"}
    /\ upstream = "open" => pc = "abandoned" /\ ~started

(* A stream that was reported as playing is reported as stopped, unless the *)
(* cancellation of its task got in the way.                                 *)
StoppedUnlessCancelled ==
  pc = "done" /\ started /\ player # "cancelled" =>
    sent # None /\ sent.state = "stopped"

(* A stream is only given up for want of media that the player was asking   *)
(* for all that time: one that idles on a full buffer is never cut off.     *)
IdleIsFree ==
  [][pc = "reading" /\ pc' \notin {"reading", "yielded"} /\ age >= ReadTimeout
       => asked >= ReadTimeout]_vars

(* A player that waits for media gets it or is let go.                      *)
ReadEnds == pc = "reading" ~> pc # "reading"

(* A stream that leaves its loop finishes: its last report, at most, is     *)
(* waited for.                                                              *)
UnwindEnds == pc = "joining" ~> pc = "done"

(* README.md: a player that "is actively waiting for data" is not left      *)
(* "hanging indefinitely on a stalled shared server" past 30 seconds.       *)
PlayerNeverHangs == pc \in {"headers", "reading"} => age =< ReadTimeout
=============================================================================
