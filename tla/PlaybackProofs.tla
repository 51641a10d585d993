--------------------------- MODULE PlaybackProofs ---------------------------
(***************************************************************************)
(* The safety of a proxied stream and its heartbeat, for any duration and  *)
(* any timeouts.                                                           *)
(***************************************************************************)
EXTENDS Playback, TLAPS

(* What holds at each place of the streamer: the heartbeat exists from the  *)
(* first chunk on, the event is set on the way out only, and whoever is     *)
(* past the join has seen the heartbeat end.                                *)
PlaceInv ==
  /\ started <=> hb # "none"
  /\ stopped => pc \in {"joining", "stopping", "done"}
  /\ hb = "finished" => stopped
  /\ hb = "cancelled" => pc = "done" /\ player = "cancelled"
  /\ pc \in {"connecting", "headers"} => ~started /\ upstream = "none"
  /\ pc \in {"ready", "abandoned"} => ~started
  /\ pc = "yielded" => started
  /\ pc = "joining" => started /\ stopped
  /\ pc = "stopping" => hb = "finished"
  /\ pc \in {"joining", "stopping", "done"} => upstream # "open"
  /\ pc = "done" => hb \in {"none", "finished", "cancelled"}

(* How long the heartbeat has been where it is, what Plex has heard by      *)
(* then, and how long the streamer can have been waiting for it.            *)
TimeInv ==
  /\ hb = "sending" => hbAge =< TimelineTimeout
  /\ hb = "waiting" => hbAge =< PingInterval
  /\ hb = "sending" => quiet =< hbAge
  /\ hb = "waiting" => quiet =< TimelineTimeout + hbAge
  /\ pc = "stopping" => quiet =< age /\ age =< TimelineTimeout
  /\ sent # None => quiet =< MaxQuiet
  /\ pc = "joining" => /\ hb \in {"created", "waiting"} => age = 0
                       /\ hb = "sending" => age =< hbAge
                       /\ age =< TimelineTimeout
  /\ pc = "reading" => age = asked

(* What Plex was told.                                                      *)
SentInv ==
  /\ hb \in {"none", "created"} => sent = None
  /\ hb \in {"sending", "waiting", "finished"} => sent # None
  /\ pc = "stopping" => sent.state = "stopped"
  /\ sent # None /\ sent.state = "stopped" => pc \in {"stopping", "done"} /\ hb = "finished"
  /\ pc = "done" /\ started /\ player # "cancelled" => sent # None /\ sent.state = "stopped"

(* Where Plex believes playback to be: as far back as it has not heard.     *)
PositionInv ==
  /\ hb \in {"none", "created"} => elapsed = 0
  /\ sent # None => /\ sent.position =< Position(elapsed)
                    /\ Position(elapsed) - sent.position =< quiet

IInv == TypeOK /\ PlaceInv /\ TimeInv /\ SentInv /\ PositionInv

-----------------------------------------------------------------------------
(* A position lies within the title and grows no faster than time.          *)
LEMMA Positions ==
  ASSUME TypeOK
  PROVE  /\ Position(0) \in 0 .. Duration
         /\ Position(elapsed) \in 0 .. Duration
         /\ \A e \in 0 .. Duration :
              /\ Position(e) \in 0 .. Duration
              /\ elapsed =< e => Position(elapsed) =< Position(e)
              /\ e =< elapsed + 1 => Position(e) =< Position(elapsed) + 1
  BY TimeAssumption DEF TypeOK, Position, Lesser

(* TypeOK in parts, by the kind of reasoning each needs.                    *)
Reports == [state : {"playing", "stopped"}, position : 0 .. Duration]

Flags ==
  /\ method \in {"GET", "HEAD"}
  /\ pc \in Waiting \cup Ended \cup {"ready", "yielded"}
  /\ upstream \in {"none", "open", "closed"}
  /\ started \in BOOLEAN
  /\ player \in {"here", "left", "cancelled"}
  /\ stopped \in BOOLEAN
  /\ hb \in {"none", "created", "sending", "waiting", "finished", "cancelled"}

Numbers ==
  /\ age \in 0 .. OldAge
  /\ initial \in 0 .. Duration
  /\ elapsed \in 0 .. Duration
  /\ hbAge \in 0 .. PingInterval + TimelineTimeout
  /\ quiet \in 0 .. MaxQuiet + 1
  /\ asked \in 0 .. OldAge

(* The parts are the whole.                                                *)
LEMMA Typed == TypeOK <=> Flags /\ Numbers /\ sent \in Reports \cup {None}
  BY DEF TypeOK, Flags, Numbers, Reports

(* A report is one of the reports, and not None.                            *)
LEMMA Reported ==
  ASSUME NEW state \in {"playing", "stopped"}, NEW position \in 0 .. Duration,
         Report(state, position)
  PROVE  /\ sent' \in Reports /\ sent' # None
         /\ sent'.state = state /\ sent'.position = position
         /\ quiet' = 0
  BY TimeAssumption DEF Report, Reports

-----------------------------------------------------------------------------
(* Each step keeps each part of the invariant.                              *)
LEMMA FlagsStep ==
  ASSUME Flags, [Next]_vars
  PROVE  Flags'
  <1> USE DEF Go, media, stream, beat, report, Flags, Waiting, Ended
  <1>1. CASE Connected
    BY <1>1 DEF Connected
  <1>2. CASE ConnectFails
    BY <1>2 DEF ConnectFails
  <1>3. CASE Headers
    BY <1>3 DEF Headers
  <1>4. CASE HeadersFail
    BY <1>4 DEF HeadersFail
  <1>5. CASE FirstRead
    BY <1>5 DEF FirstRead
  <1>6. CASE Chunk
    BY <1>6 DEF Chunk
  <1>7. CASE NextRead
    BY <1>7 DEF NextRead
  <1>8. CASE BodyEnds
    BY <1>8 DEF BodyEnds, Unwind
  <1>9. CASE ReadTimesOut
    BY <1>9 DEF ReadTimesOut, Unwind
  <1>10. CASE Joined
    BY <1>10 DEF Joined, Report
  <1>11. CASE StopReturns
    BY <1>11 DEF StopReturns
  <1>12. CASE DisconnectBeforeFirstRead
    BY <1>12 DEF DisconnectBeforeFirstRead, Leaves
  <1>13. CASE DisconnectInYield
    BY <1>13 DEF DisconnectInYield, Leaves, Unwind
  <1>14. CASE DisconnectInRead
    BY <1>14 DEF DisconnectInRead, Leaves, Unwind
  <1>15. CASE DisconnectInFinally
    BY <1>15 DEF DisconnectInFinally, Leaves
  <1>16. CASE JoinCancelled
    BY <1>16 DEF JoinCancelled
  <1>17. CASE HbFirst
    BY <1>17 DEF HbFirst, Report
  <1>18. CASE HbReturns
    BY <1>18 DEF HbReturns
  <1>19. CASE HbStops
    BY <1>19 DEF HbStops
  <1>20. CASE HbPings
    BY <1>20 DEF HbPings, Report
  <1>21. CASE Tick
    BY <1>21 DEF Tick
  <1>22. CASE UNCHANGED vars
    BY <1>22 DEF vars
  <1>23. QED
    BY <1>1, <1>2, <1>3, <1>4, <1>5, <1>6, <1>7, <1>8, <1>9, <1>10, <1>11, <1>12, <1>13,
       <1>14, <1>15, <1>16, <1>17, <1>18, <1>19, <1>20, <1>21, <1>22
       DEF Next, Streamer, Heartbeat, Outside, Disconnect, Over

LEMMA NumbersStep ==
  ASSUME Numbers, TimeInv, [Next]_vars
  PROVE  Numbers'
  <1>0. /\ OldAge \in Nat /\ MaxQuiet \in Nat /\ PingInterval \in Nat
        /\ TimelineTimeout \in Nat /\ Duration \in Nat
    BY TimeAssumption DEF OldAge, MaxQuiet
  <1> USE <1>0 DEF Go, media, stream, beat, report, Numbers
  <1>1. CASE Connected
    BY <1>1 DEF Connected
  <1>2. CASE ConnectFails
    BY <1>2 DEF ConnectFails
  <1>3. CASE Headers
    BY <1>3 DEF Headers
  <1>4. CASE HeadersFail
    BY <1>4 DEF HeadersFail
  <1>5. CASE FirstRead
    BY <1>5 DEF FirstRead
  <1>6. CASE Chunk
    BY <1>6 DEF Chunk
  <1>7. CASE NextRead
    BY <1>7 DEF NextRead
  <1>8. CASE BodyEnds
    BY <1>8 DEF BodyEnds, Unwind
  <1>9. CASE ReadTimesOut
    BY <1>9 DEF ReadTimesOut, Unwind
  <1>10. CASE Joined
    BY <1>10 DEF Joined, Report
  <1>11. CASE StopReturns
    BY <1>11 DEF StopReturns
  <1>12. CASE DisconnectBeforeFirstRead
    BY <1>12 DEF DisconnectBeforeFirstRead, Leaves
  <1>13. CASE DisconnectInYield
    BY <1>13 DEF DisconnectInYield, Leaves, Unwind
  <1>14. CASE DisconnectInRead
    BY <1>14 DEF DisconnectInRead, Leaves, Unwind
  <1>15. CASE DisconnectInFinally
    BY <1>15 DEF DisconnectInFinally, Leaves
  <1>16. CASE JoinCancelled
    BY <1>16 DEF JoinCancelled
  <1>17. CASE HbFirst
    BY <1>17 DEF HbFirst, Report
  <1>18. CASE HbReturns
    BY <1>18 DEF HbReturns
  <1>19. CASE HbStops
    BY <1>19 DEF HbStops
  <1>20. CASE HbPings
    BY <1>20 DEF HbPings, Report
  <1>21. CASE Tick
    BY <1>21 DEF Tick, TimeInv, HeartbeatDue, Lesser
  <1>22. CASE UNCHANGED vars
    BY <1>22 DEF vars
  <1>23. QED
    BY <1>1, <1>2, <1>3, <1>4, <1>5, <1>6, <1>7, <1>8, <1>9, <1>10, <1>11, <1>12, <1>13,
       <1>14, <1>15, <1>16, <1>17, <1>18, <1>19, <1>20, <1>21, <1>22
       DEF Next, Streamer, Heartbeat, Outside, Disconnect, Over

LEMMA ReportsStep ==
  ASSUME TypeOK, [Next]_vars
  PROVE  (sent \in Reports \cup {None})'
  <1> USE Typed DEF Go, media, stream, beat, report
  <1>1. CASE Connected
    BY <1>1 DEF Connected
  <1>2. CASE ConnectFails
    BY <1>2 DEF ConnectFails
  <1>3. CASE Headers
    BY <1>3 DEF Headers
  <1>4. CASE HeadersFail
    BY <1>4 DEF HeadersFail
  <1>5. CASE FirstRead
    BY <1>5 DEF FirstRead
  <1>6. CASE Chunk
    BY <1>6 DEF Chunk
  <1>7. CASE NextRead
    BY <1>7 DEF NextRead
  <1>8. CASE BodyEnds
    BY <1>8 DEF BodyEnds, Unwind
  <1>9. CASE ReadTimesOut
    BY <1>9 DEF ReadTimesOut, Unwind
  <1>10. CASE Joined
    BY <1>10, Positions, Typed, Reported DEF Joined
  <1>11. CASE StopReturns
    BY <1>11 DEF StopReturns
  <1>12. CASE DisconnectBeforeFirstRead
    BY <1>12 DEF DisconnectBeforeFirstRead, Leaves
  <1>13. CASE DisconnectInYield
    BY <1>13 DEF DisconnectInYield, Leaves, Unwind
  <1>14. CASE DisconnectInRead
    BY <1>14 DEF DisconnectInRead, Leaves, Unwind
  <1>15. CASE DisconnectInFinally
    BY <1>15 DEF DisconnectInFinally, Leaves
  <1>16. CASE JoinCancelled
    BY <1>16 DEF JoinCancelled
  <1>17. CASE HbFirst
    BY <1>17, Positions, Typed, Reported DEF HbFirst
  <1>18. CASE HbReturns
    BY <1>18 DEF HbReturns
  <1>19. CASE HbStops
    BY <1>19 DEF HbStops
  <1>20. CASE HbPings
    BY <1>20, Positions, Typed, Reported DEF HbPings
  <1>21. CASE Tick
    BY <1>21 DEF Tick
  <1>22. CASE UNCHANGED vars
    BY <1>22 DEF vars
  <1>23. QED
    BY <1>1, <1>2, <1>3, <1>4, <1>5, <1>6, <1>7, <1>8, <1>9, <1>10, <1>11, <1>12, <1>13,
       <1>14, <1>15, <1>16, <1>17, <1>18, <1>19, <1>20, <1>21, <1>22
       DEF Next, Streamer, Heartbeat, Outside, Disconnect, Over

LEMMA PlaceStep ==
  ASSUME TypeOK, PlaceInv, [Next]_vars
  PROVE  PlaceInv'
  <1> USE TimeAssumption DEF Go, media, stream, beat, report, TypeOK, PlaceInv, Waiting, Ended
  <1>1. CASE Connected
    BY <1>1 DEF Connected
  <1>2. CASE ConnectFails
    BY <1>2 DEF ConnectFails
  <1>3. CASE Headers
    BY <1>3 DEF Headers
  <1>4. CASE HeadersFail
    BY <1>4 DEF HeadersFail
  <1>5. CASE FirstRead
    BY <1>5 DEF FirstRead
  <1>6. CASE Chunk
    BY <1>6 DEF Chunk
  <1>7. CASE NextRead
    BY <1>7 DEF NextRead
  <1>8. CASE BodyEnds
    BY <1>8 DEF BodyEnds, Unwind
  <1>9. CASE ReadTimesOut
    BY <1>9 DEF ReadTimesOut, Unwind
  <1>10. CASE Joined
    BY <1>10 DEF Joined, Report
  <1>11. CASE StopReturns
    BY <1>11 DEF StopReturns
  <1>12. CASE DisconnectBeforeFirstRead
    BY <1>12 DEF DisconnectBeforeFirstRead, Leaves
  <1>13. CASE DisconnectInYield
    BY <1>13 DEF DisconnectInYield, Leaves, Unwind
  <1>14. CASE DisconnectInRead
    BY <1>14 DEF DisconnectInRead, Leaves, Unwind
  <1>15. CASE DisconnectInFinally
    BY <1>15 DEF DisconnectInFinally, Leaves
  <1>16. CASE JoinCancelled
    BY <1>16 DEF JoinCancelled
  <1>17. CASE HbFirst
    BY <1>17 DEF HbFirst, Report
  <1>18. CASE HbReturns
    BY <1>18 DEF HbReturns
  <1>19. CASE HbStops
    BY <1>19 DEF HbStops
  <1>20. CASE HbPings
    BY <1>20 DEF HbPings, Report
  <1>21. CASE Tick
    BY <1>21 DEF Tick
  <1>22. CASE UNCHANGED vars
    BY <1>22 DEF vars
  <1>23. QED
    BY <1>1, <1>2, <1>3, <1>4, <1>5, <1>6, <1>7, <1>8, <1>9, <1>10, <1>11, <1>12, <1>13,
       <1>14, <1>15, <1>16, <1>17, <1>18, <1>19, <1>20, <1>21, <1>22
       DEF Next, Streamer, Heartbeat, Outside, Disconnect, Over

LEMMA TimeStep ==
  ASSUME TypeOK, PlaceInv, TimeInv, SentInv, [Next]_vars
  PROVE  TimeInv'
  <1> USE TimeAssumption DEF Go, media, stream, beat, report, TypeOK, PlaceInv, TimeInv
  <1>1. CASE Connected
    BY <1>1 DEF Connected
  <1>2. CASE ConnectFails
    BY <1>2 DEF ConnectFails
  <1>3. CASE Headers
    BY <1>3 DEF Headers
  <1>4. CASE HeadersFail
    BY <1>4 DEF HeadersFail
  <1>5. CASE FirstRead
    BY <1>5 DEF FirstRead
  <1>6. CASE Chunk
    BY <1>6 DEF Chunk
  <1>7. CASE NextRead
    BY <1>7 DEF NextRead
  <1>8. CASE BodyEnds
    BY <1>8 DEF BodyEnds, Unwind
  <1>9. CASE ReadTimesOut
    BY <1>9 DEF ReadTimesOut, Unwind
  <1>10. CASE Joined
    BY <1>10 DEF Joined, Report, MaxQuiet
  <1>11. CASE StopReturns
    BY <1>11 DEF StopReturns
  <1>12. CASE DisconnectBeforeFirstRead
    BY <1>12 DEF DisconnectBeforeFirstRead, Leaves
  <1>13. CASE DisconnectInYield
    BY <1>13 DEF DisconnectInYield, Leaves, Unwind
  <1>14. CASE DisconnectInRead
    BY <1>14 DEF DisconnectInRead, Leaves, Unwind
  <1>15. CASE DisconnectInFinally
    BY <1>15 DEF DisconnectInFinally, Leaves
  <1>16. CASE JoinCancelled
    BY <1>16 DEF JoinCancelled
  <1>17. CASE HbFirst
    BY <1>17 DEF HbFirst, Report, MaxQuiet
  <1>18. CASE HbReturns
    BY <1>18 DEF HbReturns
  <1>19. CASE HbStops
    BY <1>19 DEF HbStops
  <1>20. CASE HbPings
    BY <1>20 DEF HbPings, Report, MaxQuiet
  <1>21. CASE Tick
    <2>1. /\ hb' = hb /\ pc' = pc /\ sent' = sent
          /\ hb \in {"sending", "waiting"} => hbAge' = hbAge + 1
          /\ hb # "created"
          /\ hb = "sending" => hbAge < TimelineTimeout
          /\ hb = "waiting" => hbAge < PingInterval
      BY <1>21 DEF Tick, HeartbeatDue
    <2>2. /\ pc \notin Ended
          /\ pc = "joining" => hb \in {"sending", "waiting"} /\ ~(hb = "waiting" /\ stopped)
          /\ pc = "stopping" => age < TimelineTimeout
          /\ pc = "reading" => age < ReadTimeout
      BY <1>21, <2>1 DEF Tick, StreamerDue, HeartbeatDue, Ended
    <2>3. /\ age < OldAge => age' = age + 1
          /\ pc = "reading" /\ asked < OldAge => asked' = asked + 1
          /\ quiet' =< quiet + 1 /\ quiet' \in Int
      BY <1>21 DEF Tick, Lesser, OldAge, MaxQuiet
    <2>4. sent # None => hb \in {"sending", "waiting"} \/ pc = "stopping"
      BY <2>1, <2>2 DEF SentInv, Ended
    <2>5. /\ hb' = "sending" => hbAge' =< TimelineTimeout /\ quiet' =< hbAge'
          /\ hb' = "waiting" => hbAge' =< PingInterval /\ quiet' =< TimelineTimeout + hbAge'
      BY <2>1, <2>3
    <2>6. pc' = "stopping" => quiet' =< age' /\ age' =< TimelineTimeout
      BY <2>1, <2>2, <2>3 DEF OldAge
    <2>7. sent' # None => quiet' =< MaxQuiet
      BY <2>1, <2>2, <2>3, <2>4, <2>5, <2>6 DEF MaxQuiet
    <2>8. pc' = "joining" =>
            /\ hb' \in {"created", "waiting"} => age' = 0
            /\ hb' = "sending" => age' =< hbAge'
            /\ age' =< TimelineTimeout
      BY <2>1, <2>2, <2>3 DEF OldAge
    <2>9. pc' = "reading" => age' = asked'
      BY <2>1, <2>2, <2>3 DEF OldAge
    <2>10. QED BY ONLY <2>5, <2>6, <2>7, <2>8, <2>9 DEF TimeInv, MaxQuiet
  <1>22. CASE UNCHANGED vars
    BY <1>22 DEF vars
  <1>23. QED
    BY <1>1, <1>2, <1>3, <1>4, <1>5, <1>6, <1>7, <1>8, <1>9, <1>10, <1>11, <1>12, <1>13,
       <1>14, <1>15, <1>16, <1>17, <1>18, <1>19, <1>20, <1>21, <1>22
       DEF Next, Streamer, Heartbeat, Outside, Disconnect, Over

LEMMA SentStep ==
  ASSUME TypeOK, PlaceInv, SentInv, [Next]_vars
  PROVE  SentInv'
  <1> USE DEF Go, media, stream, beat, report, PlaceInv, SentInv
  <1>1. CASE Connected
    BY <1>1 DEF Connected
  <1>2. CASE ConnectFails
    BY <1>2 DEF ConnectFails
  <1>3. CASE Headers
    BY <1>3 DEF Headers
  <1>4. CASE HeadersFail
    BY <1>4 DEF HeadersFail
  <1>5. CASE FirstRead
    BY <1>5 DEF FirstRead
  <1>6. CASE Chunk
    BY <1>6 DEF Chunk
  <1>7. CASE NextRead
    BY <1>7 DEF NextRead
  <1>8. CASE BodyEnds
    BY <1>8 DEF BodyEnds, Unwind
  <1>9. CASE ReadTimesOut
    BY <1>9 DEF ReadTimesOut, Unwind
  <1>10. CASE Joined
    <2>1. sent' # None /\ sent'.state = "stopped"
      BY <1>10, Positions, Reported DEF Joined
    <2>2. QED BY <1>10, <2>1 DEF Joined
  <1>11. CASE StopReturns
    BY <1>11 DEF StopReturns
  <1>12. CASE DisconnectBeforeFirstRead
    BY <1>12 DEF DisconnectBeforeFirstRead, Leaves
  <1>13. CASE DisconnectInYield
    BY <1>13 DEF DisconnectInYield, Leaves, Unwind
  <1>14. CASE DisconnectInRead
    BY <1>14 DEF DisconnectInRead, Leaves, Unwind
  <1>15. CASE DisconnectInFinally
    BY <1>15 DEF DisconnectInFinally, Leaves
  <1>16. CASE JoinCancelled
    BY <1>16 DEF JoinCancelled
  <1>17. CASE HbFirst
    <2>1. sent' # None /\ sent'.state = "playing"
      BY <1>17, Positions, Reported DEF HbFirst
    <2>2. QED BY <1>17, <2>1 DEF HbFirst
  <1>18. CASE HbReturns
    BY <1>18 DEF HbReturns
  <1>19. CASE HbStops
    BY <1>19 DEF HbStops
  <1>20. CASE HbPings
    <2>1. sent' # None /\ sent'.state = "playing"
      BY <1>20, Positions, Reported DEF HbPings
    <2>2. QED BY <1>20, <2>1 DEF HbPings
  <1>21. CASE Tick
    BY <1>21 DEF Tick
  <1>22. CASE UNCHANGED vars
    BY <1>22 DEF vars
  <1>23. QED
    BY <1>1, <1>2, <1>3, <1>4, <1>5, <1>6, <1>7, <1>8, <1>9, <1>10, <1>11, <1>12, <1>13,
       <1>14, <1>15, <1>16, <1>17, <1>18, <1>19, <1>20, <1>21, <1>22
       DEF Next, Streamer, Heartbeat, Outside, Disconnect, Over

(* A report that reads the clock is neither ahead nor behind.               *)
LEMMA JustReported ==
  ASSUME TypeOK, NEW state \in {"playing", "stopped"}, Report(state, Position(elapsed)),
         UNCHANGED <<initial, elapsed>>, hb' \notin {"none", "created"}
  PROVE  PositionInv'
  <1>1. Position(elapsed)' = Position(elapsed) /\ Position(elapsed) \in Int
    BY Positions, TimeAssumption DEF Position, Lesser
  <1>2. QED BY <1>1, Positions, Reported DEF PositionInv

LEMMA PositionStep ==
  ASSUME TypeOK, PlaceInv, TimeInv, SentInv, PositionInv, [Next]_vars
  PROVE  PositionInv'
  <1>0. /\ initial' = initial /\ elapsed' = elapsed => Position(elapsed)' = Position(elapsed)
        /\ Position(elapsed) \in Int
    BY Positions, TimeAssumption DEF Position, Lesser
  <1> USE DEF Go, media, stream, beat, report
  <1>1. CASE Connected
    BY <1>0, <1>1 DEF Connected, PositionInv
  <1>2. CASE ConnectFails
    BY <1>0, <1>2 DEF ConnectFails, PositionInv
  <1>3. CASE Headers
    BY <1>0, <1>3 DEF Headers, PlaceInv, SentInv, PositionInv
  <1>4. CASE HeadersFail
    BY <1>0, <1>4 DEF HeadersFail, PositionInv
  <1>5. CASE FirstRead
    BY <1>0, <1>5 DEF FirstRead, PositionInv
  <1>6. CASE Chunk
    BY <1>0, <1>6 DEF Chunk, PlaceInv, PositionInv
  <1>7. CASE NextRead
    BY <1>0, <1>7 DEF NextRead, PositionInv
  <1>8. CASE BodyEnds
    BY <1>0, <1>8 DEF BodyEnds, Unwind, PositionInv
  <1>9. CASE ReadTimesOut
    BY <1>0, <1>9 DEF ReadTimesOut, Unwind, PositionInv
  <1>10. CASE Joined
    BY JustReported, <1>10 DEF Joined
  <1>11. CASE StopReturns
    BY <1>0, <1>11 DEF StopReturns, PositionInv
  <1>12. CASE DisconnectBeforeFirstRead
    BY <1>0, <1>12 DEF DisconnectBeforeFirstRead, Leaves, PositionInv
  <1>13. CASE DisconnectInYield
    BY <1>0, <1>13 DEF DisconnectInYield, Leaves, Unwind, PositionInv
  <1>14. CASE DisconnectInRead
    BY <1>0, <1>14 DEF DisconnectInRead, Leaves, Unwind, PositionInv
  <1>15. CASE DisconnectInFinally
    BY <1>0, <1>15 DEF DisconnectInFinally, Leaves, PositionInv
  <1>16. CASE JoinCancelled
    BY <1>0, <1>16 DEF JoinCancelled, PositionInv
  <1>17. CASE HbFirst
    <2>1. elapsed = 0
      BY <1>17 DEF HbFirst, PositionInv
    <2>2. QED BY JustReported, <1>17, <2>1 DEF HbFirst
  <1>18. CASE HbReturns
    BY <1>0, <1>18 DEF HbReturns, PositionInv
  <1>19. CASE HbStops
    BY <1>0, <1>19 DEF HbStops, PositionInv
  <1>20. CASE HbPings
    BY JustReported, <1>20 DEF HbPings
  <1>21. CASE Tick
    <2>1. /\ hb' = hb /\ hb # "created" /\ sent' = sent
          /\ elapsed' = IF started THEN Lesser(elapsed + 1, Duration) ELSE elapsed
          /\ quiet' = IF sent = None THEN quiet ELSE Lesser(quiet + 1, MaxQuiet + 1)
          /\ Position(elapsed)' = Position(elapsed')
      BY <1>21 DEF Tick, HeartbeatDue, Position, Lesser
    <2>2. hb' \in {"none", "created"} => elapsed' = 0
      BY <2>1 DEF PlaceInv, PositionInv
    <2>3. ASSUME sent # None
          PROVE  /\ sent.position =< Position(elapsed')
                 /\ Position(elapsed') - sent.position =< quiet'
      <3>1. sent.position \in Int /\ quiet \in Int /\ MaxQuiet \in Int
        BY <2>3, Typed, TimeAssumption DEF Reports, Numbers, MaxQuiet
      <3>2. quiet' = quiet + 1
        BY <2>1, <2>3, <3>1 DEF TimeInv, Lesser
      <3>3. elapsed' \in 0 .. Duration /\ elapsed =< elapsed' /\ elapsed' =< elapsed + 1
        BY <2>1, TimeAssumption DEF TypeOK, Lesser
      <3>4. /\ Position(elapsed') \in Int
            /\ Position(elapsed) =< Position(elapsed')
            /\ Position(elapsed') =< Position(elapsed) + 1
        BY <3>3, Positions, TimeAssumption
      <3>5. /\ sent.position =< Position(elapsed)
            /\ Position(elapsed) - sent.position =< quiet
        BY <2>3 DEF PositionInv
      <3>6. QED BY <1>0, <3>1, <3>2, <3>4, <3>5
    <2>4. QED BY <2>1, <2>2, <2>3 DEF PositionInv
  <1>22. CASE UNCHANGED vars
    BY <1>0, <1>22 DEF vars, PositionInv
  <1>23. QED
    BY <1>1, <1>2, <1>3, <1>4, <1>5, <1>6, <1>7, <1>8, <1>9, <1>10, <1>11, <1>12, <1>13,
       <1>14, <1>15, <1>16, <1>17, <1>18, <1>19, <1>20, <1>21, <1>22
       DEF Next, Streamer, Heartbeat, Outside, Disconnect, Over

LEMMA PlaybackInit == Init => IInv
  <1> SUFFICES ASSUME Init PROVE IInv
    OBVIOUS
  <1>1. OldAge \in Nat /\ MaxQuiet \in Nat
    BY TimeAssumption DEF OldAge, MaxQuiet
  <1>2. TypeOK
    <2>1. Flags
      BY DEF Init, Flags, Waiting
    <2>2. Numbers
      BY <1>1, TimeAssumption DEF Init, Numbers
    <2>3. QED BY <2>1, <2>2, Typed DEF Init
  <1>3. PlaceInv /\ TimeInv
    BY DEF Init, PlaceInv, TimeInv
  <1>4. SentInv /\ PositionInv
    BY DEF Init, SentInv, PositionInv
  <1>5. QED BY <1>2, <1>3, <1>4 DEF IInv

LEMMA PlaybackStep == IInv /\ [Next]_vars => IInv'
  <1> SUFFICES ASSUME IInv, [Next]_vars PROVE IInv'
    OBVIOUS
  <1>1. TypeOK /\ PlaceInv /\ TimeInv /\ SentInv /\ PositionInv
    BY DEF IInv
  <1>2. TypeOK'
    <2>1. Flags' /\ Numbers' /\ (sent \in Reports \cup {None})'
      BY <1>1, Typed, FlagsStep, NumbersStep, ReportsStep
    <2>2. QED BY <2>1 DEF TypeOK, Flags, Numbers, Reports
  <1>3. PlaceInv' /\ TimeInv'
    BY <1>1, PlaceStep, TimeStep
  <1>4. SentInv' /\ PositionInv'
    BY <1>1, SentStep, PositionStep
  <1>5. QED BY <1>2, <1>3, <1>4 DEF IInv

LEMMA PlaybackInvariant == Spec => []IInv
  BY PlaybackInit, PlaybackStep, PTL DEF Spec

-----------------------------------------------------------------------------
(* Every wait of playback.py stays within its timeout, for any timeouts.    *)
THEOREM TypeCorrect == Spec => []TypeOK
  BY PlaybackInvariant, PTL DEF IInv

(* _playback_heartbeat: while media flows or the player idles, Plex hears   *)
(* of the stream once per interval and report timeout.                      *)
THEOREM PlexHears == Spec => []PlexKeepsHearing
  <1>1. IInv => PlexKeepsHearing
    <2> SUFFICES ASSUME IInv, started, pc \in {"reading", "yielded"}, hb # "created"
                 PROVE  sent # None /\ quiet =< MaxQuiet
      BY DEF PlexKeepsHearing
    <2>1. hb \in {"sending", "waiting"}
      BY DEF IInv, TypeOK, PlaceInv
    <2>2. sent # None
      BY <2>1 DEF IInv, SentInv
    <2>3. quiet \in Int /\ hbAge \in Int
      BY TimeAssumption DEF IInv, TypeOK, MaxQuiet
    <2>4. quiet =< MaxQuiet
      BY <2>1, <2>3, TimeAssumption DEF IInv, TimeInv, MaxQuiet
    <2>5. QED BY <2>2, <2>4
  <1>2. QED BY <1>1, PlaybackInvariant, PTL

(* The finally block of streamer() waits for at most one report.            *)
THEOREM StopsPromptly == Spec => []StopIsPrompt
  <1>1. IInv => StopIsPrompt
    BY DEF IInv, TimeInv, StopIsPrompt
  <1>2. QED BY <1>1, PlaybackInvariant, PTL

(* Whichever way a stream ends, its heartbeat has ended, and its connection *)
(* is released unless streamer() was never started.                         *)
THEOREM LeavesNothing == Spec => []NothingLeftBehind
  <1>1. IInv => NothingLeftBehind
    BY DEF IInv, PlaceInv, NothingLeftBehind, Ended
  <1>2. QED BY <1>1, PlaybackInvariant, PTL

(* Only a cancelled clean-up leaves Plex without a last report.             *)
THEOREM ReportsTheEnd == Spec => []StoppedUnlessCancelled
  <1>1. IInv => StoppedUnlessCancelled
    BY DEF IInv, SentInv, StoppedUnlessCancelled
  <1>2. QED BY <1>1, PlaybackInvariant, PTL

(* The heartbeat has ended before "stopped" is sent, so nothing follows it. *)
THEOREM StoppedIsFinal == Spec => NothingAfterStopped
  <1>1. IInv /\ [Next]_vars => (sent # None /\ sent.state = "stopped" => sent' = sent)
    <2> SUFFICES ASSUME IInv, [Next]_vars, sent # None, sent.state = "stopped"
                 PROVE  sent' = sent
      OBVIOUS
    <2>1. pc \in {"stopping", "done"} /\ hb = "finished"
      BY DEF IInv, SentInv
    <2> USE DEF Go, media, stream, beat, report
    <2>2. ASSUME Streamer PROVE sent' = sent
      BY <2>1, <2>2 DEF Streamer, FirstRead, ReadTimesOut, Unwind, Joined, StopReturns,
         JoinCancelled
    <2>3. ASSUME Heartbeat PROVE sent' = sent
      BY <2>1, <2>3 DEF Heartbeat, HbFirst, HbReturns, HbStops, HbPings
    <2>4. ASSUME Outside PROVE sent' = sent
      BY <2>4 DEF Outside, Connected, ConnectFails, Headers, HeadersFail, Chunk, NextRead, BodyEnds,
         Unwind
    <2>5. ASSUME Disconnect PROVE sent' = sent
      BY <2>5 DEF Disconnect, DisconnectBeforeFirstRead, DisconnectInYield, DisconnectInRead,
         DisconnectInFinally, Unwind
    <2>6. Tick \/ Over \/ UNCHANGED vars => sent' = sent
      BY DEF Tick, Over, vars
    <2>7. QED BY <2>2, <2>3, <2>4, <2>5, <2>6 DEF Next
  <1>2. QED BY <1>1, PlaybackInvariant, PTL DEF Spec, NothingAfterStopped

(* Every report of streamer and heartbeat follows the clock: Plex is never  *)
(* ahead of playback, nor behind it by more than it has not heard.          *)
THEOREM PositionsFollowPlayback == Spec => []PositionsFollow
  <1>1. IInv => PositionsFollow
    <2> SUFFICES ASSUME IInv, sent # None
                 PROVE  /\ sent.position =< Position(elapsed)
                        /\ Position(elapsed) - sent.position =< MaxQuiet
      BY DEF PositionsFollow
    <2>1. TypeOK /\ TimeInv /\ PositionInv
      BY DEF IInv
    <2>2. /\ sent.position \in Int /\ quiet \in Int /\ MaxQuiet \in Int
          /\ Position(elapsed) \in Int
      BY <2>1, Typed, Positions, TimeAssumption DEF Reports, Numbers, MaxQuiet
    <2>3. QED BY <2>1, <2>2 DEF TimeInv, PositionInv
  <1>2. QED BY <1>1, PlaybackInvariant, PTL

(* A stream is given up after UPSTREAM_READ_TIMEOUT of asking, not of       *)
(* idling.                                                                  *)
THEOREM IdlersStay == Spec => IdleIsFree
  <1>1. IInv => (pc = "reading" /\ pc' \notin {"reading", "yielded"} /\ age >= ReadTimeout
                   => asked >= ReadTimeout)
    BY DEF IInv, TimeInv
  <1>2. QED BY <1>1, PlaybackInvariant, PTL DEF Spec, IdleIsFree
=============================================================================
