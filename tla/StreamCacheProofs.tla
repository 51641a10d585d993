------------------------- MODULE StreamCacheProofs -------------------------
(***************************************************************************)
(* How old an answer of StreamCache can be, for any settings, limits,      *)
(* number of requests and hosts.                                           *)
(***************************************************************************)
EXTENDS StreamCache, TLAPS

Kinds == {"first", "shows", "show", "media", "episodes"}

Locals ==
  [pc : Steps, kind : Kinds, n : Nat, shows : Nat, found : Nat, age : Nat, old : Nat,
   wait : Nat, tries : Nat]

(* What one show more to be asked can add to the age of the others' lists.  *)
Round == Timeout + 2 * Naps

(* The oldest evidence that n shows do not have the episode.                *)
Chain(n) == ListHorizon(Timeout) + (n - 1) * Round

(* The oldest evidence an answer is built from.                             *)
Decided == Larger(ListHorizon(2 * Timeout), Chain(Shows))

(* A request's locals: where it waits, for how long at most, and how old    *)
(* what it holds is.                                                        *)
Placed(q) ==
  /\ q \in Locals
  /\ q.n <= q.shows /\ q.shows <= Shows /\ q.found <= Shows
  /\ IF q.kind = "episodes" THEN q.n >= 1 ELSE q.n = 0 /\ q.shows = 0
  /\ q.tries <= Naps

Patient(q) ==
  /\ q.pc \in CacheSteps => q.wait <= 1 /\ q.wait <= q.tries
  /\ q.pc = "load" => q.wait <= Limit(q.kind)
  /\ q.pc = "cloud" => q.wait <= Timeout
  /\ q.pc \in {"idle", "done", "failed"} => q.wait = 0

Young(q) ==
  /\ q.pc = "load" => q.age + q.wait <= Limit(q.kind)
  /\ q.pc = "set" => q.age + q.wait <= Limit(q.kind) + q.tries
  /\ q.pc = "setStream" => q.age + q.wait <= Decided + q.tries
  /\ q.pc = "done" => q.age <= Horizon

Chained(q) ==
  /\ q.n <= 1 => q.old = 0
  /\ q.n >= 2 =>
       /\ q.pc = "get" => q.old + q.wait <= Chain(q.n - 1) + q.tries
       /\ q.pc = "load" => q.old + q.wait <= Chain(q.n - 1) + Naps + Timeout
       /\ q.pc = "set" => q.old + q.wait <= Chain(q.n - 1) + Naps + Timeout + q.tries

Good(q) == Placed(q) /\ Patient(q) /\ Young(q) /\ Chained(q)

Entry == [left : Nat, found : 0 .. Shows, age : Nat]

(* A cached list of a kind, no older than limit when it was stored.         *)
Fresh(kind, entry, limit, ttl) ==
  /\ entry \in Entry
  /\ entry.left <= ttl
  /\ entry.left > 0 /\ Deciding(kind, entry.found) => entry.age + entry.left <= limit + ttl

CacheInv ==
  /\ setup \in Setup
  /\ match \in 0 .. MatchTTL
  /\ lists \in [List -> Entry]
  /\ \A l \in List : Fresh(l[1], lists[l], Limit(l[1]) + Naps, setup.metadata)
  /\ stream \in [list : Entry, host : Host]
  /\ Fresh("media", stream.list, Decided + Naps, setup.stream)

RequestInv ==
  /\ req \in [Request -> [host : Host, base : Host, at : Locals]]
  /\ \A r \in Request : Good(req[r].at)

IInv == CacheInv /\ RequestInv

-----------------------------------------------------------------------------
(* The limits are natural numbers.                                          *)
LEMMA Limits ==
  ASSUME setup \in Setup
  PROVE  /\ setup.metadata \in Nat /\ setup.stream \in Nat
         /\ Shows \in Nat /\ Shows >= 1 /\ Timeout \in Nat /\ Timeout >= 1
         /\ RetryTimes \in Nat /\ RetryTimes >= 1 /\ MatchTTL \in Nat
         /\ Naps \in Nat /\ Naps <= RetryTimes - 1 /\ (Naps > 0 => Redis)
         /\ \A kind \in Kinds : Limit(kind) \in Nat /\ Limit(kind) <= 2 * Timeout
         /\ Limit("episodes") = Timeout
  BY ParamAssumption DEF Naps, Limit, Kinds

(* A longer fetch makes older lists, and one show more another round.       *)
LEMMA Horizons ==
  ASSUME setup \in Setup
  PROVE  /\ \A f \in Nat : ListHorizon(f) \in Nat /\ f <= ListHorizon(f)
         /\ \A f, g \in Nat : f <= g => ListHorizon(f) <= ListHorizon(g)
         /\ Round \in Nat
         /\ \A n \in Nat : Chain(n) \in Int /\ Chain(n + 1) = Chain(n) + Round
         /\ Chain(1) = ListHorizon(Timeout)
         /\ \A n \in 1 .. Shows : Chain(n) <= Chain(Shows) /\ Chain(n) >= ListHorizon(Timeout)
         /\ Decided \in Nat
         /\ \A n \in 1 .. Shows : Chain(n) <= Decided
         /\ ListHorizon(2 * Timeout) <= Decided
         /\ Horizon \in Nat
         /\ Decided + Naps <= Horizon
         /\ setup.stream > 0 => Horizon = Decided + Naps + setup.stream - 1
  <1> USE Limits
  <1>1. \A f \in Nat : ListHorizon(f) = f + Naps + Larger(setup.metadata - 1, 0)
    BY DEF ListHorizon
  <1>2. Larger(setup.metadata - 1, 0) \in Nat
    BY DEF Larger
  <1>3. Round \in Nat
    BY DEF Round
  <1>4. ASSUME NEW n \in Int PROVE (n - 1) * Round \in Int /\ n * Round = (n - 1) * Round + Round
    BY <1>3
  <1>5. \A n \in Nat : Chain(n) \in Int /\ Chain(n + 1) = Chain(n) + Round
    BY <1>1, <1>2, <1>3, <1>4 DEF Chain
  <1>6. Chain(1) = ListHorizon(Timeout)
    BY <1>1, <1>2, <1>3 DEF Chain
  <1>7. ASSUME NEW n \in 1 .. Shows
        PROVE  0 <= (n - 1) * Round /\ (n - 1) * Round <= (Shows - 1) * Round
    <2>1. \A a, b \in Nat : a * b \in Nat
      OBVIOUS
    <2>2. (Shows - n) * Round \in Nat /\ (n - 1) * Round \in Nat
      BY <1>3, <2>1
    <2>3. (Shows - 1) * Round = (Shows - n) * Round + (n - 1) * Round
      BY <1>3
    <2>4. (Shows - 1) * Round \in Int
      BY <1>3
    <2>5. QED BY <2>2, <2>3, <2>4
  <1>8. \A n \in 1 .. Shows : Chain(n) <= Chain(Shows) /\ Chain(n) >= ListHorizon(Timeout)
    <2> SUFFICES ASSUME NEW n \in 1 .. Shows
                 PROVE  Chain(n) <= Chain(Shows) /\ Chain(n) >= ListHorizon(Timeout)
      OBVIOUS
    <2> DEFINE a == (n - 1) * Round
               b == (Shows - 1) * Round
    <2>1. a \in Int /\ b \in Int /\ 0 <= a /\ a <= b
      BY <1>4, <1>7
    <2>2. Chain(n) = ListHorizon(Timeout) + a /\ Chain(Shows) = ListHorizon(Timeout) + b
      BY DEF Chain
    <2>3. ListHorizon(Timeout) \in Int
      BY <1>1, <1>2
    <2> HIDE DEF a, b
    <2>4. QED BY <2>1, <2>2, <2>3
  <1>9. Decided \in Nat /\ ListHorizon(2 * Timeout) <= Decided /\ Chain(Shows) <= Decided
    BY <1>1, <1>2, <1>5, <1>8 DEF Decided, Larger
  <1>10. \A n \in 1 .. Shows : Chain(n) <= Decided
    BY <1>5, <1>8, <1>9
  <1>11. Horizon = Decided + Naps + Larger(setup.stream - 1, 0)
    BY DEF Horizon, Decided, Chain, Round
  <1>12. QED
    BY <1>1, <1>2, <1>3, <1>5, <1>6, <1>8, <1>9, <1>10, <1>11 DEF Larger

-----------------------------------------------------------------------------
(* Locals by their fields: the form in which the provers read a request.    *)
Holds(e, pc, kind, n, shows, found, age, old, wait, tries) ==
  /\ e \in Locals
  /\ e.pc = pc /\ e.kind = kind /\ e.n = n /\ e.shows = shows /\ e.found = found
  /\ e.age = age /\ e.old = old /\ e.wait = wait /\ e.tries = tries

LEMMA EnterHolds ==
  ASSUME NEW e, NEW pc, NEW kind, NEW n, NEW shows, NEW found, NEW age, NEW old, NEW wait,
         NEW tries, Holds(e, pc, kind, n, shows, found, age, old, wait, tries),
         NEW p \in Steps, NEW w \in Nat
  PROVE  Holds(Enter(e, p, w), p, kind, n, shows, found, age, old, w, 0)
  BY DEF Enter, Holds, Locals

LEMMA AsleepHolds ==
  /\ Holds(Asleep, "idle", "first", 0, 0, 0, 0, 0, 0, 0)
  /\ Holds([Asleep EXCEPT !.pc = "failed"], "failed", "first", 0, 0, 0, 0, 0, 0, 0)
  /\ \A kind \in Kinds : Holds([Asleep EXCEPT !.kind = kind], "idle", kind, 0, 0, 0, 0, 0, 0, 0)
  /\ \A found, age \in Nat : Holds([Asleep EXCEPT !.found = found, !.age = age],
                                   "idle", "first", 0, 0, found, age, 0, 0, 0)
  <1>1. Holds(Asleep, "idle", "first", 0, 0, 0, 0, 0, 0, 0)
    BY DEF Asleep, Holds, Locals, Kinds, Steps
  <1>2. Asleep \in Locals /\ "failed" \in Steps
    BY <1>1 DEF Holds, Steps
  <1>3. Holds([Asleep EXCEPT !.pc = "failed"], "failed", "first", 0, 0, 0, 0, 0, 0, 0)
    BY <1>1, <1>2 DEF Holds, Locals
  <1>4. ASSUME NEW kind \in Kinds
        PROVE  Holds([Asleep EXCEPT !.kind = kind], "idle", kind, 0, 0, 0, 0, 0, 0, 0)
    BY <1>1 DEF Holds, Locals
  <1>5. ASSUME NEW found \in Nat, NEW age \in Nat
        PROVE  Holds([Asleep EXCEPT !.found = found, !.age = age],
                     "idle", "first", 0, 0, found, age, 0, 0, 0)
    BY <1>1 DEF Holds, Locals
  <1>6. QED BY <1>1, <1>3, <1>4, <1>5

(* Locals that begin a step of a request.                                   *)
LEMMA EnterGood ==
  ASSUME setup \in Setup
  PROVE  /\ Good(Asleep)
         /\ Good([Asleep EXCEPT !.pc = "failed"])
         /\ Good(Enter(Asleep, "getStream", 0))
         /\ Good(Enter(Asleep, "getMatch", 0))
         /\ Good(Enter(Asleep, "setMatch", 0))
         /\ Good(Enter(Asleep, "cloud", Timeout))
  <1>1. Timeout \in Nat /\ Shows \in Nat /\ Naps \in Nat /\ Horizon \in Nat
    BY Limits, Horizons
  <1>2. ASSUME NEW e, NEW pc \in {"idle", "failed", "getStream", "getMatch", "setMatch", "cloud"},
               NEW wait \in Nat, wait = IF pc = "cloud" THEN Timeout ELSE 0,
               Holds(e, pc, "first", 0, 0, 0, 0, 0, wait, 0)
        PROVE  Good(e)
    BY <1>1, <1>2 DEF Holds, Good, Placed, Patient, Young, Chained, CacheSteps
  <1>3. /\ Holds(Asleep, "idle", "first", 0, 0, 0, 0, 0, 0, 0)
        /\ Holds([Asleep EXCEPT !.pc = "failed"], "failed", "first", 0, 0, 0, 0, 0, 0, 0)
    BY AsleepHolds
  <1>4. ASSUME NEW pc \in {"getStream", "getMatch", "setMatch", "cloud"}, NEW wait \in Nat
        PROVE  Holds(Enter(Asleep, pc, wait), pc, "first", 0, 0, 0, 0, 0, wait, 0)
    <2>1. pc \in Steps
      BY DEF Steps, CacheSteps, PlexSteps
    <2>2. QED BY <1>3, <2>1, EnterHolds
  <1>5. Good(Asleep)
    BY <1>2, <1>3
  <1>6. Good([Asleep EXCEPT !.pc = "failed"])
    BY <1>2, <1>3
  <1>7. ASSUME NEW pc \in {"getStream", "getMatch", "setMatch"}
        PROVE  Good(Enter(Asleep, pc, 0))
    BY <1>2, <1>4
  <1>8. Good(Enter(Asleep, "cloud", Timeout))
    BY <1>1, <1>2, <1>4
  <1>9. QED BY <1>5, <1>6, <1>7, <1>8

(* cached_model_list begins.                                                *)
LEMMA AskHolds ==
  ASSUME setup \in Setup, NEW kind \in Kinds
  PROVE  IF setup.metadata > 0
         THEN Holds(Ask(kind), "get", kind, 0, 0, 0, 0, 0, 0, 0)
         ELSE Holds(Ask(kind), "load", kind, 0, 0, 0, 0, 0, Limit(kind), 0)
  <1> DEFINE asking == [Asleep EXCEPT !.kind = kind]
             aged == [asking EXCEPT !.age = 0]
  <1>1. Limit(kind) \in Nat /\ "get" \in Steps /\ "load" \in Steps
    BY Limits DEF Steps, CacheSteps, PlexSteps
  <1>2. Holds(asking, "idle", kind, 0, 0, 0, 0, 0, 0, 0)
    BY AsleepHolds
  <1>3. Holds(aged, "idle", kind, 0, 0, 0, 0, 0, 0, 0)
    <2> HIDE DEF asking
    <2>1. QED BY <1>2 DEF Holds, Locals
  <1>4. Ask(kind) = IF setup.metadata > 0 THEN Enter(asking, "get", 0) ELSE Load(asking)
    BY DEF Ask
  <1>5. Load(asking) = Enter(aged, "load", Limit(kind))
    <2>1. asking.kind = kind
      BY <1>2 DEF Holds
    <2> HIDE DEF asking
    <2>2. QED BY <2>1 DEF Load
  <1> HIDE DEF asking, aged
  <1>6. Holds(Enter(asking, "get", 0), "get", kind, 0, 0, 0, 0, 0, 0, 0)
    BY <1>1, <1>2, EnterHolds
  <1>7. Holds(Enter(aged, "load", Limit(kind)), "load", kind, 0, 0, 0, 0, 0, Limit(kind), 0)
    BY <1>1, <1>3, EnterHolds
  <1>8. QED BY <1>4, <1>5, <1>6, <1>7

LEMMA AskGood ==
  ASSUME setup \in Setup, NEW kind \in Kinds \ {"episodes"}
  PROVE  Good(Ask(kind))
  <1>1. Limit(kind) \in Nat /\ Shows \in Nat /\ Naps \in Nat
    BY Limits
  <1>2. ASSUME NEW e, NEW pc \in {"get", "load"}, NEW wait \in Nat,
               wait = IF pc = "load" THEN Limit(kind) ELSE 0,
               Holds(e, pc, kind, 0, 0, 0, 0, 0, wait, 0)
        PROVE  Good(e)
    BY <1>1, <1>2 DEF Holds, Good, Placed, Patient, Young, Chained, CacheSteps
  <1>3. IF setup.metadata > 0
        THEN Holds(Ask(kind), "get", kind, 0, 0, 0, 0, 0, 0, 0)
        ELSE Holds(Ask(kind), "load", kind, 0, 0, 0, 0, 0, Limit(kind), 0)
    BY AskHolds
  <1>4. QED BY <1>1, <1>2, <1>3

LEMMA AskEpisodesGood ==
  ASSUME setup \in Setup, NEW shows \in 1 .. Shows, NEW n \in 1 .. shows, NEW old \in Nat,
         n = 1 => old = 0, n >= 2 => old <= Chain(n - 1)
  PROVE  Good(AskEpisodes(n, shows, old))
  <1>1. Limit("episodes") = Timeout /\ Timeout \in Nat /\ Shows \in Nat /\ Naps \in Nat
    BY Limits
  <1>2. n - 1 \in Nat /\ Chain(n - 1) \in Int
    BY <1>1, Horizons
  <1>3. ASSUME NEW e, NEW pc \in {"get", "load"}, NEW wait \in Nat,
               wait = IF pc = "load" THEN Timeout ELSE 0,
               Holds(e, pc, "episodes", n, shows, 0, 0, old, wait, 0)
        PROVE  Good(e)
    BY <1>1, <1>2, <1>3 DEF Holds, Good, Placed, Patient, Young, Chained, CacheSteps
  <1> DEFINE q == Ask("episodes")
  <1>4. IF setup.metadata > 0
        THEN Holds(q, "get", "episodes", 0, 0, 0, 0, 0, 0, 0)
        ELSE Holds(q, "load", "episodes", 0, 0, 0, 0, 0, Timeout, 0)
    <2>1. "episodes" \in Kinds
      BY DEF Kinds
    <2>2. QED BY <1>1, <2>1, AskHolds
  <1>5. AskEpisodes(n, shows, old) = [q EXCEPT !.n = n, !.shows = shows, !.old = old]
    BY DEF AskEpisodes
  <1> HIDE DEF q
  <1>6. n \in Nat /\ shows \in Nat
    BY <1>1
  <1>7. ASSUME NEW pc, NEW wait, Holds(q, pc, "episodes", 0, 0, 0, 0, 0, wait, 0)
        PROVE  Holds([q EXCEPT !.n = n, !.shows = shows, !.old = old],
                     pc, "episodes", n, shows, 0, 0, old, wait, 0)
    BY <1>6, <1>7 DEF Holds, Locals
  <1>8. QED BY <1>1, <1>3, <1>4, <1>5, <1>7

LEMMA BuildGood ==
  ASSUME setup \in Setup, NEW found \in 0 .. Shows, NEW age \in Nat, age <= Decided
  PROVE  Good(Build(found, age))
  <1>1. /\ Shows \in Nat /\ Naps \in Nat /\ Decided \in Nat /\ Horizon \in Nat
        /\ Decided + Naps <= Horizon
    BY Limits, Horizons
  <1>2. ASSUME NEW e, NEW pc \in {"setStream", "done"},
               Holds(e, pc, "first", 0, 0, found, age, 0, 0, 0)
        PROVE  Good(e)
    BY <1>1, <1>2 DEF Holds, Good, Placed, Patient, Young, Chained, CacheSteps
  <1> DEFINE q == [Asleep EXCEPT !.found = found, !.age = age]
  <1>3. Holds(q, "idle", "first", 0, 0, found, age, 0, 0, 0)
    <2>1. found \in Nat
      BY <1>1
    <2>2. QED BY <2>1, AsleepHolds
  <1>4. Build(found, age) = Enter(q, IF setup.stream > 0 THEN "setStream" ELSE "done", 0)
    BY DEF Build
  <1> HIDE DEF q
  <1>5. ASSUME NEW pc \in {"setStream", "done"}
        PROVE  Holds(Enter(q, pc, 0), pc, "first", 0, 0, found, age, 0, 0, 0)
    <2>1. pc \in Steps
      BY DEF Steps, CacheSteps
    <2>2. QED BY <1>3, <2>1, EnterHolds
  <1>6. QED BY <1>2, <1>4, <1>5

LEMMA KnownGood ==
  ASSUME setup \in Setup
  PROVE  Good(Known)
  BY EnterGood, AskGood DEF Known, Kinds

LEMMA ResolveGood ==
  ASSUME setup \in Setup
  PROVE  Good(Resolve)
  BY EnterGood, AskGood DEF Resolve, Kinds

(* How a request goes on after a list that is recent enough.                *)
LEMMA AfterGood ==
  ASSUME setup \in Setup, NEW q, Placed(q), Chained(q), NEW found \in 0 .. Shows,
         NEW age \in Nat,
         Deciding(q.kind, found) => age <= ListHorizon(Limit(q.kind)),
         q.n >= 2 => q.old <= Chain(q.n)
  PROVE  Good(After(q, found, age))
  <1>1. /\ q.kind \in Kinds /\ q.n \in Nat /\ q.shows \in Nat /\ q.old \in Nat
        /\ q.n <= q.shows /\ q.shows <= Shows
        /\ IF q.kind = "episodes" THEN q.n >= 1 ELSE q.n = 0 /\ q.shows = 0
        /\ q.n <= 1 => q.old = 0
        /\ Shows \in Nat
    BY Limits DEF Placed, Locals, Chained
  <1>2. Limit(q.kind) \in Nat /\ Limit(q.kind) <= 2 * Timeout /\ 2 * Timeout \in Nat
    BY <1>1, Limits
  <1>3. /\ ListHorizon(Limit(q.kind)) <= ListHorizon(2 * Timeout)
        /\ ListHorizon(Limit(q.kind)) \in Nat /\ ListHorizon(2 * Timeout) \in Nat
        /\ ListHorizon(2 * Timeout) <= Decided /\ Decided \in Nat
    BY <1>2, Horizons
  <1>4. Deciding(q.kind, found) => age <= Decided
    BY <1>3
  <1>5. q.n >= 1 => /\ Chain(q.n) \in Int /\ Chain(1) \in Int
                    /\ Chain(1) <= Chain(q.n) /\ Chain(q.n) <= Decided
    <2>1. Chain(1) \in Int /\ Chain(q.n) \in Int
      BY <1>1, Horizons
    <2>2. q.n >= 1 => q.n \in 1 .. Shows
      BY <1>1
    <2>3. \A n \in 1 .. Shows : Chain(1) <= Chain(n) /\ Chain(n) <= Decided
      BY Horizons
    <2>4. QED BY <2>1, <2>2, <2>3
  <1>6. q.kind = "episodes" /\ found = 0 => age <= Chain(1)
    BY Limits, Horizons DEF Deciding
  <1>7. found = 0 => Larger(q.old, age) \in Nat /\ Larger(q.old, age) <= Decided
    <2>1. q.old <= Decided
      <3>1. CASE q.n >= 2
        BY <1>1, <1>3, <1>5, <3>1
      <3>2. CASE ~(q.n >= 2)
        BY <1>1, <1>3, <3>2
      <3>3. QED BY <3>1, <3>2
    <2>2. QED BY <1>1, <1>4, <2>1 DEF Larger, Deciding
  <1>8. CASE found = 0 /\ q.n < q.shows
    <2>1. q.kind = "episodes" /\ q.n >= 1
      BY <1>1, <1>8
    <2>2. Larger(q.old, age) <= Chain(q.n)
      BY <1>1, <1>5, <1>6, <1>8, <2>1 DEF Larger
    <2>3. Good(AskEpisodes(q.n + 1, q.shows, Larger(q.old, age)))
      <3>1. /\ q.shows \in 1 .. Shows /\ q.n + 1 \in 1 .. q.shows /\ (q.n + 1) - 1 = q.n
            /\ q.n + 1 # 1
        BY <1>1, <1>8
      <3>2. QED BY <1>7, <1>8, <2>2, <3>1, AskEpisodesGood
    <2>4. After(q, found, age) = AskEpisodes(q.n + 1, q.shows, Larger(q.old, age))
      BY <1>1, <1>8, <2>1 DEF After
    <2>5. QED BY <2>3, <2>4
  <1>9. CASE found = 0 /\ ~(q.n < q.shows)
    <2>1. q.n = q.shows
      BY <1>1, <1>9
    <2>2. After(q, found, age) = Build(0, Larger(q.old, age))
      BY <1>1, <1>9, <2>1 DEF After
    <2>3. QED BY <1>1, <1>7, <1>9, <2>2, BuildGood
  <1>10. CASE found > 0 /\ q.kind = "media"
    <2>1. After(q, found, age) = Build(found, age)
      BY <1>10 DEF After
    <2>2. QED BY <1>4, <1>10, <2>1, BuildGood DEF Deciding
  <1>11. CASE found > 0 /\ q.kind = "first"
    <2>1. After(q, found, age) = Known
      BY <1>11 DEF After
    <2>2. QED BY <2>1, KnownGood
  <1>12. CASE found > 0 /\ q.kind \in {"shows", "show"}
    <2>1. After(q, found, age) = AskEpisodes(1, found, 0)
      BY <1>12 DEF After
    <2>2. QED BY <1>1, <1>12, <2>1, AskEpisodesGood
  <1>13. CASE found > 0 /\ q.kind = "episodes"
    <2>1. After(q, found, age) = IF setup.route = "keyEpisode" THEN Ask("media")
                                                             ELSE Enter(Asleep, "setMatch", 0)
      BY <1>13 DEF After
    <2>2. QED BY <2>1, AskGood, EnterGood DEF Kinds
  <1>14. QED BY <1>1, <1>8, <1>9, <1>10, <1>11, <1>12, <1>13 DEF Kinds

-----------------------------------------------------------------------------
(* The settings never change, so what is good stays good.                   *)
LEMMA SameLimits ==
  ASSUME setup' = setup
  PROVE  /\ \A kind : Limit(kind)' = Limit(kind)
         /\ \A n : Chain(n)' = Chain(n)
         /\ Naps' = Naps /\ Decided' = Decided /\ Horizon' = Horizon
  BY DEF Limit, Chain, Naps, Redis, Decided, Horizon, ListHorizon, Round, Larger

LEMMA GoodStays ==
  ASSUME setup' = setup, NEW r \in Request, Good(req'[r].at)
  PROVE  Good(req[r].at)'
  <1>1. /\ \A kind : Limit(kind)' = Limit(kind)
        /\ \A n : Chain(n)' = Chain(n)
        /\ Naps' = Naps /\ Decided' = Decided /\ Horizon' = Horizon
    BY SameLimits
  <1>2. Placed(req[r].at)'
    BY <1>1 DEF Good, Placed
  <1>3. Patient(req[r].at)'
    BY <1>1 DEF Good, Patient
  <1>4. Young(req[r].at)'
    BY <1>1 DEF Good, Young
  <1>5. Chained(req[r].at)'
    BY <1>1 DEF Good, Chained
  <1>6. QED BY <1>2, <1>3, <1>4, <1>5 DEF Good

Sent == [host : Host, base : Host, at : Locals]

(* One request moves.                                                       *)
LEMMA OneMoves ==
  ASSUME RequestInv, setup' = setup, NEW r \in Request, NEW new \in Sent, Good(new.at),
         req' = [req EXCEPT ![r] = new]
  PROVE  RequestInv'
  <1>1. req \in [Request -> Sent]
    BY DEF RequestInv, Sent
  <1>2. req' \in [Request -> Sent]
    BY <1>1
  <1>3. ASSUME NEW s \in Request PROVE Good(req[s].at)'
    <2>1. CASE s = r
      <3>1. req'[s] = new
        BY <1>1, <2>1
      <3>2. QED BY <3>1, GoodStays
    <2>2. CASE s # r
      <3>1. req'[s] = req[s]
        BY <1>1, <2>2
      <3>2. Good(req'[s].at)
        BY <3>1 DEF RequestInv
      <3>3. QED BY <3>2, GoodStays
    <2>3. QED BY <2>1, <2>2
  <1>4. QED BY <1>2, <1>3 DEF RequestInv, Sent

LEMMA GoesKeeps ==
  ASSUME RequestInv, setup' = setup, NEW r \in Request, NEW q, Good(q), Goes(r, q)
  PROVE  RequestInv'
  <1>1. req \in [Request -> Sent] /\ q \in Locals
    BY DEF RequestInv, Sent, Good, Placed
  <1> DEFINE new == [req[r] EXCEPT !.at = q]
  <1>2. new \in Sent /\ new.at = q
    BY <1>1 DEF Sent
  <1>3. req' = [req EXCEPT ![r] = new]
    BY DEF Goes
  <1> HIDE DEF new
  <1>4. QED BY <1>2, <1>3, OneMoves

LEMMA SameCache ==
  ASSUME CacheInv, UNCHANGED <<setup, match, lists, stream>>
  PROVE  CacheInv'
  <1>1. /\ \A kind : Limit(kind)' = Limit(kind)
        /\ Naps' = Naps /\ Decided' = Decided
    BY SameLimits
  <1>2. QED BY <1>1 DEF CacheInv, Fresh, Deciding

(* What a request's place says, for the steps below.                        *)
LEMMA Ready ==
  ASSUME IInv, NEW r \in Request
  PROVE  LET q == req[r].at
         IN /\ setup \in Setup /\ Good(q) /\ q \in Locals
            /\ q.pc \in Steps /\ q.kind \in Kinds
            /\ {q.n, q.shows, q.found, q.age, q.old, q.wait, q.tries} \subseteq Nat
            /\ {req[r].host, req[r].base} \subseteq Host
  BY DEF IInv, CacheInv, RequestInv, Good, Placed, Locals

(* The limits a step compares with, one by one.                             *)
LEMMA Room ==
  ASSUME IInv, NEW r \in Request
  PROVE  LET q == req[r].at
         IN /\ Limit(q.kind) \in Nat /\ Naps \in Nat /\ Timeout \in Nat
            /\ setup.metadata \in Nat /\ setup.stream \in Nat
            /\ ListHorizon(Limit(q.kind)) = Limit(q.kind) + Naps + Larger(setup.metadata - 1, 0)
            /\ q.tries <= Naps
            /\ Shows \in Nat /\ Shows >= 1
            /\ Decided \in Nat /\ Horizon \in Nat /\ Decided + Naps <= Horizon
            /\ q.n >= 2 => /\ Chain(q.n - 1) \in Int
                           /\ Chain(q.n) = Chain(q.n - 1) + Timeout + 2 * Naps
            /\ q.kind = "episodes" => Limit(q.kind) = Timeout
  <1> DEFINE q == req[r].at
  <1>1. setup \in Setup /\ q.n \in Nat /\ q.kind \in Kinds /\ q.tries <= Naps
    BY Ready DEF Good, Placed
  <1> HIDE DEF q
  <1>2. /\ Limit(q.kind) \in Nat /\ Naps \in Nat /\ Timeout \in Nat
        /\ setup.metadata \in Nat /\ setup.stream \in Nat
        /\ Shows \in Nat /\ Shows >= 1
        /\ q.kind = "episodes" => Limit(q.kind) = Timeout
    BY <1>1, Limits
  <1>3. Decided \in Nat /\ Horizon \in Nat /\ Decided + Naps <= Horizon /\ Round \in Nat
    BY <1>1, Horizons
  <1>4. ASSUME q.n >= 2
        PROVE  /\ Chain(q.n - 1) \in Int
               /\ Chain(q.n) = Chain(q.n - 1) + Timeout + 2 * Naps
    <2>1. q.n - 1 \in Nat /\ (q.n - 1) + 1 = q.n
      BY <1>1, <1>4
    <2>2. Chain(q.n - 1) \in Int /\ Chain((q.n - 1) + 1) = Chain(q.n - 1) + Round
      BY <1>1, <2>1, Horizons
    <2>3. QED BY <1>2, <2>1, <2>2 DEF Round
  <1>5. QED BY <1>1, <1>2, <1>3, <1>4 DEF ListHorizon, q

-----------------------------------------------------------------------------
(* The cached lists and the cached response.                                *)
LEMMA KeyIsList ==
  ASSUME IInv, NEW r \in Request
  PROVE  Key(r) \in List /\ Key(r)[1] = req[r].at.kind
  BY Ready, Limits DEF Key, List, Good, Placed, Kinds

(* A list found in the cache is recent enough.                              *)
LEMMA HitIsRecent ==
  ASSUME IInv, NEW r \in Request, lists[Key(r)].left > 0
  PROVE  LET entry == lists[Key(r)]
             kind == req[r].at.kind
         IN /\ entry.found \in 0 .. Shows /\ entry.age \in Nat
            /\ Deciding(kind, entry.found) => entry.age <= ListHorizon(Limit(kind))
  <1> DEFINE entry == lists[Key(r)]
             kind == req[r].at.kind
  <1>1. Fresh(kind, entry, Limit(kind) + Naps, setup.metadata)
    BY KeyIsList DEF IInv, CacheInv
  <1>2. /\ entry.left \in Nat /\ entry.left <= setup.metadata /\ entry.found \in 0 .. Shows
        /\ entry.age \in Nat
        /\ Deciding(kind, entry.found) => entry.age + entry.left
                                            <= Limit(kind) + Naps + setup.metadata
    BY <1>1 DEF Fresh, Entry
  <1>3. /\ Limit(kind) \in Nat /\ Naps \in Nat /\ setup.metadata \in Nat
        /\ ListHorizon(Limit(kind)) = Limit(kind) + Naps + Larger(setup.metadata - 1, 0)
    BY Room
  <1> HIDE DEF entry, kind
  <1>4. entry.left > 0
    BY DEF entry
  <1>5. QED BY <1>2, <1>3, <1>4 DEF Larger, entry, kind

LEMMA AskedLongAgo ==
  ASSUME IInv, NEW r \in Request, req[r].at.pc \in {"get", "load", "set"},
         req[r].at.n >= 2, req[r].at.pc # "load" => req[r].at.wait = 0
  PROVE  req[r].at.old <= Chain(req[r].at.n)
  <1> DEFINE q == req[r].at
  <1>1. /\ {q.n, q.old, q.wait, q.tries} \subseteq Nat /\ q.tries <= Naps /\ Naps \in Nat
        /\ Timeout \in Nat /\ Chained(q) /\ q.n >= 2
        /\ Chain(q.n - 1) \in Int /\ Chain(q.n) = Chain(q.n - 1) + Timeout + 2 * Naps
        /\ q.pc \in {"get", "load", "set"} /\ (q.pc # "load" => q.wait = 0)
    BY Ready, Room DEF Good
  <1> HIDE DEF q
  <1>2. QED BY <1>1 DEF Chained, q

(* The clock of a cached list.                                              *)
LEMMA OlderIsFresh ==
  ASSUME NEW kind, NEW entry, NEW limit \in Nat, NEW ttl \in Nat, Shows \in Nat,
         Fresh(kind, entry, limit, ttl)
  PROVE  Fresh(kind, Older(kind, entry), limit, ttl)
  <1>1. entry \in Entry
    BY DEF Fresh
  <1>2. CASE entry.left <= 1
    <2>1. Older(kind, entry) = Nothing
      BY <1>2 DEF Older
    <2>2. Nothing \in Entry /\ Nothing.left = 0
      BY DEF Nothing, Entry
    <2>3. QED BY <2>1, <2>2 DEF Fresh
  <1>3. CASE ~(entry.left <= 1)
    <2> DEFINE age == IF Deciding(kind, entry.found) THEN entry.age + 1 ELSE 0
               new == [entry EXCEPT !.left = entry.left - 1, !.age = age]
    <2>1. Older(kind, entry) = new
      BY <1>3 DEF Older
    <2>2. entry.left - 1 \in Nat /\ age \in Nat
      BY <1>1, <1>3 DEF Entry
    <2> HIDE DEF age
    <2>3. new \in Entry /\ new.left = entry.left - 1 /\ new.found = entry.found /\ new.age = age
      BY <1>1, <2>2 DEF Entry
    <2> HIDE DEF new
    <2>4. entry.left \in Nat /\ entry.age \in Nat
      BY <1>1 DEF Entry
    <2>5. Fresh(kind, new, limit, ttl)
      BY <2>3, <2>4, <1>3 DEF Fresh, age
    <2>6. QED BY <2>1, <2>5
  <1>4. QED BY <1>2, <1>3

(* What is stored is no older than what it is made from.                    *)
LEMMA CachedIsFresh ==
  ASSUME NEW kind, NEW found \in 0 .. Shows, NEW age \in Nat, NEW ttl \in Nat, NEW limit \in Nat,
         age <= limit
  PROVE  Fresh(kind, Cached(kind, found, age, ttl), limit, ttl)
  <1> DEFINE aged == IF Deciding(kind, found) THEN age ELSE 0
             new == [left |-> ttl, found |-> found, age |-> aged]
  <1>1. Cached(kind, found, age, ttl) = new
    BY DEF Cached
  <1>2. aged \in Nat /\ (Deciding(kind, found) => aged <= limit)
    OBVIOUS
  <1> HIDE DEF aged
  <1>3. new \in Entry /\ new.left = ttl /\ new.found = found /\ new.age = aged
    BY <1>2 DEF Entry
  <1> HIDE DEF new
  <1>4. QED BY <1>1, <1>2, <1>3 DEF Fresh

-----------------------------------------------------------------------------
(* Another attempt takes a tick, and one of the Naps.                       *)
LEMMA RefusedGood ==
  ASSUME IInv, NEW r \in Request, Refused(r)
  PROVE  Good([req[r].at EXCEPT !.tries = @ + 1, !.wait = 1])
  <1> DEFINE q == req[r].at
             tries == q.tries + 1
             e == [q EXCEPT !.tries = tries, !.wait = 1]
  <1>1. /\ Good(q) /\ q \in Locals /\ q.pc \in CacheSteps /\ q.wait = 0
        /\ {q.n, q.shows, q.found, q.age, q.old, q.wait, q.tries} \subseteq Nat
        /\ q.tries + 1 <= Naps /\ Naps \in Nat
    <2>1. setup \in Setup /\ RetryTimes \in Nat
      BY Ready, Limits
    <2>2. Naps = RetryTimes - 1
      BY <2>1 DEF Refused, Naps
    <2>3. q.tries \in Nat /\ q.tries + 1 < RetryTimes
      BY Ready DEF Refused
    <2>4. QED BY Ready, <2>1, <2>2, <2>3 DEF Refused
  <1>2. Limit(q.kind) \in Nat /\ Decided \in Nat /\ (q.n >= 2 => Chain(q.n - 1) \in Int)
        /\ Timeout \in Nat
    BY Room
  <1> HIDE DEF q
  <1>3. tries \in Nat /\ 1 \in Nat
    BY <1>1
  <1> HIDE DEF tries
  <1>4. Holds(e, q.pc, q.kind, q.n, q.shows, q.found, q.age, q.old, 1, tries)
    BY <1>1, <1>3 DEF Holds, Locals
  <1> HIDE DEF e
  <1>5. Placed(e)
    BY <1>1, <1>4 DEF Good, Placed, Holds, tries
  <1>6. Patient(e)
    BY <1>1, <1>4 DEF Patient, Holds, CacheSteps, tries
  <1>7. Young(e)
    BY <1>1, <1>2, <1>4 DEF Good, Young, Holds, CacheSteps, tries
  <1>8. Chained(e)
    BY <1>1, <1>2, <1>4 DEF Good, Chained, Holds, CacheSteps, tries
  <1>9. QED BY <1>5, <1>6, <1>7, <1>8 DEF Good, e, q, tries

LEMMA LoadGood ==
  ASSUME IInv, NEW r \in Request, ListMiss(r)
  PROVE  Good(Load(req[r].at))
  <1> DEFINE q == req[r].at
             aged == [q EXCEPT !.age = 0]
             e == Enter(aged, "load", Limit(q.kind))
  <1>1. /\ Good(q) /\ q \in Locals /\ q.pc = "get" /\ q.wait = 0
        /\ {q.n, q.shows, q.found, q.age, q.old, q.wait, q.tries} \subseteq Nat
        /\ q.tries <= Naps /\ Naps \in Nat /\ Timeout \in Nat /\ Limit(q.kind) \in Nat
        /\ q.n >= 2 => Chain(q.n - 1) \in Int
        /\ q.kind = "episodes" => Limit(q.kind) = Timeout
    BY Ready, Room DEF ListMiss, At
  <1>2. Load(q) = e
    BY DEF Load
  <1> HIDE DEF q
  <1>3. Holds(aged, q.pc, q.kind, q.n, q.shows, q.found, 0, q.old, q.wait, q.tries)
    BY <1>1 DEF Holds, Locals
  <1> HIDE DEF aged
  <1>4. "load" \in Steps
    BY DEF Steps, PlexSteps
  <1>5. Holds(e, "load", q.kind, q.n, q.shows, q.found, 0, q.old, Limit(q.kind), 0)
    BY <1>1, <1>3, <1>4, EnterHolds
  <1> HIDE DEF e
  <1>6. Placed(e)
    BY <1>1, <1>5 DEF Good, Placed, Holds
  <1>7. Patient(e) /\ Young(e)
    BY <1>1, <1>5 DEF Patient, Young, Holds, CacheSteps
  <1>8. Chained(e)
    BY <1>1, <1>5 DEF Good, Chained, Placed, Holds
  <1>9. QED BY <1>2, <1>6, <1>7, <1>8 DEF Good, e, q

LEMMA LoadedGood ==
  ASSUME IInv, NEW r \in Request, req[r].at.pc = "load", NEW found \in 0 .. Shows
  PROVE  LET q == [req[r].at EXCEPT !.found = found]
         IN Good(IF setup.metadata > 0 THEN Enter(q, "set", 0) ELSE After(q, found, q.age))
  <1> DEFINE p == req[r].at
             q == [p EXCEPT !.found = found]
             e == Enter(q, "set", 0)
  <1>1. /\ Good(p) /\ p \in Locals /\ p.pc = "load" /\ p.kind \in Kinds /\ setup \in Setup
        /\ {p.n, p.shows, p.found, p.age, p.old, p.wait, p.tries} \subseteq Nat
        /\ p.tries <= Naps /\ Naps \in Nat /\ Timeout \in Nat /\ Limit(p.kind) \in Nat
        /\ setup.metadata \in Nat /\ found \in Nat
        /\ ListHorizon(Limit(p.kind)) = Limit(p.kind) + Naps + Larger(setup.metadata - 1, 0)
        /\ p.n >= 2 => Chain(p.n - 1) \in Int
    BY Ready, Room
  <1>2. p.n >= 2 => p.old <= Chain(p.n)
    BY <1>1, AskedLongAgo
  <1> HIDE DEF p
  <1>3. Holds(q, "load", p.kind, p.n, p.shows, found, p.age, p.old, p.wait, p.tries)
    BY <1>1 DEF Holds, Locals
  <1> HIDE DEF q
  <1>4. p.age <= Limit(p.kind)
    BY <1>1 DEF Good, Young
  <1>5. Good(e)
    <2>1. "set" \in Steps
      BY DEF Steps, CacheSteps
    <2>2. Holds(e, "set", p.kind, p.n, p.shows, found, p.age, p.old, 0, 0)
      BY <1>3, <2>1, EnterHolds
    <2> HIDE DEF e
    <2>3. Placed(e)
      BY <1>1, <2>2 DEF Good, Placed, Holds
    <2>4. Patient(e) /\ Young(e)
      BY <1>1, <1>4, <2>2 DEF Patient, Young, Holds, CacheSteps
    <2>5. Chained(e)
      BY <1>1, <2>2 DEF Good, Chained, Holds
    <2>6. QED BY <2>3, <2>4, <2>5 DEF Good
  <1>6. Good(After(q, found, q.age))
    <2>1. Placed(q)
      BY <1>1, <1>3 DEF Good, Placed, Holds
    <2>2. Chained(q)
      BY <1>1, <1>3 DEF Good, Chained, Holds
    <2>3. q.age \in Nat /\ q.age = p.age /\ q.kind = p.kind /\ q.n = p.n /\ q.old = p.old
      BY <1>1, <1>3 DEF Holds
    <2>4. p.age <= ListHorizon(Limit(p.kind))
      BY <1>1, <1>4 DEF Larger
    <2>5. QED BY <1>1, <1>2, <2>1, <2>2, <2>3, <2>4, AfterGood
  <1>7. QED BY <1>5, <1>6 DEF e, q, p

(* A list in hand, from the cache or about to be cached.                    *)
LEMMA ListHitGood ==
  ASSUME IInv, NEW r \in Request, ListHit(r)
  PROVE  Good(After(req[r].at, lists[Key(r)].found, lists[Key(r)].age))
  <1> DEFINE q == req[r].at
  <1>1. /\ setup \in Setup /\ Placed(q) /\ Chained(q)
        /\ q.pc = "get" /\ q.wait = 0 /\ lists[Key(r)].left > 0
    BY Ready DEF Good, ListHit, At
  <1>2. q.n >= 2 => q.old <= Chain(q.n)
    BY <1>1, AskedLongAgo
  <1>3. /\ lists[Key(r)].found \in 0 .. Shows /\ lists[Key(r)].age \in Nat
        /\ Deciding(q.kind, lists[Key(r)].found)
             => lists[Key(r)].age <= ListHorizon(Limit(q.kind))
    BY <1>1, HitIsRecent
  <1> HIDE DEF q
  <1>4. Good(After(q, lists[Key(r)].found, lists[Key(r)].age))
    BY <1>1, <1>2, <1>3, AfterGood
  <1>5. QED BY <1>4 DEF q

LEMMA ListSetGood ==
  ASSUME IInv, NEW r \in Request, ListSet(r)
  PROVE  LET q == req[r].at
         IN /\ Good(After(q, q.found, q.age))
            /\ q.found \in 0 .. Shows /\ q.age \in Nat /\ q.age <= Limit(q.kind) + Naps
  <1> DEFINE q == req[r].at
  <1>1. /\ setup \in Setup /\ Good(q) /\ q.pc = "set" /\ q.wait = 0
        /\ {q.n, q.shows, q.found, q.age, q.old, q.wait, q.tries} \subseteq Nat
        /\ q.tries <= Naps /\ Naps \in Nat /\ Limit(q.kind) \in Nat /\ setup.metadata \in Nat
        /\ ListHorizon(Limit(q.kind)) = Limit(q.kind) + Naps + Larger(setup.metadata - 1, 0)
        /\ Shows \in Nat
    BY Ready, Room DEF ListSet, At
  <1>2. q.n >= 2 => q.old <= Chain(q.n)
    BY <1>1, AskedLongAgo
  <1> HIDE DEF q
  <1>3. q.age <= Limit(q.kind) + Naps
    BY <1>1 DEF Good, Young
  <1>4. q.found \in 0 .. Shows
    BY <1>1 DEF Good, Placed
  <1>5. q.age <= ListHorizon(Limit(q.kind))
    BY <1>1, <1>3 DEF Larger
  <1>6. Placed(q) /\ Chained(q)
    BY <1>1 DEF Good
  <1>7. Good(After(q, q.found, q.age))
    BY <1>1, <1>2, <1>4, <1>5, <1>6, AfterGood
  <1>8. QED BY <1>1, <1>3, <1>4, <1>7 DEF q

LEMMA StreamSetGood ==
  ASSUME IInv, NEW r \in Request, StreamSet(r)
  PROVE  LET q == req[r].at
         IN /\ Good([q EXCEPT !.pc = "done"])
            /\ q.found \in 0 .. Shows /\ q.age \in Nat /\ q.age <= Decided + Naps
  <1> DEFINE q == req[r].at
             e == [q EXCEPT !.pc = "done"]
  <1>1. /\ Good(q) /\ q \in Locals /\ q.pc = "setStream" /\ q.wait = 0
        /\ {q.n, q.shows, q.found, q.age, q.old, q.wait, q.tries} \subseteq Nat
        /\ q.tries <= Naps /\ Naps \in Nat /\ Decided \in Nat /\ Horizon \in Nat
        /\ Decided + Naps <= Horizon /\ Shows \in Nat
    BY Ready, Room DEF StreamSet, At
  <1> HIDE DEF q
  <1>2. q.age <= Decided + Naps
    BY <1>1 DEF Good, Young
  <1>3. q.found \in 0 .. Shows
    BY <1>1 DEF Good, Placed
  <1>4. Holds(e, "done", q.kind, q.n, q.shows, q.found, q.age, q.old, q.wait, q.tries)
    BY <1>1 DEF Holds, Locals, Steps
  <1> HIDE DEF e
  <1>5. Placed(e)
    BY <1>1, <1>4 DEF Good, Placed, Holds
  <1>6. Patient(e) /\ Young(e)
    BY <1>1, <1>2, <1>4 DEF Patient, Young, Holds, CacheSteps
  <1>7. Chained(e)
    BY <1>1, <1>4 DEF Good, Chained, Holds
  <1>8. QED BY <1>1, <1>2, <1>3, <1>5, <1>6, <1>7 DEF Good, e, q

LEMMA StreamHitGood ==
  ASSUME IInv, NEW r \in Request, StreamHit(r)
  PROVE  Good([Asleep EXCEPT !.pc = "done", !.found = stream.list.found, !.age = stream.list.age])
  <1> DEFINE found == stream.list.found
             age == stream.list.age
             e == [Asleep EXCEPT !.pc = "done", !.found = found, !.age = age]
  <1>1. /\ setup \in Setup /\ Fresh("media", stream.list, Decided + Naps, setup.stream)
        /\ stream.list.left > 0
    BY DEF IInv, CacheInv, StreamHit
  <1>2. /\ found \in 0 .. Shows /\ age \in Nat /\ stream.list.left \in Nat
        /\ stream.list.left <= setup.stream
        /\ age + stream.list.left <= Decided + Naps + setup.stream
    BY <1>1 DEF Fresh, Entry, Deciding
  <1>3. /\ setup.stream \in Nat /\ Naps \in Nat /\ Decided \in Nat /\ Shows \in Nat
        /\ setup.stream > 0 => Horizon = Decided + Naps + setup.stream - 1
    BY <1>1, Limits, Horizons
  <1>4. age <= Horizon
    BY <1>1, <1>2, <1>3
  <1>5. found \in Nat
    BY <1>2, <1>3
  <1> HIDE DEF found, age
  <1>6. Holds(e, "done", "first", 0, 0, found, age, 0, 0, 0)
    BY <1>2, <1>5, AsleepHolds DEF Holds, Locals, Steps
  <1> HIDE DEF e
  <1>7. Good(e)
    BY <1>2, <1>3, <1>4, <1>6 DEF Good, Placed, Patient, Young, Chained, Holds, CacheSteps
  <1>8. QED BY <1>7 DEF e, found, age

(* A tick takes from the wait what it adds to the age.                      *)
LEMMA WaitedGood ==
  ASSUME IInv, NEW r \in Request, Tick
  PROVE  Good(Waited(req[r].at))
  <1> DEFINE q == req[r].at
             wait == IF q.pc = "idle" THEN 0 ELSE q.wait - 1
             age == IF q.pc \in {"load", "set", "setStream"} THEN q.age + 1 ELSE q.age
             old == IF q.pc # "idle" /\ q.kind = "episodes" /\ q.n > 1 THEN q.old + 1 ELSE q.old
             e == [q EXCEPT !.wait = wait, !.age = age, !.old = old]
  <1>1. /\ Good(q) /\ q \in Locals
        /\ {q.n, q.shows, q.found, q.age, q.old, q.wait, q.tries} \subseteq Nat
        /\ q.pc = "idle" \/ q.wait > 0
    BY Ready DEF Tick
  <1>2. /\ Limit(q.kind) \in Nat /\ Naps \in Nat /\ Timeout \in Nat /\ Decided \in Nat
        /\ q.n >= 2 => Chain(q.n - 1) \in Int
    BY Room
  <1>3. Waited(q) = e
    BY DEF Waited
  <1> HIDE DEF q
  <1>4. wait \in Nat /\ age \in Nat /\ old \in Nat
    BY <1>1
  <1> HIDE DEF wait, age, old
  <1>5. Holds(e, q.pc, q.kind, q.n, q.shows, q.found, age, old, wait, q.tries)
    BY <1>1, <1>4 DEF Holds, Locals
  <1> HIDE DEF e
  <1>6. Placed(e)
    BY <1>1, <1>5 DEF Good, Placed, Holds
  <1>7. Patient(e)
    BY <1>1, <1>2, <1>4, <1>5 DEF Good, Patient, Holds, CacheSteps, wait
  <1>8. Young(e)
    BY <1>1, <1>2, <1>4, <1>5 DEF Good, Young, Patient, Holds, CacheSteps, wait, age
  <1>9. Chained(e)
    BY <1>1, <1>2, <1>4, <1>5 DEF Good, Chained, Placed, Holds, wait, old
  <1>10. QED BY <1>3, <1>6, <1>7, <1>8, <1>9 DEF Good, q

-----------------------------------------------------------------------------
(* The steps.                                                               *)
LEMMA StreamCacheInit == Init => IInv
  <1> SUFFICES ASSUME Init PROVE IInv
    OBVIOUS
  <1>1. /\ setup \in Setup /\ MatchTTL \in Nat /\ Shows \in Nat
        /\ setup.metadata \in Nat /\ setup.stream \in Nat
    <2>1. setup \in Setup
      BY DEF Init
    <2>2. QED BY <2>1, Limits
  <1>2. Nothing \in Entry /\ Nothing.left = 0
    BY <1>1 DEF Nothing, Entry
  <1>3. \A kind, limit : \A ttl \in Nat : Fresh(kind, Nothing, limit, ttl)
    BY <1>2 DEF Fresh
  <1>4. Asleep \in Locals
    BY AsleepHolds DEF Holds
  <1>5. CacheInv
    <2>1. match \in 0 .. MatchTTL
      BY <1>1 DEF Init
    <2>2. lists \in [List -> Entry] /\ \A l \in List : lists[l] = Nothing
      BY <1>2 DEF Init
    <2>3. stream \in [list : Entry, host : Host] /\ stream.list = Nothing
      BY <1>2 DEF Init
    <2>4. QED BY <1>1, <1>3, <2>1, <2>2, <2>3 DEF CacheInv
  <1>6. RequestInv
    <2>1. PICK h \in Host : req = [r \in Request |-> [host |-> h, base |-> h, at |-> Asleep]]
      BY DEF Init
    <2>2. req \in [Request -> [host : Host, base : Host, at : Locals]]
      BY <1>4, <2>1
    <2>3. \A r \in Request : req[r].at = Asleep
      BY <2>1
    <2>4. QED BY <1>1, <2>2, <2>3, EnterGood DEF RequestInv
  <1>7. QED BY <1>5, <1>6 DEF IInv

(* A request that leaves the caches alone goes on to good locals.           *)
LEMMA Passes ==
  ASSUME IInv, NEW r \in Request, NEW q, Good(q), Goes(r, q),
         UNCHANGED <<setup, match, lists, stream>>
  PROVE  IInv'
  <1>1. RequestInv'
    BY GoesKeeps DEF IInv
  <1>2. CacheInv'
    BY SameCache DEF IInv
  <1>3. QED BY <1>1, <1>2 DEF IInv

LEMMA Comes ==
  ASSUME IInv, NEW r \in Request, NEW h \in Host, NEW b \in Host, NEW q, Good(q),
         req' = [req EXCEPT ![r] = [host |-> h, base |-> b, at |-> q]],
         UNCHANGED <<setup, match, lists, stream>>
  PROVE  IInv'
  <1> DEFINE new == [host |-> h, base |-> b, at |-> q]
  <1>1. new \in Sent /\ new.at = q
    BY DEF Sent, Good, Placed
  <1> HIDE DEF new
  <1>2. req' = [req EXCEPT ![r] = new]
    BY DEF new
  <1>3. RequestInv'
    BY <1>1, <1>2, OneMoves DEF IInv
  <1>4. CacheInv'
    BY SameCache DEF IInv
  <1>5. QED BY <1>3, <1>4 DEF IInv

LEMMA StartKeeps ==
  ASSUME IInv, NEW r \in Request, NEW h \in Host, Start(r, h)
  PROVE  IInv'
  <1>1. Good(IF setup.stream > 0 THEN Enter(Asleep, "getStream", 0) ELSE Resolve)
    BY EnterGood, ResolveGood DEF IInv, CacheInv
  <1>2. QED BY <1>1, Comes DEF Start

LEMMA LeaveKeeps ==
  ASSUME IInv, NEW r \in Request, Leave(r)
  PROVE  IInv'
  <1>1. PICK h \in Host : req' = [req EXCEPT ![r] = [host |-> h, base |-> h, at |-> Asleep]]
    BY DEF Leave
  <1>2. Good(Asleep)
    BY EnterGood DEF IInv, CacheInv
  <1>3. QED BY <1>1, <1>2, Comes DEF Leave

LEMMA StreamHitKeeps ==
  ASSUME IInv, NEW r \in Request, StreamHit(r)
  PROVE  IInv'
  <1> DEFINE q == [Asleep EXCEPT !.pc = "done", !.found = stream.list.found,
                                 !.age = stream.list.age]
             new == [req[r] EXCEPT !.base = stream.host, !.at = q]
  <1>1. Good(q)
    BY StreamHitGood
  <1>2. req' = [[req EXCEPT ![r].base = stream.host] EXCEPT ![r].at = q]
    BY DEF StreamHit
  <1> HIDE DEF q
  <1>3. req \in [Request -> Sent] /\ stream.host \in Host /\ q \in Locals
    BY <1>1 DEF IInv, CacheInv, RequestInv, Sent, Good, Placed
  <1>4. new \in Sent /\ new.at = q
    BY <1>3 DEF Sent
  <1>5. req' = [req EXCEPT ![r] = new]
    BY <1>2, <1>3
  <1> HIDE DEF new
  <1>6. RequestInv'
    BY <1>1, <1>4, <1>5, OneMoves DEF IInv, StreamHit
  <1>7. CacheInv'
    BY SameCache DEF IInv, StreamHit
  <1>8. QED BY <1>6, <1>7 DEF IInv

(* The cache steps that only read.                                          *)
LEMMA ReadKeeps ==
  ASSUME IInv, NEW r \in Request,
         StreamMiss(r) \/ MatchHit(r) \/ MatchMiss(r) \/ MatchFails(r) \/ ListHit(r)
           \/ ListMiss(r) \/ Refused(r)
  PROVE  IInv'
  <1>1. setup \in Setup
    BY DEF IInv, CacheInv
  <1>2. CASE StreamMiss(r)
    BY <1>1, <1>2, ResolveGood, Passes DEF StreamMiss
  <1>3. CASE MatchHit(r)
    <2>1. Good(Ask("media"))
      BY <1>1, AskGood DEF Kinds
    <2>2. QED BY <1>3, <2>1, Passes DEF MatchHit
  <1>4. CASE MatchMiss(r)
    <2>1. Good(Enter(Asleep, "cloud", Timeout))
      BY <1>1, EnterGood
    <2>2. 0 \in 0 .. Shows /\ 0 \in Nat /\ 0 <= Decided
      BY <1>1, Limits, Horizons
    <2>3. Good(Build(0, 0))
      BY <1>1, <2>2, BuildGood
    <2>4. QED BY <1>4, <2>1, <2>3, Passes DEF MatchMiss
  <1>5. CASE MatchFails(r)
    BY <1>1, <1>5, EnterGood, Passes DEF MatchFails
  <1>6. CASE ListHit(r)
    BY <1>6, ListHitGood, Passes DEF ListHit
  <1>7. CASE ListMiss(r)
    BY <1>7, LoadGood, Passes DEF ListMiss
  <1>8. CASE Refused(r)
    BY <1>8, RefusedGood, Passes DEF Refused
  <1>9. QED BY <1>2, <1>3, <1>4, <1>5, <1>6, <1>7, <1>8

LEMMA PlexKeeps ==
  ASSUME IInv, NEW r \in Request, PlexAnswers(r)
  PROVE  IInv'
  <1>1. setup \in Setup /\ Shows \in Nat /\ Shows >= 1
    BY Limits DEF IInv, CacheInv
  <1>2. CASE CloudKnows(r)
    BY <1>1, <1>2, KnownGood, Passes DEF CloudKnows
  <1>3. CASE CloudHasNone(r)
    <2>1. Good(Ask("first"))
      BY <1>1, AskGood DEF Kinds
    <2>2. QED BY <1>3, <2>1, Passes DEF CloudHasNone
  <1>4. CASE PlexFails(r)
    BY <1>1, <1>4, EnterGood, Passes DEF PlexFails
  <1>5. CASE Loaded(r)
    <2>1. PICK found \in 0 .. (IF req[r].at.kind = "shows" THEN Shows ELSE 1) :
            LET q == [req[r].at EXCEPT !.found = found]
            IN Goes(r, IF setup.metadata > 0 THEN Enter(q, "set", 0) ELSE After(q, found, q.age))
      BY <1>5 DEF Loaded
    <2>2. found \in 0 .. Shows
      BY <1>1
    <2> DEFINE q == [req[r].at EXCEPT !.found = found]
    <2>3. Good(IF setup.metadata > 0 THEN Enter(q, "set", 0) ELSE After(q, found, q.age))
      BY <1>5, <2>2, LoadedGood DEF Loaded
    <2>4. QED BY <1>5, <2>1, <2>3, Passes DEF Loaded
  <1>6. QED BY <1>2, <1>3, <1>4, <1>5 DEF PlexAnswers

LEMMA ListSetKeeps ==
  ASSUME IInv, NEW r \in Request, ListSet(r)
  PROVE  IInv'
  <1> DEFINE q == req[r].at
             limit == Limit(q.kind) + Naps
             new == Cached(q.kind, q.found, q.age, setup.metadata)
  <1>1. /\ Good(After(q, q.found, q.age))
        /\ q.found \in 0 .. Shows /\ q.age \in Nat /\ q.age <= limit
    BY ListSetGood
  <1>2. RequestInv'
    BY <1>1, GoesKeeps DEF IInv, ListSet
  <1>3. Key(r) \in List /\ Key(r)[1] = q.kind
    BY KeyIsList
  <1>4. limit \in Nat /\ setup.metadata \in Nat
    BY Room
  <1>5. Fresh(q.kind, new, limit, setup.metadata)
    <2> HIDE DEF q, limit
    <2>1. QED BY <1>1, <1>4, CachedIsFresh
  <1>6. /\ \A kind : Limit(kind)' = Limit(kind)
        /\ Naps' = Naps /\ Decided' = Decided
    BY SameLimits DEF ListSet
  <1>7. CacheInv'
    <2>1. CASE UNCHANGED lists
      BY <2>1, SameCache DEF IInv, ListSet
    <2>2. CASE lists' = [lists EXCEPT ![Key(r)] = new]
      <3> HIDE DEF new
      <3>1. new \in Entry
        BY <1>5 DEF Fresh
      <3>2. lists \in [List -> Entry]
            /\ \A l \in List : Fresh(l[1], lists[l], Limit(l[1]) + Naps, setup.metadata)
        BY DEF IInv, CacheInv
      <3>3. lists' \in [List -> Entry]
        BY <2>2, <3>1, <3>2
      <3>4. ASSUME NEW l \in List
            PROVE  Fresh(l[1], lists'[l], Limit(l[1]) + Naps, setup.metadata)
        <4>1. CASE l = Key(r)
          <5>1. lists'[l] = new /\ l[1] = q.kind
            BY <1>3, <2>2, <3>2, <4>1
          <5>2. QED BY <1>5, <5>1
        <4>2. CASE l # Key(r)
          <5>1. lists'[l] = lists[l]
            BY <2>2, <3>2, <4>2
          <5>2. QED BY <3>2, <5>1
        <4>3. QED BY <4>1, <4>2
      <3>5. QED BY <1>6, <3>3, <3>4 DEF IInv, CacheInv, ListSet, Fresh, Deciding
    <2>3. QED BY <2>1, <2>2 DEF ListSet
  <1>8. QED BY <1>2, <1>7 DEF IInv

LEMMA MatchSetKeeps ==
  ASSUME IInv, NEW r \in Request, MatchSet(r)
  PROVE  IInv'
  <1>1. setup \in Setup /\ MatchTTL \in Nat
    BY Limits DEF IInv, CacheInv
  <1>2. Good(Ask("media"))
    BY <1>1, AskGood DEF Kinds
  <1>3. RequestInv'
    BY <1>2, GoesKeeps DEF IInv, MatchSet
  <1>4. match' \in 0 .. MatchTTL
    BY <1>1 DEF MatchSet, IInv, CacheInv
  <1>5. /\ \A kind : Limit(kind)' = Limit(kind)
        /\ Naps' = Naps /\ Decided' = Decided
    BY SameLimits DEF MatchSet
  <1>6. CacheInv'
    BY <1>4, <1>5 DEF MatchSet, IInv, CacheInv, Fresh, Deciding
  <1>7. QED BY <1>3, <1>6 DEF IInv

LEMMA StreamSetKeeps ==
  ASSUME IInv, NEW r \in Request, StreamSet(r)
  PROVE  IInv'
  <1> DEFINE q == req[r].at
             limit == Decided + Naps
             entry == Cached("media", q.found, q.age, setup.stream)
             new == [list |-> entry, host |-> req[r].host]
  <1>1. /\ Good([q EXCEPT !.pc = "done"])
        /\ q.found \in 0 .. Shows /\ q.age \in Nat /\ q.age <= limit
    BY StreamSetGood
  <1>2. RequestInv'
    BY <1>1, GoesKeeps DEF IInv, StreamSet
  <1>3. limit \in Nat /\ setup.stream \in Nat
    BY Room
  <1>4. Fresh("media", entry, limit, setup.stream)
    <2> HIDE DEF q, limit
    <2>1. QED BY <1>1, <1>3, CachedIsFresh
  <1>5. /\ \A kind : Limit(kind)' = Limit(kind)
        /\ Naps' = Naps /\ Decided' = Decided
    BY SameLimits DEF StreamSet
  <1>6. CacheInv'
    <2>1. CASE UNCHANGED stream
      BY <2>1, SameCache DEF IInv, StreamSet
    <2>2. CASE stream' = new
      <3> HIDE DEF entry
      <3>1. new \in [list : Entry, host : Host] /\ new.list = entry
        BY <1>4, Ready DEF Fresh
      <3> HIDE DEF new
      <3>2. stream' \in [list : Entry, host : Host] /\ stream'.list = entry
        BY <2>2, <3>1
      <3>3. QED BY <1>4, <1>5, <3>2 DEF IInv, CacheInv, StreamSet, Fresh, Deciding
    <2>3. QED BY <2>1, <2>2 DEF StreamSet
  <1>7. QED BY <1>2, <1>6 DEF IInv

LEMMA TickKeeps ==
  ASSUME IInv, Tick
  PROVE  IInv'
  <1>1. /\ setup' = setup /\ setup \in Setup /\ MatchTTL \in Nat /\ Shows \in Nat
        /\ setup.metadata \in Nat /\ setup.stream \in Nat /\ Naps \in Nat /\ Decided \in Nat
    BY Limits, Horizons DEF IInv, CacheInv, Tick
  <1>2. /\ \A kind : Limit(kind)' = Limit(kind)
        /\ Naps' = Naps /\ Decided' = Decided
    BY <1>1, SameLimits
  <1>3. match' \in 0 .. MatchTTL
    BY <1>1 DEF IInv, CacheInv, Tick, Larger
  <1>4. ASSUME NEW l \in List
        PROVE  Fresh(l[1], lists'[l], Limit(l[1]) + Naps, setup.metadata)
    <2>1. Fresh(l[1], lists[l], Limit(l[1]) + Naps, setup.metadata)
      BY DEF IInv, CacheInv
    <2>2. lists'[l] = Older(l[1], lists[l])
      BY DEF Tick
    <2>3. Limit(l[1]) + Naps \in Nat
      <3>1. l[1] \in Kinds
        BY DEF List, Kinds
      <3>2. QED BY <1>1, <3>1, Limits
    <2>4. QED BY <1>1, <2>1, <2>2, <2>3, OlderIsFresh
  <1>5. lists' \in [List -> Entry]
    BY <1>4 DEF Tick, Fresh
  <1>6. stream' \in [list : Entry, host : Host] /\ stream'.list = Older("media", stream.list)
        /\ Fresh("media", Older("media", stream.list), Decided + Naps, setup.stream)
    <2>1. stream \in [list : Entry, host : Host]
          /\ Fresh("media", stream.list, Decided + Naps, setup.stream)
      BY DEF IInv, CacheInv
    <2>2. Fresh("media", Older("media", stream.list), Decided + Naps, setup.stream)
      BY <1>1, <2>1, OlderIsFresh
    <2> DEFINE entry == Older("media", stream.list)
    <2>3. entry \in Entry
      BY <2>2 DEF Fresh
    <2>4. stream' = [stream EXCEPT !.list = entry]
      BY DEF Tick
    <2> HIDE DEF entry
    <2>5. stream' \in [list : Entry, host : Host] /\ stream'.list = entry
      BY <2>1, <2>3, <2>4
    <2>6. QED BY <2>2, <2>5 DEF entry
  <1>7. CacheInv'
    <2>1. \A l \in List : Fresh(l[1], lists[l], Limit(l[1]) + Naps, setup.metadata)'
      BY <1>1, <1>2, <1>4 DEF Fresh, Deciding
    <2>2. Fresh("media", stream.list, Decided + Naps, setup.stream)'
      BY <1>1, <1>2, <1>6 DEF Fresh, Deciding
    <2>3. QED BY <1>1, <1>3, <1>5, <1>6, <2>1, <2>2 DEF CacheInv
  <1>8. RequestInv'
    <2>1. req \in [Request -> Sent]
      BY DEF IInv, RequestInv, Sent
    <2>2. ASSUME NEW r \in Request PROVE Good(Waited(req[r].at))
      BY WaitedGood
    <2>3. ASSUME NEW r \in Request PROVE Waited(req[r].at) \in Locals
      BY <2>2 DEF Good, Placed
    <2>4. ASSUME NEW r \in Request
          PROVE  req'[r] \in Sent /\ req'[r].at = Waited(req[r].at)
      <3> DEFINE q == Waited(req[r].at)
      <3>1. req'[r] = [req[r] EXCEPT !.at = q]
        BY DEF Tick
      <3>2. q \in Locals
        BY <2>3
      <3> HIDE DEF q
      <3>3. req'[r] \in Sent /\ req'[r].at = q
        BY <2>1, <3>1, <3>2 DEF Sent
      <3>4. QED BY <3>3 DEF q
    <2>5. req' \in [Request -> Sent]
      BY <2>4 DEF Tick
    <2>6. ASSUME NEW r \in Request PROVE Good(req[r].at)'
      <3>1. Good(req'[r].at)
        BY <2>2, <2>4
      <3>2. QED BY <1>1, <3>1, GoodStays
    <2>7. QED BY <2>5, <2>6 DEF RequestInv, Sent
  <1>9. QED BY <1>7, <1>8 DEF IInv

LEMMA StreamCacheStep == IInv /\ [Next]_vars => IInv'
  <1> SUFFICES ASSUME IInv, [Next]_vars PROVE IInv'
    OBVIOUS
  <1>1. ASSUME NEW r \in Request, NEW h \in Host, Start(r, h) PROVE IInv'
    BY <1>1, StartKeeps
  <1>2. ASSUME NEW r \in Request, Answered(r) PROVE IInv'
    BY <1>2, StreamHitKeeps, ReadKeeps, ListSetKeeps, MatchSetKeeps, StreamSetKeeps DEF Answered
  <1>3. ASSUME NEW r \in Request, PlexAnswers(r) PROVE IInv'
    BY <1>3, PlexKeeps
  <1>4. ASSUME NEW r \in Request, Leave(r) PROVE IInv'
    BY <1>4, LeaveKeeps
  <1>5. CASE Tick
    BY <1>5, TickKeeps
  <1>6. CASE UNCHANGED vars
    <2>1. CacheInv'
      BY <1>6, SameCache DEF IInv, vars
    <2>2. setup' = setup /\ req' = req
      BY <1>6 DEF vars
    <2>3. ASSUME NEW r \in Request PROVE Good(req[r].at)'
      <3>1. Good(req'[r].at)
        BY <2>2 DEF IInv, RequestInv
      <3>2. QED BY <2>2, <3>1, GoodStays
    <2>4. RequestInv'
      BY <2>2, <2>3 DEF IInv, RequestInv
    <2>5. QED BY <2>1, <2>4 DEF IInv
  <1>7. QED BY <1>1, <1>2, <1>3, <1>4, <1>5, <1>6 DEF Next

LEMMA StreamCacheInvariant == Spec => []IInv
  BY StreamCacheInit, StreamCacheStep, PTL DEF Spec

-----------------------------------------------------------------------------
(* Attempts and waits stay within what cache.py and the timeouts allow, and *)
(* no entry outlives its TTL, whatever the settings.                        *)
THEOREM TypeCorrect == Spec => []TypeOK
  <1>1. IInv => TypeOK
    <2> SUFFICES ASSUME IInv PROVE TypeOK
      OBVIOUS
    <2>1. setup \in Setup /\ RetryTimes \in Nat /\ Shows \in Nat /\ Naps \in Nat
          /\ Naps <= RetryTimes - 1 /\ (Naps > 0 => Redis)
          /\ setup.metadata \in Nat /\ setup.stream \in Nat /\ Timeout \in Nat
      BY Limits DEF IInv, CacheInv
    <2>2. ASSUME NEW l \in List
          PROVE  /\ lists[l].left \in 0 .. setup.metadata
                 /\ lists[l].found \in 0 .. Shows
                 /\ lists[l].age \in Nat
      BY <2>1 DEF IInv, CacheInv, Fresh, Entry
    <2>3. stream.host \in Host /\ stream.list.left \in 0 .. setup.stream
      BY <2>1 DEF IInv, CacheInv, Fresh, Entry
    <2>4. ASSUME NEW r \in Request
          PROVE  LET q == req[r].at
                 IN /\ {req[r].host, req[r].base} \subseteq Host
                    /\ q.pc \in Steps
                    /\ q.n \in 0 .. q.shows
                    /\ {q.shows, q.found} \subseteq 0 .. Shows
                    /\ q.tries \in 0 .. RetryTimes - 1
                    /\ q.wait \in 0 .. (IF q.pc = "load" THEN Limit(q.kind)
                                        ELSE IF q.pc = "cloud" THEN Timeout ELSE 1)
                    /\ q.wait > 0 /\ q.pc \in CacheSteps => Redis
      <3> DEFINE q == req[r].at
      <3>1. /\ Good(q) /\ q.pc \in Steps /\ Limit(q.kind) \in Nat
            /\ {q.n, q.shows, q.found, q.age, q.old, q.wait, q.tries} \subseteq Nat
            /\ {req[r].host, req[r].base} \subseteq Host
        BY Ready, Room
      <3> HIDE DEF q
      <3>2. q.n \in 0 .. q.shows /\ {q.shows, q.found} \subseteq 0 .. Shows
            /\ q.tries \in 0 .. RetryTimes - 1 /\ q.tries <= Naps
        BY <2>1, <3>1 DEF Good, Placed
      <3>3. q.wait \in 0 .. (IF q.pc = "load" THEN Limit(q.kind)
                             ELSE IF q.pc = "cloud" THEN Timeout ELSE 1)
        BY <2>1, <3>1 DEF Good, Patient, Steps, PlexSteps
      <3>4. q.wait > 0 /\ q.pc \in CacheSteps => Redis
        BY <2>1, <3>1, <3>2 DEF Good, Patient
      <3>5. QED BY <3>1, <3>2, <3>3, <3>4 DEF q
    <2>5. QED BY <2>2, <2>3, <2>4 DEF TypeOK, IInv, CacheInv
  <1>2. QED BY <1>1, StreamCacheInvariant, PTL

(* get_stream's answers are no older than both lifetimes and the time it    *)
(* took to fetch and to store, however requests race over the cache.        *)
THEOREM AnswersAreRecent == Spec => []AnswerIsRecent
  <1>1. IInv => AnswerIsRecent
    BY DEF IInv, RequestInv, Good, Young, AnswerIsRecent
  <1>2. QED BY <1>1, StreamCacheInvariant, PTL

=============================================================================
