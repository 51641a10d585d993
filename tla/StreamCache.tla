---------------------------- MODULE StreamCache ----------------------------
(***************************************************************************)
(* get_stream (routers/addon.py), the look-ups it makes on the way to an   *)
(* answer (plex/media_server_api.py), and the two layers of cache around   *)
(* both (cache.py, stream_cache.py): one title, asked for by concurrent    *)
(* requests.  The cached values are lists of media.  What is in the        *)
(* library is not state: a list is how many items Plex found and how long  *)
(* ago it was asked (its age), and an answer is as old as the list that    *)
(* decided it.                                                             *)
(*                                                                         *)
(* A look-up is a chain of cached lists, which depends on the id:          *)
(*   movie        tt1          match, cloud [first], media                 *)
(*   episode      tt1:1:2      match, cloud [first], shows, episodes of    *)
(*                             each show until one has it, media           *)
(*   series       tt1          no season and episode: nothing              *)
(*   key          plexio:rk-7  media by rating key                         *)
(*   keyEpisode   rk-7:1:2     show, its episodes, media by rating key     *)
(*   guid         plexio:...   media by guid                               *)
(*                                                                         *)
(* Time passes in ticks, only when nobody has anything to do at once.      *)
(* Redis answers or refuses at once; a refused connection is tried again   *)
(* after one tick (RETRY_BACKOFF_SEC).                                     *)
(***************************************************************************)
EXTENDS Integers

CONSTANTS
  Request,        (* slots for requests in flight                           *)
  Host,           (* host names this server is asked under                  *)
  Setup,          (* the settings and kinds of id to consider               *)
  Shows,          (* the most shows the libraries hold under one guid       *)
  MatchTTL,       (* plex_match_cache_ttl                                   *)
  Timeout,        (* plex_requests_timeout                                  *)
  RetryTimes      (* RedisCache.RETRY_TIMES                                 *)

ASSUME ParamAssumption ==
  /\ Setup \subseteq
       [backend : {"memory", "redis"},     (* cache_type                      *)
        route : {"movie", "episode", "series", "key", "keyEpisode", "guid"},
        metadata : Nat,                    (* plex_metadata_cache_ttl         *)
        stream : Nat]                      (* stream_cache_ttl                *)
  /\ MatchTTL \in Nat
  /\ {Shows, Timeout, RetryTimes} \subseteq Nat \ {0}

VARIABLES
  setup,   (* the settings and the id asked for; never changes              *)
  match,   (* ticks the cached Plex id of a tt id has left; 0: none         *)
  lists,   (* list -> cached media list                                     *)
  stream,  (* the cached response                                           *)
  req      (* slot -> the request's locals                                  *)

vars == <<setup, match, lists, stream, req>>

List == {<<k, 0>> : k \in {"first", "shows", "show", "media"}}
          \cup {<<"episodes", i>> : i \in 1 .. Shows}

Nothing == [left |-> 0, found |-> 0, age |-> 0]

Larger(a, b) == IF a > b THEN a ELSE b

Redis == setup.backend = "redis"

Asleep == [pc |-> "idle", kind |-> "first", n |-> 0, shows |-> 0, found |-> 0,
           age |-> 0, old |-> 0, wait |-> 0, tries |-> 0]

CacheSteps == {"getStream", "getMatch", "get", "set", "setMatch", "setStream"}
PlexSteps == {"cloud", "load"}

Init ==
  /\ setup \in Setup
  /\ match = 0
  /\ lists = [l \in List |-> Nothing]
  /\ \E h \in Host : stream = [list |-> Nothing, host |-> h]
  /\ \E h \in Host : req = [r \in Request |-> [host |-> h, base |-> h, at |-> Asleep]]

-----------------------------------------------------------------------------
(* How a request goes on: operators on its locals q.                        *)

Enter(q, pc, wait) == [q EXCEPT !.pc = pc, !.wait = wait, !.tries = 0]

(* get_media asks twice, for the items and then for their details at once.  *)
Limit(kind) ==
  IF kind \in {"first", "shows"} \/ (kind = "media" /\ setup.route \notin {"key", "keyEpisode"})
  THEN 2 * Timeout
  ELSE Timeout

Load(q) == Enter([q EXCEPT !.age = 0], "load", Limit(q.kind))

(* cached_model_list: the cache is left out when its TTL is 0.              *)
Ask(kind) ==
  LET asking == [Asleep EXCEPT !.kind = kind]
  IN IF setup.metadata > 0 THEN Enter(asking, "get", 0) ELSE Load(asking)

(* The same for the episodes of the n-th of so many shows; the evidence so  *)
(* far, lists without the episode, is old ticks old.                        *)
AskEpisodes(n, shows, old) ==
  [Ask("episodes") EXCEPT !.n = n, !.shows = shows, !.old = old]

(* The streams are built; cache_set does nothing when the TTL is 0.  Not    *)
(* modelled: a request that is refused, because no base URL can be told or  *)
(* because its id is no guid.  It ends there, and caches no response.       *)
Build(found, age) ==
  Enter([Asleep EXCEPT !.found = found, !.age = age],
        IF setup.stream > 0 THEN "setStream" ELSE "done", 0)

(* stremio_to_plex_id has the title's Plex id.                              *)
Known == IF setup.route = "episode" THEN Ask("shows") ELSE Enter(Asleep, "setMatch", 0)

(* _resolve_stream_media                                                    *)
Resolve ==
  CASE setup.route \in {"movie", "episode", "series"} -> Enter(Asleep, "getMatch", 0)
    [] setup.route = "keyEpisode" -> Ask("show")
    [] OTHER -> Ask("media")

(* A list decides the answer when it is the last one or holds nothing.      *)
Deciding(kind, found) == kind = "media" \/ found = 0

(* The list q asked for holds found items and was sampled age ticks ago.    *)
After(q, found, age) ==
  CASE found = 0 /\ q.n < q.shows -> AskEpisodes(q.n + 1, q.shows, Larger(q.old, age))
    [] found = 0 /\ q.n = q.shows -> Build(0, Larger(q.old, age))
    [] found > 0 /\ q.kind = "media" -> Build(found, age)
    [] found > 0 /\ q.kind = "first" -> Known
    [] found > 0 /\ q.kind \in {"shows", "show"} -> AskEpisodes(1, found, 0)
    [] found > 0 /\ q.kind = "episodes" ->
         IF setup.route = "keyEpisode" THEN Ask("media") ELSE Enter(Asleep, "setMatch", 0)

-----------------------------------------------------------------------------
At(r, pc) == req[r].at.pc = pc /\ req[r].at.wait = 0
Goes(r, q) == req' = [req EXCEPT ![r].at = q]
Key(r) == <<req[r].at.kind, req[r].at.n>>

Start(r, h) ==
  /\ req[r].at.pc = "idle"
  /\ req' = [req EXCEPT ![r] =
       [host |-> h, base |-> h,
        at |-> IF setup.stream > 0 THEN Enter(Asleep, "getStream", 0) ELSE Resolve]]
  /\ UNCHANGED <<setup, match, lists, stream>>

MutRefused(r) ==   (* Mutant: attempts are not counted                      *)
  /\ Redis
  /\ req[r].at.pc \in CacheSteps /\ req[r].at.wait = 0
  /\ Goes(r, [req[r].at EXCEPT !.wait = 1])
  /\ UNCHANGED <<setup, match, lists, stream>>

MutOneMore(r) ==   (* Mutant: the last attempt is followed by another       *)
  /\ Redis
  /\ req[r].at.pc \in CacheSteps /\ req[r].at.wait = 0
  /\ req[r].at.tries < RetryTimes
  /\ Goes(r, [req[r].at EXCEPT !.tries = @ + 1, !.wait = 1])
  /\ UNCHANGED <<setup, match, lists, stream>>

(* Redis refuses the connection and the call will try again.                *)
Refused(r) ==
  /\ Redis
  /\ req[r].at.pc \in CacheSteps /\ req[r].at.wait = 0
  /\ req[r].at.tries + 1 < RetryTimes
  /\ Goes(r, [req[r].at EXCEPT !.tries = @ + 1, !.wait = 1])
  /\ UNCHANGED <<setup, match, lists, stream>>

(* A read of Redis can come back empty for any key: no attempt is left,     *)
(* the entry was evicted, the error is swallowed or the value is not valid. *)
Missing(entry) == entry.left = 0 \/ Redis

StreamHit(r) ==
  /\ At(r, "getStream")
  /\ stream.list.left > 0
  /\ req' = [req EXCEPT ![r].base = stream.host,
                        ![r].at = [Asleep EXCEPT !.pc = "done", !.found = stream.list.found,
                                                 !.age = stream.list.age]]
  /\ UNCHANGED <<setup, match, lists, stream>>

StreamMiss(r) ==
  /\ At(r, "getStream")
  /\ Missing(stream.list)
  /\ Goes(r, Resolve)
  /\ UNCHANGED <<setup, match, lists, stream>>

(* A cached id is used as it is, for a series without an episode too.       *)
MatchHit(r) ==
  /\ At(r, "getMatch")
  /\ match > 0
  /\ Goes(r, Ask("media"))
  /\ UNCHANGED <<setup, match, lists, stream>>

MatchMiss(r) ==
  /\ At(r, "getMatch")
  /\ match = 0 \/ Redis
  /\ Goes(r, IF setup.route = "series" THEN Build(0, 0)
                                       ELSE Enter(Asleep, "cloud", Timeout))
  /\ UNCHANGED <<setup, match, lists, stream>>

(* These two calls bypass cache_get and cache_set: an error of Redis other  *)
(* than a refused connection fails the request.                             *)
MatchFails(r) ==
  /\ Redis
  /\ At(r, "getMatch") \/ (At(r, "setMatch") /\ MatchTTL > 0)
  /\ Goes(r, [Asleep EXCEPT !.pc = "failed"])
  /\ UNCHANGED <<setup, match, lists, stream>>

CloudKnows(r) ==
  /\ req[r].at.pc = "cloud"
  /\ Goes(r, Known)
  /\ UNCHANGED <<setup, match, lists, stream>>

(* No match, or a token the matcher does not accept: ask the library.       *)
CloudHasNone(r) ==
  /\ req[r].at.pc = "cloud"
  /\ Goes(r, Ask("first"))
  /\ UNCHANGED <<setup, match, lists, stream>>

PlexFails(r) ==
  /\ req[r].at.pc \in PlexSteps
  /\ Goes(r, [Asleep EXCEPT !.pc = "failed"])
  /\ UNCHANGED <<setup, match, lists, stream>>

ListHit(r) ==
  /\ At(r, "get")
  /\ lists[Key(r)].left > 0
  /\ Goes(r, After(req[r].at, lists[Key(r)].found, lists[Key(r)].age))
  /\ UNCHANGED <<setup, match, lists, stream>>

ListMiss(r) ==
  /\ At(r, "get")
  /\ Missing(lists[Key(r)])
  /\ Goes(r, Load(req[r].at))
  /\ UNCHANGED <<setup, match, lists, stream>>

Loaded(r) ==
  /\ req[r].at.pc = "load"
  /\ \E found \in 0 .. (IF req[r].at.kind = "shows" THEN Shows ELSE 1) :
       LET q == [req[r].at EXCEPT !.found = found]
       IN Goes(r, IF setup.metadata > 0 THEN Enter(q, "set", 0) ELSE After(q, found, q.age))
  /\ UNCHANGED <<setup, match, lists, stream>>

MutCached(kind, found, age, ttl) ==   (* Mutant: entries outlive their TTL  *)
  [left |-> ttl + 1, found |-> found, age |-> IF Deciding(kind, found) THEN age ELSE 0]

(* MemoryCache.set and RedisCache.set                                       *)
Cached(kind, found, age, ttl) ==
  [left |-> ttl, found |-> found, age |-> IF Deciding(kind, found) THEN age ELSE 0]

ListSet(r) ==
  LET q == req[r].at
  IN /\ At(r, "set")
     /\ \/ lists' = [lists EXCEPT ![Key(r)] = Cached(q.kind, q.found, q.age, setup.metadata)]
        \/ Redis /\ UNCHANGED lists
     /\ Goes(r, After(q, q.found, q.age))
     /\ UNCHANGED <<setup, match, stream>>

MatchSet(r) ==
  /\ At(r, "setMatch")
  /\ match' = MatchTTL \/ (Redis /\ UNCHANGED match)
  /\ Goes(r, Ask("media"))
  /\ UNCHANGED <<setup, lists, stream>>

StreamSet(r) ==
  LET q == req[r].at
  IN /\ At(r, "setStream")
     /\ \/ stream' = [list |-> Cached("media", q.found, q.age, setup.stream),
                      host |-> req[r].host]
        \/ Redis /\ UNCHANGED stream
     /\ Goes(r, [q EXCEPT !.pc = "done"])
     /\ UNCHANGED <<setup, match, lists>>

Leave(r) ==
  /\ req[r].at.pc \in {"done", "failed"}
  /\ \E h \in Host : req' = [req EXCEPT ![r] = [host |-> h, base |-> h, at |-> Asleep]]
  /\ UNCHANGED <<setup, match, lists, stream>>

-----------------------------------------------------------------------------
Older(kind, entry) ==
  IF entry.left <= 1
  THEN Nothing
  ELSE [entry EXCEPT !.left = @ - 1, !.age = IF Deciding(kind, entry.found) THEN @ + 1 ELSE 0]

Waited(q) ==
  [q EXCEPT !.wait = IF q.pc = "idle" THEN 0 ELSE @ - 1,
            !.age = IF q.pc \in {"load", "set", "setStream"} THEN @ + 1 ELSE @,
            !.old = IF q.pc # "idle" /\ q.kind = "episodes" /\ q.n > 1 THEN @ + 1 ELSE @]

Tick ==
  /\ \A r \in Request : req[r].at.pc = "idle" \/ req[r].at.wait > 0
  /\ match' = Larger(match - 1, 0)
  /\ lists' = [l \in List |-> Older(l[1], lists[l])]
  /\ stream' = [stream EXCEPT !.list = Older("media", stream.list)]
  /\ req' = [r \in Request |-> [req[r] EXCEPT !.at = Waited(req[r].at)]]
  /\ UNCHANGED setup

Answered(r) ==
  \/ StreamHit(r) \/ StreamMiss(r) \/ MatchHit(r) \/ MatchMiss(r) \/ MatchFails(r)
  \/ ListHit(r) \/ ListMiss(r) \/ ListSet(r) \/ MatchSet(r) \/ StreamSet(r) \/ Refused(r)

PlexAnswers(r) == CloudKnows(r) \/ CloudHasNone(r) \/ Loaded(r) \/ PlexFails(r)

Next ==
  \/ \E r \in Request : \/ \E h \in Host : Start(r, h)
                        \/ Answered(r) \/ PlexAnswers(r) \/ Leave(r)
  \/ Tick

Spec == Init /\ [][Next]_vars

(* The event loop runs whatever is ready, Redis answers or refuses, and a   *)
(* call to Plex ends, by its timeout if need be.  The clock goes on however *)
(* many requests come and go between two ticks.                             *)
FairSpec ==
  /\ Spec
  /\ \A r \in Request : WF_vars(Answered(r)) /\ WF_vars(PlexAnswers(r)) /\ WF_vars(Leave(r))
  /\ SF_vars(Tick)

-----------------------------------------------------------------------------
Steps == CacheSteps \cup PlexSteps \cup {"idle", "done", "failed"}

(* Attempts and waits stay within what the code allows.                     *)
TypeOK ==
  /\ setup \in Setup
  /\ match \in 0 .. MatchTTL
  /\ \A l \in List : /\ lists[l].left \in 0 .. setup.metadata
                     /\ lists[l].found \in 0 .. Shows
                     /\ lists[l].age \in Nat
  /\ stream.host \in Host
  /\ stream.list.left \in 0 .. setup.stream
  /\ \A r \in Request :
       LET q == req[r].at
       IN /\ {req[r].host, req[r].base} \subseteq Host
          /\ q.pc \in Steps
          /\ q.n \in 0 .. q.shows
          /\ {q.shows, q.found} \subseteq 0 .. Shows
          /\ q.tries \in 0 .. RetryTimes - 1
          /\ q.wait \in 0 .. (IF q.pc = "load" THEN Limit(q.kind)
                              ELSE IF q.pc = "cloud" THEN Timeout ELSE 1)
          /\ q.wait > 0 /\ q.pc \in CacheSteps => Redis

(* The longest a cache operation can hold a request up.                     *)
Naps == IF Redis THEN RetryTimes - 1 ELSE 0

(* How old a list can be when it is used: it was being fetched, then        *)
(* written, then cached.                                                    *)
ListHorizon(fetch) == fetch + Naps + Larger(setup.metadata - 1, 0)

Horizon ==
  Larger(ListHorizon(2 * Timeout),
         ListHorizon(Timeout) + (Shows - 1) * (Timeout + 2 * Naps))
    + Naps + Larger(setup.stream - 1, 0)

(* "Short-lived metadata and final-response caches ... while still          *)
(* reflecting library changes promptly" (README.md:157).  The two layers    *)
(* add up: an answer, an empty one too, is what Plex said no longer ago     *)
(* than both lifetimes and the time it took to fetch and to store, however  *)
(* requests race and Redis falters.                                         *)
AnswerIsRecent ==
  \A r \in Request : req[r].at.pc = "done" => req[r].at.age <= Horizon

(* Every stream request ends, with an answer or an error, even while Redis  *)
(* is down and Plex is silent: attempts are limited and Plex has a timeout. *)
StreamEnds ==
  \A r \in Request :
    req[r].at.pc # "idle" ~> req[r].at.pc \in {"done", "failed"}

(* "Resolve the externally reachable base URL for playback proxy links."    *)
(* (addon.py:63): where links lead through Plexio and BASE_URL is unset, as *)
(* in set-ups with "changing local/tunnel host names" (settings.py:40), the *)
(* links in an answer start with the base the request came in under.        *)
LinksReachTheAsker ==
  \A r \in Request :
    req[r].at.pc = "done" /\ req[r].at.found > 0 => req[r].base = req[r].host
=============================================================================
