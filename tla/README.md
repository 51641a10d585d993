# Plexio in TLA+

A verification development for Plexio, the Stremio addon for Plex in this
repository: TLA+ modules translated from the source, TLC configurations that
check them on small instances, and TLAPS proofs of the properties that matter
most for every instance. Each module is written from the code; `PROJECT.json`
maps every definition that models code to the lines it stands for.

## The system

Plexio is one asyncio process (FastAPI) and a single-page configuration form.
The form signs a user in to Plex, lets them choose a server and libraries and
POSTs the configuration; the process stores it as a *session* and answers an id.
Stremio then calls the addon routes under that id, and each call loads the
session's configuration, asks the Plex server, and answers catalogs, metadata or
streams. With playback reporting on, players also fetch the media through the
process, which reports their progress to Plex.

Everything in the process interleaves at `await`. What the coroutines share is
one SQLite connection, the cache, the limiter's dictionary and one HTTP client.

| Component | State | Operations | What is hard | What makes it correct |
| --- | --- | --- | --- | --- |
| Session store, `plexio/sessions.py` | the `sessions` table, committed and pending rows; the create lock; the Fernet key | `create`, `get_config` (which migrates rows), `delete`, `list`; start-up | all coroutines share one connection and so one transaction; reads are used after awaits; crashes; rows of earlier releases; key changes | answers survive crashes; revocation is final; identical configurations share a session; the table keeps its bound |
| Encryption key file, `_init_fernet` | `session.key` | read or create at start-up | a crash between creating and writing it | every start reads the key the rows were written with |
| Playback proxy, `plexio/plex/playback.py` | the upstream response, the body iterator, the heartbeat task and its stop event | GET/HEAD, reads, timeline reports, disconnects | two tasks per stream, three timeouts, cancellation at any await | Plex hears of a stream while it lasts, and of its end last; nothing is left running |
| Rate limiter, `plexio/rate_limit.py` | client → grant times, bounded | `allow` | window edges; a full dictionary | the quota per window, honest `Retry-After`, bounded memory |
| Caches, `cache.py`, `stream_cache.py` | key → value with expiry, in memory or Redis | `get`, `set`, cached loads | racing loads, retries, keys that leave something out | a hit equals what a load would have answered at some time within the TTL |
| Addon routes, `routers/addon.py`, and `media_server_api.py` | none of their own | manifest, catalog, meta, stream, play | media id fallbacks, paging | every title listed can be resolved |
| Configuration API and plex.tv proxy, `routers/configuration.py`, `plex_proxy.py`, `plex_tv.py` | none | sessions, sections, collections, connection test, PIN, token, resources | authorisation against what plex.tv lists now | only authorised servers are contacted |
| Request body limit, `security.py` | buffered messages of one request | receive, replay, reject | chunked bodies | the application sees the whole body or nothing |
| Configuration model, `models/addon.py` | – | validation, connection list | form and backend must agree | no duplicate connection, no collection without its section |
| Configuration form, `frontend/src/components/configurationForm`, `hooks`, `lib/clipboard.ts` | form values and their revision, loaded sections and collections, the submission in flight | edit, select, load, submit, copy, install | effects that answer late, edits during a submission | no URL of old settings is copied or opened; a configuration sent is one the backend accepts |
| Sign-in pages, `AuthRedirectPage.tsx`, `usePlexUser.tsx`, `usePlexServers.tsx` | token, user, servers | sign in, sign out, reload | answers for an old token | the page shows the signed-in user or none |
| Toasts, `useToast.ts` | list and removal timers | add, update, dismiss, remove | the limit drops toasts with timers | at most five; dismissed ones leave |

Interactions: `POST /sessions` runs the limiter, then plex.tv authorisation, then
`SessionStore.create`. Every addon request and every playback request begins with
`SessionStore.get_config`. `get_stream` wraps the media lookup in the stream
cache and writes the play URLs that lead to the playback proxy.

`PROJECT.json` lists the hazards of this code line by line, each with the
properties that cover it or the reason none does.

## Modules

| Module | Content |
| --- | --- |
| `SessionRegistry` | abstract: a crash-proof registry of configurations |
| `SessionStore`; `MCSessionStore`, three `.cfg` | `sessions.py` with the handlers that call it |
| `SessionStoreProofs` | its invariants and action property, proved |
| `SessionRefinement` | `SessionStore` implements `SessionRegistry`, proved |
| `Playback`; `MCPlayback`, two `.cfg` | one proxied stream and its heartbeat |
| `PlaybackProofs` | its safety, proved |
| `RateLimiter`; `MCRateLimiter`, one `.cfg` | the sliding-window limiter |
| `RateLimiterProofs` | its invariants and action properties, proved |
| `StreamCache`; `MCStreamCache`, two `.cfg` | concurrent stream requests over both layers of cache |
| `StreamCacheProofs` | how old an answer can be, proved |
| `Selection` | list comprehensions and `sorted()` as operators on sequences |
| `PlexServer` | what Plex answers to each look-up of media, and what may be relied on of a library |
| `Catalog` | manifest, catalogs, metadata and media of a request, on top of it |
| `Streams` | versions, links and connections of one item |
| `Addon`; `MCAddon`, two `.cfg` | composes the three: a client from the manifest to a file |
| `SelectionProofs` | what the operators on sequences compute, proved |
| `AddonProofs` | the safety of `Addon`, proved |
| `ConfigForm`; `MCConfigForm`, one `.cfg` | the form, its hooks and clipboard, and the backend's answers |
| `ConfigFormProofs` | its safety, proved |

Definitions with the comment `Mutant:` are faulty variants of the definition below
them. Nothing refers to them; `PROJECT.json` names, for each property, the
variant that breaks it.

### SessionStore

`work` is the table as the shared connection sees it and `disk` what has been
committed; `CommitAll` copies the one to the other, whichever coroutine calls it,
because the sqlite3 module opens one transaction at the first write and all
coroutines share the connection. Each awaited statement is one action, named for
what it does: `Acquire`, `SelectExisting`, `Touch`, `Count`, `Insert` and
`CommitCreate` are `create`; `Read`, `Save` and `CommitGet` are `get_config`;
`Remove` and `CommitDelete` are `delete`. `lock` is the FIFO of `_create_lock`.
`Init` is any database an earlier release can have left: rows without hash,
encrypted or not, several for one configuration. `Restart` loses every request
and every uncommitted row and may bring another key.

A row keeps its configuration, the key it is encrypted under (`Plain` before
0.4.1) and its hash; the hash is taken to be collision-free, so it is the
configuration. Configurations are the documents that are hashed and stored: one of
an earlier release that lacks a newer field is another configuration. Labels,
names and timestamps are left out. `minted`, `doomed`, `told` and `revoked` are
history.

`SessionRegistry` says the same without a database: what is durable loses only
sessions whose revocation was attempted, gains at most one at a time under a
fresh id, below the capacity and for a configuration no other deduplicated
session holds; and clients are only told what is durable. The mapping takes
`disk` for the registry. A pending row has not happened yet, although another
request may already see it: that no client is told of it before a commit is the
point of the refinement.

### Playback

One stream: `pc` is where the request and later the body iterator is, `hb` where
the heartbeat task is. Time is discrete. `Tick` is enabled only when neither
coroutine has something it must do now, so a timeout fires on its tick, and the
event loop is taken to be fast. Everything outside may happen at any tick or
never: headers, chunks, the end of the body, the answers of the timeline
endpoint, the player's reads and its departure. A report is answered, fails, or
is given up after its total timeout; the code treats them alike.

The player can leave at four points, and what happens then differs:

- before the first read the generator never starts, so its `finally` never runs
  (`abandoned`): no heartbeat was started, but the upstream response stays open
  until it is garbage, the one exception `NothingLeftBehind` makes;
- suspended in `yield` the generator is closed by the event loop's hook in a task
  of its own, where nothing cancels it;
- waiting in a read, or in the `finally` block, the task is cancelled, and
  cancelled again at each await that follows (`JoinCancelled`). This loses the
  report of `stopped`, and nothing else does (`StoppedUnlessCancelled`); the
  repository promises nothing for this case.

The byte range is kept as the position it starts at, bytes as the ticks of
playback they stand for. `quiet` and `asked` are history.

### RateLimiter

`allow` awaits only its own lock, and no holder of that lock awaits, so a call is
one action: `MadeRoom` sweeps or evicts when a new client meets a full
dictionary, `Popped` drops expired events, and `Grant` or `Deny` follows.
Insertion order is kept as the set of keys that are older. Both are written as
sets of outcomes with one member, so that proofs need no induction to see that a
least element exists. `granted`, `asked` and `denied` are history.

### StreamCache

`get_stream` and everything it awaits, for one title. What is in the library is
not state: a media list is how many items Plex found and how long ago it was
asked. A request's locals are one record, `at`: `pc` is where it waits, `kind`
and `n` the list it is after, `wait` how long it still sleeps or Plex may take,
`tries` the attempts at Redis, `age` the age of the list in its hands and `old`
that of the shows it has already looked through in vain. Six routes through the
look-ups cover the kinds of id; `After` says where each list leads, `Resolve`
where a route begins.

Memory and Redis are one state: an entry is the ticks it has left. Over Redis
every read may come back empty (evicted, undecodable, or an error that
`cache_get` swallows) and every write may be lost; a refused connection is tried
again after a tick, `RetryTimes` times at most. The id match bypasses the
swallowing wrappers, so there an error fails the request (`MatchFails`).
Several loads of one key race, and the last write wins.

An answer is as old as the list that *decided* it: the last one, or the first
that held nothing. Of lists that merely lead to the next no age is kept, and the
id match, whose lifetime is days and whose meaning does not change, has none. The
token placeholders of a cached response are left out: they are a substitution
and its inverse. `base` is the host name in the links of an answer, `host` the
one its client used.

### PlexServer, Catalog, Streams and Addon

The routes keep no state of their own, so these modules are functions of
`world`: an installation (its configuration, sections and collections) and the
library behind it, a sequence of items in title order. `PlexServer` has one
operator per look-up and `Catalog` one per route. Caches, time and failures are
left to `StreamCache`. Ids are tuples, told apart as the code's prefixes tell
them apart: `<<"tt", ...>>`, `<<"rk", ...>>`, `<<"guid", ...>>` and
`<<"raw", ...>>`; the codecs between them and text are left out.

`Selection` holds what Python's comprehensions, `sorted()` and first-of-each
loops do to a list. An element's place is told by the number of elements before
it, so nothing is recursive and everything can be proved about.

`AnyWorld` is the type of an installation and `Sound` what may be relied on of
it, both stated of `World` in `WorldAssumption`, which every run over `Addon`
evaluates. Plex gives each item a rating key of its own and each file a part of
its own (`KeysAreUnique`); a guid stands for one title, which the two agents that
know IMDb's titles share with IMDb (`GuidsNameTitles`); an episode hangs below a
show (`EpisodesAreOfShows`); a library, and so a collection, which the
configuration's validator ties to its section, holds movies or shows
(`OneTypeEach`); and sections chosen and titles on deck are the server's, each
once (`ListsAreOfTheServer`). Nothing is assumed of what a library leaves open:
several items under one guid, numbers missing or given twice, shows without
episodes and episodes without a show, collections that name seasons, one title
twice or titles that are gone, versions alike in every respect but their part,
connections that differ by a slash alone.

`Streams` orders the versions of an item by the tuple of `_playback_priority`,
and keeps of each link what Plex resolves it by: a part for direct play, an item
and a *position* for a transcode. `Played` is Plex's side of the link.

`Addon` is the client. Each action is one request, made with an id or a link that
an earlier answer contained: `OpenCatalog`, `NextPage`, `OpenListed`,
`OpenOldLink` (ids of earlier releases), `StreamImdb` (ids from elsewhere),
`StreamTitle`, `StreamKeyEpisode`; and `Back`. `seen` collects what the pages listed. The
library does not change on the way.

### ConfigForm

The browser runs one handler at a time, so an action is an event: an edit with
the effects it triggers, the answer of a request, a step of the clipboard. An
edit drops the list of every effect that depends on it, marks that effect's
request in flight as abandoned (`active = FALSE`) and sends another; abandoned
requests stay in `loads` and are answered at any later time, or never within the
behaviour.

- The code compares the configuration's revision with its value at the click.
  `submission.edits` is the difference.
- A URL is told by the settings it was made from; of copies only matters whether
  they hold the URL that is shown. Legacy URLs, made without the server, are one
  outcome of a refused session.
- The Streaming URL comes from the same connections as the Discovery URL and is
  reset with it, and the switches on which nothing depends behave like
  `includeCollections`: a change of either counts as one of theirs.
- `Accepts` is the backend: plex.tv must list the connection, and every
  collection must belong to a section that was sent.
- `copies` is what the Copy URL button, which is never disabled, is still copying:
  the URL that is shown, an old one, or both, and of each any number.
  `overtaken` records that the URL of one was withdrawn before it ended, which
  the code does not notice.

## Runs

| Run | Bounds | Shows |
| --- | --- | --- |
| `SessionSafety` | 2 requests in flight, 2 configurations, 3 ids of which 1 is legacy, 2 keys, capacity 2; symmetry in all but the legacy id | `TypeOK`, `ToldIsDurable`, `RevokedStaysGone`, `MintedDistinct`, `WithinCapacity`, `NothingLingers`, `CiphertextKept`, `ImplementsRegistry` |
| `SessionLive` | 3 requests, 1 configuration, 4 ids of which 1 is legacy, capacity 1; no symmetry, a view without history | `EveryRequestEnds` |
| `SessionLegacy` | 2 requests, 1 configuration, 1 legacy id of 2 | a disagreement, below |
| `PlaybackSafety` | a tick of 5 s: interval 2, report timeout 1, connect 3, read 6, title 6 | `TypeOK`, `PlexKeepsHearing`, `StopIsPrompt`, `NothingLeftBehind`, `PositionsFollow`, `StoppedUnlessCancelled`, `NothingAfterStopped`, `IdleIsFree`, `ReadEnds`, `UnwindEnds` |
| `PlaybackHang` | the same | a disagreement, below |
| `RateLimit` | 3 clients, 2 remembered, 2 grants per 2 ticks, time up to 4; symmetry in the clients | `TypeOK`, `MemoryBounded`, `QuotaKept`, `RetryAfterIsEnough`, `EvictionIsLastResort` |
| `StreamCache` | 2 requests, 1 host name, 2 shows under a guid, Plex answers within 1 tick, 2 attempts at Redis, lifetimes 0 to 2 | `TypeOK`, `AnswerIsRecent`, `StreamEnds` |
| `CacheHosts` | the same with 2 host names | a disagreement, below |
| `Addon` | 962 installations: libraries of up to 11 items in 3 sections, collections with repeats, two copies of a show, 3 versions of a movie; pages of 2 | `TypeOK`, `CatalogsAnswer`, `PagesAreComplete`, `ListedTitlesOpen`, `StreamsAreOfTheTitle`, `LinksPlayTheirFile`, `LightVersionsFirst`, `OneLinkPerConnection` |
| `RecentPages` | 8 libraries, two sections of movies; pages of 2 | a disagreement, below |
| `ConfigForm` | 2 servers, 3 connections, 2 sections, 1 collection, 1 abandoned request in flight, 1 change during a submission | `TypeOK`, `OnlyCurrentIsHandedOver`, `LateAnswersDropped`, `ChosenIsSent`, `NothingHangs` |

Why the bounds are enough.

- *Store.* Any two requests that interfere do so pairwise, through the table or
  the lock: two slots contain every pair of operations at every pair of steps,
  three ids let a row be legacy, one be minted and another be minted after its
  removal, and capacity 2 of 3 lets creates be refused. The only bound inside the
  actions is `RoomToMint`: a create starts only while an id is left for it. For
  liveness a third request is needed to have a waiter behind a waiter. The legacy
  row fills the store of capacity 1, so that creates are refused, any number of
  times and with two others queued behind, until a `get` fills its hash in, and
  they find it, or a `DELETE` makes room. The three ids left let three creates
  contend until one of them has minted, and two until the next has. The view of
  this run leaves out the history, and locals that are only copied into it:
  nothing that decides a step reads them, and each step of a coroutine changes
  `pc`, so states with one view have the same futures and the same fair ones.
- *Playback.* The constants keep the code's ratios, and ages rather than a clock
  measure time, so behaviours are unbounded; ages saturate one past the longest
  wait. The title is longer than `PositionsFollow` allows Plex to be behind, by
  as much again.
- *Limiter.* `MaxTime` of 4 is two windows: grants, refusals and evictions on
  both sides of a window's edge.
- *Stream cache.* Two requests race for any entry; the second of two shows is
  the first whose chain has an older link (`old`); two attempts are the first
  with a pause between them. `SomeSetups` crosses back ends, routes and
  lifetimes only as far as they differ: 0 turns a layer off, and the layers are
  long together only where the route is short. The horizon of `AnswerIsRecent`
  is reached in this run: with entries that live a tick longer it fails.
- *Addon.* `PageSize` of 2 has full, short and empty pages of one to four
  titles. Each item of `AllItems` is a case of the code: a movie Plex matched,
  its copy in another section, one with a local guid, one of the old IMDb agent,
  a show with a season, numbered and unnumbered episodes, and an episode whose
  show is not found; `Libraries` leaves out every subset of the five that others
  depend on. `Copies` has a show twice, the second copy with other episodes under
  the same numbers, which an IMDb id cannot tell apart. Three versions are enough for a sort that moves one past two.
- *Form.* `MaxLate` bounds abandoned requests and `MaxEdits` the changes during
  one submission: the code compares neither numbers of them, so a second of
  either behaves like the first. The proofs have no bound on either.

Fairness. `SessionStore!FairSpec` is weakly fair to each coroutine's next step:
the event loop resumes whatever is ready, and aiosqlite executes statements in
the order they were sent; starting requests and restarting are not fair.
`Playback!FairSpec` is weakly fair to the two coroutines, the clock and the end
of a connection attempt, which `sock_connect` guarantees. Nothing is assumed of
headers, media or the player: `ReadEnds` holds by the read timeout alone.
`StreamCache!FairSpec` is weakly fair to the answers of caches and of Plex,
whose calls have a total timeout, and strongly fair to `Tick`: it waits for those
who must act at once, and other requests come and go between two ticks without
stopping the clock. `ConfigForm!FairSpec` is weakly fair to the answers of
requests, which axios ends after 15 s (`POST /sessions`) or 25 s (lists); nothing
is assumed of the clipboard, which may ask the user first.

### Where code and documentation disagree

- `SessionLegacy`: README.md:54 and the comment at `sessions.py:164` promise that
  identical configurations are deduplicated, rows written before 0.4.3 included.
  A legacy row's hash is filled in when it is first read. A create of the same
  document before that does not find it, and the read then gives two rows the
  same hash.
- `PlaybackHang`: README.md:97 promises a waiting player an end after 30 seconds
  without media. The limit applies to reads of the body; opening the response has
  no limit after the connection is accepted.
- `CacheHosts`: `addon.py:63` resolves an "externally reachable base URL" for
  the links from the request's host and `settings.py:40` supports "changing
  local/tunnel host names". The response with these links is cached under a key
  without the host, so a client gets the links of the name under which the entry
  was filled (`addon.py:570`).
- `RecentPages`: `addon.py:170` says "Recently added top-level items across
  configured sections of a type, merged and sorted". The same page of every
  section is merged and cut to one page; what the cut removes is skipped by the
  next request too (`addon.py:187`), and is never listed.

## Proofs

All theorems are about arbitrary constants under the named assumptions of the
component modules. `ParamAssumption`, `LimitAssumption`, `TimeAssumption` and
`PageAssumption` say no more than that sets are of the right kind, durations and
limits are numbers, a page is not empty and sentinels are not data;
`WorldAssumption` is that of a sound library, explained above. Every safety and
action property of a passing run is proved.

`SessionStoreProofs`. `TypeInv` is `TypeOK` with what each coroutine's locals
hold at each label, that stored ids were minted, and that whoever is past the
lock holds it. `SafeInv` is the inductive invariant for safety. `MintedDistinct`
is not inductive: it needs that a create between its `SELECT` and its `INSERT`
still finds nobody else with its configuration (`FoundOK`), which needs the lock
and that only rows of earlier releases lack a hash (`Hashed`). `ToldIsDurable`
needs that whatever a request has found either still stands in `work` for the
same configuration or was doomed, and that `work` and `disk` differ only by
deletions and additions (`PendingOK`). Capacity needs the count to remain true
until the insert (`CapacityInv`), and `CiphertextKept` that pending rows changed
encryption only from plain text (`CipherInv`). Theorems: `TypeCorrect`,
`ToldDurable`, `RevocationFinal`, `Deduplicated`, `CapacityRespected`,
`CiphertextIsKept`, `NothingIsPending`. The last needs no more than that each
write leaves its coroutine at a commit, and each commit copies all.

`SessionRefinement`. `StoreImplementsRegistry`: initial states map to initial
states, and each step to a step or a stutter. Commits are the steps that matter.
`PendingInv` adds that at most one row is pending, that of the create that holds
the lock, so that a commit, whoever makes it, adds at most one session.

`PlaybackProofs`. `PlaceInv` relates the two coroutines: the heartbeat exists
from the first chunk on, the event is set on the way out only, and whoever is
past the join has seen the heartbeat end. `TimeInv` bounds how long the heartbeat
has been where it is and what Plex has heard by then; that the streamer's wait in
the join is no longer than the report in flight gives `StopIsPrompt`, and that
silence is at most a report timeout plus the wait gives `PlexKeepsHearing`.
`SentInv` says what was reported at each place. A position grows by no more than
the clock, so Plex is at most as far behind as it has not heard (`PositionInv`);
that silence is bounded in the clean-up too, where the clock stands still between
the heartbeat's end and the last report, gives `PositionsFollow`. Theorems:
`TypeCorrect`, `PlexHears`, `StopsPromptly`, `LeavesNothing`, `ReportsTheEnd`,
`StoppedIsFinal`, `PositionsFollowPlayback`, `IdlersStay`.

`RateLimiterProofs`. `QuotaInv` says that what the dictionary holds of a client
is the end of its grants and that all grants before have left the window
(`Recorded`), that grants are in order, and that they are spaced. A grant finds
fewer than `Requests` held events, so the grant `Requests` before it has left the
window. `AskedInv` bounds a client's events by its last call, from which
`RetryAfterIsTrue` follows. `MemoryIsBounded` and `EvictsOnlyTheLive` argue about
cardinalities. Theorems: `TypeCorrect`, `MemoryIsBounded`, `QuotaIsKept`,
`RetryAfterIsTrue`, `EvictsOnlyTheLive`.

`StreamCacheProofs`. That an answer is recent says nothing about the states
before it, so the invariant follows the age of a list on its way. While it is
fetched, its age and what is left of the timeout add up to the timeout; while it
is written, each attempt adds a tick (`Young`); cached, its age and what it has
left add up to the age at which it was stored and the lifetime (`Fresh`). For an
episode that no show has, the evidence is a chain: after n shows it is at most
`Chain(n)` old, one `Round` of fetching and pauses per show more (`Chained`).
Theorems: `TypeCorrect`, `AnswersAreRecent`, for any lifetimes, timeouts,
attempts, shows and number of racing requests.

`ConfigFormProofs`. A submission that no change has overtaken is of the settings
on the screen (`SubmissionInv`); the lists are of these settings, and what is
known is what Plex has (`ListsInv`); an active request is the one a list waits
for (`LoadsInv`), which is why no abandoned one can fill it; and what is selected
belongs to the selected server (`Fits`), which `ChosenIsSent` needs, for sections
of all servers have the same keys. Theorems: `TypeCorrect`, `HandsOverCurrent`,
`DropsLateAnswers`, `SendsTheChosen`, without bounds on late answers or changes.

`SelectionProofs`. What a filter, a sort, a removal of repeats, a concatenation
and a slice return: which elements, in which order, how often. The tool has no
induction over numbers or sequences, but the well-ordering of the finite subsets
of a set needs no operator as a parameter: `Induct` states induction over the
prefixes of 1..n for a *set* of numbers, and follows from the library's theorems
on finite sets. From it come `ArrangedIs` (a finite set in a strict total order
has a first, second, ... member), and with it `ChosenIs`, `DistinctIs` and
`SortedIs`; and `FlattenIs`, for the library's recursive function behind
`FlattenSeq`.

`AddonProofs`. A property of what a client is shown is not inductive: the state
before says nothing about the page that comes next. `IInv` therefore says that
the view *is* the answer to its own request, and that the request is one a
client can make: a catalog of the manifest (`CatalogView`), a title by an id it
was listed under, or the stand-in of a series that is not there (`TitleView`), an
item under one of its ids (`StreamsView`). Each property is then a fact about the
answers of `Catalog` and `Streams`. `PagesAreComplete` alone spans several
requests: it needs `SeenInOrder`, that what the pages have shown is the beginning
of the section's list, because an item skipped by one page is missed by the last.
TLC confirms `IInv` on the installations of the run. Of the answers,

- `SectionItemsIs`, `CollectionItemsIs`, `OnDeckIs` and `RecentlyAddedIs` say what
  each row lists; `CatalogPageIs` joins them, and `CatalogsAnswer` follows;
- `MetaIs` says what an id of Plexio's opens, for `ListedTitlesOpen`;
- `OrderedIs` says that the versions are put in a total order, whatever their
  priorities, because the tuple ends in the position: `LightVersionsFirst`;
- `StreamsOfAre` and `ResponseIs` say which links there are, and in which order:
  `LinksPlayTheirFile` needs that parts name files, `OneLinkPerConnection` that
  no two copies share one;
- `MovieFinds`, `VideoFinds`, `NumberFinds` and `ImdbFinds` follow the four kinds
  of id through their fallbacks, for `StreamsAreOfTheTitle`.

Theorems: `Invariance`, `Types`, `CatalogsAreAnswered`, `PagesCoverSections`,
`ListedTitlesHaveMetadata`, `StreamsBelongToTitles`, `LinksLeadToFiles`,
`LightComesFirst`, `OneDirectLinkEach`, for libraries, configurations and pages
of any size. `StreamsBelongToTitles` is about titles that IMDb's id can lead to
(`Matchable`) and episodes that their number tells apart (`Shadowed` names the
others): the proof found the case of a show with a second copy that has another
episode under the same number, and the run now contains it.

Only model-checked: liveness, which with ENABLED is out of the prover's reach
(`EveryRequestEnds`, `ReadEnds`, `UnwindEnds`, `StreamEnds`, `NothingHangs`).

## What is not modelled, and why

Abstracted everywhere: formats, headers, log lines, encryption as such, hash
collisions, collisions of uuid4, labels and descriptions.

- *Failing SQL statements.* `SessionStore`'s statements succeed. A commit that
  fails leaves its statement pending for whoever commits next, so that one commit
  can add several sessions: `SessionRegistry`, which gains at most one at a time,
  would have to be restated first.
- *The key file.* `_init_fernet` runs once, before the first request. The hazards
  (an empty file after a crash, ids of rows under another key) are listed; what
  should happen then is nowhere promised.
- *Requests that fail on their own.* A version without width or parts, an id that
  is no guid, a host no public URL can be made of, the rating key of an episode
  asked for as a title: each ends its request with an error and changes nothing
  that another request reads.
- *Two streams of one title* report under one client identifier. What Plex makes
  of the end of one while the other plays is Plex's affair and not visible in
  this repository.
- *Request body limit, toasts, PIN and sign-in pages.* Each is small and meets
  the rest only through data: a body that is let through or not, a token, a list
  of servers. They would be modules of their own, `BodyLimit`, `Toasts` and
  `PlexLogin`.
- *Searching, other sort orders, the connection test, listing sessions, ping.*
  Single questions passed on to Plex or SQLite with nothing to interleave.
- *HTTP clients, UI widgets, build and deployment files, assembly of the
  application.*

What to add first: statement failures with a registry that admits them, then
`PlexLogin`, whose late answers for an old token (`usePlexUser.tsx:20`) are of
the kind `ConfigForm` shows to be dropped.

## Running

    tlc -workers 2 -config MCSessionStore.cfg MCSessionStore.tla
    tlapm SessionRefinement.tla

The longest runs, over `SessionStore`, `StreamCache` and `ConfigForm`, take two to
three minutes each. The proofs take up to a minute per module, those of `AddonProofs`
five.
