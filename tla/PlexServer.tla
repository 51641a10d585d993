----------------------------- MODULE PlexServer -----------------------------
(***************************************************************************)
(* plex/media_server_api.py as the addon routes see it: what a user's Plex *)
(* server and Plex's cloud matcher answer to each of its questions, and    *)
(* what the functions around them keep of it.  Caches are left out here    *)
(* (StreamCache has them), and every question is answered.                 *)
(*                                                                         *)
(* The library is a sequence of items in the order of their titles.        *)
(* What may be relied on of an installation is stated with World; Streams  *)
(* deals with the versions of an item (Plex's Media).                      *)
(***************************************************************************)
EXTENDS Selection, SequencesExt

CONSTANTS
  PageSize,   (* items Plex returns at a time: 100                          *)
  World       (* the installations and libraries to consider                *)

ASSUME PageAssumption == PageSize \in Nat \ {0}

Unnumbered == -1

(* height and bitrate are 0 when Plex does not say; part is the key under   *)
(* which Plex delivers the file.                                            *)
AnyVersion ==
  [part : STRING, file : STRING, codec : STRING, container : STRING, resolution : STRING,
   height : Nat, width : Nat, bitrate : Nat, size : Nat]

(* A movie, show, season or episode.  guid is <<agent, name>>; imdb says    *)
(* that its Guid list names an IMDb title; show is its series' key.         *)
AnyItem ==
  [key : STRING, type : {"movie", "show", "season", "episode"}, section : STRING,
   guid : STRING \X STRING, title : STRING, imdb : BOOLEAN, added : Nat,
   media : Seq(AnyVersion),
   show : STRING, showGuid : STRING \X STRING, season : Int, number : Nat \cup {Unnumbered}]

AnySection == [key : STRING, type : {"movie", "show"}]

AnyCollection ==
  [key : STRING, section : STRING, type : {"movie", "show"}, members : Seq(STRING)]

AnyUrl == [origin : STRING, slash : BOOLEAN]

AnyOptions ==
  [direct : BOOLEAN, fallbacks : BOOLEAN, proxied : BOOLEAN, original : BOOLEAN,
   plexTv : BOOLEAN, down : Seq(Nat), selected : AnyUrl, others : Seq(AnyUrl)]

(* An installation: its configuration, and what is behind it.               *)
AnyWorld ==
  [items : Seq(AnyItem), server : Seq(AnySection), matched : SUBSET STRING,
   onDeck : Seq(AnyItem),
   sections : Seq(AnySection), includeCollections : BOOLEAN,
   collections : Seq(AnyCollection), options : AnyOptions]

(* Keys name one thing each, and so do parts; "none" is no key.             *)
KeysAreUnique(w) ==
  /\ \A i, j \in DOMAIN w.items : w.items[i].key = w.items[j].key => i = j
  /\ \A i, j \in DOMAIN w.server : w.server[i].key = w.server[j].key => i = j
  /\ \A item \in ToSet(w.items) : item.key # "none"
  /\ \A item, other \in ToSet(w.items) :
       \A i \in DOMAIN item.media, j \in DOMAIN other.media :
         item.media[i].part = other.media[j].part => item = other /\ i = j

(* A guid stands for one title, of one type; those of the agents that know  *)
(* IMDb's titles stand for the title of that name.                          *)
GuidsNameTitles(w) ==
  \A item, other \in ToSet(w.items) :
    /\ item.guid = other.guid => item.type = other.type
    /\ item.guid[1] \in {"plex", "imdb-agent"} => item.guid[2] = item.title

EpisodesAreOfShows(w) ==
  \A e, item \in ToSet(w.items) :
    e.type = "episode" =>
      /\ item.guid = e.showGuid => item.type = "show"
      /\ item.key = e.show => item.type = "show" /\ item.guid = e.showGuid

(* A library, and so a collection of it, has movies or shows, not both.     *)
OneTypeEach(w) ==
  \A item \in ToSet(w.items) :
    item.type \in {"movie", "show"} =>
      /\ \A s \in ToSet(w.server) : item.section = s.key => item.type = s.type
      /\ \A c \in ToSet(w.collections) : item.key \in ToSet(c.members) => item.type = c.type

(* The sections chosen are some of the server's.                            *)
ListsAreOfTheServer(w) ==
  /\ ToSet(w.sections) \subseteq ToSet(w.server)
  /\ \A i, j \in DOMAIN w.sections : w.sections[i] = w.sections[j] => i = j
  /\ ToSet(w.onDeck) \subseteq ToSet(w.items)
  /\ \A i, j \in DOMAIN w.onDeck : w.onDeck[i] = w.onDeck[j] => i = j

Sound(w) ==
  /\ KeysAreUnique(w)
  /\ GuidsNameTitles(w)
  /\ EpisodesAreOfShows(w)
  /\ OneTypeEach(w)
  /\ ListsAreOfTheServer(w)

ASSUME WorldAssumption == World \subseteq AnyWorld /\ \A w \in World : Sound(w)

VARIABLE world

Listable == {"show", "movie", "episode"}

Where(Test(_)) == Select(world.items, Test)

(* _fetch_media_by_rating_key and get_media_by_rating_key                   *)
ByRatingKey(key) == Where(LAMBDA i : i.key = key /\ i.type \in Listable)

(* get_media: every item under the guid, with its details.                  *)
ByGuid(guid) == Where(LAMBDA i : i.guid = guid /\ i.type \in Listable)

FirstOf(s) == SubSeq(s, 1, IF s = <<>> THEN 0 ELSE 1)

MutPage(s, skip) ==   (* Mutant: the next page begins with the last's end    *)
  LET from == IF skip > 0 THEN skip ELSE 1
  IN SubSeq(s, from, IF skip + PageSize < Len(s) THEN skip + PageSize ELSE Len(s))

Page(s, skip) ==
  SubSeq(s, skip + 1, IF skip + PageSize < Len(s) THEN skip + PageSize ELSE Len(s))

Newest(s) ==
  Picked(s, Arranged([n \in DOMAIN s |->
    {m \in DOMAIN s : s[m].added > s[n].added \/ (s[m].added = s[n].added /\ m < n)}]))

(* get_section_media: a section lists its movies or its shows.              *)
SectionItems(section) ==
  Where(LAMBDA i : i.section = section.key /\ i.type = section.type)

MutCollectionItems(collection, skip) ==   (* Mutant: repeats are kept       *)
  LET page == Page(collection.members, skip)
  IN FlattenSeq([n \in DOMAIN page |->
       Where(LAMBDA i : i.key = page[n] /\ i.type \in {"movie", "show"})])

(* get_collection_media: collections of a show library may hold seasons and *)
(* episodes, and a smart one the same title twice.                          *)
CollectionItems(collection, skip) ==
  LET page == Page(collection.members, skip)
  IN Distinct(FlattenSeq([n \in DOMAIN page |->
       Where(LAMBDA i : i.key = page[n] /\ i.type \in {"movie", "show"})]))

(* get_all_episodes: an episode without a number takes its position.        *)
Episodes(show) ==
  LET leaves == Where(LAMBDA i : i.type = "episode" /\ i.show = show)
  IN [i \in DOMAIN leaves |->
        [leaves[i] EXCEPT !.number = IF @ = Unnumbered THEN i - 1 ELSE @]]

(* The first episode with that season and number, as a sequence.            *)
Numbered(show, season, number) ==
  FirstOf(Select(Episodes(show), LAMBDA e : e.season = season /\ e.number = number))

ImdbAgentGuid(title) == <<"imdb-agent", title>>

(* imdb_to_plex_id: the matcher knows a title or not, or refuses the token. *)
CloudGuids(title) == IF title \in world.matched THEN <<<<"plex", title>>>> ELSE <<>>

(* _resolve_imdb_guid_from_library                                          *)
LibraryGuids(title) ==
  IF ByGuid(ImdbAgentGuid(title)) = <<>> THEN <<>> ELSE <<ImdbAgentGuid(title)>>

(* The guids of the first show that has the episode: at most one guid.      *)
EpisodeGuids(shows, season, number) ==
  LET hits == FlattenSeq([n \in DOMAIN shows |-> Numbered(shows[n].key, season, number)])
  IN IF hits = <<>> THEN <<>> ELSE <<hits[1].guid>>

(* stremio_to_plex_id; id is <<"tt", title>> or <<"tt", title, s, e>>.       *)
PlexGuids(type, id) ==
  LET guids == IF CloudGuids(id[2]) # <<>> THEN CloudGuids(id[2]) ELSE LibraryGuids(id[2])
  IN IF type = "movie" THEN guids
     ELSE IF Len(id) # 4 \/ guids = <<>> THEN <<>>
     ELSE EpisodeGuids(ByGuid(guids[1]), id[3], id[4])
=============================================================================
