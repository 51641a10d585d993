------------------------------- MODULE Addon -------------------------------
(***************************************************************************)
(* A Stremio client's way through the addon, from the manifest to playing  *)
(* a file: each action is one request to a route of routers/addon.py, made *)
(* with an id or a link that an earlier answer contained.  The answers are *)
(* those of Catalog and Streams; the library does not change on the way.   *)
(***************************************************************************)
EXTENDS Catalog, Streams, FiniteSets

VARIABLES
  view,   (* what the client shows: the last answer and what was asked      *)
  seen    (* history: the titles listed by the catalog's pages so far       *)

vars == <<world, view, seen>>

Home == [at |-> "home"]

Init ==
  /\ world \in World
  /\ view = Home
  /\ seen = <<>>

(* The items a page lists: what its previews were made from.                *)
Titles(metas) == [i \in DOMAIN metas |-> metas[i].of]

Listing(entry, skip) ==
  LET page == CatalogPage(entry, skip)
  IN [at |-> "catalog", entry |-> entry, skip |-> skip,
      found |-> page.found, metas |-> page.metas]

OpenCatalog ==
  /\ view.at = "home"
  /\ \E entry \in ToSet(Manifest) :
       /\ view' = Listing(entry, 0)
       /\ seen' = Titles(view'.metas)
  /\ UNCHANGED world

(* The next page, as long as the last one was full.                         *)
NextPage ==
  /\ view.at = "catalog"
  /\ view.entry.id[1] # "ondeck"
  /\ Len(view.metas) = PageSize
  /\ view' = Listing(view.entry, view.skip + PageSize)
  /\ seen' = seen \o Titles(view'.metas)
  /\ UNCHANGED world

(* Plexio's own ids have Plexio's metadata; links of earlier releases hold  *)
(* a guid.                                                                  *)
OpenTitle(type, id, of) ==
  /\ view' = [at |-> "title", type |-> type, id |-> id, of |-> of, meta |-> Meta(type, id)]
  /\ UNCHANGED <<world, seen>>

OpenListed ==
  /\ view.at = "catalog"
  /\ \E i \in DOMAIN view.metas :
       /\ view.metas[i].id[1] # "tt"
       /\ OpenTitle(view.metas[i].type, view.metas[i].id, view.metas[i].of)

OpenOldLink ==
  /\ view.at = "home"
  /\ \E item \in ToSet(world.items) :
       /\ item.type \in DOMAIN StremioType
       /\ OpenTitle(StremioType[item.type], <<"guid", item.guid>>, item.key)

(* of is the item the client means to watch.                                *)
OpenStreams(type, id, of) ==
  LET media == StreamMedia(type, id)
  IN /\ view' = [at |-> "streams", type |-> type, id |-> id, of |-> of,
                 media |-> media, streams |-> StreamResponse(media)]
     /\ UNCHANGED <<world, seen>>

(* From a catalog or from elsewhere: IMDb's ids are common property.        *)
StreamImdb ==
  /\ view.at = "home"
  /\ \E item \in ToSet(world.items) :
       \/ /\ item.type = "movie"
          /\ OpenStreams("movie", <<"tt", item.title>>, item.key)
       \/ /\ item.type = "episode" /\ item.number # Unnumbered
          /\ OpenStreams("series", <<"tt", item.showGuid[2], item.season, item.number>>,
                          item.key)

(* From Plexio's metadata: a movie, or one of a series' videos.             *)
StreamTitle ==
  /\ view.at = "title" /\ view.meta.found
  /\ IF view.type = "movie"
     THEN OpenStreams("movie", view.id, view.of)
     ELSE \E i \in DOMAIN view.meta.videos :
            OpenStreams("series", view.meta.videos[i].id, view.meta.videos[i].of)

(* Season and number under the key of the series.                           *)
StreamKeyEpisode ==
  /\ view.at = "title" /\ view.meta.found
  /\ view.type = "series" /\ view.id[1] = "rk"
  /\ \E e \in ToSet(Where(LAMBDA i : i.show = view.of)) :
       /\ e.type = "episode" /\ e.number # Unnumbered
       /\ OpenStreams("series", <<"rk", view.id[2], e.season, e.number>>, e.key)

Back ==
  /\ view.at # "home"
  /\ view' = Home
  /\ seen' = <<>>
  /\ UNCHANGED world

Next ==
  OpenCatalog \/ NextPage \/ OpenListed \/ OpenOldLink \/ StreamImdb \/ StreamTitle
    \/ StreamKeyEpisode \/ Back

Spec == Init /\ [][Next]_vars

-----------------------------------------------------------------------------
(* What a client is shown has a type and an id that Stremio and the routes  *)
(* know.                                                                    *)
TypeOK ==
  /\ world \in World
  /\ view.at \in {"home", "catalog", "title", "streams"}
  /\ view.at = "catalog" =>
       \A i \in DOMAIN view.metas : /\ view.metas[i].id[1] \in {"tt", "rk", "guid", "raw"}
                                    /\ view.metas[i].type \in {"movie", "series"}
  /\ ToSet(seen) \subseteq {world.items[i].key : i \in DOMAIN world.items} \cup {"none"}

ItemOf(key) == Where(LAMBDA i : i.key = key)[1]

(* A client only shows what fits the row: every catalog of the manifest is  *)
(* answered, with titles of its type alone, none of them twice.             *)
CatalogsAnswer ==
  view.at = "catalog" =>
    /\ view.found
    /\ \A i \in DOMAIN view.metas :
         /\ view.metas[i].of # "none" => StremioType[ItemOf(view.metas[i].of).type] = view.entry.type
         /\ \A j \in DOMAIN view.metas : i # j => view.metas[i] # view.metas[j]

(* A viewer who scrolls to the end of a library has seen each of its titles *)
(* once.                                                                    *)
PagesAreComplete ==
  view.at = "catalog" /\ view.entry.id[1] = "section" /\ Len(view.metas) < PageSize =>
    \A item \in ToSet(world.items) :
      item.section = view.entry.id[2] /\ item.type \in DOMAIN StremioType =>
        Cardinality({i \in DOMAIN seen : seen[i] = item.key}) = 1

(* A title that is listed under an id of Plexio's opens as itself, with all *)
(* of its episodes; the stand-in for a series that Plex cannot look up does *)
(* not open.                                                                *)
ListedTitlesOpen ==
  view.at = "title" /\ view.of # "none" =>
    /\ view.meta.found
    /\ view.meta.item.guid = ItemOf(view.of).guid
    /\ view.id[1] = "rk" => view.meta.item.key = view.of
    /\ view.type = "series" =>
         \A e \in ToSet(world.items) :
           e.type = "episode" /\ e.show = view.meta.item.key =>
             \E i \in DOMAIN view.meta.videos : view.meta.videos[i].of = e.key

(* Can the IMDb id of an item lead to it?  The matcher must know the title  *)
(* if Plex's own agent matched it, and must not if the old IMDb agent did.  *)
Matchable(item) ==
  \/ item.title \in world.matched /\ item.guid[1] = "plex"
  \/ item.title \notin world.matched /\ item.guid[1] = "imdb-agent"

(* An episode cannot be told by its number if another one of its show has   *)
(* that number too, given to it because of its position; nor, under IMDb's  *)
(* id, if a copy of the show has another title under the number.            *)
Shadowed(item, id) ==
  \E show \in ToSet(ByGuid(item.showGuid)) : \E e \in ToSet(Episodes(show.key)) :
    /\ e.season = item.season /\ e.number = item.number
    /\ IF id[1] = "rk" THEN show.key = item.show /\ e.key # item.key ELSE e.guid # item.guid

(* The streams offered are those of the title asked for, all its copies and *)
(* nothing else, whichever kind of id was used.                             *)
StreamsAreOfTheTitle ==
  view.at = "streams" =>
    LET item == ItemOf(view.of)
        reachable == IF view.id[1] # "tt" THEN TRUE
                     ELSE IF item.type = "movie" THEN Matchable(item)
                     ELSE \E show \in ToSet(world.items) :
                            show.key = item.show /\ show.type = "show" /\ Matchable(show)
        numbered == item.type = "episode" /\ Len(view.id) = 4
    IN reachable /\ ~(numbered /\ Shadowed(item, view.id)) =>
         /\ \E i \in DOMAIN view.media : view.media[i].key = item.key
         /\ \A i \in DOMAIN view.media : view.media[i].guid = item.guid

(* Every link plays the file its description names, also after the versions *)
(* have been sorted, and what is played is reported under the right key.    *)
LinksPlayTheirFile ==
  view.at = "streams" =>
    \A i \in DOMAIN view.streams :
      LET s == view.streams[i]
      IN s.kind # "external" =>
           /\ Played(s).file = s.file
           /\ s.kind = "play" => Played(s).key = s.key

(* "Prefer broadly compatible, moderate-size versions" (models/plex.py:209):*)
(* no version too heavy for most players is offered before a lighter one of *)
(* the same item.                                                           *)
LightVersionsFirst ==
  view.at = "streams" =>
    \A n \in DOMAIN view.media :
      LET media == view.media[n].media
          order == Ordered(media)
      IN \A i, j \in DOMAIN order : Heavy(media[order[i]]) /\ ~Heavy(media[order[j]]) => j < i

(* The choices that play a version directly, by their places in the answer. *)
Direct(version) ==
  {k \in DOMAIN view.streams :
     view.streams[k].kind \in {"direct", "play"} /\ view.streams[k].part = version.part}

(* Each version can be played directly over every connection once, over the *)
(* selected one first; and in one way only when Plexio reports playback.    *)
OneLinkPerConnection ==
  view.at = "streams" /\ world.options.direct =>
    \A n \in DOMAIN view.media : \A version \in ToSet(view.media[n].media) :
      LET links == Direct(version)
          base(k) == view.streams[k].base
          urls == {world.options.selected}
                    \cup (IF world.options.fallbacks THEN ToSet(world.options.others) ELSE {})
      IN /\ \A j, k \in links : base(j) = base(k) => j = k
         /\ world.options.proxied => {base(k) : k \in links} = {"plexio"}
         /\ ~world.options.proxied =>
              /\ {base(k) : k \in links} = {url.origin : url \in urls}
              /\ \A k \in links :
                   base(k) = world.options.selected.origin => \A j \in links : k <= j

(* "Recently added top-level items across configured sections of a type,    *)
(* merged and sorted by date added." (addon.py:170): scrolled to its end,   *)
(* the list has every title.                                                *)
RecentIsComplete ==
  view.at = "catalog" /\ view.entry.id = <<"recent">> /\ Len(view.metas) < PageSize =>
    \A item \in ToSet(world.items) :
      (\E s \in ToSet(SectionsOfType(view.entry.type)) :
         item.section = s.key /\ item.type = s.type) => Contains(seen, item.key)
=============================================================================
