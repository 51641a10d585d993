------------------------------ MODULE Catalog ------------------------------
(***************************************************************************)
(* The addon's read-only routes (routers/addon.py): the manifest, the      *)
(* catalogs, a title's metadata, and which media a stream request is       *)
(* about; with the ids that link one answer to the next (models/utils.py,  *)
(* models/plex.py).                                                        *)
(*                                                                         *)
(* Ids are tuples: <<"tt", title>> for IMDb's, <<"rk", key>> for           *)
(* plexio:rk-<key>, <<"guid", guid>> for plexio:<base64>, <<"raw", guid>>  *)
(* for a bare guid; season and number follow when an episode is meant.     *)
(***************************************************************************)
EXTENDS PlexServer

StremioType == [show |-> "series", movie |-> "movie"]

SectionsOfType(type) ==
  Select(world.sections, LAMBDA s : StremioType[s.type] = type)

(* get_manifest                                                             *)
Manifest ==
  LET Hub(name, type) == IF SectionsOfType(type) = <<>> THEN <<>>
                                                        ELSE <<[id |-> <<name>>, type |-> type]>>
      Section(s) == [id |-> <<"section", s.key>>, type |-> StremioType[s.type]]
      Collection(c) == [id |-> <<"collection", c.section, c.key>>, type |-> StremioType[c.type]]
      configured == IF world.includeCollections THEN world.collections ELSE <<>>
  IN Hub("ondeck", "movie") \o Hub("ondeck", "series")
       \o Hub("recent", "movie") \o Hub("recent", "series")
       \o [i \in DOMAIN world.sections |-> Section(world.sections[i])]
       \o [i \in DOMAIN configured |-> Collection(configured[i])]

MutPreview(item) ==   (* Mutant: a plain Plex id where a tt id is missing    *)
  [id |-> IF item.imdb THEN <<"tt", item.title>> ELSE <<"raw", item.guid>>,
   type |-> StremioType[item.type],
   of |-> item.key]

MutPlexType(item) ==   (* Mutant: Plex's name of the type                    *)
  [id |-> IF item.imdb THEN <<"tt", item.title>> ELSE <<"rk", item.key>>,
   type |-> item.type,
   of |-> item.key]

(* to_stremio_meta_review: IMDb's id if Plex has it, else Plexio's own.     *)
(* of is the item it was made from.                                         *)
Preview(item) ==
  [id |-> IF item.imdb THEN <<"tt", item.title>> ELSE <<"rk", item.key>>,
   type |-> StremioType[item.type],
   of |-> item.key]

Previews(items) == [i \in DOMAIN items |-> Preview(items[i])]

(* The stand-in for a series that cannot be looked up.                      *)
StandIn(guid) ==
  [id |-> IF guid[1] = "custom" THEN <<"raw", guid>> ELSE <<"guid", guid>>,
   type |-> "series", of |-> "none"]

Series(guid) ==
  LET shows == FirstOf(ByGuid(guid))
  IN IF shows = <<>> THEN StandIn(guid) ELSE Preview(shows[1])

(* _map_on_deck: movies as they are, episodes as their series, once each.   *)
OnDeck(type) ==
  LET configured == {s.key : s \in ToSet(SectionsOfType(type))}
      Going(kind) == Select(world.onDeck, LAMBDA i :
        i.type = kind /\ (configured = {} \/ i.section \in configured))
      episodes == Going("episode")
      series == Distinct([n \in DOMAIN episodes |-> episodes[n].showGuid])
  IN IF type = "movie" THEN Previews(Going("movie"))
                       ELSE [n \in DOMAIN series |-> Series(series[n])]

(* _recently_added: the same page of every section, merged and cut.         *)
RecentlyAdded(type, skip) ==
  LET sections == SectionsOfType(type)
      pages == [n \in DOMAIN sections |-> Page(Newest(SectionItems(sections[n])), skip)]
  IN Previews(Page(Newest(FlattenSeq(pages)), 0))

Answer(metas) == [found |-> TRUE, metas |-> metas]
NotFound == [found |-> FALSE, metas |-> <<>>]

ConfiguredCollection(id, type) ==
  Select(IF world.includeCollections THEN world.collections ELSE <<>>,
         LAMBDA c : id = <<"collection", c.section, c.key>> /\ StremioType[c.type] = type)

(* get_catalog: one page of a catalog; nothing is found under a collection  *)
(* that is not configured.                                                  *)
CatalogPage(entry, skip) ==
  CASE entry.id[1] = "ondeck" -> Answer(OnDeck(entry.type))
    [] entry.id[1] = "recent" -> Answer(RecentlyAdded(entry.type, skip))
    [] entry.id[1] = "collection" ->
         LET found == ConfiguredCollection(entry.id, entry.type)
         IN IF found = <<>> THEN NotFound ELSE Answer(Previews(CollectionItems(found[1], skip)))
    [] OTHER ->
         (* The key may be of any section: Plex decides what it lists.       *)
         LET listed == CHOOSE s \in ToSet(world.server) : s.key = entry.id[2]
         IN Answer(Previews(Page(SectionItems(listed), skip)))

(* to_stremio_video_meta: the id of an episode in its series' metadata.     *)
VideoId(episode) == <<"rk", episode.key>>

(* get_meta: the item, and the videos of a series.  Only movies and series  *)
(* have metadata of their own: the rating key of anything else, which no    *)
(* page lists, ends in a KeyError.  NotFound is every answer without        *)
(* metadata, that one (500) and the 404 alike.                              *)
Meta(type, id) ==
  LET media == CASE id[1] = "rk" -> ByRatingKey(id[2])
                 [] id[1] = "guid" -> FirstOf(ByGuid(id[2]))
                 [] OTHER -> <<>>
      leaves == Episodes(media[1].key)
  IN IF media = <<>> \/ media[1].type \notin DOMAIN StremioType THEN NotFound
     ELSE [found |-> TRUE,
           item |-> media[1],
           videos |-> IF type = "series"
                      THEN [i \in DOMAIN leaves |->
                              [id |-> VideoId(leaves[i]), of |-> leaves[i].key]]
                      ELSE <<>>]

(* _resolve_rating_key_stream_media                                         *)
KeyMedia(type, id) ==
  IF type # "series" \/ Len(id) # 4 THEN ByRatingKey(id[2])
  ELSE IF ByRatingKey(id[2]) = <<>> THEN <<>>
  ELSE LET hit == Numbered(ByRatingKey(id[2])[1].key, id[3], id[4])
       IN IF hit = <<>> THEN <<>> ELSE ByRatingKey(hit[1].key)

MutStreamMedia(type, id) ==   (* Mutant: the show's guid is used as it is    *)
  CASE id[1] = "tt" ->
         LET guids == CloudGuids(id[2]) \o LibraryGuids(id[2])
         IN IF guids = <<>> THEN <<>> ELSE ByGuid(guids[1])
    [] id[1] = "rk" -> KeyMedia(type, id)
    [] OTHER -> ByGuid(id[2])

(* _resolve_stream_media: the media whose streams answer a request for id.  *)
StreamMedia(type, id) ==
  CASE id[1] = "tt" ->
         LET guids == PlexGuids(type, id)
         IN IF guids = <<>> THEN <<>> ELSE ByGuid(guids[1])
    [] id[1] = "rk" -> KeyMedia(type, id)
    [] OTHER -> ByGuid(id[2])
=============================================================================
