---------------------------- MODULE AddonProofs ----------------------------
(***************************************************************************)
(* What a client of Addon is shown, for every page size, every limit and   *)
(* every installation that is Sound.                                       *)
(***************************************************************************)
EXTENDS Addon, SelectionProofs

Items == ToSet(world.items)

LEMMA WorldParts ==
  ASSUME world \in World
  PROVE  /\ world.items \in Seq(AnyItem) /\ world.onDeck \in Seq(AnyItem)
         /\ world.server \in Seq(AnySection) /\ world.sections \in Seq(AnySection)
         /\ world.collections \in Seq(AnyCollection) /\ world.matched \in SUBSET STRING
         /\ world.options \in AnyOptions /\ world.includeCollections \in BOOLEAN
         /\ Items \subseteq AnyItem
         /\ KeysAreUnique(world) /\ GuidsNameTitles(world) /\ EpisodesAreOfShows(world)
         /\ OneTypeEach(world) /\ ListsAreOfTheServer(world)
<1>1. world \in AnyWorld /\ Sound(world)
  BY WorldAssumption
<1>2. world.items \in Seq(AnyItem)
  BY <1>1 DEF AnyWorld
<1>3. Items \subseteq AnyItem
  BY <1>2, ToSetIs DEF Items
<1> QED BY <1>1, <1>3 DEF AnyWorld, Sound

LEMMA ItemParts ==
  ASSUME world \in World, NEW item \in Items
  PROVE  /\ item \in AnyItem
         /\ item.key \in STRING /\ item.key # "none"
         /\ item.type \in {"movie", "show", "season", "episode"}
         /\ item.guid \in STRING \X STRING /\ item.showGuid \in STRING \X STRING
         /\ item.number \in Nat \cup {Unnumbered}
         /\ item.media \in Seq(AnyVersion)
<1>1. item \in AnyItem /\ item.key # "none"
  BY WorldParts DEF KeysAreUnique, Items
<1> QED BY <1>1 DEF AnyItem

LEMMA SameKey ==
  ASSUME world \in World, NEW a \in Items, NEW b \in Items, a.key = b.key
  PROVE  a = b
<1>1. PICK i \in DOMAIN world.items, j \in DOMAIN world.items :
        a = world.items[i] /\ b = world.items[j]
  BY DEF Items, ToSet
<1> QED BY <1>1, WorldParts DEF KeysAreUnique

(* A list of the items in T, each once, in the order of the library.        *)
Listed(s, T) == s \in Seq(AnyItem) /\ Injective(s) /\ ToSet(s) = T

LEMMA ListedIs ==
  ASSUME NEW s, NEW T, Listed(s, T)
  PROVE  /\ Len(s) \in Nat /\ DOMAIN s = 1 .. Len(s)
         /\ \A n \in DOMAIN s : s[n] \in T
         /\ \A x \in T : \E n \in DOMAIN s : s[n] = x
         /\ s = <<>> <=> T = {}
         /\ s # <<>> => 1 \in DOMAIN s /\ s[1] \in T
<1>1. Len(s) \in Nat /\ DOMAIN s = 1 .. Len(s) /\ (s = <<>> <=> DOMAIN s = {})
  BY InDomain DEF Listed
<1>2. (\A n \in DOMAIN s : s[n] \in T) /\ (\A x \in T : \E n \in DOMAIN s : s[n] = x)
  BY DEF Listed, ToSet
<1>3. s # <<>> => 1 \in DOMAIN s
  BY <1>1
<1> QED BY <1>1, <1>2, <1>3

LEMMA ChosenItems ==
  ASSUME world \in World, NEW P \in SUBSET DOMAIN world.items, NEW T,
         T = {world.items[n] : n \in P}
  PROVE  Listed(Chosen(world.items, P), T)
<1>1. world.items \in Seq(AnyItem)
  BY WorldParts
<1>2. \A m, n \in P : world.items[m] = world.items[n] => m = n
  BY WorldParts DEF KeysAreUnique
<1> QED BY <1>1, <1>2, ChosenSet DEF Listed

LEMMA ByRatingKeyIs ==
  ASSUME world \in World, NEW key
  PROVE  Listed(ByRatingKey(key), {i \in Items : i.key = key /\ i.type \in Listable})
<1> DEFINE P == {n \in DOMAIN world.items :
                  world.items[n].key = key /\ world.items[n].type \in Listable}
<1>1. ByRatingKey(key) = Chosen(world.items, P)
  BY DEF ByRatingKey, Where, Select
<1>2. {i \in Items : i.key = key /\ i.type \in Listable} = {world.items[n] : n \in P}
  BY DEF Items, ToSet
<1> QED BY <1>1, <1>2, ChosenItems

LEMMA ByGuidIs ==
  ASSUME world \in World, NEW guid
  PROVE  Listed(ByGuid(guid), {i \in Items : i.guid = guid /\ i.type \in Listable})
<1> DEFINE P == {n \in DOMAIN world.items :
                  world.items[n].guid = guid /\ world.items[n].type \in Listable}
<1>1. ByGuid(guid) = Chosen(world.items, P)
  BY DEF ByGuid, Where, Select
<1>2. {i \in Items : i.guid = guid /\ i.type \in Listable} = {world.items[n] : n \in P}
  BY DEF Items, ToSet
<1> QED BY <1>1, <1>2, ChosenItems

LEMMA SectionItemsIs ==
  ASSUME world \in World, NEW section
  PROVE  Listed(SectionItems(section),
                {i \in Items : i.section = section.key /\ i.type = section.type})
<1> DEFINE P == {n \in DOMAIN world.items : /\ world.items[n].section = section.key
                                            /\ world.items[n].type = section.type}
<1>1. SectionItems(section) = Chosen(world.items, P)
  BY DEF SectionItems, Where, Select
<1>2. {i \in Items : i.section = section.key /\ i.type = section.type} = {world.items[n] : n \in P}
  BY DEF Items, ToSet
<1> QED BY <1>1, <1>2, ChosenItems

LEMMA ItemOfIs ==
  ASSUME world \in World, NEW item \in Items
  PROVE  ItemOf(item.key) = item
<1> DEFINE P == {n \in DOMAIN world.items : world.items[n].key = item.key}
           c == Chosen(world.items, P)
<1>1. ItemOf(item.key) = c[1]
  BY DEF ItemOf, Where, Select
<1>2. {item} = {world.items[n] : n \in P}
  <2>1. \A n \in P : world.items[n] = item
    BY SameKey DEF Items, ToSet
  <2>2. \E n \in P : world.items[n] = item
    BY DEF Items, ToSet
  <2> QED BY <2>1, <2>2
<1>3. Listed(c, {item})
  BY <1>2, ChosenItems
<1> HIDE DEF c
<1> QED BY <1>1, <1>3, ListedIs

LEMMA PageIs ==
  ASSUME NEW S, NEW s \in Seq(S), NEW skip \in Nat, NEW p, p = Page(s, skip)
  PROVE  /\ p \in Seq(S) /\ Len(s) \in Nat
         /\ Len(p) = IF skip + PageSize < Len(s) THEN PageSize
                     ELSE IF skip < Len(s) THEN Len(s) - skip ELSE 0
         /\ DOMAIN p = 1 .. Len(p)
         /\ \A k \in DOMAIN p : skip + k \in DOMAIN s /\ p[k] = s[skip + k]
         /\ ToSet(p) \subseteq ToSet(s)
         /\ Injective(s) => Injective(p)
<1>1. PageSize \in Nat
  BY PageAssumption
<1>2. p = SubSeq(s, skip + 1, IF skip + PageSize < Len(s) THEN skip + PageSize ELSE Len(s))
  BY DEF Page
<1>3. PICK n \in Nat : n = PageSize
  BY <1>1
<1>4. p = SubSeq(s, skip + 1, IF skip + n < Len(s) THEN skip + n ELSE Len(s))
  BY <1>2, <1>3
<1>5. /\ p \in Seq(S) /\ Len(s) \in Nat
      /\ Len(p) = IF skip + n < Len(s) THEN n
                  ELSE IF skip < Len(s) THEN Len(s) - skip ELSE 0
      /\ DOMAIN p = 1 .. Len(p)
      /\ \A k \in DOMAIN p : skip + k \in DOMAIN s /\ p[k] = s[skip + k]
      /\ ToSet(p) \subseteq ToSet(s)
      /\ Injective(s) => Injective(p)
  BY <1>4, SliceIs
<1> QED BY <1>3, <1>5

LEMMA NewestIs ==
  ASSUME NEW s \in Seq(AnyItem), NEW c, c = Newest(s)
  PROVE  /\ c \in Seq(AnyItem)
         /\ ToSet(c) = ToSet(s)
         /\ Injective(s) => Injective(c)
<1> DEFINE Sooner(m, n) ==
             s[m].added > s[n].added \/ (s[m].added = s[n].added /\ m < n)
           B == [n \in DOMAIN s |-> {m \in DOMAIN s : Sooner(m, n)}]
<1>1. \A n \in DOMAIN s : s[n].added \in Nat
  <2>1. \A n \in DOMAIN s : s[n] \in AnyItem
    BY InDomain
  <2> QED BY <2>1 DEF AnyItem
<1>2. DOMAIN s \subseteq Nat
  BY InDomain
<1>3. B \in [DOMAIN s -> SUBSET DOMAIN s]
  OBVIOUS
<1>4. \A x \in DOMAIN s : x \notin B[x]
  BY <1>1, <1>2
<1>5. \A x, y \in DOMAIN s : x \in B[y] => B[x] \subseteq B[y]
  <2> SUFFICES ASSUME NEW x \in DOMAIN s, NEW y \in DOMAIN s, NEW z \in DOMAIN s,
                      Sooner(x, y), Sooner(z, x)
               PROVE  Sooner(z, y)
    OBVIOUS
  <2> QED BY <1>1, <1>2
<1>6. \A x, y \in DOMAIN s : x # y => x \in B[y] \/ y \in B[x]
  BY <1>1, <1>2
<1>7. c = Picked(s, Arranged(B))
  BY DEF Newest
<1> HIDE DEF B
<1> QED BY <1>3, <1>4, <1>5, <1>6, <1>7, SortedIs

LEMMA CollectionItemsIs ==
  ASSUME world \in World, NEW c \in ToSet(world.collections), NEW skip \in Nat
  PROVE  \E T \in SUBSET {i \in Items : i.type = c.type} : Listed(CollectionItems(c, skip), T)
<1> DEFINE page == Page(c.members, skip)
           P(n) == {m \in DOMAIN world.items : /\ world.items[m].key = page[n]
                                               /\ world.items[m].type \in {"movie", "show"}}
           row == [n \in DOMAIN page |-> Chosen(world.items, P(n))]
           all == FlattenSeq(row)
           Fit == {i \in Items : i.type = c.type}
<1>1. CollectionItems(c, skip) = Distinct(all)
  BY DEF CollectionItems, Where, Select
<1>2. c \in AnyCollection /\ c.members \in Seq(STRING)
  <2>1. c \in AnyCollection
    BY WorldParts, ToSetIs
  <2> QED BY <2>1 DEF AnyCollection
<1>3. page \in Seq(STRING) /\ ToSet(page) \subseteq ToSet(c.members)
  BY <1>2, PageIs
<1> HIDE DEF page
<1>4. ASSUME NEW n \in DOMAIN page
      PROVE  row[n] \in Seq(AnyItem) /\ ToSet(row[n]) \subseteq Fit
  <2>1. Listed(row[n], {world.items[m] : m \in P(n)})
    BY ChosenItems
  <2>2. page[n] \in ToSet(c.members)
    BY <1>3 DEF ToSet
  <2>3. \A m \in P(n) : world.items[m] \in Items
    BY DEF Items, ToSet
  <2>4. \A m \in P(n) : world.items[m].type = c.type
    BY <2>2, <2>3, WorldParts DEF OneTypeEach, Items
  <2> QED BY <2>1, <2>3, <2>4 DEF Listed
<1>5. row \in Seq(Seq(AnyItem)) /\ DOMAIN row = DOMAIN page
  <2>1. row \in [DOMAIN page -> Seq(AnyItem)]
    BY <1>4
  <2> HIDE DEF row
  <2> QED BY <1>3, <2>1, MapIs
<1>6. all \in Seq(AnyItem) /\ ToSet(all) \subseteq Fit
  <2>1. all \in Seq(AnyItem) /\ ToSet(all) = UNION {ToSet(row[n]) : n \in DOMAIN row}
    <3> HIDE DEF row
    <3> QED BY <1>5, FlattenedSet
  <2> HIDE DEF row, all, Fit
  <2> QED BY <1>4, <1>5, <2>1
<1> HIDE DEF all
<1>7. Listed(Distinct(all), ToSet(all))
  BY <1>6, DistinctIs DEF Listed
<1> QED BY <1>1, <1>6, <1>7

LEMMA Renumbered ==
  ASSUME NEW item \in AnyItem, NEW n \in Nat \cup {Unnumbered}
  PROVE  [item EXCEPT !.number = n] \in AnyItem
<1> QED BY DEF AnyItem

(* An episode keeps its number, if it has one.                              *)
HasEpisode(s, e) ==
  \E n \in DOMAIN s :
    /\ s[n].key = e.key /\ s[n].guid = e.guid /\ s[n].season = e.season
    /\ e.number # Unnumbered => s[n].number = e.number

LEMMA EpisodesIs ==
  ASSUME world \in World, NEW show, NEW s, s = Episodes(show)
  PROVE  /\ s \in Seq(AnyItem)
         /\ \A n \in DOMAIN s : \E e \in Items :
              /\ e.type = "episode" /\ e.show = show
              /\ s[n].key = e.key /\ s[n].guid = e.guid /\ s[n].season = e.season
              /\ e.number # Unnumbered => s[n].number = e.number
         /\ \A e \in Items : e.type = "episode" /\ e.show = show => HasEpisode(s, e)
<1> DEFINE P == {n \in DOMAIN world.items : /\ world.items[n].type = "episode"
                                            /\ world.items[n].show = show}
           T == {e \in Items : e.type = "episode" /\ e.show = show}
           leaves == Chosen(world.items, P)
           N(i) == IF leaves[i].number = Unnumbered THEN i - 1 ELSE leaves[i].number
<1>1. s = [i \in DOMAIN leaves |-> [leaves[i] EXCEPT !.number = N(i)]]
  BY DEF Episodes, Where, Select
<1>2. Listed(leaves, T)
  <2>1. T = {world.items[n] : n \in P}
    BY DEF Items, ToSet
  <2> HIDE DEF T, P
  <2> QED BY <2>1, ChosenItems DEF P
<1> HIDE DEF leaves
<1>3. \A i \in DOMAIN leaves : leaves[i] \in AnyItem /\ N(i) \in Nat \cup {Unnumbered}
  <2>1. \A i \in DOMAIN leaves : leaves[i] \in AnyItem /\ i \in Nat \ {0}
    BY <1>2, InDomain DEF Listed
  <2> QED BY <2>1 DEF AnyItem
<1>4. s \in [DOMAIN leaves -> AnyItem]
  <2> SUFFICES ASSUME NEW i \in DOMAIN leaves
               PROVE  [leaves[i] EXCEPT !.number = N(i)] \in AnyItem
    BY <1>1
  <2>1. leaves[i] \in AnyItem /\ N(i) \in Nat \cup {Unnumbered}
    BY <1>3
  <2> HIDE DEF N
  <2> QED BY <2>1, Renumbered
<1>5. s \in Seq(AnyItem) /\ DOMAIN s = DOMAIN leaves
  BY <1>2, <1>4, MapIs DEF Listed
<1>6. \A i \in DOMAIN s : /\ s[i].key = leaves[i].key /\ s[i].guid = leaves[i].guid
                          /\ s[i].season = leaves[i].season
                          /\ leaves[i].number # Unnumbered => s[i].number = leaves[i].number
  <2> SUFFICES ASSUME NEW i \in DOMAIN leaves
               PROVE  /\ s[i].key = leaves[i].key /\ s[i].guid = leaves[i].guid
                      /\ s[i].season = leaves[i].season
                      /\ leaves[i].number # Unnumbered => s[i].number = leaves[i].number
    BY <1>5
  <2>1. s[i] = [leaves[i] EXCEPT !.number = N(i)] /\ leaves[i] \in AnyItem
    BY <1>1, <1>3
  <2>2. leaves[i].number # Unnumbered => N(i) = leaves[i].number
    OBVIOUS
  <2> HIDE DEF N
  <2> QED BY <2>1, <2>2 DEF AnyItem
<1>7. /\ \A i \in DOMAIN leaves : leaves[i] \in T
      /\ \A e \in T : \E i \in DOMAIN leaves : leaves[i] = e
  BY <1>2, ListedIs
<1> QED BY <1>5, <1>6, <1>7 DEF HasEpisode

-----------------------------------------------------------------------------
LEMMA StremioTypeIs ==
  /\ DOMAIN StremioType = {"movie", "show"}
  /\ StremioType["movie"] = "movie" /\ StremioType["show"] = "series"
<1> QED BY DEF StremioType

LEMMA FirstOfIs ==
  ASSUME NEW S, NEW s \in Seq(S), NEW f, f = FirstOf(s)
  PROVE  /\ f \in Seq(S)
         /\ s = <<>> <=> f = <<>>
         /\ s # <<>> => 1 \in DOMAIN s /\ f[1] = s[1] /\ s[1] \in S
         /\ ToSet(f) \subseteq ToSet(s)
<1>1. Len(s) \in Nat /\ DOMAIN s = 1 .. Len(s) /\ (s = <<>> <=> Len(s) = 0)
  BY InDomain, EmptySeq
<1>2. CASE s = <<>>
  <2>1. f \in Seq(S) /\ f = <<>>
    BY <1>1, <1>2, SubSeqEmpty DEF FirstOf
  <2> QED BY <1>2, <2>1
<1>3. CASE s # <<>>
  <2>1. 1 \in DOMAIN s /\ s[1] \in S
    BY <1>1, <1>3, InDomain
  <2>2. f = SubSeq(s, 1, 1)
    BY <1>3 DEF FirstOf
  <2>3. f \in Seq(S) /\ Len(f) = 1 /\ f[1] = s[1]
    BY <2>1, <2>2, SubSeqProperties
  <2>4. ToSet(f) \subseteq ToSet(s)
    <3>1. DOMAIN f = 1 .. 1
      BY <2>3, InDomain
    <3> QED BY <2>1, <2>3, <3>1 DEF ToSet
  <2>5. f # <<>>
    <3>1. DOMAIN f = 1 .. Len(f) /\ (f = <<>> <=> DOMAIN f = {})
      BY <2>3, InDomain
    <3>2. 1 \in DOMAIN f
      BY <2>3, <3>1
    <3> QED BY <3>1, <3>2
  <2> QED BY <1>3, <2>1, <2>3, <2>4, <2>5
<1> QED BY <1>2, <1>3

Titled(type) == {i \in Items : i.type \in DOMAIN StremioType /\ StremioType[i.type] = type}

(* What a page of a catalog of that type may show: titles of the type, and  *)
(* stand-ins for series that Plex cannot look up.                           *)
Shown(type) ==
  {Preview(i) : i \in Titled(type)}
    \cup {StandIn(g) : g \in {g \in STRING \X STRING : type = "series" /\ ByGuid(g) = <<>>}}

Row(metas, type) == metas \in Seq(Shown(type)) /\ Injective(metas)

LEMMA PreviewsAre ==
  ASSUME world \in World, NEW type, NEW s \in Seq(AnyItem), Injective(s),
         ToSet(s) \subseteq Titled(type), NEW r, r = Previews(s)
  PROVE  /\ Row(r, type)
         /\ Len(r) = Len(s) /\ DOMAIN r = DOMAIN s
         /\ \A n \in DOMAIN s : r[n] = Preview(s[n])
<1>1. \A n \in DOMAIN s : s[n] \in Titled(type)
  BY DEF ToSet
<1>2. r = [n \in DOMAIN s |-> Preview(s[n])]
  BY DEF Previews
<1>3. r \in [DOMAIN s -> Shown(type)]
  BY <1>1, <1>2 DEF Shown
<1>4. r \in Seq(Shown(type)) /\ Len(r) = Len(s) /\ DOMAIN r = DOMAIN s
  BY <1>3, MapIs
<1>5. Injective(r)
  <2> SUFFICES ASSUME NEW m \in DOMAIN s, NEW n \in DOMAIN s, r[m] = r[n] PROVE m = n
    BY <1>4 DEF Injective
  <2>1. s[m].key = s[n].key
    BY <1>2 DEF Preview
  <2>2. s[m] = s[n]
    BY <1>1, <2>1, SameKey DEF Titled
  <2> QED BY <2>2 DEF Injective
<1> QED BY <1>2, <1>4, <1>5 DEF Row

LEMMA StandInIs ==
  ASSUME NEW g
  PROVE  /\ StandIn(g).id \in {<<"raw", g>>, <<"guid", g>>}
         /\ StandIn(g).id[2] = g /\ StandIn(g).id[1] \in {"raw", "guid"}
         /\ StandIn(g).type = "series" /\ StandIn(g).of = "none"
<1> QED BY DEF StandIn

LEMMA PreviewIs ==
  ASSUME world \in World, NEW type, NEW item \in Titled(type)
  PROVE  /\ item \in Items /\ item.type \in {"movie", "show"} /\ StremioType[item.type] = type
         /\ Preview(item).of = item.key /\ item.key # "none"
         /\ Preview(item).type = type /\ type \in {"movie", "series"}
         /\ Preview(item).id \in {<<"tt", item.title>>, <<"rk", item.key>>}
         /\ Preview(item).id[1] \in {"tt", "rk"}
<1>1. item \in Items /\ item.type \in {"movie", "show"} /\ StremioType[item.type] = type
  BY StremioTypeIs DEF Titled
<1>2. type \in {"movie", "series"}
  BY <1>1, StremioTypeIs
<1>3. item.key # "none"
  BY <1>1, ItemParts
<1> QED BY <1>1, <1>2, <1>3 DEF Preview

LEMMA SeriesIs ==
  ASSUME world \in World, NEW e \in Items, e.type = "episode", NEW g, g = e.showGuid
  PROVE  \/ ByGuid(g) = <<>> /\ Series(g) = StandIn(g)
         \/ \E item \in Titled("series") : item.guid = g /\ Series(g) = Preview(item)
<1> DEFINE s == ByGuid(g)
           f == FirstOf(s)
<1>1. Listed(s, {i \in Items : i.guid = g /\ i.type \in Listable})
  BY ByGuidIs
<1>2. Series(g) = IF f = <<>> THEN StandIn(g) ELSE Preview(f[1])
  BY DEF Series
<1> HIDE DEF s
<1>3. CASE s = <<>>
  BY <1>1, <1>2, <1>3, FirstOfIs DEF Listed, s
<1>4. CASE s # <<>>
  <2>1. f # <<>> /\ f[1] = s[1]
    BY <1>1, <1>4, FirstOfIs DEF Listed
  <2>2. s[1] \in Items /\ s[1].guid = g
    BY <1>1, <1>4, ListedIs
  <2>3. s[1].type = "show"
    BY <2>2, WorldParts DEF EpisodesAreOfShows, Items
  <2>4. s[1] \in Titled("series")
    BY <2>2, <2>3, StremioTypeIs DEF Titled
  <2> QED BY <1>2, <2>1, <2>2, <2>4
<1> QED BY <1>3, <1>4

LEMMA OnDeckIs ==
  ASSUME world \in World, NEW type \in {"movie", "series"}
  PROVE  Row(OnDeck(type), type)
<1> DEFINE configured == {s.key : s \in ToSet(SectionsOfType(type))}
           P(kind) == {n \in DOMAIN world.onDeck :
                         /\ world.onDeck[n].type = kind
                         /\ configured = {} \/ world.onDeck[n].section \in configured}
           going(kind) == Chosen(world.onDeck, P(kind))
           episodes == going("episode")
           guids == [n \in DOMAIN episodes |-> episodes[n].showGuid]
           series == Distinct(guids)
           rows == [n \in DOMAIN series |-> Series(series[n])]
<1>1. OnDeck(type) = IF type = "movie" THEN Previews(going("movie")) ELSE rows
  BY DEF OnDeck, Select
<1>2. ASSUME NEW kind
      PROVE  /\ going(kind) \in Seq(AnyItem) /\ Injective(going(kind))
             /\ ToSet(going(kind)) \subseteq {i \in Items : i.type = kind}
  <2>1. world.onDeck \in Seq(AnyItem) /\ ToSet(world.onDeck) \subseteq Items
    BY WorldParts DEF ListsAreOfTheServer, Items
  <2>2. \A m, n \in P(kind) : world.onDeck[m] = world.onDeck[n] => m = n
    BY WorldParts DEF ListsAreOfTheServer
  <2>3. \A n \in P(kind) : world.onDeck[n] \in Items /\ world.onDeck[n].type = kind
    BY <2>1 DEF ToSet
  <2>4. P(kind) \in SUBSET DOMAIN world.onDeck
    OBVIOUS
  <2> HIDE DEF P
  <2>5. /\ going(kind) \in Seq(AnyItem) /\ Injective(going(kind))
        /\ ToSet(going(kind)) = {world.onDeck[n] : n \in P(kind)}
    BY <2>1, <2>2, <2>4, ChosenSet
  <2> QED BY <2>3, <2>5
<1>3. CASE type = "movie"
  <2> HIDE DEF going
  <2>1. ToSet(going("movie")) \subseteq Titled("movie")
    BY <1>2, StremioTypeIs DEF Titled
  <2> QED BY <1>1, <1>2, <1>3, <2>1, PreviewsAre
<1>4. CASE type = "series"
  <2> HIDE DEF going
  <2>1. \A n \in DOMAIN episodes : episodes[n] \in Items /\ episodes[n].type = "episode"
    BY <1>2 DEF ToSet
  <2>2. guids \in Seq(STRING \X STRING) /\ DOMAIN guids = DOMAIN episodes
    <3>1. guids \in [DOMAIN episodes -> STRING \X STRING]
      BY <2>1, ItemParts
    <3> HIDE DEF guids
    <3> QED BY <1>2, <3>1, MapIs
  <2>3. series \in Seq(STRING \X STRING) /\ Injective(series) /\ ToSet(series) = ToSet(guids)
    <3> HIDE DEF guids
    <3> QED BY <2>2, DistinctIs
  <2>4. \A n \in DOMAIN series : \E e \in Items : e.type = "episode" /\ series[n] = e.showGuid
    <3> TAKE n \in DOMAIN series
    <3>1. series[n] \in ToSet(guids)
      <4> HIDE DEF series, guids
      <4> QED BY <2>3 DEF ToSet
    <3>2. PICK m \in DOMAIN guids : series[n] = guids[m]
      <4> HIDE DEF series, guids
      <4> QED BY <3>1 DEF ToSet
    <3> QED BY <2>1, <2>2, <3>2
  <2> HIDE DEF series, guids, episodes
  <2>5. \A n \in DOMAIN series :
          \/ ByGuid(series[n]) = <<>> /\ rows[n] = StandIn(series[n])
          \/ \E item \in Titled("series") : item.guid = series[n] /\ rows[n] = Preview(item)
    BY <2>4, SeriesIs
  <2>6. \A n \in DOMAIN series : series[n] \in STRING \X STRING
    BY <2>3, InDomain
  <2>7. rows \in [DOMAIN series -> Shown("series")]
    <3> SUFFICES ASSUME NEW n \in DOMAIN series PROVE rows[n] \in Shown("series")
      OBVIOUS
    <3> HIDE DEF rows
    <3> QED BY <2>5, <2>6 DEF Shown
  <2>8. rows \in Seq(Shown("series")) /\ DOMAIN rows = DOMAIN series
    <3> HIDE DEF rows
    <3> QED BY <2>3, <2>7, MapIs
  <2> HIDE DEF rows
  <2>9. Injective(rows)
    <3> SUFFICES ASSUME NEW m \in DOMAIN series, NEW n \in DOMAIN series, rows[m] = rows[n]
                 PROVE  series[m] = series[n]
      BY <2>3, <2>8 DEF Injective
    <3>a. \A k \in DOMAIN series :
            \/ rows[k] = StandIn(series[k])
            \/ rows[k].of # "none"
      BY <2>5, PreviewIs
    <3>1. CASE rows[n] = StandIn(series[n])
      <4>1. rows[m] = StandIn(series[m])
        BY <3>1, <3>a, StandInIs
      <4>2. StandIn(series[m]).id[2] = series[m] /\ StandIn(series[n]).id[2] = series[n]
        BY StandInIs
      <4> QED BY <3>1, <4>1, <4>2
    <3>2. CASE rows[m] = StandIn(series[m])
      <4>1. rows[n] = StandIn(series[n])
        <5>1. StandIn(series[m]).of = "none"
          BY StandInIs
        <5>2. rows[n].of = "none"
          BY <3>2, <5>1
        <5> QED BY <3>a, <5>2
      <4> QED BY <3>1, <4>1
    <3>3. CASE /\ \E i \in Titled("series") : i.guid = series[m] /\ rows[m] = Preview(i)
               /\ \E i \in Titled("series") : i.guid = series[n] /\ rows[n] = Preview(i)
      <4>1. PICK i \in Titled("series") : i.guid = series[m] /\ rows[m] = Preview(i)
        BY <3>3
      <4>2. PICK j \in Titled("series") : j.guid = series[n] /\ rows[n] = Preview(j)
        BY <3>3
      <4>3. i \in Items /\ j \in Items /\ Preview(i).of = i.key /\ Preview(j).of = j.key
        BY PreviewIs
      <4> QED BY <4>1, <4>2, <4>3, SameKey
    <3> QED BY <2>5, <3>1, <3>2, <3>3
  <2> QED BY <1>1, <1>4, <2>8, <2>9 DEF Row
<1> QED BY <1>3, <1>4

LEMMA SectionsOfTypeAre ==
  ASSUME world \in World, NEW type, NEW s, s = SectionsOfType(type)
  PROVE  /\ s \in Seq(AnySection)
         /\ \A n \in DOMAIN s : /\ s[n] \in ToSet(world.server)
                                /\ StremioType[s[n].type] = type
         /\ \A m, n \in DOMAIN s : s[m].key = s[n].key => m = n
<1> DEFINE P == {n \in DOMAIN world.sections : StremioType[world.sections[n].type] = type}
<1>1. s = Chosen(world.sections, P)
  BY DEF SectionsOfType, Select
<1>2. /\ world.sections \in Seq(AnySection)
      /\ ToSet(world.sections) \subseteq ToSet(world.server)
      /\ \A m, n \in DOMAIN world.sections : world.sections[m] = world.sections[n] => m = n
  BY WorldParts DEF ListsAreOfTheServer
<1>3. /\ s \in Seq(AnySection) /\ ToSet(s) = {world.sections[n] : n \in P} /\ Injective(s)
  BY <1>1, <1>2, ChosenSet
<1>4. \A n \in DOMAIN s : /\ s[n] \in ToSet(world.server)
                          /\ StremioType[s[n].type] = type
  <2> TAKE n \in DOMAIN s
  <2>1. PICK m \in P : s[n] = world.sections[m]
    BY <1>3 DEF ToSet
  <2> QED BY <1>2, <2>1 DEF ToSet
<1>5. \A m, n \in DOMAIN s : s[m].key = s[n].key => m = n
  <2> SUFFICES ASSUME NEW m \in DOMAIN s, NEW n \in DOMAIN s, s[m].key = s[n].key
               PROVE  s[m] = s[n]
    BY <1>3 DEF Injective
  <2> QED BY <1>4, WorldParts DEF KeysAreUnique, ToSet
<1> QED BY <1>3, <1>4, <1>5

LEMMA RecentlyAddedIs ==
  ASSUME world \in World, NEW type, NEW skip \in Nat
  PROVE  Row(RecentlyAdded(type, skip), type)
<1> DEFINE sections == SectionsOfType(type)
           pages == [n \in DOMAIN sections |-> Page(Newest(SectionItems(sections[n])), skip)]
           all == FlattenSeq(pages)
           top == Page(Newest(all), 0)
<1>1. RecentlyAdded(type, skip) = Previews(top)
  BY DEF RecentlyAdded
<1>2. /\ sections \in Seq(AnySection)
      /\ \A n \in DOMAIN sections : StremioType[sections[n].type] = type
      /\ \A m, n \in DOMAIN sections : sections[m].key = sections[n].key => m = n
  BY SectionsOfTypeAre
<1> HIDE DEF sections
<1>3. ASSUME NEW n \in DOMAIN sections
      PROVE  /\ pages[n] \in Seq(AnyItem) /\ Injective(pages[n])
             /\ \A i \in ToSet(pages[n]) : i \in Titled(type) /\ i.section = sections[n].key
  <2> DEFINE s == SectionItems(sections[n])
             c == Newest(s)
  <2>1. Listed(s, {i \in Items : i.section = sections[n].key /\ i.type = sections[n].type})
    BY SectionItemsIs
  <2>2. sections[n].type \in DOMAIN StremioType
    <3>1. sections[n] \in AnySection
      BY <1>2, InDomain
    <3> QED BY <3>1, StremioTypeIs DEF AnySection
  <2>3. \A i \in ToSet(s) : i \in Titled(type) /\ i.section = sections[n].key
    BY <1>2, <2>1, <2>2 DEF Listed, Titled
  <2> HIDE DEF s
  <2>4. c \in Seq(AnyItem) /\ ToSet(c) = ToSet(s) /\ Injective(c)
    BY <2>1, NewestIs DEF Listed
  <2> HIDE DEF c
  <2>5. Page(c, skip) \in Seq(AnyItem) /\ ToSet(Page(c, skip)) \subseteq ToSet(c)
          /\ Injective(Page(c, skip))
    BY <2>4, PageIs
  <2>6. pages[n] = Page(c, skip)
    BY DEF c, s
  <2> QED BY <2>3, <2>4, <2>5, <2>6
<1>4. pages \in Seq(Seq(AnyItem)) /\ DOMAIN pages = DOMAIN sections
  <2>1. pages \in [DOMAIN sections -> Seq(AnyItem)]
    BY <1>3
  <2> HIDE DEF pages
  <2> QED BY <1>2, <2>1, MapIs
<1> HIDE DEF pages
<1>5. \A m, n \in DOMAIN pages : m # n => ToSet(pages[m]) \cap ToSet(pages[n]) = {}
  BY <1>2, <1>3, <1>4
<1>6. all \in Seq(AnyItem) /\ Injective(all) /\ ToSet(all) \subseteq Titled(type)
  <2>1. /\ all \in Seq(AnyItem) /\ Injective(all)
        /\ ToSet(all) = UNION {ToSet(pages[n]) : n \in DOMAIN pages}
    BY <1>3, <1>4, <1>5, FlattenedSet
  <2> QED BY <1>3, <1>4, <2>1
<1> HIDE DEF all
<1>7. Newest(all) \in Seq(AnyItem) /\ Injective(Newest(all)) /\ ToSet(Newest(all)) = ToSet(all)
  BY <1>6, NewestIs
<1>8. top \in Seq(AnyItem) /\ Injective(top) /\ ToSet(top) \subseteq Titled(type)
  BY <1>6, <1>7, PageIs
<1> QED BY <1>1, <1>8, PreviewsAre

(* The entries of the manifest: the two hubs, sections and collections.     *)
Hubs ==
  {[id |-> <<name>>, type |-> type] : name \in {"ondeck", "recent"}, type \in {"movie", "series"}}

SectionEntry(s) == [id |-> <<"section", s.key>>, type |-> StremioType[s.type]]

CollectionEntry(c) ==
  [id |-> <<"collection", c.section, c.key>>, type |-> StremioType[c.type]]

Entries ==
  Hubs \cup {SectionEntry(s) : s \in ToSet(world.sections)}
    \cup {CollectionEntry(c) : c \in IF world.includeCollections THEN ToSet(world.collections)
                                                               ELSE {}}

LEMMA ManifestIs ==
  ASSUME world \in World
  PROVE  ToSet(Manifest) \subseteq Entries
<1> DEFINE hub(name, type) == IF SectionsOfType(type) = <<>> THEN <<>>
                              ELSE <<[id |-> <<name>>, type |-> type]>>
           a == hub("ondeck", "movie")
           b == hub("ondeck", "series")
           c == hub("recent", "movie")
           d == hub("recent", "series")
           e == [i \in DOMAIN world.sections |-> SectionEntry(world.sections[i])]
           configured == IF world.includeCollections THEN world.collections ELSE <<>>
           f == [i \in DOMAIN configured |-> CollectionEntry(configured[i])]
<1>1. Manifest = a \o b \o c \o d \o e \o f
  BY DEF Manifest, SectionEntry, CollectionEntry
<1>2. ASSUME NEW name \in {"ondeck", "recent"}, NEW type \in {"movie", "series"}
      PROVE  hub(name, type) \in Seq(Entries)
  <2>1. [id |-> <<name>>, type |-> type] \in Hubs
    BY DEF Hubs
  <2>2. [id |-> <<name>>, type |-> type] \in Entries
    BY <2>1 DEF Entries
  <2> QED BY <2>2
<1>3. e \in Seq(Entries)
  <2>1. e \in [DOMAIN world.sections -> Entries]
    <3> SUFFICES ASSUME NEW i \in DOMAIN world.sections
                 PROVE  SectionEntry(world.sections[i]) \in Entries
      OBVIOUS
    <3> QED BY DEF Entries, ToSet
  <2> HIDE DEF e
  <2> QED BY <2>1, WorldParts, MapIs
<1>4. f \in Seq(Entries)
  <2>1. configured \in Seq(AnyCollection)
    BY WorldParts, EmptySeq
  <2>2. \A i \in DOMAIN configured : world.includeCollections /\ configured[i] \in ToSet(world.collections)
    BY DEF ToSet
  <2> HIDE DEF configured
  <2>3. f \in [DOMAIN configured -> Entries]
    <3> SUFFICES ASSUME NEW i \in DOMAIN configured
                 PROVE  CollectionEntry(configured[i]) \in Entries
      OBVIOUS
    <3> QED BY <2>2 DEF Entries
  <2> HIDE DEF f
  <2> QED BY <2>1, <2>3, MapIs
<1>5. a \in Seq(Entries) /\ b \in Seq(Entries) /\ c \in Seq(Entries) /\ d \in Seq(Entries)
  <2> HIDE DEF hub
  <2> QED BY <1>2
<1> HIDE DEF a, b, c, d, e, f
<1>6. Manifest \in Seq(Entries)
  <2>1. a \o b \in Seq(Entries)
    BY <1>5, ConcatProperties
  <2>2. a \o b \o c \in Seq(Entries)
    BY <1>5, <2>1, ConcatProperties
  <2>3. a \o b \o c \o d \in Seq(Entries)
    BY <1>5, <2>2, ConcatProperties
  <2>4. a \o b \o c \o d \o e \in Seq(Entries)
    BY <1>3, <2>3, ConcatProperties
  <2> QED BY <1>1, <1>4, <2>4, ConcatProperties
<1> QED BY <1>6, ToSetIs

(* The section a catalog lists is the one of that key.                      *)
LEMMA ListedSection ==
  ASSUME world \in World, NEW s \in ToSet(world.sections)
  PROVE  (CHOOSE t \in ToSet(world.server) : t.key = s.key) = s
<1>1. s \in ToSet(world.server)
  BY WorldParts DEF ListsAreOfTheServer
<1>2. \A t \in ToSet(world.server) : t.key = s.key => t = s
  BY <1>1, WorldParts DEF KeysAreUnique, ToSet
<1> QED BY <1>1, <1>2

(* Every entry of the manifest is answered, with a row of its type.         *)
LEMMA CatalogPageIs ==
  ASSUME world \in World, NEW entry \in Entries, NEW skip \in Nat,
         NEW page, page = CatalogPage(entry, skip)
  PROVE  page.found /\ Row(page.metas, entry.type)
<1> USE DEF Answer, SectionEntry, CollectionEntry
<1>1. CASE entry \in Hubs
  <2>1. PICK name \in {"ondeck", "recent"}, type \in {"movie", "series"} :
          entry = [id |-> <<name>>, type |-> type]
    BY <1>1 DEF Hubs
  <2> QED BY <2>1, OnDeckIs, RecentlyAddedIs DEF CatalogPage
<1>2. ASSUME NEW s \in ToSet(world.sections),
             entry = SectionEntry(s)
      PROVE  page.found /\ Row(page.metas, entry.type)
  <2> DEFINE all == SectionItems(s)
             top == Page(all, skip)
  <2>1. page = Answer(Previews(top))
    BY <1>2, ListedSection DEF CatalogPage
  <2>2. Listed(all, {i \in Items : i.section = s.key /\ i.type = s.type})
    BY SectionItemsIs
  <2>3. s.type \in DOMAIN StremioType
    <3>1. s \in AnySection
      BY WorldParts, ToSetIs
    <3> QED BY <3>1, StremioTypeIs DEF AnySection
  <2>4. all \in Seq(AnyItem) /\ Injective(all) /\ ToSet(all) \subseteq Titled(entry.type)
    BY <1>2, <2>2, <2>3 DEF Listed, Titled
  <2> HIDE DEF all
  <2>5. top \in Seq(AnyItem) /\ Injective(top) /\ ToSet(top) \subseteq Titled(entry.type)
    BY <2>4, PageIs
  <2> HIDE DEF top
  <2> QED BY <2>1, <2>5, PreviewsAre
<1>3. ASSUME NEW c \in ToSet(world.collections), world.includeCollections,
             entry = CollectionEntry(c)
      PROVE  page.found /\ Row(page.metas, entry.type)
  <2> DEFINE all == world.collections
             P == {n \in DOMAIN all :
                    /\ entry.id = <<"collection", all[n].section, all[n].key>>
                    /\ StremioType[all[n].type] = entry.type}
             found == Chosen(all, P)
  <2>1. found = ConfiguredCollection(entry.id, entry.type)
    BY <1>3 DEF ConfiguredCollection, Select
  <2>2. all \in Seq(AnyCollection)
    BY WorldParts
  <2>3. P # {}
    BY <1>3 DEF ToSet
  <2>4. found # <<>> /\ found \in Seq(AnyCollection) /\ ToSet(found) = {all[n] : n \in P}
    <3> HIDE DEF P
    <3>1. P \in SUBSET DOMAIN all
      BY DEF P
    <3> QED BY <2>2, <2>3, <3>1, ChosenSet
  <2> HIDE DEF found
  <2>5. PICK d : d = found[1]
    OBVIOUS
  <2>6. d \in ToSet(found)
    BY <2>4, <2>5, InDomain DEF ToSet
  <2>7. d \in ToSet(all) /\ StremioType[d.type] = entry.type
    <3>1. PICK n \in P : d = all[n]
      <4> HIDE DEF P
      <4> QED BY <2>4, <2>6
    <3> QED BY <3>1 DEF ToSet
  <2>8. d.type \in DOMAIN StremioType
    <3>1. d \in AnyCollection
      BY <2>2, <2>7, ToSetIs
    <3> QED BY <3>1, StremioTypeIs DEF AnyCollection
  <2>9. PICK T \in SUBSET {i \in Items : i.type = d.type} : Listed(CollectionItems(d, skip), T)
    BY <2>7, CollectionItemsIs
  <2>10. T \subseteq Titled(entry.type)
    BY <2>7, <2>8, <2>9 DEF Titled
  <2>11. page = Answer(Previews(CollectionItems(d, skip)))
    BY <1>3, <2>1, <2>4, <2>5 DEF CatalogPage
  <2> QED BY <2>9, <2>10, <2>11, PreviewsAre DEF Listed
<1> HIDE DEF SectionEntry, CollectionEntry
<1> QED BY <1>1, <1>2, <1>3 DEF Entries

-----------------------------------------------------------------------------
(* The inductive invariant.  A view is the answer to a request that the     *)
(* client could make: for an entry of the manifest, for a title that was    *)
(* listed or linked to, or for an item that it means to watch.              *)
Seen == {i.key : i \in Items} \cup {"none"}

CatalogView ==
  view.at = "catalog" =>
    /\ view.entry \in Entries /\ view.skip \in Nat
    /\ view = Listing(view.entry, view.skip)

TitleView ==
  view.at = "title" =>
    /\ view.meta = Meta(view.type, view.id)
    /\ \/ \E item \in Titled(view.type) :
            view.of = item.key /\ view.id \in {<<"rk", item.key>>, <<"guid", item.guid>>}
       \/ /\ view.of = "none"
          /\ \E g \in STRING \X STRING :
               ByGuid(g) = <<>> /\ view.id \in {<<"raw", g>>, <<"guid", g>>}

(* What a client asks streams of: an item, under one of its ids.            *)
AsksMovie(type, id, item) ==
  /\ type = "movie" /\ item.type = "movie"
  /\ id \in {<<"tt", item.title>>, <<"rk", item.key>>, <<"guid", item.guid>>}

AsksVideo(type, id, item) ==
  type = "series" /\ item.type = "episode" /\ id = <<"rk", item.key>>

AsksImdb(type, id, item) ==
  /\ type = "series" /\ item.type = "episode" /\ item.number # Unnumbered
  /\ id = <<"tt", item.showGuid[2], item.season, item.number>>

AsksNumber(type, id, item) ==
  /\ type = "series" /\ item.type = "episode" /\ item.number # Unnumbered
  /\ id = <<"rk", item.show, item.season, item.number>>
  /\ \E show \in Items : show.key = item.show

Asks(type, id, item) ==
  \/ AsksMovie(type, id, item) \/ AsksVideo(type, id, item)
  \/ AsksImdb(type, id, item) \/ AsksNumber(type, id, item)

StreamsView ==
  view.at = "streams" =>
    /\ \E item \in Items : view.of = item.key /\ Asks(view.type, view.id, item)
    /\ view.media = StreamMedia(view.type, view.id)
    /\ view.streams = StreamResponse(view.media)

(* The pages of a section have listed it from its beginning.                *)
SeenInOrder ==
  \A s \in ToSet(world.sections) :
    view.at = "catalog" /\ view.entry = SectionEntry(s) =>
      LET all == SectionItems(s)
      IN /\ Len(seen) = IF view.skip + PageSize < Len(all) THEN view.skip + PageSize ELSE Len(all)
         /\ \A n \in 1 .. Len(seen) : seen[n] = all[n].key

IInv ==
  /\ world \in World
  /\ view.at \in {"home", "catalog", "title", "streams"}
  /\ seen \in Seq(Seen)
  /\ CatalogView /\ TitleView /\ StreamsView /\ SeenInOrder

(* Answers only change with the installation.                               *)
LEMMA SameLists ==
  ASSUME world' = world
  PROVE  /\ Items' = Items /\ Seen' = Seen /\ Entries' = Entries
         /\ \A type : Titled(type)' = Titled(type)
         /\ \A section : SectionItems(section)' = SectionItems(section)
         /\ \A guid : ByGuid(guid)' = ByGuid(guid)
<1>1. Items' = Items
  BY DEF Items
<1>2. Seen' = Seen
  BY DEF Seen, Items
<1>3. Entries' = Entries
  BY DEF Entries
<1>4. ASSUME NEW type PROVE Titled(type)' = Titled(type)
  BY DEF Titled, Items
<1>5. ASSUME NEW section PROVE SectionItems(section)' = SectionItems(section)
  BY DEF SectionItems, Where, Select
<1>6. ASSUME NEW guid PROVE ByGuid(guid)' = ByGuid(guid)
  BY DEF ByGuid, Where, Select
<1> QED BY <1>1, <1>2, <1>3, <1>4, <1>5, <1>6

LEMMA SameListing ==
  ASSUME world' = world, NEW entry, NEW skip
  PROVE  Listing(entry, skip)' = Listing(entry, skip)
<1> QED BY DEF Listing, CatalogPage, OnDeck, RecentlyAdded, ConfiguredCollection, SectionItems,
               CollectionItems, SectionsOfType, Series, ByGuid, Where, Select

LEMMA SameMeta ==
  ASSUME world' = world, NEW type, NEW id
  PROVE  Meta(type, id)' = Meta(type, id)
<1> QED BY DEF Meta, ByRatingKey, Episodes, ByGuid, Where, Select

LEMMA SameMedia ==
  ASSUME world' = world, NEW type, NEW id
  PROVE  StreamMedia(type, id)' = StreamMedia(type, id)
<1> QED BY DEF StreamMedia, KeyMedia, ByRatingKey, Numbered, Episodes, PlexGuids, CloudGuids,
               LibraryGuids, EpisodeGuids, ByGuid, Where, Select

LEMMA SameStreams ==
  ASSUME world' = world, NEW media
  PROVE  StreamResponse(media)' = StreamResponse(media)
<1> QED BY DEF StreamResponse, StreamsOf, DirectStreams, DirectPlayConnections,
               TranscodeStreams, ExternalStream, Select

LEMMA TitlesAre ==
  ASSUME world \in World, NEW type, NEW metas, Row(metas, type), NEW t, t = Titles(metas)
  PROVE  t \in Seq(Seen) /\ Len(t) = Len(metas) /\ \A n \in 1 .. Len(metas) : t[n] = metas[n].of
<1>1. \A n \in DOMAIN metas : metas[n] \in Shown(type)
  BY InDomain DEF Row
<1>2. \A m \in Shown(type) : m.of \in Seen
  <2>1. \A item \in Titled(type) : Preview(item).of \in Seen
    BY PreviewIs DEF Seen
  <2>2. \A g : StandIn(g).of \in Seen
    BY StandInIs DEF Seen
  <2> QED BY <2>1, <2>2 DEF Shown
<1>3. t = [n \in DOMAIN metas |-> metas[n].of]
  BY DEF Titles
<1>4. t \in [DOMAIN metas -> Seen]
  BY <1>1, <1>2, <1>3
<1>5. t \in Seq(Seen) /\ Len(t) = Len(metas) /\ DOMAIN metas = 1 .. Len(metas)
  BY <1>4, MapIs, InDomain DEF Row
<1> QED BY <1>3, <1>5

(* A page of a section, as the client sees it.                              *)
LEMMA SectionListing ==
  ASSUME world \in World, NEW s \in ToSet(world.sections), NEW skip \in Nat,
         NEW v, v = Listing(SectionEntry(s), skip), NEW all, all = SectionItems(s)
  PROVE  /\ all \in Seq(AnyItem) /\ Len(all) \in Nat
         /\ Len(v.metas) = IF skip + PageSize < Len(all) THEN PageSize
                           ELSE IF skip < Len(all) THEN Len(all) - skip ELSE 0
         /\ \A n \in 1 .. Len(v.metas) : v.metas[n].of = all[skip + n].key
<1> DEFINE top == Page(all, skip)
<1>1. CatalogPage(SectionEntry(s), skip) = Answer(Previews(top))
  BY ListedSection DEF CatalogPage, SectionEntry
<1>2. v.metas = Previews(top)
  BY <1>1 DEF Listing, Answer
<1>3. all \in Seq(AnyItem)
  BY SectionItemsIs DEF Listed
<1>4. top \in Seq(AnyItem) /\ Len(all) \in Nat /\ DOMAIN top = 1 .. Len(top)
  BY <1>3, PageIs
<1>5. /\ Len(top) = IF skip + PageSize < Len(all) THEN PageSize
                    ELSE IF skip < Len(all) THEN Len(all) - skip ELSE 0
      /\ \A k \in DOMAIN top : top[k] = all[skip + k]
      /\ Len(top) \in Nat
  <2>1. Len(top) = IF skip + PageSize < Len(all) THEN PageSize
                   ELSE IF skip < Len(all) THEN Len(all) - skip ELSE 0
    BY <1>3, PageIs
  <2>2. \A k \in DOMAIN top : top[k] = all[skip + k]
    BY <1>3, PageIs
  <2>3. Len(top) \in Nat
    BY <1>4, LenProperties
  <2> QED BY <2>1, <2>2, <2>3
<1> HIDE DEF top
<1>6. v.metas = [n \in 1 .. Len(top) |-> Preview(top[n])]
  BY <1>2, <1>4 DEF Previews
<1>7. Len(v.metas) = Len(top)
  BY <1>5, <1>6
<1>8. \A n \in 1 .. Len(top) : v.metas[n].of = top[n].key
  BY <1>6 DEF Preview
<1> QED BY <1>3, <1>4, <1>5, <1>7, <1>8

(* Metadata: that of a title, and nothing for a series without one.         *)
LEMMA NoMeta ==
  ASSUME NEW type, NEW g, ByGuid(g) = <<>>, NEW id \in {<<"raw", g>>, <<"guid", g>>}
  PROVE  ~Meta(type, id).found
<1>1. FirstOf(ByGuid(g)) = <<>>
  BY FirstOfIs, EmptySeq
<1> QED BY <1>1 DEF Meta, NotFound

VideosAreEpisodes(meta) ==
  /\ \A i \in DOMAIN meta.videos : \E e \in Items :
       /\ e.type = "episode"
       /\ meta.videos[i].of = e.key /\ meta.videos[i].id = <<"rk", e.key>>
  /\ \A e \in Items : e.type = "episode" /\ e.show = meta.item.key =>
       \E i \in DOMAIN meta.videos : meta.videos[i].of = e.key

IsMetaOf(meta, item, id) ==
  /\ meta.found
  /\ meta.item \in Items /\ meta.item.guid = item.guid
  /\ id[1] = "rk" => meta.item = item

LEMMA MetaIs ==
  ASSUME world \in World, NEW type, NEW item \in Titled(type),
         NEW id \in {<<"rk", item.key>>, <<"guid", item.guid>>},
         NEW meta, meta = Meta(type, id)
  PROVE  /\ IsMetaOf(meta, item, id)
         /\ type = "series" => VideosAreEpisodes(meta)
<1> DEFINE media == IF id[1] = "rk" THEN ByRatingKey(id[2]) ELSE FirstOf(ByGuid(id[2]))
           first == media[1]
           leaves == Episodes(first.key)
           videos == [i \in DOMAIN leaves |-> [id |-> VideoId(leaves[i]), of |-> leaves[i].key]]
<1>1. item \in Items /\ item.type \in Listable /\ item.type \in DOMAIN StremioType
  BY StremioTypeIs DEF Titled, Listable
<1>2. id[1] \in {"rk", "guid"} /\ (id[1] = "rk" => id[2] = item.key)
        /\ (id[1] = "guid" => id[2] = item.guid)
  OBVIOUS
<1>3. /\ media # <<>> /\ first \in Items /\ first.guid = item.guid
      /\ first.type \in DOMAIN StremioType
      /\ id[1] = "rk" => first = item
  <2>1. CASE id[1] = "rk"
    <3>1. Listed(ByRatingKey(item.key), {i \in Items : i.key = item.key /\ i.type \in Listable})
      BY ByRatingKeyIs
    <3>2. media = ByRatingKey(item.key)
      BY <1>2, <2>1
    <3> HIDE DEF media
    <3>3. media # <<>> /\ first \in Items /\ first.key = item.key
      BY <1>1, <3>1, <3>2, ListedIs
    <3>4. first = item
      BY <1>1, <3>3, SameKey
    <3> QED BY <1>1, <3>3, <3>4
  <2>2. CASE id[1] = "guid"
    <3> DEFINE all == ByGuid(item.guid)
    <3>1. Listed(all, {i \in Items : i.guid = item.guid /\ i.type \in Listable})
      BY ByGuidIs
    <3>2. media = FirstOf(all)
      BY <1>2, <2>2
    <3> HIDE DEF media, all
    <3>3. all # <<>> /\ all[1] \in Items /\ all[1].guid = item.guid
      BY <1>1, <3>1, ListedIs
    <3>4. media # <<>> /\ first = all[1]
      BY <3>1, <3>2, <3>3, FirstOfIs DEF Listed
    <3>5. first.type = item.type
      BY <1>1, <3>3, <3>4, WorldParts DEF GuidsNameTitles, Items
    <3> QED BY <1>1, <2>2, <3>3, <3>4, <3>5
  <2> QED BY <1>2, <2>1, <2>2
<1>4. /\ meta.found /\ meta.item = first
      /\ meta.videos = IF type = "series" THEN videos ELSE <<>>
  BY <1>2, <1>3 DEF Meta
<1> HIDE DEF media, first
<1>5. ASSUME type = "series"
      PROVE  VideosAreEpisodes(meta)
  <2>1. /\ \A i \in DOMAIN leaves : \E e \in Items : e.type = "episode" /\ leaves[i].key = e.key
        /\ \A e \in Items : e.type = "episode" /\ e.show = first.key =>
             \E i \in DOMAIN leaves : leaves[i].key = e.key
    BY EpisodesIs DEF HasEpisode
  <2> HIDE DEF leaves
  <2>2. /\ DOMAIN meta.videos = DOMAIN leaves
        /\ \A i \in DOMAIN leaves : /\ meta.videos[i].of = leaves[i].key
                                    /\ meta.videos[i].id = <<"rk", leaves[i].key>>
    BY <1>4, <1>5 DEF VideoId
  <2>3. meta.item = first
    BY <1>4
  <2> HIDE DEF videos
  <2> QED BY <2>1, <2>2, <2>3 DEF VideosAreEpisodes
<1>6. IsMetaOf(meta, item, id)
  BY <1>3, <1>4 DEF IsMetaOf
<1> QED BY <1>5, <1>6
-----------------------------------------------------------------------------
LEMMA ListingIs ==
  ASSUME world \in World, NEW entry \in Entries, NEW skip \in Nat,
         NEW v, v = Listing(entry, skip)
  PROVE  /\ v.at = "catalog" /\ v.entry = entry /\ v.skip = skip
         /\ v.found /\ Row(v.metas, entry.type)
<1> DEFINE page == CatalogPage(entry, skip)
<1>1. page.found /\ Row(page.metas, entry.type)
  BY CatalogPageIs
<1>2. /\ v.at = "catalog" /\ v.entry = entry /\ v.skip = skip
      /\ v.found = page.found /\ v.metas = page.metas
  BY DEF Listing
<1> QED BY <1>1, <1>2

LEMMA InitIInv == Init => IInv
<1> SUFFICES ASSUME Init PROVE IInv
  OBVIOUS
<1>1. world \in World /\ view.at = "home" /\ seen = <<>>
  BY DEF Init, Home
<1>2. seen \in Seq(Seen)
  BY <1>1, EmptySeq
<1> QED BY <1>1, <1>2 DEF IInv, CatalogView, TitleView, StreamsView, SeenInOrder

(* A new page keeps the invariant if the pages seen are in order.           *)
LEMMA ShowsPage ==
  ASSUME IInv, world' = world, NEW entry \in Entries, NEW skip \in Nat,
         view' = Listing(entry, skip), seen' \in Seq(Seen),
         \A s \in ToSet(world.sections) : entry = SectionEntry(s) =>
           LET all == SectionItems(s)
           IN /\ Len(seen') = IF skip + PageSize < Len(all) THEN skip + PageSize ELSE Len(all)
              /\ \A n \in 1 .. Len(seen') : seen'[n] = all[n].key
  PROVE  IInv'
<1>1. world \in World
  BY DEF IInv
<1>2. view'.at = "catalog" /\ view'.entry = entry /\ view'.skip = skip
  BY <1>1, ListingIs
<1>3. CatalogView'
  <2>1. Listing(entry, skip)' = Listing(entry, skip)
    BY SameListing
  <2>2. Entries' = Entries
    BY SameLists
  <2> QED BY <1>2, <2>1, <2>2 DEF CatalogView
<1>4. SeenInOrder'
  <2> SUFFICES ASSUME NEW s \in ToSet(world.sections), entry = SectionEntry(s)
               PROVE  LET all == SectionItems(s)'
                      IN /\ Len(seen') = IF skip + PageSize < Len(all) THEN skip + PageSize
                                                                       ELSE Len(all)
                         /\ \A n \in 1 .. Len(seen') : seen'[n] = all[n].key
    BY <1>2 DEF SeenInOrder, SectionEntry
  <2>1. SectionItems(s)' = SectionItems(s)
    BY SameLists
  <2> QED BY <2>1
<1>5. seen' \in Seq(Seen')
  BY SameLists
<1> QED BY <1>1, <1>2, <1>3, <1>4, <1>5 DEF IInv, TitleView, StreamsView

LEMMA OpenCatalogStep ==
  ASSUME IInv, OpenCatalog
  PROVE  IInv'
<1>1. world \in World /\ world' = world
  BY DEF IInv, OpenCatalog
<1>2. PICK entry \in ToSet(Manifest) : view' = Listing(entry, 0) /\ seen' = Titles(view'.metas)
  BY DEF OpenCatalog
<1>3. entry \in Entries
  BY <1>1, <1>2, ManifestIs
<1> DEFINE v == Listing(entry, 0)
<1>4. Row(v.metas, entry.type)
  BY <1>1, <1>3, ListingIs
<1>5. seen' = Titles(v.metas)
  BY <1>2
<1> HIDE DEF v
<1>6. /\ seen' \in Seq(Seen) /\ Len(seen') = Len(v.metas)
      /\ \A n \in 1 .. Len(seen') : seen'[n] = v.metas[n].of
  BY <1>1, <1>4, <1>5, TitlesAre
<1>7. ASSUME NEW s \in ToSet(world.sections), entry = SectionEntry(s), NEW all, all = SectionItems(s)
      PROVE  /\ Len(seen') = IF 0 + PageSize < Len(all) THEN 0 + PageSize ELSE Len(all)
             /\ \A n \in 1 .. Len(seen') : seen'[n] = all[n].key
  <2>1. /\ Len(all) \in Nat
        /\ Len(v.metas) = IF 0 + PageSize < Len(all) THEN PageSize
                          ELSE IF 0 < Len(all) THEN Len(all) - 0 ELSE 0
    BY <1>1, <1>7, SectionListing DEF v
  <2>2. Len(v.metas) = IF 0 + PageSize < Len(all) THEN 0 + PageSize ELSE Len(all)
    BY <2>1, PageAssumption
  <2>3. PICK skip \in Nat : skip = 0
    OBVIOUS
  <2>4. \A n \in 1 .. Len(v.metas) : v.metas[n].of = all[skip + n].key
    BY <1>1, <1>7, <2>3, SectionListing DEF v
  <2>5. \A n \in 1 .. Len(v.metas) : skip + n = n
    BY <2>3
  <2> QED BY <1>6, <2>2, <2>4, <2>5
<1> QED BY <1>1, <1>2, <1>3, <1>6, <1>7, ShowsPage

LEMMA NextPageStep ==
  ASSUME IInv, NextPage
  PROVE  IInv'
<1> DEFINE entry == view.entry
           skip == view.skip + PageSize
           v == Listing(entry, skip)
           t == Titles(v.metas)
<1>1. world \in World /\ world' = world /\ view.at = "catalog" /\ seen \in Seq(Seen)
  BY DEF IInv, NextPage
<1>2. view' = v /\ seen' = seen \o t /\ Len(view.metas) = PageSize
  BY DEF NextPage
<1>3. entry \in Entries /\ view.skip \in Nat /\ view = Listing(entry, view.skip)
  BY <1>1 DEF IInv, CatalogView
<1>4. skip \in Nat
  BY <1>3, PageAssumption
<1> HIDE DEF v
<1>5. Row(v.metas, entry.type)
  BY <1>1, <1>3, <1>4, ListingIs DEF v
<1>6. t \in Seq(Seen) /\ Len(t) = Len(v.metas) /\ \A n \in 1 .. Len(v.metas) : t[n] = v.metas[n].of
  BY <1>1, <1>5, TitlesAre
<1> HIDE DEF t
<1>7. /\ seen' \in Seq(Seen) /\ Len(seen) \in Nat /\ Len(t) \in Nat
      /\ Len(seen') = Len(seen) + Len(t)
      /\ \A k \in 1 .. Len(seen) : seen'[k] = seen[k]
      /\ \A k \in 1 .. Len(t) : seen'[Len(seen) + k] = t[k]
      /\ \A k \in 1 .. Len(seen') : k \in 1 .. Len(seen) \/ k - Len(seen) \in 1 .. Len(t)
  <2>1. PICK w : w = seen \o t
    OBVIOUS
  <2>a. seen \in Seq(Seen) /\ t \in Seq(Seen)
    BY <1>1, <1>6
  <2>2. /\ w \in Seq(Seen) /\ Len(seen) \in Nat /\ Len(t) \in Nat
        /\ Len(w) = Len(seen) + Len(t)
        /\ \A k \in 1 .. Len(seen) : k \in 1 .. Len(w) /\ w[k] = seen[k]
        /\ \A k \in 1 .. Len(t) : Len(seen) + k \in 1 .. Len(w) /\ w[Len(seen) + k] = t[k]
        /\ \A k \in 1 .. Len(w) : k \in 1 .. Len(seen) \/ k - Len(seen) \in 1 .. Len(t)
    BY ONLY <2>1, <2>a, ConcatIs
  <2>3. seen' = w
    BY <1>2, <2>1
  <2> QED BY <2>2, <2>3
<1>8. ASSUME NEW s \in ToSet(world.sections), entry = SectionEntry(s), NEW all, all = SectionItems(s)
      PROVE  /\ Len(seen') = IF skip + PageSize < Len(all) THEN skip + PageSize ELSE Len(all)
             /\ \A n \in 1 .. Len(seen') : seen'[n] = all[n].key
  <2>1. /\ Len(all) \in Nat
        /\ Len(v.metas) = IF skip + PageSize < Len(all) THEN PageSize
                          ELSE IF skip < Len(all) THEN Len(all) - skip ELSE 0
    BY <1>1, <1>4, <1>8, SectionListing DEF v
  <2>2. \A n \in 1 .. Len(v.metas) : v.metas[n].of = all[skip + n].key
    BY <1>1, <1>4, <1>8, SectionListing DEF v
  <2>3. Len(view.metas) = IF view.skip + PageSize < Len(all) THEN PageSize
                          ELSE IF view.skip < Len(all) THEN Len(all) - view.skip ELSE 0
    <3>1. view = Listing(SectionEntry(s), view.skip)
      BY <1>3, <1>8
    <3>2. view.skip \in Nat
      BY <1>3
    <3> QED BY <1>1, <1>8, <3>1, <3>2, SectionListing
  <2>4. /\ Len(seen) = IF view.skip + PageSize < Len(all) THEN view.skip + PageSize
                                                          ELSE Len(all)
        /\ \A n \in 1 .. Len(seen) : seen[n] = all[n].key
    BY <1>1, <1>8 DEF IInv, SeenInOrder
  <2>5. Len(seen) = skip /\ skip <= Len(all)
    <3>1. Len(view.metas) = PageSize /\ view.skip \in Nat /\ Len(all) \in Nat
      BY <1>2, <1>3, <2>1
    <3> QED BY ONLY <2>3, <2>4, <3>1, PageAssumption
  <2>6. Len(seen') = IF skip + PageSize < Len(all) THEN skip + PageSize ELSE Len(all)
    BY <1>4, <1>6, <1>7, <2>1, <2>5, PageAssumption
  <2>7. ASSUME NEW n \in 1 .. Len(seen') PROVE seen'[n] = all[n].key
    <3>1. CASE n \in 1 .. Len(seen)
      BY <1>7, <2>4, <3>1
    <3>2. CASE n - Len(seen) \in 1 .. Len(t)
      <4>1. PICK k \in 1 .. Len(t) : n = Len(seen) + k
        <5>1. n \in Int /\ Len(seen) \in Int
          BY <1>7
        <5> QED BY ONLY <3>2, <5>1
      <4>2. seen'[n] = t[k] /\ t[k] = v.metas[k].of /\ v.metas[k].of = all[skip + k].key
        BY <1>6, <1>7, <2>2, <4>1
      <4> QED BY <2>5, <4>1, <4>2
    <3> QED BY <1>7, <3>1, <3>2
  <2> QED BY <2>6, <2>7
<1>9. view' = Listing(entry, skip)
  BY <1>2 DEF v
<1> HIDE DEF entry, skip
<1> QED BY <1>1, <1>3, <1>4, <1>7, <1>8, <1>9, ShowsPage

(* A title that is opened is one, or a series that Plex cannot look up.     *)
LEMMA ShowsTitle ==
  ASSUME IInv, NEW type, NEW id, NEW of, OpenTitle(type, id, of),
         \/ \E item \in Titled(type) :
              of = item.key /\ id \in {<<"rk", item.key>>, <<"guid", item.guid>>}
         \/ of = "none" /\ \E g \in STRING \X STRING :
              ByGuid(g) = <<>> /\ id \in {<<"raw", g>>, <<"guid", g>>}
  PROVE  IInv'
<1>1. /\ world \in World /\ seen \in Seq(Seen) /\ world' = world /\ seen' = seen
      /\ view'.at = "title" /\ view'.type = type /\ view'.id = id /\ view'.of = of
      /\ view'.meta = Meta(type, id)
  BY DEF IInv, OpenTitle
<1>2. Meta(type, id)' = Meta(type, id) /\ seen' \in Seq(Seen')
  BY <1>1, SameMeta, SameLists
<1>3. /\ Titled(type)' = Titled(type)
      /\ \A g : ByGuid(g)' = ByGuid(g)
  BY <1>1, SameLists
<1>4. TitleView'
  <2>1. CASE \E item \in Titled(type) :
               of = item.key /\ id \in {<<"rk", item.key>>, <<"guid", item.guid>>}
    BY <1>1, <1>2, <1>3, <2>1 DEF TitleView
  <2>2. CASE of = "none" /\ \E g \in STRING \X STRING :
               ByGuid(g) = <<>> /\ id \in {<<"raw", g>>, <<"guid", g>>}
    BY <1>1, <1>2, <1>3, <2>2 DEF TitleView
  <2> QED BY <2>1, <2>2
<1> QED BY <1>1, <1>2, <1>4 DEF IInv, CatalogView, StreamsView, SeenInOrder

LEMMA OpenListedStep ==
  ASSUME IInv, OpenListed
  PROVE  IInv'
<1>1. world \in World /\ view.at = "catalog" /\ view.entry \in Entries /\ view.skip \in Nat
        /\ view = Listing(view.entry, view.skip)
  BY DEF IInv, CatalogView, OpenListed
<1>2. PICK i \in DOMAIN view.metas :
        /\ view.metas[i].id[1] # "tt"
        /\ OpenTitle(view.metas[i].type, view.metas[i].id, view.metas[i].of)
  BY DEF OpenListed
<1>3. Row(view.metas, view.entry.type)
  BY <1>1, ListingIs
<1> DEFINE m == view.metas[i]
<1>4. m \in Shown(view.entry.type)
  BY <1>3, InDomain DEF Row
<1>5. CASE \E item \in Titled(view.entry.type) : m = Preview(item)
  <2>1. PICK item \in Titled(view.entry.type) : m = Preview(item)
    BY <1>5
  <2>2. m.of = item.key /\ m.type = view.entry.type /\ m.id = <<"rk", item.key>>
    BY <1>1, <1>2, <2>1, PreviewIs
  <2>3. item \in Titled(m.type)
    BY <2>2
  <2> HIDE DEF m
  <2> QED BY <1>2, <2>2, <2>3, ShowsTitle DEF m
<1>6. CASE \E g \in STRING \X STRING : ByGuid(g) = <<>> /\ m = StandIn(g)
  <2>1. PICK g \in STRING \X STRING : ByGuid(g) = <<>> /\ m = StandIn(g)
    BY <1>6
  <2>2. m.of = "none" /\ m.id \in {<<"raw", g>>, <<"guid", g>>}
    BY <2>1, StandInIs
  <2> QED BY <1>2, <2>1, <2>2, ShowsTitle
<1> QED BY <1>4, <1>5, <1>6 DEF Shown

LEMMA OpenOldLinkStep ==
  ASSUME IInv, OpenOldLink
  PROVE  IInv'
<1>1. PICK item \in Items :
        /\ item.type \in DOMAIN StremioType
        /\ OpenTitle(StremioType[item.type], <<"guid", item.guid>>, item.key)
  BY DEF OpenOldLink, Items
<1>2. item \in Titled(StremioType[item.type])
  BY <1>1 DEF Titled
<1> QED BY <1>1, <1>2, ShowsTitle

(* Streams are asked for an item, under an id of its own.                   *)
LEMMA ShowsStreams ==
  ASSUME IInv, NEW type, NEW id, NEW item \in Items, Asks(type, id, item),
         OpenStreams(type, id, item.key)
  PROVE  IInv'
<1> DEFINE media == StreamMedia(type, id)
<1>1. /\ world \in World /\ seen \in Seq(Seen) /\ world' = world /\ seen' = seen
      /\ view'.at = "streams" /\ view'.type = type /\ view'.id = id /\ view'.of = item.key
      /\ view'.media = media /\ view'.streams = StreamResponse(media)
  BY DEF IInv, OpenStreams
<1>2. media' = media /\ seen' \in Seq(Seen') /\ Items' = Items
  BY <1>1, SameMedia, SameLists
<1> HIDE DEF media
<1>3. PICK m : m = media
  OBVIOUS
<1>4. StreamResponse(m)' = StreamResponse(m) /\ StreamMedia(type, id)' = m
  BY <1>1, <1>2, <1>3, SameStreams DEF media
<1>5. StreamsView'
  <2>1. Asks(type, id, item)' <=> Asks(type, id, item)
    BY <1>2 DEF Asks, AsksNumber, AsksMovie, AsksVideo, AsksImdb
  <2>2. /\ view'.type = type /\ view'.id = id /\ view'.of = item.key
        /\ view'.media = m /\ view'.streams = StreamResponse(m)
    BY <1>1, <1>3
  <2> QED BY <1>2, <1>4, <2>1, <2>2 DEF StreamsView
<1> QED BY <1>1, <1>2, <1>5 DEF IInv, CatalogView, TitleView, SeenInOrder

LEMMA StreamImdbStep ==
  ASSUME IInv, StreamImdb
  PROVE  IInv'
<1>1. PICK item \in Items :
       \/ /\ item.type = "movie"
          /\ OpenStreams("movie", <<"tt", item.title>>, item.key)
       \/ /\ item.type = "episode" /\ item.number # Unnumbered
          /\ OpenStreams("series", <<"tt", item.showGuid[2], item.season, item.number>>,
                          item.key)
  BY DEF StreamImdb, Items
<1>2. CASE item.type = "movie" /\ OpenStreams("movie", <<"tt", item.title>>, item.key)
  BY <1>2, ShowsStreams DEF Asks, AsksMovie
<1>3. CASE /\ item.type = "episode" /\ item.number # Unnumbered
           /\ OpenStreams("series", <<"tt", item.showGuid[2], item.season, item.number>>,
                          item.key)
  BY <1>3, ShowsStreams DEF Asks, AsksImdb
<1> QED BY <1>1, <1>2, <1>3

(* A title with metadata is one that Plex has.                              *)
LEMMA FoundTitle ==
  ASSUME IInv, view.at = "title", view.meta.found
  PROVE  \E item \in Titled(view.type) :
           view.of = item.key /\ view.id \in {<<"rk", item.key>>, <<"guid", item.guid>>}
<1>1. TitleView
  BY DEF IInv
<1>2. ASSUME NEW g \in STRING \X STRING, ByGuid(g) = <<>>,
             view.id \in {<<"raw", g>>, <<"guid", g>>}
      PROVE  FALSE
  <2>1. ~Meta(view.type, view.id).found
    BY <1>2, NoMeta
  <2> QED BY <1>1, <2>1 DEF TitleView
<1> QED BY <1>1, <1>2 DEF TitleView

LEMMA StreamTitleStep ==
  ASSUME IInv, StreamTitle
  PROVE  IInv'
<1>1. world \in World /\ view.at = "title" /\ view.meta.found /\ view.meta = Meta(view.type, view.id)
  BY DEF IInv, TitleView, StreamTitle
<1>2. PICK item \in Titled(view.type) :
        view.of = item.key /\ view.id \in {<<"rk", item.key>>, <<"guid", item.guid>>}
  BY <1>1, FoundTitle
<1>3. /\ item \in Items /\ item.type \in {"movie", "show"}
      /\ StremioType[item.type] = view.type
  BY <1>1, <1>2, PreviewIs
<1>4. CASE view.type = "movie"
  <2>1. OpenStreams("movie", view.id, item.key) /\ item.type = "movie"
    BY <1>2, <1>3, <1>4, StremioTypeIs DEF StreamTitle
  <2>2. Asks("movie", view.id, item)
    BY <1>2, <2>1 DEF Asks, AsksMovie
  <2> QED BY <1>3, <2>1, <2>2, ShowsStreams
<1>5. CASE view.type # "movie"
  <2>1. view.type = "series"
    BY <1>3, <1>5, StremioTypeIs
  <2>2. PICK i \in DOMAIN view.meta.videos :
          OpenStreams("series", view.meta.videos[i].id, view.meta.videos[i].of)
    BY <1>5 DEF StreamTitle
  <2>3. PICK e \in Items : e.type = "episode" /\ view.meta.videos[i].of = e.key
                             /\ view.meta.videos[i].id = <<"rk", e.key>>
    <3>1. PICK type, id, meta : type = view.type /\ id = view.id /\ meta = view.meta
      OBVIOUS
    <3>2. \A j \in DOMAIN meta.videos : \E e \in Items :
            /\ e.type = "episode"
            /\ meta.videos[j].of = e.key /\ meta.videos[j].id = <<"rk", e.key>>
      <4>1. id \in {<<"rk", item.key>>, <<"guid", item.guid>>} /\ meta = Meta(type, id)
              /\ item \in Titled(type)
        BY <1>1, <1>2, <3>1
      <4>2. type = "series" => VideosAreEpisodes(meta)
        BY <1>1, <4>1, MetaIs
      <4> QED BY <2>1, <3>1, <4>2 DEF VideosAreEpisodes
    <3> QED BY <2>2, <3>1, <3>2
  <2>4. Asks("series", <<"rk", e.key>>, e)
    BY <2>3 DEF Asks, AsksVideo
  <2> QED BY <2>2, <2>3, <2>4, ShowsStreams
<1> QED BY <1>4, <1>5

LEMMA StreamKeyEpisodeStep ==
  ASSUME IInv, StreamKeyEpisode
  PROVE  IInv'
<1>1. /\ world \in World /\ view.at = "title" /\ view.meta.found
      /\ view.type = "series" /\ view.id[1] = "rk"
  BY DEF IInv, StreamKeyEpisode
<1>2. PICK item \in Titled(view.type) :
        view.of = item.key /\ view.id \in {<<"rk", item.key>>, <<"guid", item.guid>>}
  BY <1>1, FoundTitle
<1>3. item \in Items /\ view.id[2] = item.key
  BY <1>1, <1>2 DEF Titled
<1> DEFINE P == {n \in DOMAIN world.items : world.items[n].show = view.of}
           c == Chosen(world.items, P)
<1>4. PICK e \in ToSet(c) :
       /\ e.type = "episode" /\ e.number # Unnumbered
       /\ OpenStreams("series", <<"rk", view.id[2], e.season, e.number>>, e.key)
  BY DEF StreamKeyEpisode, Where, Select
<1>5. e \in Items /\ e.show = view.of
  <2>1. Listed(c, {world.items[n] : n \in P})
    BY <1>1, ChosenItems
  <2> HIDE DEF c
  <2>2. PICK n \in P : e = world.items[n]
    <3> HIDE DEF P
    <3> QED BY <1>4, <2>1 DEF Listed
  <2> QED BY <2>2 DEF Items, ToSet
<1>6. Asks("series", <<"rk", view.id[2], e.season, e.number>>, e)
  BY <1>2, <1>3, <1>4, <1>5 DEF Asks, AsksNumber
<1> QED BY <1>4, <1>5, <1>6, ShowsStreams

LEMMA NextIInv == IInv /\ [Next]_vars => IInv'
<1> SUFFICES ASSUME IInv, [Next]_vars PROVE IInv'
  OBVIOUS
<1>1. CASE Back
  <2>1. /\ world \in World /\ world' = world /\ view'.at = "home" /\ seen' = <<>>
    BY <1>1 DEF IInv, Back, Home
  <2>2. seen' \in Seq(Seen')
    BY <2>1, EmptySeq
  <2> QED BY <2>1, <2>2 DEF IInv, CatalogView, TitleView, StreamsView, SeenInOrder
<1>2. CASE UNCHANGED vars
  <2>1. world' = world /\ view' = view /\ seen' = seen /\ world \in World
    BY <1>2 DEF vars, IInv
  <2>2. Items' = Items /\ Seen' = Seen /\ Entries' = Entries
    BY <2>1, SameLists
  <2>3. CatalogView'
    <3>1. PICK entry, skip : entry = view.entry /\ skip = view.skip
      OBVIOUS
    <3>2. Listing(entry, skip)' = Listing(entry, skip)
      BY <2>1, SameListing
    <3>3. view'.entry = entry /\ view'.skip = skip
      BY <2>1, <3>1
    <3> QED BY <2>1, <2>2, <3>1, <3>2, <3>3 DEF CatalogView, IInv
  <2>4. TitleView'
    <3>1. PICK type, id : type = view.type /\ id = view.id
      OBVIOUS
    <3>2. view'.type = type /\ view'.id = id
      BY <2>1, <3>1
    <3>3. Meta(type, id)' = Meta(type, id)
      BY <2>1, SameMeta
    <3>4. Titled(type)' = Titled(type) /\ \A g : ByGuid(g)' = ByGuid(g)
      BY <2>1, SameLists
    <3> QED BY <2>1, <3>1, <3>2, <3>3, <3>4 DEF TitleView, IInv
  <2>5. StreamsView'
    <3>1. PICK type, id, media : type = view.type /\ id = view.id /\ media = view.media
      OBVIOUS
    <3>2. view'.type = type /\ view'.id = id /\ view'.media = media
      BY <2>1, <3>1
    <3>3. StreamMedia(type, id)' = StreamMedia(type, id)
      BY <2>1, SameMedia
    <3>4. StreamResponse(media)' = StreamResponse(media)
      BY <2>1, SameStreams
    <3>5. \A item : Asks(type, id, item)' <=> Asks(type, id, item)
      BY <2>2 DEF Asks, AsksMovie, AsksVideo, AsksImdb, AsksNumber
    <3> QED BY <2>1, <2>2, <3>1, <3>2, <3>3, <3>4, <3>5 DEF StreamsView, IInv
  <2>6. SeenInOrder'
    <3>1. \A section : SectionItems(section)' = SectionItems(section)
      BY <2>1, SameLists
    <3> QED BY <2>1, <3>1 DEF SeenInOrder, IInv, SectionEntry
  <2> QED BY <2>1, <2>2, <2>3, <2>4, <2>5, <2>6 DEF IInv
<1> QED BY <1>1, <1>2, OpenCatalogStep, NextPageStep, OpenListedStep, OpenOldLinkStep,
           StreamImdbStep, StreamTitleStep, StreamKeyEpisodeStep DEF Next

(* Whatever a client asks, in whatever order, what it is shown is the       *)
(* answer to its last request, and the pages it has seen are in order.      *)
THEOREM Invariance == Spec => []IInv
<1> QED BY InitIInv, NextIInv, PTL DEF Spec
LEMMA CatalogRow ==
  ASSUME IInv, view.at = "catalog", NEW i \in DOMAIN view.metas
  PROVE  /\ view.found /\ Injective(view.metas)
         /\ \/ \E item \in Titled(view.entry.type) : view.metas[i] = Preview(item)
            \/ \E g : view.metas[i] = StandIn(g)
<1>1. world \in World /\ view.entry \in Entries /\ view.skip \in Nat
        /\ view = Listing(view.entry, view.skip)
  BY DEF IInv, CatalogView
<1>2. view.found /\ Row(view.metas, view.entry.type)
  BY <1>1, ListingIs
<1>3. view.metas[i] \in Shown(view.entry.type)
  BY <1>2, InDomain DEF Row
<1> QED BY <1>2, <1>3 DEF Row, Shown

LEMMA TypeHolds == IInv => TypeOK
<1> SUFFICES ASSUME IInv PROVE TypeOK
  OBVIOUS
<1>1. world \in World /\ view.at \in {"home", "catalog", "title", "streams"} /\ seen \in Seq(Seen)
  BY DEF IInv
<1>2. ASSUME view.at = "catalog", NEW i \in DOMAIN view.metas
      PROVE  /\ view.metas[i].id[1] \in {"tt", "rk", "guid", "raw"}
             /\ view.metas[i].type \in {"movie", "series"}
  BY <1>1, <1>2, CatalogRow, PreviewIs, StandInIs
<1>3. ToSet(seen) \subseteq {world.items[i].key : i \in DOMAIN world.items} \cup {"none"}
  <2>1. ToSet(seen) \subseteq Seen
    BY <1>1, ToSetIs
  <2> QED BY <2>1 DEF Seen, Items, ToSet
<1> QED BY <1>1, <1>2, <1>3 DEF TypeOK

LEMMA CatalogsHold == IInv => CatalogsAnswer
<1> SUFFICES ASSUME IInv, view.at = "catalog" PROVE CatalogsAnswer
  BY DEF CatalogsAnswer
<1>1. world \in World /\ view.entry \in Entries /\ view.skip \in Nat
        /\ view = Listing(view.entry, view.skip)
  BY DEF IInv, CatalogView
<1>2. view.found /\ Row(view.metas, view.entry.type)
  BY <1>1, ListingIs
<1>3. ASSUME NEW i \in DOMAIN view.metas, view.metas[i].of # "none"
      PROVE  StremioType[ItemOf(view.metas[i].of).type] = view.entry.type
  <2>1. PICK item \in Titled(view.entry.type) : view.metas[i] = Preview(item)
    BY <1>3, CatalogRow, StandInIs
  <2>2. item \in Items /\ view.metas[i].of = item.key /\ StremioType[item.type] = view.entry.type
    BY <1>1, <2>1, PreviewIs
  <2> QED BY <1>1, <2>2, ItemOfIs
<1>4. \A i, j \in DOMAIN view.metas : i # j => view.metas[i] # view.metas[j]
  BY <1>2 DEF Row, Injective
<1> QED BY <1>2, <1>3, <1>4 DEF CatalogsAnswer

LEMMA PagesHold == IInv => PagesAreComplete
<1> SUFFICES ASSUME IInv, view.at = "catalog", view.entry.id[1] = "section",
                    Len(view.metas) < PageSize,
                    NEW item \in Items, item.section = view.entry.id[2],
                    item.type \in DOMAIN StremioType
             PROVE  Cardinality({i \in DOMAIN seen : seen[i] = item.key}) = 1
  BY DEF PagesAreComplete, Items
<1>1. world \in World /\ view.entry \in Entries /\ view.skip \in Nat
        /\ view = Listing(view.entry, view.skip) /\ seen \in Seq(Seen)
  BY DEF IInv, CatalogView
<1>2. PICK s \in ToSet(world.sections) : view.entry = SectionEntry(s)
  BY <1>1 DEF Entries, Hubs, CollectionEntry
<1> DEFINE all == SectionItems(s)
<1>3. Listed(all, {i \in Items : i.section = s.key /\ i.type = s.type})
  BY <1>1, SectionItemsIs
<1>4. item.section = s.key /\ item.type = s.type
  <2>1. item.section = s.key /\ s \in ToSet(world.server)
    BY <1>1, <1>2, WorldParts DEF SectionEntry, ListsAreOfTheServer
  <2>2. item.type \in {"movie", "show"}
    BY StremioTypeIs
  <2> QED BY <1>1, <2>1, <2>2, WorldParts DEF OneTypeEach, Items
<1>5. /\ Len(seen) = IF view.skip + PageSize < Len(all) THEN view.skip + PageSize ELSE Len(all)
      /\ \A n \in 1 .. Len(seen) : seen[n] = all[n].key
  BY <1>2 DEF IInv, SeenInOrder
<1>6. /\ Len(view.metas) = IF view.skip + PageSize < Len(all) THEN PageSize
                           ELSE IF view.skip < Len(all) THEN Len(all) - view.skip ELSE 0
      /\ Len(all) \in Nat
  BY <1>1, <1>2, SectionListing
<1> HIDE DEF all
<1>7. Len(seen) = Len(all)
  BY <1>1, <1>5, <1>6, PageAssumption
<1>8. PICK n \in DOMAIN all : all[n] = item
  <2>1. item \in {i \in Items : i.section = s.key /\ i.type = s.type}
    BY <1>4
  <2>2. \A x \in {i \in Items : i.section = s.key /\ i.type = s.type} : \E n \in DOMAIN all : all[n] = x
    BY <1>3, ListedIs
  <2> QED BY <2>1, <2>2
<1>9. DOMAIN all = 1 .. Len(all) /\ DOMAIN seen = 1 .. Len(seen)
  BY <1>1, <1>3, ListedIs, InDomain
<1>10. {i \in DOMAIN seen : seen[i] = item.key} = {n}
  <2>1. seen[n] = item.key /\ n \in DOMAIN seen
    BY <1>5, <1>7, <1>8, <1>9
  <2>2. ASSUME NEW i \in DOMAIN seen, seen[i] = item.key PROVE i = n
    <3>1. i \in DOMAIN all /\ all[i].key = item.key
      BY <1>5, <1>7, <1>9, <2>2
    <3>2. all[i] \in Items
      BY <1>3, <3>1, ListedIs
    <3>3. all[i] = item
      BY <1>1, <3>1, <3>2, SameKey
    <3> QED BY <1>3, <1>8, <3>1, <3>3 DEF Listed, Injective
  <2> QED BY <2>1, <2>2
<1> QED BY <1>10, FS_Singleton

LEMMA TitlesHold == IInv => ListedTitlesOpen
<1> SUFFICES ASSUME IInv, view.at = "title", view.of # "none" PROVE ListedTitlesOpen
  BY DEF ListedTitlesOpen
<1>1. world \in World /\ view.meta = Meta(view.type, view.id)
  BY DEF IInv, TitleView
<1>2. PICK item \in Titled(view.type) :
        view.of = item.key /\ view.id \in {<<"rk", item.key>>, <<"guid", item.guid>>}
  BY DEF IInv, TitleView
<1>3. PICK type, id, meta : type = view.type /\ id = view.id /\ meta = view.meta
  OBVIOUS
<1>4. /\ meta.found /\ meta.item \in Items /\ meta.item.guid = item.guid
      /\ id[1] = "rk" => meta.item = item
      /\ type = "series" => VideosAreEpisodes(meta)
  <2>1. /\ item \in Titled(type) /\ meta = Meta(type, id)
        /\ id \in {<<"rk", item.key>>, <<"guid", item.guid>>}
    BY <1>1, <1>2, <1>3
  <2>2. IsMetaOf(meta, item, id)
    BY <1>1, <2>1, MetaIs
  <2>3. type = "series" => VideosAreEpisodes(meta)
    BY <1>1, <2>1, MetaIs
  <2> QED BY <2>2, <2>3 DEF IsMetaOf
<1>5. ItemOf(view.of) = item
  BY <1>1, <1>2, ItemOfIs DEF Titled
<1>6. \A e \in Items : type = "series" /\ e.type = "episode" /\ e.show = meta.item.key =>
        \E i \in DOMAIN meta.videos : meta.videos[i].of = e.key
  BY <1>4 DEF VideosAreEpisodes
<1> QED BY <1>2, <1>3, <1>4, <1>5, <1>6 DEF ListedTitlesOpen, Items
-----------------------------------------------------------------------------
(* The order of the versions.                                               *)
LEMMA PriorityIs ==
  ASSUME NEW media \in Seq(AnyVersion), NEW i \in DOMAIN media,
         NEW p, p = PlaybackPriority(media, i)
  PROVE  /\ p \in [1 .. 6 -> Int] /\ DOMAIN p = 1 .. 6
         /\ p[1] = (IF Heavy(media[i]) THEN 1 ELSE 0)
         /\ p[6] = i
<1> DEFINE v == media[i]
           height == -Height(v)
           bitrate == IF v.bitrate = 0 THEN Unbounded ELSE v.bitrate
<1>1. v \in AnyVersion /\ i \in Nat
  BY InDomain
<1>2. v.height \in Nat /\ v.bitrate \in Nat
  BY <1>1 DEF AnyVersion
<1>3. height \in Int
  BY <1>2 DEF Height
<1>4. bitrate \in Int
  BY <1>2 DEF Unbounded
<1>5. CodecRank(v.codec) \in Int /\ ContainerRank(v.container) \in Int
  BY DEF CodecRank, ContainerRank
<1>6. p = <<IF Heavy(v) THEN 1 ELSE 0, CodecRank(v.codec), ContainerRank(v.container),
            height, bitrate, i>>
  BY DEF PlaybackPriority
<1> HIDE DEF v, height, bitrate
<1>7. PICK a \in Int, b \in Int, c \in Int : /\ a = (IF Heavy(v) THEN 1 ELSE 0)
                                             /\ b = CodecRank(v.codec)
                                             /\ c = ContainerRank(v.container)
  BY <1>5
<1>8. p = <<a, b, c, height, bitrate, i>>
  BY <1>6, <1>7
<1> QED BY <1>1, <1>3, <1>4, <1>7, <1>8 DEF v

LEMMA PrecedesIs ==
  ASSUME NEW T, T = [1 .. 6 -> Int]
  PROVE  /\ \A s \in T : ~Precedes(s, s)
         /\ \A s, t, u \in T : Precedes(s, t) /\ Precedes(t, u) => Precedes(s, u)
         /\ \A s, t \in T : s # t => Precedes(s, t) \/ Precedes(t, s)
         /\ \A s, t \in T : s[1] < t[1] => Precedes(s, t)
<1> USE DEF Precedes
<1>1. \A s \in T : DOMAIN s = 1 .. 6 /\ \A k \in 1 .. 6 : s[k] \in Int
  OBVIOUS
<1>2. \A s \in T : ~Precedes(s, s)
  BY <1>1
<1>3. ASSUME NEW s \in T, NEW t \in T, NEW u \in T, Precedes(s, t), Precedes(t, u)
      PROVE  Precedes(s, u)
  <2>1. PICK k \in 1 .. 6 : s[k] < t[k] /\ \A j \in 1 .. k - 1 : s[j] = t[j]
    BY <1>1, <1>3
  <2>2. PICK l \in 1 .. 6 : t[l] < u[l] /\ \A j \in 1 .. l - 1 : t[j] = u[j]
    BY <1>1, <1>3
  <2>3. CASE k <= l
    <3>1. s[k] < u[k]
      BY <1>1, <2>1, <2>2, <2>3
    <3>2. \A j \in 1 .. k - 1 : s[j] = u[j]
      BY <2>1, <2>2, <2>3
    <3> QED BY <1>1, <3>1, <3>2
  <2>4. CASE l < k
    <3>1. s[l] < u[l]
      BY <2>1, <2>2, <2>4
    <3>2. \A j \in 1 .. l - 1 : s[j] = u[j]
      BY <2>1, <2>2, <2>4
    <3> QED BY <1>1, <3>1, <3>2
  <2> QED BY <2>3, <2>4
<1>4. ASSUME NEW s \in T, NEW t \in T, s # t
      PROVE  Precedes(s, t) \/ Precedes(t, s)
  <2> DEFINE D == {k \in 1 .. 6 : s[k] # t[k]}
  <2>1. D # {}
    BY <1>4
  <2>2. PICK m \in D : \A n \in D : m <= n
    <3>1. D \in SUBSET Nat
      OBVIOUS
    <3> HIDE DEF D
    <3> QED BY <2>1, <3>1, Least
  <2>3. \A j \in 1 .. m - 1 : s[j] = t[j]
    BY <2>2
  <2>4. s[m] < t[m] \/ t[m] < s[m]
    BY <1>1
  <2> QED BY <1>1, <2>3, <2>4
<1>5. \A s, t \in T : s[1] < t[1] => Precedes(s, t)
  BY <1>1
<1> HIDE DEF Precedes
<1> QED BY <1>2, <1>3, <1>4, <1>5

LEMMA OrderedIs ==
  ASSUME NEW media \in Seq(AnyVersion), NEW order, order = Ordered(media)
  PROVE  /\ Len(media) \in Nat /\ DOMAIN media = 1 .. Len(media)
         /\ order \in [1 .. Len(media) -> DOMAIN media]
         /\ \A i \in DOMAIN media : \E k \in 1 .. Len(media) : order[k] = i
         /\ \A k, l \in 1 .. Len(media) : k # l => order[k] # order[l]
         /\ \A k, l \in 1 .. Len(media) :
              Heavy(media[order[k]]) /\ ~Heavy(media[order[l]]) => l < k
<1> DEFINE D == DOMAIN media
           P(i) == PlaybackPriority(media, i)
           B == [i \in D |-> {j \in D : Precedes(P(j), P(i))}]
           N == Cardinality(D)
<1>1. \A i \in D : /\ P(i) \in [1 .. 6 -> Int] /\ P(i)[6] = i
                   /\ P(i)[1] = (IF Heavy(media[i]) THEN 1 ELSE 0)
  BY PriorityIs
<1>2. \A i, j \in D : i # j => P(i) # P(j)
  BY <1>1
<1>3. Len(media) \in Nat /\ D = 1 .. Len(media) /\ IsFiniteSet(D) /\ N = Len(media)
  BY InDomain, FS_Interval
<1>4. order = Arranged(B)
  BY DEF Ordered
<1> HIDE DEF P
<1>5. B \in [D -> SUBSET D]
  OBVIOUS
<1>6. \A x \in D : x \notin B[x]
  BY <1>1, PrecedesIs
<1>7. \A x, y \in D : x \in B[y] => B[x] \subseteq B[y]
  <2> SUFFICES ASSUME NEW x \in D, NEW y \in D, NEW z \in D,
                      Precedes(P(x), P(y)), Precedes(P(z), P(x))
               PROVE  Precedes(P(z), P(y))
    OBVIOUS
  <2> QED BY <1>1, PrecedesIs
<1>8. \A x, y \in D : x # y => x \in B[y] \/ y \in B[x]
  BY <1>1, <1>2, PrecedesIs
<1> HIDE DEF B
<1>9. /\ order \in [1 .. N -> D]
      /\ \A x \in D : \E k \in 1 .. N : order[k] = x
      /\ \A k, l \in 1 .. N : /\ k < l <=> order[k] \in B[order[l]]
                              /\ k # l => order[k] # order[l]
  <2> DEFINE b == Arranged(B)
             M == Cardinality(D)
  <2>1. b \in [1 .. M -> D] /\ \A x \in D : \E k \in 1 .. M : b[k] = x
    BY <1>3, <1>5, <1>6, <1>7, <1>8, ArrangedIs
  <2>2. \A k, l \in 1 .. M : (k < l <=> b[k] \in B[b[l]]) /\ (k # l => b[k] # b[l])
    BY <1>3, <1>5, <1>6, <1>7, <1>8, ArrangedIs
  <2>3. order = b /\ N = M
    BY <1>4
  <2> HIDE DEF b, M, D
  <2> QED BY <2>1, <2>2, <2>3
<1> HIDE DEF D, N
<1>10. ASSUME NEW k \in 1 .. N, NEW l \in 1 .. N,
              Heavy(media[order[k]]), ~Heavy(media[order[l]])
       PROVE  l < k
  <2>1. PICK x \in D, y \in D : x = order[l] /\ y = order[k]
    BY <1>9
  <2>2. /\ P(x) \in [1 .. 6 -> Int] /\ P(y) \in [1 .. 6 -> Int]
        /\ P(x)[1] < P(y)[1]
    <3>1. Heavy(media[y]) /\ ~Heavy(media[x])
      BY <1>10, <2>1
    <3>2. P(x)[1] = 0 /\ P(y)[1] = 1
      BY <1>1, <3>1
    <3>3. P(x) \in [1 .. 6 -> Int] /\ P(y) \in [1 .. 6 -> Int]
      BY <1>1
    <3> QED BY <3>2, <3>3
  <2>3. Precedes(P(x), P(y))
    BY <2>2, PrecedesIs
  <2>4. order[l] \in B[order[k]]
    BY <2>1, <2>3 DEF B
  <2> QED BY <1>9, <2>4
<1> QED BY <1>3, <1>9, <1>10 DEF D
-----------------------------------------------------------------------------
(* The media of a request, and what is offered for them.                    *)
Playable == {i \in Items : i.type \in Listable}

LEMMA NoneListed == Listed(<<>>, {})
<1>1. <<>> \in Seq(AnyItem) /\ DOMAIN <<>> = {}
  BY EmptySeq, InDomain
<1> QED BY <1>1 DEF Listed, Injective, ToSet

LEMMA ByRatingKeyListed ==
  ASSUME world \in World, NEW key, NEW m, m = ByRatingKey(key)
  PROVE  \E T \in SUBSET Playable : Listed(m, T)
<1> DEFINE T == {i \in Items : i.key = key /\ i.type \in Listable}
<1>1. Listed(m, T)
  BY ByRatingKeyIs
<1>2. T \in SUBSET Playable
  BY DEF Playable
<1> QED BY <1>1, <1>2

LEMMA ByGuidListed ==
  ASSUME world \in World, NEW guid, NEW m, m = ByGuid(guid)
  PROVE  \E T \in SUBSET Playable : Listed(m, T)
<1> DEFINE T == {i \in Items : i.guid = guid /\ i.type \in Listable}
<1>1. Listed(m, T)
  BY ByGuidIs
<1>2. T \in SUBSET Playable
  BY DEF Playable
<1> QED BY <1>1, <1>2

LEMMA MediaAre ==
  ASSUME world \in World, NEW type, NEW id, NEW m, m = StreamMedia(type, id)
  PROVE  \E T \in SUBSET Playable : Listed(m, T)
<1>1. \/ m = <<>>
      \/ \E key : m = ByRatingKey(key)
      \/ \E guid : m = ByGuid(guid)
  <2>1. KeyMedia(type, id) = <<>> \/ \E key : KeyMedia(type, id) = ByRatingKey(key)
    BY DEF KeyMedia
  <2> QED BY <2>1 DEF StreamMedia
<1> QED BY <1>1, NoneListed, ByRatingKeyListed, ByGuidListed

LEMMA StreamsMedia ==
  ASSUME IInv, view.at = "streams"
  PROVE  /\ view.media \in Seq(AnyItem) /\ Injective(view.media)
         /\ \A n \in DOMAIN view.media : /\ view.media[n] \in Playable
                                         /\ view.media[n].media \in Seq(AnyVersion)
<1>1. world \in World /\ view.media = StreamMedia(view.type, view.id)
  BY DEF IInv, StreamsView
<1>2. PICK T \in SUBSET Playable : Listed(view.media, T)
  BY <1>1, MediaAre
<1>3. \A n \in DOMAIN view.media : view.media[n] \in Playable
  BY <1>2, ListedIs
<1>4. \A i \in Playable : i.media \in Seq(AnyVersion)
  BY <1>1, ItemParts DEF Playable
<1> QED BY <1>2, <1>3, <1>4 DEF Listed

LEMMA LightHolds == IInv => LightVersionsFirst
<1> SUFFICES ASSUME IInv, view.at = "streams", NEW n \in DOMAIN view.media,
                    NEW media, media = view.media[n].media,
                    NEW order, order = Ordered(media),
                    NEW i \in DOMAIN order, NEW j \in DOMAIN order,
                    Heavy(media[order[i]]), ~Heavy(media[order[j]])
             PROVE  j < i
  BY DEF LightVersionsFirst
<1>1. media \in Seq(AnyVersion)
  BY StreamsMedia
<1>2. DOMAIN order = 1 .. Len(media)
  BY <1>1, OrderedIs
<1>3. \A k, l \in 1 .. Len(media) :
        Heavy(media[order[k]]) /\ ~Heavy(media[order[l]]) => l < k
  BY <1>1, OrderedIs
<1> QED BY <1>2, <1>3

(* A link for the i-th version of an item, by the way it is played.         *)
DirectLink(item, i) ==
  {[kind |-> kind, base |-> base, key |-> item.key, part |-> item.media[i].part,
    file |-> item.media[i].file] : kind \in {"direct", "play"}, base \in STRING \cup {"plexio"}}

OtherLink(item, i) ==
  {[kind |-> kind, link |-> TranscodeLink(item, i), file |-> item.media[i].file] :
     kind \in {"original", "down"}}
  \cup {[kind |-> "external", file |-> "none"]}

Links(item) ==
  UNION {DirectLink(item, i) \cup OtherLink(item, i) : i \in DOMAIN item.media}

(* The connections: one for each origin, the selected one first.            *)
LEMMA ConnectionsAre ==
  ASSUME world \in World, NEW bases, bases = DirectPlayConnections,
         NEW options, options = world.options,
         NEW urls, urls = {options.selected}
                     \cup (IF options.fallbacks THEN ToSet(options.others) ELSE {})
  PROVE  /\ bases \in Seq(STRING) /\ Injective(bases)
         /\ ToSet(bases) = {url.origin : url \in urls}
         /\ bases # <<>> /\ bases[1] = options.selected.origin
<1> DEFINE rest == IF options.fallbacks THEN options.others ELSE <<>>
           first == <<options.selected>>
           all == first \o rest
           origins == [n \in DOMAIN all |-> all[n].origin]
<1>1. options.selected \in AnyUrl /\ options.others \in Seq(AnyUrl)
  BY WorldParts DEF AnyOptions
<1>2. rest \in Seq(AnyUrl) /\ ToSet(rest) = (IF options.fallbacks THEN ToSet(options.others) ELSE {})
  BY <1>1, EmptySeq, ToSetIs
<1>3. first \in Seq(AnyUrl) /\ Len(first) = 1 /\ first[1] = options.selected
  BY <1>1
<1> HIDE DEF rest, first
<1>4. /\ all \in Seq(AnyUrl)
      /\ Len(rest) \in Nat /\ Len(all) = 1 + Len(rest)
      /\ all[1] = options.selected
      /\ \A k \in 1 .. Len(rest) : 1 + k \in 1 .. Len(all) /\ all[1 + k] = rest[k]
      /\ \A k \in 1 .. Len(all) : k = 1 \/ k - 1 \in 1 .. Len(rest)
  <2>1. PICK w : w = first \o rest
    OBVIOUS
  <2>2. /\ w \in Seq(AnyUrl) /\ Len(rest) \in Nat
        /\ Len(w) = Len(first) + Len(rest)
        /\ \A k \in 1 .. Len(first) : k \in 1 .. Len(w) /\ w[k] = first[k]
        /\ \A k \in 1 .. Len(rest) : Len(first) + k \in 1 .. Len(w) /\ w[Len(first) + k] = rest[k]
        /\ \A k \in 1 .. Len(w) : k \in 1 .. Len(first) \/ k - Len(first) \in 1 .. Len(rest)
    <3>1. first \in Seq(AnyUrl) /\ rest \in Seq(AnyUrl)
      BY <1>2, <1>3
    <3> QED BY <2>1, <3>1, ConcatIs
  <2> QED BY <1>3, <2>1, <2>2
<1> HIDE DEF all
<1>5. ToSet(all) = urls
  <2>1. DOMAIN all = 1 .. Len(all) /\ DOMAIN rest = 1 .. Len(rest)
    BY <1>2, <1>4, InDomain
  <2>2. ASSUME NEW k \in DOMAIN all PROVE all[k] = options.selected \/ all[k] \in ToSet(rest)
    <3>1. CASE k = 1
      BY <1>4, <3>1
    <3>2. CASE k - 1 \in 1 .. Len(rest)
      <4>1. PICK l \in 1 .. Len(rest) : k = 1 + l
        BY <2>1, <3>2
      <4> QED BY <1>4, <2>1, <4>1 DEF ToSet
    <3> QED BY <1>4, <2>1, <3>1, <3>2
  <2>3. options.selected \in ToSet(all)
    BY <1>4, <2>1 DEF ToSet
  <2>4. ASSUME NEW k \in DOMAIN rest PROVE rest[k] \in ToSet(all)
    BY <1>4, <2>1 DEF ToSet
  <2>5. ToSet(all) = {options.selected} \cup ToSet(rest)
    BY <2>2, <2>3, <2>4 DEF ToSet
  <2> QED BY <1>2, <2>5
<1>6. origins \in Seq(STRING) /\ DOMAIN origins = DOMAIN all
  <2>1. \A k \in DOMAIN all : all[k].origin \in STRING
    <3>1. \A k \in DOMAIN all : all[k] \in AnyUrl
      BY <1>4, InDomain
    <3> QED BY <3>1 DEF AnyUrl
  <2>2. origins \in [DOMAIN all -> STRING]
    BY <2>1
  <2> HIDE DEF origins
  <2> QED BY <1>4, <2>2, MapIs
<1>7. /\ ToSet(origins) = {url.origin : url \in urls}
      /\ 1 \in DOMAIN all /\ origins[1] = options.selected.origin
  <2>1. DOMAIN all = 1 .. Len(all)
    BY <1>4, InDomain
  <2>2. 1 \in DOMAIN all
    BY <1>4, <2>1
  <2>3. ToSet(origins) = {url.origin : url \in ToSet(all)}
    BY <1>6 DEF ToSet
  <2> QED BY <1>4, <1>5, <2>2, <2>3
<1>8. bases = Distinct(origins)
  BY DEF DirectPlayConnections, all, first, rest
<1> HIDE DEF origins
<1>9. origins # <<>>
  BY <1>6, <1>7, InDomain
<1> QED BY <1>6, <1>7, <1>8, <1>9, DistinctIs
(* The elements of f that are in Q are those of d, in a row after off       *)
(* others.                                                                  *)
Within(f, Q, d, off) ==
  /\ off \in Nat
  /\ {k \in DOMAIN f : f[k] \in Q} = {off + j : j \in DOMAIN d}
  /\ \A j \in DOMAIN d : f[off + j] = d[j]

LEMMA WithinFlat ==
  ASSUME NEW S, NEW t \in Seq(Seq(S)), NEW f, f = FlattenSeq(t), NEW Q, NEW n \in DOMAIN t,
         NEW d \in Seq(S), NEW o, Within(t[n], Q, d, o),
         \A m \in DOMAIN t : m # n => \A j \in DOMAIN t[m] : t[m][j] \notin Q
  PROVE  \E off : Within(f, Q, d, off)
<1>1. PICK off : Lies(t, f, off)
  BY FlattenIs
<1>2. off \in [DOMAIN t -> Nat] /\ off[n] \in Nat /\ o \in Nat /\ DOMAIN d \subseteq Nat
  BY <1>1, InDomain DEF Lies, Within
<1>3. DOMAIN t[n] \subseteq Nat
  BY InDomain
<1>4. ASSUME NEW k \in DOMAIN f, f[k] \in Q
      PROVE  \E j \in DOMAIN d : k = (off[n] + o) + j
  <2>0. PICK i \in DOMAIN t : \E j \in DOMAIN t[i] : k = off[i] + j
    BY <1>1 DEF Lies
  <2>1. PICK j \in DOMAIN t[i] : k = off[i] + j
    BY <2>0
  <2>2. f[k] = t[i][j]
    BY <1>1, <2>1 DEF Lies
  <2>3. i = n
    BY <1>4, <2>2
  <2>4. j \in {l \in DOMAIN t[n] : t[n][l] \in Q}
    BY <1>4, <2>1, <2>2, <2>3
  <2>5. PICK l \in DOMAIN d : j = o + l
    BY <2>4 DEF Within
  <2> QED BY <1>2, <2>1, <2>3, <2>5
<1>5. ASSUME NEW j \in DOMAIN d
      PROVE  /\ (off[n] + o) + j \in DOMAIN f
             /\ f[(off[n] + o) + j] = d[j] /\ d[j] \in Q
  <2>1. o + j \in {l \in DOMAIN t[n] : t[n][l] \in Q} /\ t[n][o + j] = d[j]
    BY DEF Within
  <2>2. off[n] + (o + j) \in DOMAIN f /\ f[off[n] + (o + j)] = t[n][o + j]
    BY <1>1, <2>1 DEF Lies
  <2>3. off[n] + (o + j) = (off[n] + o) + j
    BY <1>2
  <2> QED BY <2>1, <2>2, <2>3
<1>6. PICK p \in Nat : p = off[n] + o
  BY <1>2
<1>7. Within(f, Q, d, p)
  BY <1>4, <1>5, <1>6 DEF Within
<1> QED BY <1>7

LEMMA FlatFrom ==
  ASSUME NEW S, NEW t \in Seq(Seq(S)), NEW f, f = FlattenSeq(t), NEW k \in DOMAIN f
  PROVE  \E i \in DOMAIN t : \E j \in DOMAIN t[i] : f[k] = t[i][j]
<1>1. PICK off : Lies(t, f, off)
  BY FlattenIs
<1> QED BY <1>1 DEF Lies

AllLinks == UNION {Links(item) : item \in Playable}

(* A part belongs to one version of one item.                               *)
LEMMA PartIs ==
  ASSUME world \in World, NEW a \in Items, NEW i \in DOMAIN a.media,
         NEW b \in Items, NEW j \in DOMAIN b.media, a.media[i].part = b.media[j].part
  PROVE  a = b /\ i = j
<1> QED BY WorldParts DEF KeysAreUnique, Items

LEMMA LinkIs ==
  ASSUME world \in World, NEW a \in Playable, NEW i \in DOMAIN a.media,
         NEW b \in Playable, NEW j \in DOMAIN b.media
  PROVE  /\ DirectLink(a, i) \subseteq AllLinks /\ OtherLink(a, i) \subseteq AllLinks
         /\ \A s \in OtherLink(b, j) : s \notin DirectLink(a, i)
                                         /\ s.kind \notin {"direct", "play"}
         /\ a # b \/ i # j => \A s \in DirectLink(b, j) : s \notin DirectLink(a, i)
         /\ \A s \in DirectLink(b, j) : s.part = b.media[j].part
                                          /\ s.kind \in {"direct", "play"}
<1>1. DirectLink(a, i) \subseteq AllLinks /\ OtherLink(a, i) \subseteq AllLinks
  BY DEF AllLinks, Links
<1>2. \A s \in OtherLink(b, j) : s.kind \notin {"direct", "play"}
  BY DEF OtherLink
<1>3. /\ \A s \in DirectLink(b, j) : s.part = b.media[j].part /\ s.kind \in {"direct", "play"}
      /\ \A s \in DirectLink(a, i) : s.part = a.media[i].part /\ s.kind \in {"direct", "play"}
  BY DEF DirectLink
<1>4. a # b \/ i # j => a.media[i].part # b.media[j].part
  BY PartIs DEF Playable
<1> QED BY <1>1, <1>2, <1>3, <1>4

(* The links of a version differ in the connection, and cover them all.     *)
ConnectsOnce(d) ==
  LET options == world.options
      urls == {options.selected} \cup (IF options.fallbacks THEN ToSet(options.others) ELSE {})
  IN /\ \A j, k \in DOMAIN d : d[j].base = d[k].base => j = k
     /\ options.proxied => {d[k].base : k \in DOMAIN d} = {"plexio"}
     /\ ~options.proxied =>
          /\ {d[k].base : k \in DOMAIN d} = {url.origin : url \in urls}
          /\ \A k \in DOMAIN d : d[k].base = options.selected.origin => k = 1

LEMMA DirectStreamsAre ==
  ASSUME world \in World, NEW item \in Playable, NEW i \in DOMAIN item.media,
         NEW d, d = DirectStreams(item, item.media[i])
  PROVE  /\ d \in Seq(AllLinks)
         /\ \A k \in DOMAIN d : d[k] \in DirectLink(item, i)
         /\ world.options.direct => ConnectsOnce(d)
<1> DEFINE through(kind, base) ==
             [kind |-> kind, base |-> base, key |-> item.key, part |-> item.media[i].part,
              file |-> item.media[i].file]
           bases == DirectPlayConnections
           urls == {world.options.selected}
                     \cup (IF world.options.fallbacks THEN ToSet(world.options.others) ELSE {})
<1>1. \A kind \in {"direct", "play"}, base \in STRING \cup {"plexio"} :
        through(kind, base) \in DirectLink(item, i) /\ through(kind, base).base = base
  BY DEF DirectLink
<1>2. DirectLink(item, i) \subseteq AllLinks
  BY LinkIs
<1>3. d = IF ~world.options.direct THEN <<>>
          ELSE IF world.options.proxied THEN <<through("play", "plexio")>>
          ELSE [n \in DOMAIN bases |-> through("direct", bases[n])]
  BY DEF DirectStreams
<1>4. /\ bases \in Seq(STRING) /\ Injective(bases)
      /\ ToSet(bases) = {url.origin : url \in urls}
      /\ bases # <<>> /\ bases[1] = world.options.selected.origin
  BY ConnectionsAre
<1> HIDE DEF bases, through
<1>5. CASE ~world.options.direct
  <2>1. d = <<>> /\ DOMAIN d = {}
    BY <1>3, <1>5
  <2> QED BY <1>5, <2>1, EmptySeq
<1>6. CASE world.options.direct /\ world.options.proxied
  <2>0. PICK link : link = through("play", "plexio")
    OBVIOUS
  <2>1. d = <<link>> /\ link \in DirectLink(item, i) /\ link.base = "plexio"
    <3>1. d = <<through("play", "plexio")>>
      BY <1>3, <1>6
    <3>2. link \in DirectLink(item, i) /\ link.base = "plexio"
      <4>1. link \in DirectLink(item, i)
        BY <1>1, <2>0
      <4>2. through("play", "plexio").base = "plexio"
        BY <1>1
      <4> QED BY <2>0, <4>1, <4>2
    <3> QED BY <2>0, <3>1, <3>2
  <2>2. DOMAIN d = {1} /\ d[1] \in DirectLink(item, i) /\ d[1].base = "plexio"
    <3>1. d[1] = link /\ DOMAIN d = {1}
      BY <2>1
    <3> QED BY <2>1, <3>1
  <2>3. d \in Seq(AllLinks)
    BY <1>2, <2>1
  <2> QED BY <1>6, <2>2, <2>3 DEF ConnectsOnce
<1>7. CASE world.options.direct /\ ~world.options.proxied
  <2>1. d = [n \in DOMAIN bases |-> through("direct", bases[n])]
    BY <1>3, <1>7
  <2>2. \A n \in DOMAIN bases : d[n] \in DirectLink(item, i) /\ d[n].base = bases[n]
    <3>1. \A n \in DOMAIN bases : bases[n] \in STRING
      BY <1>4, InDomain
    <3> QED BY <1>1, <2>1, <3>1
  <2>3. d \in [DOMAIN bases -> AllLinks] /\ DOMAIN d = DOMAIN bases
    BY <1>2, <2>1, <2>2
  <2>4. d \in Seq(AllLinks)
    BY <1>4, <2>3, MapIs
  <2>5. \A j, k \in DOMAIN d : d[j].base = d[k].base => j = k
    BY <1>4, <2>2, <2>3 DEF Injective
  <2>6. {d[k].base : k \in DOMAIN d} = {url.origin : url \in urls}
    <3>1. {d[k].base : k \in DOMAIN d} = ToSet(bases)
      BY <2>2, <2>3 DEF ToSet
    <3> QED BY <1>4, <3>1
  <2>7. \A k \in DOMAIN d : d[k].base = world.options.selected.origin => k = 1
    <3>1. 1 \in DOMAIN bases
      BY <1>4, InDomain
    <3> QED BY <1>4, <2>2, <2>3, <3>1 DEF Injective
  <2>8. ConnectsOnce(d)
    BY <1>7, <2>5, <2>6, <2>7 DEF ConnectsOnce
  <2> QED BY <2>2, <2>3, <2>4, <2>8
<1> QED BY <1>5, <1>6, <1>7

LEMMA OtherStreamsAre ==
  ASSUME world \in World, NEW item \in Playable, NEW i \in DOMAIN item.media,
         NEW s \in {TranscodeStreams(item, i), ExternalStream(item)}
  PROVE  s \in Seq(AllLinks) /\ \A k \in DOMAIN s : s[k] \in OtherLink(item, i)
<1> DEFINE stream(kind) == [kind |-> kind, link |-> TranscodeLink(item, i),
                            file |-> item.media[i].file]
           P == {n \in DOMAIN world.options.down : item.media[i].width > world.options.down[n]}
           narrower == Chosen(world.options.down, P)
           original == IF world.options.original THEN <<stream("original")>> ELSE <<>>
           down == [n \in DOMAIN narrower |-> stream("down")]
           O == OtherLink(item, i)
<1>1. O \subseteq AllLinks
  BY LinkIs
<1>2. \A kind \in {"original", "down"} : stream(kind) \in O
  BY DEF OtherLink
<1>3. TranscodeStreams(item, i) = original \o down
  BY DEF TranscodeStreams, Select
<1>4. original \in Seq(O)
  BY <1>2, EmptySeq
<1>5. down \in Seq(O)
  <2>1. world.options.down \in Seq(Nat)
    BY WorldParts DEF AnyOptions
  <2>2. narrower \in Seq(Nat)
    BY <2>1, ChosenSet
  <2>3. down \in [DOMAIN narrower -> O]
    BY <1>2
  <2> HIDE DEF down, narrower
  <2> QED BY <2>2, <2>3, MapIs
<1>6. TranscodeStreams(item, i) \in Seq(O)
  <2> HIDE DEF original, down, O
  <2> QED BY <1>3, <1>4, <1>5, ConcatProperties
<1>7. ExternalStream(item) \in Seq(O)
  <2>1. [kind |-> "external", file |-> "none"] \in O
    BY DEF OtherLink
  <2> HIDE DEF O
  <2> QED BY <2>1, EmptySeq DEF ExternalStream
<1> HIDE DEF O
<1>8. s \in Seq(O) /\ \A k \in DOMAIN s : s[k] \in O
  BY <1>6, <1>7, InDomain
<1>9. s \in [DOMAIN s -> AllLinks]
  BY <1>1, <1>8, InDomain
<1> QED BY <1>8, <1>9, MapIs DEF O
(* Of the links of one version, the direct ones come first and in a row.    *)
LEMMA VersionLinksAre ==
  ASSUME world \in World, NEW item \in Playable, NEW i \in DOMAIN item.media,
         NEW d, d = DirectStreams(item, item.media[i]),
         NEW s, s = d \o TranscodeStreams(item, i) \o ExternalStream(item)
  PROVE  /\ s \in Seq(AllLinks)
         /\ \A k \in DOMAIN s : s[k] \in DirectLink(item, i) \cup OtherLink(item, i)
         /\ Within(s, DirectLink(item, i), d, 0)
<1> DEFINE D == DirectLink(item, i)
           O == OtherLink(item, i)
<1>1. d \in Seq(AllLinks) /\ \A k \in DOMAIN d : d[k] \in D
  BY DirectStreamsAre
<1>2. PICK t, e : t = TranscodeStreams(item, i) /\ e = ExternalStream(item)
  OBVIOUS
<1>3. /\ t \in Seq(AllLinks) /\ \A k \in DOMAIN t : t[k] \in O
      /\ e \in Seq(AllLinks) /\ \A k \in DOMAIN e : e[k] \in O
  BY <1>2, OtherStreamsAre
<1>4. \A x \in O : x \notin D
  BY LinkIs
<1> HIDE DEF D, O
<1>5. PICK u : u = d \o t
  OBVIOUS
<1>6. s = u \o e
  BY <1>2, <1>5
<1>7. /\ u \in Seq(AllLinks) /\ Len(d) \in Nat /\ Len(t) \in Nat
      /\ Len(u) = Len(d) + Len(t)
      /\ \A k \in 1 .. Len(d) : k \in 1 .. Len(u) /\ u[k] = d[k]
      /\ \A k \in 1 .. Len(t) : Len(d) + k \in 1 .. Len(u) /\ u[Len(d) + k] = t[k]
      /\ \A k \in 1 .. Len(u) : k \in 1 .. Len(d) \/ k - Len(d) \in 1 .. Len(t)
  BY <1>1, <1>3, <1>5, ConcatIs
<1>8. /\ s \in Seq(AllLinks) /\ Len(e) \in Nat
      /\ \A k \in 1 .. Len(u) : k \in 1 .. Len(s) /\ s[k] = u[k]
      /\ \A k \in 1 .. Len(e) : Len(u) + k \in 1 .. Len(s) /\ s[Len(u) + k] = e[k]
      /\ \A k \in 1 .. Len(s) : k \in 1 .. Len(u) \/ k - Len(u) \in 1 .. Len(e)
  BY <1>3, <1>6, <1>7, ConcatIs
<1>9. /\ DOMAIN d = 1 .. Len(d) /\ DOMAIN t = 1 .. Len(t) /\ DOMAIN e = 1 .. Len(e)
      /\ DOMAIN s = 1 .. Len(s)
  BY <1>1, <1>3, <1>8, InDomain
<1>10. \A k \in 1 .. Len(d) : k \in DOMAIN s /\ s[k] = d[k]
  BY <1>7, <1>8, <1>9
<1>11. ASSUME NEW k \in DOMAIN s, k \notin 1 .. Len(d)
       PROVE  s[k] \in O
  <2>1. CASE k \in 1 .. Len(u)
    <3>1. PICK l \in 1 .. Len(t) : k = Len(d) + l
      <4>1. k - Len(d) \in 1 .. Len(t)
        BY <1>7, <1>11, <2>1
      <4>2. k = Len(d) + (k - Len(d))
        BY <1>7, <2>1
      <4> QED BY <4>1, <4>2
    <3>2. s[k] = u[k] /\ u[k] = t[l]
      BY <1>7, <1>8, <2>1, <3>1
    <3> QED BY <1>3, <1>9, <3>1, <3>2
  <2>2. CASE k - Len(u) \in 1 .. Len(e)
    <3>1. PICK l \in 1 .. Len(e) : k = Len(u) + l
      BY <1>7, <1>8, <1>9, <2>2
    <3>2. s[k] = e[l]
      BY <1>8, <3>1
    <3> QED BY <1>3, <1>9, <3>1, <3>2
  <2> QED BY <1>8, <1>9, <2>1, <2>2
<1>12. \A k \in DOMAIN s : s[k] \in D \cup O
  BY <1>1, <1>9, <1>10, <1>11
<1>13. Within(s, D, d, 0)
  <2>1. {k \in DOMAIN s : s[k] \in D} = DOMAIN d
    BY <1>1, <1>4, <1>9, <1>10, <1>11
  <2>2. \A j \in DOMAIN d : 0 + j = j
    BY <1>7, <1>9
  <2>3. DOMAIN d = {0 + j : j \in DOMAIN d}
    BY <2>2
  <2>4. \A j \in DOMAIN d : s[0 + j] = d[j]
    BY <1>9, <1>10, <2>2
  <2> QED BY <2>1, <2>3, <2>4 DEF Within
<1> QED BY <1>8, <1>12, <1>13 DEF D, O

LEMMA StreamsOfAre ==
  ASSUME world \in World, NEW item \in Playable, NEW s, s = StreamsOf(item)
  PROVE  /\ s \in Seq(AllLinks)
         /\ \A k \in DOMAIN s : s[k] \in Links(item)
         /\ \A i \in DOMAIN item.media :
              \E off : Within(s, DirectLink(item, i), DirectStreams(item, item.media[i]), off)
<1> DEFINE order == Ordered(item.media)
           row(i) == DirectStreams(item, item.media[i])
                       \o TranscodeStreams(item, i) \o ExternalStream(item)
           t == [n \in DOMAIN order |-> row(order[n])]
<1>1. s = FlattenSeq(t)
  BY DEF StreamsOf
<1>2. item.media \in Seq(AnyVersion)
  BY ItemParts DEF Playable
<1>3. /\ Len(item.media) \in Nat
      /\ order \in [1 .. Len(item.media) -> DOMAIN item.media]
      /\ \A i \in DOMAIN item.media : \E k \in 1 .. Len(item.media) : order[k] = i
      /\ \A k, l \in 1 .. Len(item.media) : k # l => order[k] # order[l]
  BY <1>2, OrderedIs
<1> HIDE DEF order
<1>4. ASSUME NEW i \in DOMAIN item.media
      PROVE  /\ row(i) \in Seq(AllLinks)
             /\ \A k \in DOMAIN row(i) : row(i)[k] \in DirectLink(item, i) \cup OtherLink(item, i)
             /\ Within(row(i), DirectLink(item, i), DirectStreams(item, item.media[i]), 0)
  BY VersionLinksAre
<1> HIDE DEF row
<1>5. t \in Seq(Seq(AllLinks)) /\ DOMAIN t = DOMAIN order
  <2>1. DOMAIN order = 1 .. Len(item.media) /\ t \in [1 .. Len(item.media) -> Seq(AllLinks)]
    BY <1>3, <1>4
  <2> HIDE DEF t
  <2> QED BY <1>3, <2>1, IsSeq
<1>6. \A n \in DOMAIN t : order[n] \in DOMAIN item.media /\ t[n] = row(order[n])
  BY <1>3, <1>5
<1> HIDE DEF t
<1>7. s \in Seq(AllLinks)
  BY <1>1, <1>5, FlattenIs
<1>8. ASSUME NEW k \in DOMAIN s
      PROVE  s[k] \in Links(item)
  <2>1. PICK n \in DOMAIN t : \E j \in DOMAIN t[n] : s[k] = t[n][j]
    BY <1>1, <1>5, FlatFrom
  <2>2. s[k] \in DirectLink(item, order[n]) \cup OtherLink(item, order[n])
    BY <1>4, <1>6, <2>1
  <2> QED BY <1>6, <2>2 DEF Links
<1>9. ASSUME NEW i \in DOMAIN item.media
      PROVE  \E off : Within(s, DirectLink(item, i), DirectStreams(item, item.media[i]), off)
  <2> DEFINE d == DirectStreams(item, item.media[i])
             Q == DirectLink(item, i)
  <2>1. PICK n \in DOMAIN t : order[n] = i
    BY <1>3, <1>5
  <2>2. Within(t[n], Q, d, 0)
    BY <1>4, <1>6, <2>1
  <2>3. d \in Seq(AllLinks)
    BY DirectStreamsAre
  <2>4. ASSUME NEW m \in DOMAIN t, m # n, NEW j \in DOMAIN t[m]
        PROVE  t[m][j] \notin Q
    <3>1. order[m] # i /\ order[m] \in DOMAIN item.media
      BY <1>3, <1>5, <1>6, <2>1, <2>4
    <3>2. t[m][j] \in DirectLink(item, order[m]) \cup OtherLink(item, order[m])
      BY <1>4, <1>6, <2>4
    <3> QED BY <3>1, <3>2, LinkIs
  <2> HIDE DEF d, Q
  <2>5. \E off : Within(s, Q, d, off)
    BY <1>1, <1>5, <2>2, <2>3, <2>4, WithinFlat
  <2> QED BY <2>5 DEF d, Q
<1> QED BY <1>7, <1>8, <1>9

LEMMA ResponseIs ==
  ASSUME world \in World, NEW media \in Seq(AnyItem), Injective(media),
         \A n \in DOMAIN media : media[n] \in Playable,
         NEW s, s = StreamResponse(media)
  PROVE  /\ s \in Seq(AllLinks)
         /\ \A n \in DOMAIN media : \A i \in DOMAIN media[n].media :
              \E off : Within(s, DirectLink(media[n], i),
                              DirectStreams(media[n], media[n].media[i]), off)
<1> DEFINE t == [n \in DOMAIN media |-> StreamsOf(media[n])]
<1>1. s = FlattenSeq(t)
  BY DEF StreamResponse
<1>2. \A n \in DOMAIN media :
        /\ StreamsOf(media[n]) \in Seq(AllLinks)
        /\ \A k \in DOMAIN StreamsOf(media[n]) : StreamsOf(media[n])[k] \in Links(media[n])
  BY StreamsOfAre
<1>3. t \in Seq(Seq(AllLinks)) /\ DOMAIN t = DOMAIN media
  <2>1. t \in [DOMAIN media -> Seq(AllLinks)]
    BY <1>2
  <2> HIDE DEF t
  <2> QED BY <2>1, MapIs
<1>4. \A n \in DOMAIN t : t[n] = StreamsOf(media[n])
  BY <1>3
<1> HIDE DEF t
<1>5. s \in Seq(AllLinks)
  BY <1>1, <1>3, FlattenIs
<1>6. ASSUME NEW n \in DOMAIN media, NEW i \in DOMAIN media[n].media
      PROVE  \E off : Within(s, DirectLink(media[n], i),
                             DirectStreams(media[n], media[n].media[i]), off)
  <2> DEFINE d == DirectStreams(media[n], media[n].media[i])
             Q == DirectLink(media[n], i)
  <2>1. \E off : Within(t[n], Q, d, off)
    BY <1>3, <1>4, StreamsOfAre
  <2>2. PICK o : Within(t[n], Q, d, o)
    BY <2>1
  <2>3. d \in Seq(AllLinks)
    BY DirectStreamsAre
  <2>4. ASSUME NEW m \in DOMAIN t, m # n, NEW j \in DOMAIN t[m]
        PROVE  t[m][j] \notin Q
    <3>1. media[m] # media[n] /\ media[m] \in Playable
      BY <1>3, <2>4 DEF Injective
    <3>2. t[m][j] \in Links(media[m])
      BY <1>2, <1>3, <1>4, <2>4
    <3>3. PICK l \in DOMAIN media[m].media :
            t[m][j] \in DirectLink(media[m], l) \cup OtherLink(media[m], l)
      BY <3>2 DEF Links
    <3> QED BY <3>1, <3>3, LinkIs
  <2> HIDE DEF d, Q
  <2>5. \E off : Within(s, Q, d, off)
    BY <1>1, <1>3, <2>2, <2>3, <2>4, WithinFlat
  <2> QED BY <2>5 DEF d, Q
<1> QED BY <1>5, <1>6
LEMMA StreamsAre ==
  ASSUME IInv, view.at = "streams"
  PROVE  /\ world \in World /\ view.streams \in Seq(AllLinks)
         /\ \A n \in DOMAIN view.media : \A i \in DOMAIN view.media[n].media :
              \E off : Within(view.streams, DirectLink(view.media[n], i),
                              DirectStreams(view.media[n], view.media[n].media[i]), off)
<1>1. world \in World /\ view.streams = StreamResponse(view.media)
  BY DEF IInv, StreamsView
<1>2. PICK media, s : media = view.media /\ s = view.streams
  OBVIOUS
<1>3. /\ media \in Seq(AnyItem) /\ Injective(media)
      /\ \A n \in DOMAIN media : media[n] \in Playable
  BY <1>2, StreamsMedia
<1>4. s = StreamResponse(media)
  BY <1>1, <1>2
<1>5. /\ s \in Seq(AllLinks)
      /\ \A n \in DOMAIN media : \A i \in DOMAIN media[n].media :
              \E off : Within(s, DirectLink(media[n], i),
                              DirectStreams(media[n], media[n].media[i]), off)
  BY <1>1, <1>3, <1>4, ResponseIs
<1> QED BY <1>1, <1>2, <1>5

LEMMA AnyLink ==
  ASSUME NEW s \in AllLinks
  PROVE  \E item \in Playable : \E i \in DOMAIN item.media :
           s \in DirectLink(item, i) \cup OtherLink(item, i)
<1> QED BY DEF AllLinks, Links

LEMMA DirectIs ==
  ASSUME IInv, view.at = "streams", NEW item \in Playable, NEW i \in DOMAIN item.media
  PROVE  Direct(item.media[i]) = {k \in DOMAIN view.streams : view.streams[k] \in DirectLink(item, i)}
<1> DEFINE version == item.media[i]
<1>1. world \in World /\ view.streams \in Seq(AllLinks)
  BY StreamsAre
<1>2. ASSUME NEW s \in AllLinks
      PROVE  s.kind \in {"direct", "play"} /\ s.part = version.part <=> s \in DirectLink(item, i)
  <2>1. ASSUME s \in DirectLink(item, i)
        PROVE  s.kind \in {"direct", "play"} /\ s.part = version.part
    BY <1>1, <2>1, LinkIs
  <2>2. ASSUME s.kind \in {"direct", "play"}, s.part = version.part
        PROVE  s \in DirectLink(item, i)
    <3>1. PICK other \in Playable :
            \E j \in DOMAIN other.media : s \in DirectLink(other, j) \cup OtherLink(other, j)
      BY AnyLink
    <3>2. PICK j \in DOMAIN other.media : s \in DirectLink(other, j) \cup OtherLink(other, j)
      BY <3>1
    <3>3. s \in DirectLink(other, j) /\ s.part = other.media[j].part
      BY <1>1, <2>2, <3>2, LinkIs
    <3>4. other.media[j].part = item.media[i].part
      BY <2>2, <3>3
    <3>5. other \in Items /\ item \in Items
      BY DEF Playable
    <3>6. other = item /\ j = i
      BY <1>1, <3>4, <3>5, PartIs
    <3> QED BY <3>3, <3>6
  <2> QED BY <2>1, <2>2
<1>3. \A k \in DOMAIN view.streams : view.streams[k] \in AllLinks
  BY <1>1, InDomain
<1> QED BY <1>2, <1>3 DEF Direct

LEMMA ConnectionsHold == IInv => OneLinkPerConnection
<1> SUFFICES ASSUME IInv, view.at = "streams", world.options.direct,
                    NEW n \in DOMAIN view.media, NEW i \in DOMAIN view.media[n].media
             PROVE  LET links == Direct(view.media[n].media[i])
                        base(k) == view.streams[k].base
                        urls == {world.options.selected}
                          \cup (IF world.options.fallbacks THEN ToSet(world.options.others)
                                                           ELSE {})
                    IN /\ \A j, k \in links : base(j) = base(k) => j = k
                       /\ world.options.proxied => {base(k) : k \in links} = {"plexio"}
                       /\ ~world.options.proxied =>
                            /\ {base(k) : k \in links} = {url.origin : url \in urls}
                            /\ \A k \in links :
                                 base(k) = world.options.selected.origin =>
                                   \A j \in links : k <= j
  BY DEF OneLinkPerConnection, ToSet
<1> DEFINE links == Direct(view.media[n].media[i])
           s == view.streams
           urls == {world.options.selected}
                     \cup (IF world.options.fallbacks THEN ToSet(world.options.others) ELSE {})
<1> SUFFICES /\ \A j, k \in links : s[j].base = s[k].base => j = k
             /\ world.options.proxied => {s[k].base : k \in links} = {"plexio"}
             /\ ~world.options.proxied =>
                  /\ {s[k].base : k \in links} = {url.origin : url \in urls}
                  /\ \A k \in links :
                       s[k].base = world.options.selected.origin => \A j \in links : k <= j
  OBVIOUS
<1> HIDE DEF links, s, urls
<1>1. PICK item : item = view.media[n]
  OBVIOUS
<1>2. item \in Playable /\ i \in DOMAIN item.media
  BY <1>1, StreamsMedia
<1>3. PICK d : d = DirectStreams(item, item.media[i])
  OBVIOUS
<1>4. world \in World /\ \E off : Within(s, DirectLink(item, i), d, off)
  <2>1. \E off : Within(view.streams, DirectLink(view.media[n], i),
                        DirectStreams(view.media[n], view.media[n].media[i]), off)
    BY StreamsAre
  <2> QED BY <1>1, <1>3, <2>1, StreamsAre DEF s
<1>5. PICK off : Within(s, DirectLink(item, i), d, off)
  BY <1>4
<1>6. d \in Seq(AllLinks) /\ ConnectsOnce(d)
  BY <1>2, <1>3, <1>4, DirectStreamsAre
<1>7. links = {off + j : j \in DOMAIN d} /\ off \in Nat /\ DOMAIN d \subseteq Nat
        /\ \A j \in DOMAIN d : s[off + j] = d[j]
  <2>1. links = {k \in DOMAIN s : s[k] \in DirectLink(item, i)}
    BY <1>1, <1>2, DirectIs DEF links, s
  <2> QED BY <1>5, <1>6, <2>1, InDomain DEF Within
<1>8. \A k \in links : \E j \in DOMAIN d : k = off + j /\ s[k].base = d[j].base
  BY <1>7
<1>9. \A j \in DOMAIN d : off + j \in links /\ s[off + j].base = d[j].base
  BY <1>7
<1>10. {s[k].base : k \in links} = {d[j].base : j \in DOMAIN d}
  BY <1>8, <1>9
<1>11. \A j, k \in links : s[j].base = s[k].base => j = k
  <2> SUFFICES ASSUME NEW j \in links, NEW k \in links, s[j].base = s[k].base PROVE j = k
    OBVIOUS
  <2>1. PICK a \in DOMAIN d : j = off + a /\ s[j].base = d[a].base
    BY <1>8
  <2>2. PICK b \in DOMAIN d : k = off + b /\ s[k].base = d[b].base
    BY <1>8
  <2>3. a = b
    BY <1>6, <2>1, <2>2 DEF ConnectsOnce
  <2> QED BY <2>1, <2>2, <2>3
<1>12. ASSUME ~world.options.proxied, NEW k \in links,
              s[k].base = world.options.selected.origin, NEW j \in links
       PROVE  k <= j
  <2>1. PICK a \in DOMAIN d : k = off + a /\ s[k].base = d[a].base
    BY <1>8
  <2>2. PICK b \in DOMAIN d : j = off + b
    BY <1>8
  <2>3. a = 1
    BY <1>6, <1>12, <2>1 DEF ConnectsOnce
  <2>4. b \in 1 .. Len(d) /\ Len(d) \in Nat
    BY <1>6, InDomain
  <2> QED BY <1>7, <2>1, <2>2, <2>3, <2>4
<1>13. /\ world.options.proxied => {s[k].base : k \in links} = {"plexio"}
       /\ ~world.options.proxied =>
            {s[k].base : k \in links} = {url.origin : url \in urls}
  BY <1>6, <1>10 DEF ConnectsOnce, urls
<1> QED BY <1>11, <1>12, <1>13

LEMMA LinksHold == IInv => LinksPlayTheirFile
<1> SUFFICES ASSUME IInv, view.at = "streams", NEW k \in DOMAIN view.streams,
                    NEW s, s = view.streams[k], s.kind # "external"
             PROVE  /\ Played(s).file = s.file
                    /\ s.kind = "play" => Played(s).key = s.key
  BY DEF LinksPlayTheirFile
<1>1. world \in World /\ s \in AllLinks
  BY StreamsAre, InDomain
<1>2. PICK item \in Playable :
        \E i \in DOMAIN item.media : s \in DirectLink(item, i) \cup OtherLink(item, i)
  BY <1>1, AnyLink
<1>3. PICK i \in DOMAIN item.media : s \in DirectLink(item, i) \cup OtherLink(item, i)
  BY <1>2
<1>4. CASE s \in DirectLink(item, i)
  <2>1. /\ s.kind \in {"direct", "play"} /\ s.key = item.key
        /\ s.part = item.media[i].part /\ s.file = item.media[i].file
    BY <1>4 DEF DirectLink
  <2> DEFINE P == {m \in DOMAIN world.items :
                     \E n \in DOMAIN world.items[m].media :
                       world.items[m].media[n].part = s.part}
             c == Chosen(world.items, P)
  <2>2. {world.items[m] : m \in P} = {item}
    <3>1. \A m \in P : world.items[m] = item
      BY <1>1, <2>1, PartIs DEF Playable, Items, ToSet
    <3>2. \E m \in P : world.items[m] = item
      BY <2>1 DEF Playable, Items, ToSet
    <3> QED BY <3>1, <3>2
  <2>3. Listed(c, {item})
    <3> HIDE DEF P
    <3>1. P \in SUBSET DOMAIN world.items
      BY DEF P
    <3> QED BY <1>1, <2>2, <3>1, ChosenItems
  <2>4. c = Where(LAMBDA x : \E n \in DOMAIN x.media : x.media[n].part = s.part)
    BY DEF Where, Select
  <2> HIDE DEF c, P
  <2>5. c[1] = item
    <3>1. PICK T : T = {item}
      OBVIOUS
    <3>2. c # <<>> /\ c[1] \in T
      BY <2>3, <3>1, ListedIs
    <3> QED BY <3>1, <3>2
  <2>6. (CHOOSE m \in DOMAIN item.media : item.media[m].part = s.part) = i
    BY <1>1, <2>1, PartIs DEF Playable
  <2>7. Played(s) = [key |-> item.key, file |-> item.media[i].file]
    BY <2>1, <2>4, <2>5, <2>6 DEF Played
  <2> QED BY <2>1, <2>7
<1>5. CASE s \in OtherLink(item, i)
  <2>1. /\ s.kind \in {"original", "down"} /\ s.file = item.media[i].file
        /\ s.link = [path |-> item.key, mediaIndex |-> i - 1]
    BY <1>5 DEF OtherLink, TranscodeLink
  <2>2. ByRatingKey(item.key)[1] = item
    <3> DEFINE m == ByRatingKey(item.key)
    <3>1. Listed(m, {x \in Items : x.key = item.key /\ x.type \in Listable})
      BY <1>1, ByRatingKeyIs
    <3>2. item \in {x \in Items : x.key = item.key /\ x.type \in Listable}
      BY DEF Playable
    <3> HIDE DEF m
    <3>3. m[1] \in Items /\ m[1].key = item.key
      BY <3>1, <3>2, ListedIs
    <3> QED BY <1>1, <3>3, SameKey DEF Playable, m
  <2>3. (i - 1) + 1 = i
    <3>1. item.media \in Seq(AnyVersion)
      BY <1>1, ItemParts DEF Playable
    <3>2. i \in Nat
      BY <3>1, InDomain
    <3> QED BY <3>2
  <2>4. Played(s) = [key |-> item.key, file |-> item.media[i].file]
    <3>1. s.link.path = item.key /\ s.link.mediaIndex + 1 = i
      BY <2>1, <2>3
    <3> QED BY <2>1, <2>2, <3>1 DEF Played
  <2> QED BY <2>1, <2>4
<1> QED BY <1>3, <1>4, <1>5
-----------------------------------------------------------------------------
(* The media that a request finds.                                          *)
Finds(m, item) ==
  /\ \E i \in DOMAIN m : m[i].key = item.key
  /\ \A i \in DOMAIN m : m[i].guid = item.guid

LEMMA GuidFinds ==
  ASSUME world \in World, NEW item \in Playable, NEW m, m = ByGuid(item.guid)
  PROVE  Finds(m, item) /\ m # <<>>
<1> DEFINE T == {i \in Items : i.guid = item.guid /\ i.type \in Listable}
<1>1. Listed(m, T)
  BY ByGuidIs
<1>2. item \in T
  BY DEF Playable
<1>3. \A i \in T : i.guid = item.guid
  OBVIOUS
<1> HIDE DEF T
<1>4. \A i \in DOMAIN m : m[i] \in T
  BY <1>1, ListedIs
<1>5. \E i \in DOMAIN m : m[i] = item
  BY <1>1, <1>2, ListedIs
<1>6. m # <<>>
  BY <1>1, <1>2, ListedIs
<1> QED BY <1>3, <1>4, <1>5, <1>6 DEF Finds

LEMMA KeyFinds ==
  ASSUME world \in World, NEW item \in Playable, NEW m, m = ByRatingKey(item.key)
  PROVE  Finds(m, item) /\ m # <<>> /\ m[1] = item
<1> DEFINE T == {i \in Items : i.key = item.key /\ i.type \in Listable}
<1>1. Listed(m, T)
  BY ByRatingKeyIs
<1>2. item \in T
  BY DEF Playable
<1>3. \A i \in T : i = item
  BY SameKey DEF Playable
<1> HIDE DEF T
<1>4. \A i \in DOMAIN m : m[i] \in T
  BY <1>1, ListedIs
<1>5. \E i \in DOMAIN m : m[i] = item
  BY <1>1, <1>2, ListedIs
<1>6. m # <<>> /\ m[1] \in T
  BY <1>1, <1>2, ListedIs
<1> QED BY <1>3, <1>4, <1>5, <1>6 DEF Finds

LEMMA NumberedIs ==
  ASSUME world \in World, NEW show, NEW season, NEW number,
         NEW f, f = Numbered(show, season, number)
  PROVE  /\ f \in Seq(AnyItem)
         /\ \A e \in ToSet(f) : /\ e \in ToSet(Episodes(show))
                               /\ e.season = season /\ e.number = number
         /\ \A e \in ToSet(Episodes(show)) :
              e.season = season /\ e.number = number => f # <<>>
<1> DEFINE s == Episodes(show)
           P == {n \in DOMAIN s : s[n].season = season /\ s[n].number = number}
           c == Chosen(s, P)
<1>1. f = FirstOf(c)
  BY DEF Numbered, Select
<1>2. s \in Seq(AnyItem)
  BY EpisodesIs
<1>3. P \in SUBSET DOMAIN s
  OBVIOUS
<1>4. \A n \in P : s[n] \in ToSet(s) /\ s[n].season = season /\ s[n].number = number
  BY DEF ToSet
<1>5. \A e \in ToSet(s) : e.season = season /\ e.number = number => P # {}
  BY DEF ToSet
<1> HIDE DEF s, P
<1>6. c \in Seq(AnyItem) /\ ToSet(c) = {s[n] : n \in P} /\ (c = <<>> <=> P = {})
  BY <1>2, <1>3, ChosenSet
<1> HIDE DEF c
<1>7. f \in Seq(AnyItem) /\ (c = <<>> <=> f = <<>>) /\ ToSet(f) \subseteq ToSet(c)
  BY <1>1, <1>6, FirstOfIs
<1>8. \A e \in ToSet(f) : e \in ToSet(s) /\ e.season = season /\ e.number = number
  BY <1>4, <1>6, <1>7
<1>9. \A e \in ToSet(s) : e.season = season /\ e.number = number => f # <<>>
  BY <1>5, <1>6, <1>7
<1> QED BY <1>7, <1>8, <1>9 DEF s

LEMMA OwnEpisode ==
  ASSUME world \in World, NEW item \in Items, item.type = "episode", item.number # Unnumbered
  PROVE  \E e \in ToSet(Episodes(item.show)) :
           e.key = item.key /\ e.season = item.season /\ e.number = item.number
<1>1. PICK show, s : show = item.show /\ s = Episodes(show)
  OBVIOUS
<1>2. HasEpisode(s, item)
  BY <1>1, EpisodesIs
<1>3. PICK n \in DOMAIN s : s[n].key = item.key /\ s[n].season = item.season
                              /\ s[n].number = item.number
  BY <1>2 DEF HasEpisode
<1>4. s[n] \in ToSet(s)
  BY DEF ToSet
<1> QED BY <1>1, <1>3, <1>4

(* The matcher, or else the library, leads from IMDb's id to the guid.      *)
LEMMA MatchIs ==
  ASSUME world \in World, NEW item \in Playable, Matchable(item), NEW title, title = item.guid[2],
         NEW guids, guids = IF CloudGuids(title) # <<>> THEN CloudGuids(title)
                                                         ELSE LibraryGuids(title)
  PROVE  guids = <<item.guid>> /\ item.title = title
<1>1. item.guid \in STRING \X STRING /\ item.guid = <<item.guid[1], item.guid[2]>>
  BY ItemParts DEF Playable
<1>2. item.title = title
  BY WorldParts DEF GuidsNameTitles, Matchable, Playable, Items
<1>3. CASE title \in world.matched /\ item.guid[1] = "plex"
  <2>1. CloudGuids(title) = <<item.guid>>
    BY <1>1, <1>3 DEF CloudGuids
  <2> QED BY <1>2, <2>1
<1>4. CASE title \notin world.matched /\ item.guid[1] = "imdb-agent"
  <2>1. CloudGuids(title) = <<>>
    BY <1>4 DEF CloudGuids
  <2>2. ImdbAgentGuid(title) = item.guid
    BY <1>1, <1>4 DEF ImdbAgentGuid
  <2>3. ByGuid(item.guid) # <<>>
    BY GuidFinds
  <2>4. LibraryGuids(title) = <<item.guid>>
    BY <2>2, <2>3 DEF LibraryGuids
  <2> QED BY <1>2, <2>1, <2>4
<1> QED BY <1>2, <1>3, <1>4 DEF Matchable
(* The guid of an episode, if every show under the guid of its show that    *)
(* has an episode of that number has the same.                              *)
LEMMA EpisodeGuidIs ==
  ASSUME world \in World, NEW item \in Items, item.type = "episode", item.number # Unnumbered,
         NEW shows, shows = ByGuid(item.showGuid),
         NEW show \in Playable, show.key = item.show, show.guid = item.showGuid,
         \A other \in ToSet(shows) : \A e \in ToSet(Episodes(other.key)) :
           e.season = item.season /\ e.number = item.number => e.guid = item.guid
  PROVE  EpisodeGuids(shows, item.season, item.number) = <<item.guid>>
<1> DEFINE row(n) == Numbered(shows[n].key, item.season, item.number)
           rows == [n \in DOMAIN shows |-> row(n)]
           hits == FlattenSeq(rows)
           T == {i \in Items : i.guid = item.showGuid /\ i.type \in Listable}
<1>1. EpisodeGuids(shows, item.season, item.number) = IF hits = <<>> THEN <<>> ELSE <<hits[1].guid>>
  BY DEF EpisodeGuids
<1>2. Listed(shows, T) /\ shows \in Seq(AnyItem)
  BY ByGuidIs DEF Listed
<1>3. PICK n \in DOMAIN shows : shows[n] = show
  <2>1. show \in T
    BY DEF Playable
  <2> HIDE DEF T
  <2> QED BY <1>2, <2>1, ListedIs
<1>4. \A m \in DOMAIN shows :
        /\ row(m) \in Seq(AnyItem)
        /\ \A e \in ToSet(row(m)) : /\ e \in ToSet(Episodes(shows[m].key))
                                   /\ e.season = item.season /\ e.number = item.number
        /\ \A e \in ToSet(Episodes(shows[m].key)) :
              e.season = item.season /\ e.number = item.number => row(m) # <<>>
  BY <1>2, NumberedIs
<1> HIDE DEF row
<1>5. rows \in Seq(Seq(AnyItem)) /\ DOMAIN rows = DOMAIN shows
  <2>1. rows \in [DOMAIN shows -> Seq(AnyItem)]
    BY <1>4
  <2> HIDE DEF rows
  <2> QED BY <1>2, <2>1, MapIs
<1>6. \A m \in DOMAIN rows : rows[m] = row(m)
  BY <1>5
<1> HIDE DEF rows
<1>7. hits \in Seq(AnyItem) /\ ToSet(hits) = UNION {ToSet(rows[m]) : m \in DOMAIN rows}
  BY <1>5, FlattenedSet
<1> HIDE DEF hits
<1>8. hits # <<>>
  <2>1. \E e \in ToSet(Episodes(show.key)) : e.season = item.season /\ e.number = item.number
    BY OwnEpisode
  <2>2. row(n) # <<>> /\ row(n) \in Seq(AnyItem)
    BY <1>3, <1>4, <2>1
  <2>3. ToSet(row(n)) # {}
    BY <2>2, ToSetIs
  <2>4. ToSet(row(n)) \subseteq ToSet(hits)
    BY <1>5, <1>6, <1>7
  <2> QED BY <1>7, <2>3, <2>4, ToSetIs
<1>9. ASSUME NEW h \in ToSet(hits) PROVE h.guid = item.guid
  <2>1. PICK m \in DOMAIN shows : h \in ToSet(row(m))
    BY <1>5, <1>6, <1>7
  <2>2. shows[m] \in ToSet(shows)
    BY DEF ToSet
  <2> QED BY <1>4, <2>1, <2>2
<1> QED BY <1>1, <1>7, <1>8, <1>9, InDomain DEF ToSet
(* One lemma for each way to ask; m are the media found.                    *)
LEMMA MovieFinds ==
  ASSUME world \in World, NEW item \in Playable, NEW type, NEW id, AsksMovie(type, id, item),
         id[1] = "tt" => Matchable(item), NEW m, m = StreamMedia(type, id)
  PROVE  Finds(m, item)
<1>1. type = "movie" /\ id \in {<<"tt", item.title>>, <<"rk", item.key>>, <<"guid", item.guid>>}
  BY DEF AsksMovie
<1>2. CASE id = <<"tt", item.title>>
  <2>1. id[1] = "tt" /\ id[2] = item.title /\ Matchable(item)
    BY <1>2
  <2>2. item.title = item.guid[2]
    BY <2>1, MatchIs
  <2>3. PlexGuids(type, id) = <<item.guid>>
    BY <1>1, <2>1, <2>2, MatchIs DEF PlexGuids
  <2>4. m = ByGuid(item.guid)
    BY <2>1, <2>3 DEF StreamMedia
  <2> QED BY <2>4, GuidFinds
<1>3. CASE id = <<"rk", item.key>>
  <2>1. id[1] = "rk" /\ id[2] = item.key
    BY <1>3
  <2>2. m = ByRatingKey(item.key)
    BY <1>1, <2>1 DEF StreamMedia, KeyMedia
  <2> QED BY <2>2, KeyFinds
<1>4. CASE id = <<"guid", item.guid>>
  <2>1. id[1] = "guid" /\ id[2] = item.guid
    BY <1>4
  <2>2. m = ByGuid(item.guid)
    BY <2>1 DEF StreamMedia
  <2> QED BY <2>2, GuidFinds
<1> QED BY <1>1, <1>2, <1>3, <1>4

LEMMA VideoFinds ==
  ASSUME world \in World, NEW item \in Playable, NEW type, NEW id, AsksVideo(type, id, item),
         NEW m, m = StreamMedia(type, id)
  PROVE  Finds(m, item)
<1>1. id[1] = "rk" /\ id[2] = item.key /\ Len(id) # 4
  BY DEF AsksVideo
<1>2. m = ByRatingKey(item.key)
  BY <1>1 DEF StreamMedia, KeyMedia
<1> QED BY <1>2, KeyFinds

(* The show of an episode.                                                  *)
LEMMA ShowIs ==
  ASSUME world \in World, NEW item \in Items, item.type = "episode",
         NEW show \in Items, show.key = item.show
  PROVE  show.type = "show" /\ show.guid = item.showGuid /\ show \in Playable
           /\ show \in ToSet(ByGuid(item.showGuid))
<1>1. show.type = "show" /\ show.guid = item.showGuid
  BY WorldParts DEF EpisodesAreOfShows, Items
<1>2. show \in Playable
  BY <1>1 DEF Playable, Listable
<1>3. Listed(ByGuid(item.showGuid), {i \in Items : i.guid = item.showGuid /\ i.type \in Listable})
  BY ByGuidIs
<1> QED BY <1>1, <1>2, <1>3 DEF Listed, Playable

LEMMA ImdbFinds ==
  ASSUME world \in World, NEW item \in Playable, NEW type, NEW id, AsksImdb(type, id, item),
         NEW show \in Items, show.key = item.show, Matchable(show), ~Shadowed(item, id),
         NEW m, m = StreamMedia(type, id)
  PROVE  Finds(m, item)
<1>1. /\ type = "series" /\ item.type = "episode" /\ item.number # Unnumbered
      /\ id[1] = "tt" /\ id[2] = item.showGuid[2] /\ id[3] = item.season /\ id[4] = item.number
      /\ Len(id) = 4 /\ item \in Items
  BY DEF AsksImdb, Playable
<1>2. show.guid = item.showGuid /\ show \in Playable
  BY <1>1, ShowIs
<1> DEFINE guids == IF CloudGuids(id[2]) # <<>> THEN CloudGuids(id[2]) ELSE LibraryGuids(id[2])
<1>3. guids = <<item.showGuid>>
  BY <1>1, <1>2, MatchIs
<1>4. \A other \in ToSet(ByGuid(item.showGuid)) : \A e \in ToSet(Episodes(other.key)) :
        e.season = item.season /\ e.number = item.number => e.guid = item.guid
  BY <1>1 DEF Shadowed
<1>5. EpisodeGuids(ByGuid(item.showGuid), item.season, item.number) = <<item.guid>>
  BY <1>1, <1>2, <1>4, EpisodeGuidIs
<1>6. PlexGuids(type, id) = EpisodeGuids(ByGuid(guids[1]), id[3], id[4])
  <2>1. guids # <<>>
    <3> HIDE DEF guids
    <3> QED BY <1>3
  <2> HIDE DEF guids
  <2> QED BY <1>1, <2>1 DEF PlexGuids, guids
<1> HIDE DEF guids
<1>7. PlexGuids(type, id) = <<item.guid>>
  BY <1>1, <1>3, <1>5, <1>6
<1>8. m = ByGuid(item.guid)
  <2>1. PICK found : found = PlexGuids(type, id)
    OBVIOUS
  <2>2. m = IF found = <<>> THEN <<>> ELSE ByGuid(found[1])
    BY <1>1, <2>1 DEF StreamMedia
  <2>3. found = <<item.guid>>
    BY <1>7, <2>1
  <2> QED BY <2>2, <2>3
<1> QED BY <1>8, GuidFinds

LEMMA NumberFinds ==
  ASSUME world \in World, NEW item \in Playable, NEW type, NEW id, AsksNumber(type, id, item),
         ~Shadowed(item, id), NEW m, m = StreamMedia(type, id)
  PROVE  Finds(m, item)
<1>1. /\ type = "series" /\ item.type = "episode" /\ item.number # Unnumbered
      /\ id[1] = "rk" /\ id[2] = item.show /\ id[3] = item.season /\ id[4] = item.number
      /\ Len(id) = 4 /\ item \in Items
  BY DEF AsksNumber, Playable
<1>2. PICK show \in Items : show.key = item.show
  BY DEF AsksNumber
<1>3. show \in Playable /\ show \in ToSet(ByGuid(item.showGuid))
  BY <1>1, <1>2, ShowIs
<1>4. ByRatingKey(item.show) # <<>> /\ ByRatingKey(item.show)[1] = show
  BY <1>2, <1>3, KeyFinds
<1>5. PICK hit : hit = Numbered(item.show, item.season, item.number)
  OBVIOUS
<1>6. m = IF hit = <<>> THEN <<>> ELSE ByRatingKey(hit[1].key)
  BY <1>1, <1>2, <1>4, <1>5 DEF StreamMedia, KeyMedia
<1>7. /\ hit \in Seq(AnyItem)
      /\ \A e \in ToSet(hit) : /\ e \in ToSet(Episodes(item.show))
                               /\ e.season = item.season /\ e.number = item.number
      /\ \A e \in ToSet(Episodes(item.show)) :
              e.season = item.season /\ e.number = item.number => hit # <<>>
  BY <1>5, NumberedIs
<1>8. hit # <<>>
  BY <1>1, <1>7, OwnEpisode
<1>9. hit[1] \in ToSet(hit)
  BY <1>7, <1>8, InDomain DEF ToSet
<1>10. hit[1].key = item.key
  BY <1>1, <1>2, <1>3, <1>7, <1>9 DEF Shadowed
<1>11. m = ByRatingKey(item.key)
  BY <1>6, <1>8, <1>10
<1> QED BY <1>11, KeyFinds

LEMMA StreamsHold == IInv => StreamsAreOfTheTitle
<1> SUFFICES ASSUME IInv, view.at = "streams" PROVE StreamsAreOfTheTitle
  BY DEF StreamsAreOfTheTitle
<1>1. world \in World /\ view.media = StreamMedia(view.type, view.id)
  BY DEF IInv, StreamsView
<1>2. PICK item \in Items : view.of = item.key /\ Asks(view.type, view.id, item)
  BY DEF IInv, StreamsView
<1>3. ItemOf(view.of) = item
  BY <1>1, <1>2, ItemOfIs
<1>4. item \in Playable
  BY <1>2 DEF Asks, AsksMovie, AsksVideo, AsksImdb, AsksNumber, Playable, Listable
<1> DEFINE reachable == IF view.id[1] # "tt" THEN TRUE
                        ELSE IF item.type = "movie" THEN Matchable(item)
                        ELSE \E show \in ToSet(world.items) :
                               show.key = item.show /\ show.type = "show" /\ Matchable(show)
           numbered == item.type = "episode" /\ Len(view.id) = 4
<1>5. ASSUME reachable, ~(numbered /\ Shadowed(item, view.id))
      PROVE  Finds(view.media, item)
  <2>1. CASE AsksMovie(view.type, view.id, item)
    <3>1. view.id[1] = "tt" => Matchable(item)
      BY <1>5, <2>1 DEF AsksMovie
    <3> QED BY <1>1, <1>4, <2>1, <3>1, MovieFinds
  <2>2. CASE AsksVideo(view.type, view.id, item)
    BY <1>1, <1>4, <2>2, VideoFinds
  <2>3. CASE AsksImdb(view.type, view.id, item)
    <3>1. view.id[1] = "tt" /\ numbered
      BY <2>3 DEF AsksImdb
    <3>2. item.type # "movie"
      BY <2>3 DEF AsksImdb
    <3>3. PICK show \in Items : show.key = item.show /\ Matchable(show)
      BY <1>5, <3>1, <3>2 DEF Items
    <3>4. ~Shadowed(item, view.id)
      BY <1>5, <3>1
    <3> QED BY <1>1, <1>4, <2>3, <3>3, <3>4, ImdbFinds
  <2>4. CASE AsksNumber(view.type, view.id, item)
    <3>1. numbered
      BY <2>4 DEF AsksNumber
    <3>2. ~Shadowed(item, view.id)
      BY <1>5, <3>1
    <3> QED BY <1>1, <1>4, <2>4, <3>2, NumberFinds
  <2> QED BY <1>2, <2>1, <2>2, <2>3, <2>4 DEF Asks
<1> QED BY <1>3, <1>5 DEF StreamsAreOfTheTitle, Finds

-----------------------------------------------------------------------------
(* The installation stays as it is, what is shown is of a known kind, and   *)
(* the pages seen list items of the library (get_catalog, get_meta and      *)
(* get_stream in routers/addon.py).                                         *)
THEOREM Types == Spec => []TypeOK
<1> QED BY Invariance, TypeHolds, PTL

(* Every catalog of the manifest is answered, with titles of its type       *)
(* alone, none of them twice (get_manifest and get_catalog).                *)
THEOREM CatalogsAreAnswered == Spec => []CatalogsAnswer
<1> QED BY Invariance, CatalogsHold, PTL

(* Scrolled to its end, a library has shown each of its titles once, for    *)
(* every page size and every library (get_section_media).                   *)
THEOREM PagesCoverSections == Spec => []PagesAreComplete
<1> QED BY Invariance, PagesHold, PTL

(* A title listed under an id of Plexio's own opens as itself, a series     *)
(* with all of its episodes (get_meta).                                     *)
THEOREM ListedTitlesHaveMetadata == Spec => []ListedTitlesOpen
<1> QED BY Invariance, TitlesHold, PTL

(* The streams offered are those of the title asked for, whichever kind of  *)
(* id was used, unless the matcher does not know it or another episode has  *)
(* its number (_resolve_stream_media, stremio_to_plex_id).                  *)
THEOREM StreamsBelongToTitles == Spec => []StreamsAreOfTheTitle
<1> QED BY Invariance, StreamsHold, PTL

(* Every link plays the file its description names, after any reordering of *)
(* the versions (get_stremio_streams).                                      *)
THEOREM LinksLeadToFiles == Spec => []LinksPlayTheirFile
<1> QED BY Invariance, LinksHold, PTL

(* No heavy version goes before a lighter one, whatever the limits are      *)
(* (_playback_priority).                                                    *)
THEOREM LightComesFirst == Spec => []LightVersionsFirst
<1> QED BY Invariance, LightHolds, PTL

(* Each version can be played directly once over each connection, over the  *)
(* selected one first (direct_play_connections).                            *)
THEOREM OneDirectLinkEach == Spec => []OneLinkPerConnection
<1> QED BY Invariance, ConnectionsHold, PTL
=============================================================================
