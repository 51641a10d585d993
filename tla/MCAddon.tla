------------------------------ MODULE MCAddon ------------------------------
(* Installations and libraries for TLC: many libraries with one version of  *)
(* each item, and many sets of versions and options for one movie.          *)
EXTENDS Addon

Version(part, codec, bitrate, height) ==
  [part |-> part, file |-> "file " \o part, codec |-> codec, container |-> "mkv",
   height |-> height, resolution |-> "1080", width |-> 1920, bitrate |-> bitrate, size |-> 1]

Item(key, type, section, guid, imdb, added, media) ==
  [key |-> key, type |-> type, section |-> section, guid |-> guid, title |-> guid[2],
   imdb |-> imdb, added |-> added, media |-> media,
   show |-> "", showGuid |-> <<"", "">>, season |-> 0, number |-> 0]

OneVersion(key) == <<Version(key, "h264", 4, 1080)>>

Movie(key, section, guid, imdb, added) ==
  Item(key, "movie", section, guid, imdb, added, OneVersion(key))

Episode(key, show, showGuid, season, number) ==
  [Item(key, "episode", "S", <<showGuid[1], key>>, FALSE, 0, OneVersion(key))
     EXCEPT !.show = show, !.showGuid = showGuid, !.season = season, !.number = number]

(* By title: two copies of a movie, one with a local guid, one of the old   *)
(* agent; a show with a season and four episodes, two without number, the   *)
(* second of which takes the number 1; an episode whose show is not found.  *)
(* tagged: Plex has the show's IMDb id.                                     *)
AllItems(tagged) ==
  LET show == <<"plex", "s">>
  IN <<Movie("1", "A", <<"plex", "a">>, TRUE, 5),
       Movie("2", "B", <<"plex", "a">>, TRUE, 3),
       Movie("3", "A", <<"local", "b">>, FALSE, 4),
       Movie("4", "A", <<"imdb-agent", "c">>, FALSE, 6),
       Item("5", "show", "S", show, tagged, 2, <<>>),
       Item("6", "season", "S", <<"plex", "s1">>, FALSE, 2, <<>>),
       Episode("7", "5", show, 1, Unnumbered),
       Episode("11", "5", show, 1, Unnumbered),
       Episode("8", "5", show, 1, 1),
       Episode("9", "5", show, 1, 2),
       Episode("10", "lost", <<"custom", "x">>, 1, 1)>>

Server == <<[key |-> "A", type |-> "movie"], [key |-> "B", type |-> "movie"],
            [key |-> "S", type |-> "show"]>>

Plain == [direct |-> TRUE, fallbacks |-> FALSE, proxied |-> FALSE, original |-> TRUE,
          down |-> <<>>, plexTv |-> TRUE, selected |-> [origin |-> "lan", slash |-> FALSE],
          others |-> <<>>]

Installation(items, chosen, matched, collections, options) ==
  [items |-> items, server |-> Server, sections |-> SelectSeq(Server, LAMBDA s : s.key \in chosen),
   matched |-> matched, options |-> options, includeCollections |-> collections # <<>>,
   collections |-> collections,
   onDeck |-> SelectSeq(items, LAMBDA i : i.key \in {"3", "7", "8", "10"})]

Collected(section, type, members) ==
  <<[key |-> "77", section |-> section, type |-> type, members |-> members]>>

Libraries ==
  {Installation(SelectSeq(AllItems(tagged), LAMBDA i : i.key \notin missing), chosen, matched,
                <<>>, Plain) :
     tagged \in BOOLEAN,
     missing \in SUBSET {"2", "3", "5", "7", "11"},
     chosen \in {{"A"}, {"S"}, {"A", "S"}},
     matched \in {{}, {"a", "s"}, {"a", "c", "s"}}}

Collections ==
  {Installation(AllItems(TRUE), {"A", "S"}, {"a", "s"}, collections, Plain) :
     collections \in {Collected("A", "movie", <<"3", "3", "1", "4">>),
                      Collected("S", "show", <<"6", "5", "8">>)}}

(* Two copies of a show, the second with its first episode under the same   *)
(* guid and, if odd, with another title under the second's number.          *)
Copies ==
  {Installation(
     <<Item("1", "show", "S", <<"plex", "s">>, tagged, 2, <<>>),
       Item("2", "show", "S", <<"plex", "s">>, TRUE, 3, <<>>),
       Episode("3", "1", <<"plex", "s">>, 1, 1),
       Episode("4", "1", <<"plex", "s">>, 1, 2),
       [Episode("5", "2", <<"plex", "s">>, 1, 1) EXCEPT !.guid = <<"plex", "3">>, !.title = "3"],
       Episode("6", "2", <<"plex", "s">>, 1, IF odd THEN 2 ELSE 3)>>,
     {"S"}, matched, <<>>, Plain) : tagged, odd \in BOOLEAN, matched \in {{}, {"s"}}}

Versions ==
  {<<>>} \cup [1 .. 3 -> {Version("x", "h264", 9, 2160), Version("x", "hevc", 4, 1080),
                           Version("x", "h264", 0, 0), Version("x", "vc1", 4, 720)}]

(* Parts and files are told apart by their place.                           *)
Files(versions) ==
  [i \in DOMAIN versions |-> [versions[i] EXCEPT !.part = ToString(i), !.file = "file " \o ToString(i)]]

Options ==
  {[Plain EXCEPT !.fallbacks = fallbacks, !.proxied = proxied, !.down = <<1280>>,
                 !.selected.slash = slash,
                 !.others = <<[origin |-> "lan", slash |-> TRUE], [origin |-> "wan", slash |-> FALSE]>>] :
     fallbacks, proxied, slash \in BOOLEAN}

Offers ==
  {Installation(<<Item("1", "movie", "A", <<"plex", "a">>, FALSE, 5, Files(versions))>>,
                {"A"}, {"a"}, <<>>, options) :
     versions \in Versions, options \in Options}

Installations == Libraries \cup Collections \cup Copies \cup Offers

(* Two libraries of one kind, for the recently added.                       *)
TwoSections ==
  {Installation(SelectSeq(AllItems(TRUE), LAMBDA i : i.key \notin missing), {"A", "B", "S"}, {},
                <<>>, Plain) :
     missing \in SUBSET {"1", "3", "4"}}
=============================================================================
