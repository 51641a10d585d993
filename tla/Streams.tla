------------------------------ MODULE Streams ------------------------------
(***************************************************************************)
(* get_stremio_streams (models/plex.py): the choices a viewer gets for the *)
(* versions of one item, in the order in which they are offered, and what  *)
(* each link leads to; with the connections of models/addon.py that the    *)
(* direct links go through.  Labels and descriptions are left out but for  *)
(* the file a choice says it plays.                                        *)
(***************************************************************************)
EXTENDS PlexServer

CONSTANTS
  HighBitrate,   (* HIGH_BITRATE_THRESHOLD_KBPS                             *)
  HighSize       (* HIGH_SIZE_THRESHOLD_BYTES                               *)

ASSUME LimitAssumption == HighBitrate \in Nat /\ HighSize \in Nat

CodecRank(codec) ==
  CASE codec \in {"h264", "avc"} -> 0
    [] codec \in {"hevc", "h265"} -> 1
    [] codec = "vp9" -> 2
    [] codec = "av1" -> 3
    [] OTHER -> 4

ContainerRank(container) ==
  CASE container \in {"mp4", "m4v"} -> 0 [] container = "mkv" -> 1 [] OTHER -> 2

Heavy(version) == version.bitrate > HighBitrate \/ version.size > HighSize

Height(version) ==
  IF version.height # 0 THEN version.height
  ELSE CASE version.resolution \in {"4k", "2160"} -> 2160
         [] version.resolution = "1080" -> 1080
         [] version.resolution = "720" -> 720
         [] OTHER -> 0

(* An unknown bitrate comes last: the largest there can be.                 *)
Unbounded == 2147483647

MutPlaybackPriority(media, i) ==   (* Mutant: the codec goes before the size *)
  LET v == media[i]
  IN <<CodecRank(v.codec), IF Heavy(v) THEN 1 ELSE 0, ContainerRank(v.container),
       -Height(v), IF v.bitrate = 0 THEN Unbounded ELSE v.bitrate, i>>

(* _playback_priority of the i-th version                                   *)
PlaybackPriority(media, i) ==
  LET v == media[i]
  IN <<IF Heavy(v) THEN 1 ELSE 0, CodecRank(v.codec), ContainerRank(v.container),
       -Height(v), IF v.bitrate = 0 THEN Unbounded ELSE v.bitrate, i>>

Precedes(s, t) ==
  \E k \in DOMAIN s : s[k] < t[k] /\ \A j \in 1 .. k - 1 : s[j] = t[j]

(* The positions of the versions, best first.                               *)
Ordered(media) ==
  Arranged([i \in DOMAIN media |->
    {j \in DOMAIN media : Precedes(PlaybackPriority(media, j), PlaybackPriority(media, i))}])

MutDirectPlayConnections ==   (* Mutant: the slash is not stripped           *)
  LET urls == Distinct(<<world.options.selected>>
               \o (IF world.options.fallbacks THEN world.options.others ELSE <<>>))
  IN [i \in DOMAIN urls |-> urls[i].origin]

(* AddonConfiguration.direct_play_connections: a URL is an origin, with or  *)
(* without a slash at its end.                                              *)
DirectPlayConnections ==
  LET all == <<world.options.selected>>
               \o (IF world.options.fallbacks THEN world.options.others ELSE <<>>)
  IN Distinct([n \in DOMAIN all |-> all[n].origin])

(* Direct play: through Plexio if it reports playback, else one link for    *)
(* each connection.                                                         *)
DirectStreams(item, v) ==
  LET through(kind, base) ==
        [kind |-> kind, base |-> base, key |-> item.key, part |-> v.part, file |-> v.file]
      bases == DirectPlayConnections
  IN IF ~world.options.direct THEN <<>>
     ELSE IF world.options.proxied THEN <<through("play", "plexio")>>
     ELSE [i \in DOMAIN bases |-> through("direct", bases[i])]

MutTranscodeLink(item, i) ==   (* Mutant: the position after sorting         *)
  [path |-> item.key,
   mediaIndex |-> (CHOOSE n \in DOMAIN item.media : Ordered(item.media)[n] = i) - 1]

(* Transcoding: Plex is told the item and the position of the version.      *)
TranscodeLink(item, i) == [path |-> item.key, mediaIndex |-> i - 1]

(* One link to the whole version, and one per quality that is narrower.  A  *)
(* version without a width or without parts fails the whole request, here   *)
(* or in its direct link; such a one is not among a library's versions.     *)
TranscodeStreams(item, i) ==
  LET v == item.media[i]
      stream(kind) == [kind |-> kind, link |-> TranscodeLink(item, i), file |-> v.file]
      narrower == Select(world.options.down, LAMBDA q : v.width > q)
  IN (IF world.options.original THEN <<stream("original")>> ELSE <<>>)
       \o [n \in DOMAIN narrower |-> stream("down")]

ExternalStream(item) ==
  IF world.options.plexTv /\ item.guid[1] = "plex"
  THEN <<[kind |-> "external", file |-> "none"]>>
  ELSE <<>>

(* get_stremio_streams                                                      *)
StreamsOf(item) ==
  LET order == Ordered(item.media)
      OfVersion(i) == DirectStreams(item, item.media[i])
                        \o TranscodeStreams(item, i) \o ExternalStream(item)
  IN FlattenSeq([n \in DOMAIN order |-> OfVersion(order[n])])

(* get_stream: the streams of all the media the request is about.           *)
StreamResponse(media) ==
  FlattenSeq([n \in DOMAIN media |-> StreamsOf(media[n])])

(* What Plex plays behind a link: the file of a part, or the version at a   *)
(* position of an item.  get_play passes the part on and reports the key.   *)
Played(stream) ==
  IF stream.kind \in {"direct", "play"}
  THEN LET holds(i) == \E n \in DOMAIN i.media : i.media[n].part = stream.part
           item == Where(holds)[1]
           n == CHOOSE m \in DOMAIN item.media : item.media[m].part = stream.part
       IN [key |-> item.key, file |-> item.media[n].file]
  ELSE LET item == ByRatingKey(stream.link.path)[1]
       IN [key |-> item.key, file |-> item.media[stream.link.mediaIndex + 1].file]
=============================================================================
