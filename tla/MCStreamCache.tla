--------------------------- MODULE MCStreamCache ---------------------------
(* The settings and kinds of id that TLC tries in StreamCache: the memory   *)
(* cache with both layers on and with either off, and Redis, whose faults   *)
(* multiply the states, where one layer or the look-up is short.            *)
EXTENDS StreamCache

Lookups(backend, routes, metadataTTLs, streamTTLs) ==
  [backend : {backend}, route : routes, metadata : metadataTTLs, stream : streamTTLs]

SomeSetups ==
  Lookups("memory", {"movie", "keyEpisode", "guid"}, {2}, {2})
    \cup Lookups("memory", {"episode"}, {1}, {1})
    \cup Lookups("memory", {"series", "episode"}, {0}, {0, 1})
    \cup Lookups("redis", {"key"}, {1}, {1})
    \cup Lookups("redis", {"series", "movie", "episode"}, {0}, {0, 1})

(* One request is answered under every host name the server has.            *)
OneHost == {"lan"}
TwoHosts == {"lan", "tunnel"}
=============================================================================
