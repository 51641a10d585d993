----------------------------- MODULE RateLimiter -----------------------------
(***************************************************************************)
(* plexio/rate_limit.py: InMemoryRateLimiter, a sliding window per client  *)
(* with a bound on the clients it remembers, in front of the unauthorised  *)
(* configuration endpoints.                                                *)
(*                                                                         *)
(* allow() awaits nothing but its own lock, and nobody awaits while        *)
(* holding that lock, so a call is one step of the event loop.             *)
(***************************************************************************)
EXTENDS Integers, FiniteSets, Sequences

CONSTANTS
  Clients,     (* the keys limit_public_api derives from requests           *)
  Requests,    (* requests: grants per window                               *)
  Window,      (* window_seconds, in ticks                                  *)
  MaxClients,  (* max_clients                                               *)
  MaxTime      (* the bound on the model: where the clock stops             *)

ASSUME LimitAssumption ==
  /\ Requests \in Nat \ {0}
  /\ Window \in Nat \ {0}
  /\ MaxClients \in Nat \ {0}
  /\ MaxTime \in Nat

VARIABLES
  now,      (* time.monotonic()                                             *)
  events,   (* _events: client -> its grant times, and who entered before   *)
  granted,  (* history: client -> its grants since it was last evicted      *)
  asked,    (* history: client -> when it last asked                        *)
  denied    (* history: client -> when it was last answered 429             *)

past == <<granted, asked, denied>>
vars == <<now, events, granted, asked, denied>>

Times == 0 .. MaxTime
LongAgo == -Window

(* A deque of the dictionary.  A Python dict iterates in insertion order;   *)
(* `older` holds the keys inserted before this one.                         *)
Entry == [times : Seq(Times), older : SUBSET Clients]

TypeOK ==
  /\ now \in Times
  /\ events = [c \in DOMAIN events |-> events[c]]
  /\ DOMAIN events \subseteq Clients
  /\ \A c \in DOMAIN events :
       events[c] \in Entry /\ Len(events[c].times) \in 1 .. Requests
  /\ granted \in [Clients -> Seq(Times)]
  /\ asked \in [Clients -> Times \cup {LongAgo}]
  /\ denied \in [Clients -> Times \cup {LongAgo}]

Init ==
  /\ now = 0
  /\ events = [c \in {} |-> [times |-> << >>, older |-> {}]]
  /\ granted = [c \in Clients |-> << >>]
  /\ asked = [c \in Clients |-> LongAgo]
  /\ denied = [c \in Clients |-> LongAgo]

-----------------------------------------------------------------------------
(* The dictionary and its deques.                                           *)

Expired(t) == t =< now - Window

(* The newest event of the deque is out of the window.                      *)
Stale(s) == s = << >> \/ Expired(s[Len(s)])

Full(d) == Cardinality(DOMAIN d) >= MaxClients

Forget(d, S) == [k \in DOMAIN d \ S |-> [d[k] EXCEPT !.older = @ \ S]]

Eldest(d) == {k \in DOMAIN d : d[k].older = {}}

EntryOf(d, c) ==
  IF c \in DOMAIN d THEN d[c] ELSE [times |-> << >>, older |-> DOMAIN d]

Put(d, c, s) ==
  [k \in DOMAIN d \cup {c} |->
     IF k = c THEN [times |-> s, older |-> EntryOf(d, c).older] ELSE d[k]]

Swept(d) == Forget(d, {k \in DOMAIN d : Stale(d[k].times)})

(* Mutant: the oldest entry goes without a sweep of the stale ones.         *)
MadeRoomUnswept(c) ==
  IF c \in DOMAIN events \/ ~Full(events) THEN {events}
  ELSE {Forget(events, {k}) : k \in Eldest(events)}

(* Mutant: only stale entries are removed.                                  *)
MadeRoomSweepsOnly(c) ==
  IF c \in DOMAIN events \/ ~Full(events) THEN {events} ELSE {Swept(events)}

(* The dictionary once there is room for c: a newcomer to a full dictionary *)
(* has the stale entries removed and then, if need be, the oldest one.      *)
MadeRoom(c) ==
  IF c \in DOMAIN events \/ ~Full(events) THEN {events}
  ELSE IF ~Full(Swept(events)) THEN {Swept(events)}
  ELSE {Forget(Swept(events), {k}) : k \in Eldest(Swept(events))}

(* Mutant: an event exactly one window old is not popped.                   *)
PoppedLate(s) ==
  {SubSeq(s, n + 1, Len(s)) : n \in {m \in 0 .. Len(s) :
     /\ \A i \in 1 .. m : s[i] < now - Window
     /\ m < Len(s) => s[m + 1] >= now - Window}}

(* Mutant: events are popped one tick early.                                *)
PoppedEarly(s) ==
  {SubSeq(s, n + 1, Len(s)) : n \in {m \in 0 .. Len(s) :
     /\ \A i \in 1 .. m : s[i] =< now - Window + 1
     /\ m < Len(s) => s[m + 1] > now - Window + 1}}

(* What is left of a deque after popleft() as long as its head has expired. *)
Popped(s) ==
  {SubSeq(s, n + 1, Len(s)) : n \in {m \in 0 .. Len(s) :
     /\ \A i \in 1 .. m : Expired(s[i])
     /\ m < Len(s) => ~Expired(s[m + 1])}}

-----------------------------------------------------------------------------
(* Those who lose a running quota because the dictionary is full.           *)
Evicted(d) == {k \in DOMAIN events \ DOMAIN d : ~Stale(events[k].times)}

(* Mutant: the comparison with the quota is off by one.                     *)
GrantOneMore(c, d, fresh) ==
  /\ Len(fresh) =< Requests
  /\ events' = Put(d, c, Append(fresh, now))
  /\ granted' = [k \in Clients |->
       IF k = c THEN Append(granted[k], now)
       ELSE IF k \in Evicted(d) THEN << >> ELSE granted[k]]
  /\ UNCHANGED denied

Grant(c, d, fresh) ==
  /\ Len(fresh) < Requests
  /\ events' = Put(d, c, Append(fresh, now))
  /\ granted' = [k \in Clients |->
       IF k = c THEN Append(granted[k], now)
       ELSE IF k \in Evicted(d) THEN << >> ELSE granted[k]]
  /\ UNCHANGED denied

(* 429 with Retry-After.  Only a client in the dictionary gets here, so     *)
(* nobody is evicted.                                                       *)
Deny(c, d, fresh) ==
  /\ Len(fresh) >= Requests
  /\ events' = Put(d, c, fresh)
  /\ denied' = [denied EXCEPT ![c] = now]
  /\ UNCHANGED granted

Allow(c) ==
  /\ \E d \in MadeRoom(c) : \E fresh \in Popped(EntryOf(d, c).times) :
       Grant(c, d, fresh) \/ Deny(c, d, fresh)
  /\ asked' = [asked EXCEPT ![c] = now]
  /\ UNCHANGED now

Tick ==
  /\ now < MaxTime
  /\ now' = now + 1
  /\ UNCHANGED <<events, past>>

Next == Tick \/ \E c \in Clients : Allow(c)

Spec == Init /\ [][Next]_vars

-----------------------------------------------------------------------------
(* Properties.                                                              *)

(* The dictionary never remembers more clients than it may: a newcomer to a *)
(* full one always finds something to remove.                               *)
MemoryBounded == Cardinality(DOMAIN events) =< MaxClients

(* The sliding window: of any Requests + 1 grants in a row to one client    *)
(* the last comes a full window after the first, wherever the window's      *)
(* edges fall and however often its entry was swept in between.  Being      *)
(* evicted from a full dictionary starts a client afresh.                   *)
QuotaKept ==
  \A c \in Clients : \A i \in 1 .. Len(granted[c]) :
    i + Requests =< Len(granted[c]) =>
      granted[c][i + Requests] - granted[c][i] >= Window

(* "Retry-After: 60" is the truth: whoever keeps quiet for a window is not  *)
(* refused, whatever the other clients did.                                 *)
RetryAfterIsEnough ==
  [][\A c \in Clients : denied'[c] # denied[c] => now - asked[c] < Window]_vars

(* A client with a running quota is only forgotten when every entry of a    *)
(* full dictionary has one.                                                 *)
EvictionIsLastResort ==
  [][(\E c \in DOMAIN events \ DOMAIN events' : ~Stale(events[c].times)) =>
       /\ Full(events)
       /\ \A k \in DOMAIN events : ~Stale(events[k].times)]_vars
=============================================================================
