-------------------------- MODULE RateLimiterProofs --------------------------
(***************************************************************************)
(* Theorems about RateLimiter for any clients, quota, window and bound on  *)
(* the dictionary.                                                         *)
(***************************************************************************)
EXTENDS RateLimiter, FiniteSetTheorems, SequenceTheorems, TLAPS

(* What the dictionary holds of a client: nothing if it is not there.       *)
Held(d, c) == EntryOf(d, c).times

MemoryInv == IsFiniteSet(DOMAIN events) /\ MemoryBounded

(* The grants g of a client end in what the dictionary holds of it, s, and  *)
(* those before have left the window.                                       *)
Recorded(g, s) ==
  /\ Len(s) =< Len(g)
  /\ \A i \in 1 .. Len(s) : s[i] = g[Len(g) - Len(s) + i]
  /\ \A i \in 1 .. Len(g) - Len(s) : Expired(g[i])

(* Grants are in the order of time and not in the future.                   *)
Ordered(g) ==
  /\ \A i \in 1 .. Len(g) : g[i] =< now
  /\ \A i, j \in 1 .. Len(g) : i =< j => g[i] =< g[j]

Spaced(g) ==
  \A i \in 1 .. Len(g) : i + Requests =< Len(g) => g[i + Requests] - g[i] >= Window

QuotaInv ==
  \A c \in Clients :
    /\ Recorded(granted[c], Held(events, c))
    /\ Ordered(granted[c])
    /\ Spaced(granted[c])

(* A client's events are no younger than its last call.                     *)
AskedInv ==
  \A c \in Clients :
    /\ asked[c] =< now
    /\ \A i \in 1 .. Len(Held(events, c)) : Held(events, c)[i] =< asked[c]

-----------------------------------------------------------------------------
(* The three ways in which there is room for c.                             *)
LEMMA RoomCases ==
  ASSUME NEW c \in Clients, NEW d \in MadeRoom(c)
  PROVE  \/ (c \in DOMAIN events \/ ~Full(events)) /\ d = events
         \/ c \notin DOMAIN events /\ ~Full(Swept(events)) /\ d = Swept(events)
         \/ /\ c \notin DOMAIN events
            /\ Full(events) /\ Full(Swept(events))
            /\ \E k \in Eldest(Swept(events)) : d = Forget(Swept(events), {k})
  BY DEF MadeRoom

(* Making room keeps what it does not remove, and changes nothing at all    *)
(* for a client that is in the dictionary.                                  *)
LEMMA RoomKeeps ==
  ASSUME NEW c \in Clients, NEW d \in MadeRoom(c), TypeOK
  PROVE  /\ DOMAIN d \subseteq DOMAIN events
         /\ \A k \in DOMAIN d : d[k] \in Entry /\ d[k].times = events[k].times
         /\ c \in DOMAIN events => d = events
  <1>1. \A k \in DOMAIN events : events[k] \in Entry
    BY DEF TypeOK
  <1>2. /\ DOMAIN Swept(events) \subseteq DOMAIN events
        /\ \A k \in DOMAIN Swept(events) :
             Swept(events)[k] \in Entry /\ Swept(events)[k].times = events[k].times
    BY <1>1 DEF Swept, Forget, Entry
  <1>3. ASSUME NEW k, d = Forget(Swept(events), {k})
        PROVE  /\ DOMAIN d \subseteq DOMAIN events
               /\ \A j \in DOMAIN d : d[j] \in Entry /\ d[j].times = events[j].times
    <2>1. /\ DOMAIN d = DOMAIN Swept(events) \ {k}
          /\ \A j \in DOMAIN d : d[j] \in Entry /\ d[j].times = events[j].times
      BY <1>2, <1>3 DEF Forget, Entry
    <2>2. QED BY <1>2, <2>1
  <1>4. QED BY <1>1, <1>2, <1>3, RoomCases

(* Whatever is removed to make room, a new entry then fits.                 *)
LEMMA RoomFits ==
  ASSUME NEW c \in Clients, NEW d \in MadeRoom(c), TypeOK, MemoryInv
  PROVE  /\ IsFiniteSet(DOMAIN d)
         /\ Cardinality(DOMAIN d) =< MaxClients
         /\ c \notin DOMAIN events => Cardinality(DOMAIN d) < MaxClients
  <1> DEFINE Swp == Swept(events)
  <1>1. /\ IsFiniteSet(DOMAIN events)
        /\ Cardinality(DOMAIN events) \in Nat
        /\ Cardinality(DOMAIN events) =< MaxClients
    BY FS_CardinalityType DEF MemoryInv, MemoryBounded
  <1>2. DOMAIN Swp \subseteq DOMAIN events
    BY DEF Swept, Forget
  <1>3. /\ IsFiniteSet(DOMAIN Swp)
        /\ Cardinality(DOMAIN Swp) \in Nat
        /\ Cardinality(DOMAIN Swp) =< Cardinality(DOMAIN events)
    BY <1>1, <1>2, FS_Subset, FS_CardinalityType
  <1>4. CASE (c \in DOMAIN events \/ ~Full(events)) /\ d = events
    BY <1>1, <1>4, LimitAssumption DEF Full
  <1>5. CASE ~Full(Swp) /\ d = Swp
    BY <1>3, <1>5, LimitAssumption DEF Full
  <1>6. ASSUME NEW k \in Eldest(Swp), d = Forget(Swp, {k})
        PROVE  IsFiniteSet(DOMAIN d) /\ Cardinality(DOMAIN d) < MaxClients
    <2>1. k \in DOMAIN Swp /\ DOMAIN d = DOMAIN Swp \ {k}
      BY <1>6 DEF Eldest, Forget
    <2>2. IsFiniteSet(DOMAIN d) /\ Cardinality(DOMAIN d) = Cardinality(DOMAIN Swp) - 1
      BY <1>3, <2>1, FS_RemoveElement
    <2>3. QED BY <1>1, <1>3, <2>2, LimitAssumption
  <1>7. CASE \E k \in Eldest(Swp) : d = Forget(Swp, {k})
    <2>1. IsFiniteSet(DOMAIN d) /\ Cardinality(DOMAIN d) < MaxClients
      BY <1>6, <1>7
    <2>2. Cardinality(DOMAIN d) \in Nat
      BY <2>1, FS_CardinalityType
    <2>3. QED BY <2>1, <2>2, LimitAssumption
  <1>8. QED BY <1>4, <1>5, <1>7, RoomCases

(* Popping leaves a suffix, of which the head has not expired.              *)
LEMMA PoppedSuffix ==
  ASSUME NEW s \in Seq(Times), NEW f \in Popped(s)
  PROVE  /\ f \in Seq(Times)
         /\ Len(f) =< Len(s)
         /\ \A i \in 1 .. Len(f) : f[i] = s[Len(s) - Len(f) + i]
         /\ \A i \in 1 .. Len(s) - Len(f) : Expired(s[i])
         /\ Len(f) > 0 => ~Expired(f[1])
  <1>1. PICK n \in 0 .. Len(s) :
          /\ f = SubSeq(s, n + 1, Len(s))
          /\ \A i \in 1 .. n : Expired(s[i])
          /\ n < Len(s) => ~Expired(s[n + 1])
    BY DEF Popped
  <1>2. Len(s) \in Nat
    BY LenProperties
  <1>3. /\ f \in Seq(Times)
        /\ Len(f) = Len(s) - n
        /\ \A i \in 1 .. Len(s) - n : f[i] = s[n + i]
    <2>1. \A i \in n + 1 .. Len(s) : s[i] \in Times
      BY <1>2, ElementOfSeq
    <2>2. /\ f \in Seq(Times)
          /\ Len(f) = IF n + 1 =< Len(s) THEN Len(s) - (n + 1) + 1 ELSE 0
          /\ \A i \in 1 .. Len(s) - (n + 1) + 1 : f[i] = s[n + 1 + i - 1]
      BY <1>1, <1>2, <2>1, SubSeqProperties
    <2>3. QED BY <1>2, <2>2
  <1>4. \A i \in 1 .. Len(f) : f[i] = s[Len(s) - Len(f) + i]
    BY <1>2, <1>3
  <1>5. Len(s) - Len(f) = n /\ Len(f) =< Len(s)
    BY <1>2, <1>3
  <1>6. ASSUME Len(f) > 0 PROVE ~Expired(f[1])
    <2>1. n < Len(s) /\ f[1] = s[n + 1]
      BY <1>2, <1>3, <1>6
    <2>2. QED BY <1>1, <2>1
  <1>7. QED BY <1>1, <1>3, <1>4, <1>5, <1>6

(* What the dictionary holds of a client is a sequence of times.            *)
LEMMA HeldType ==
  ASSUME NEW d, NEW c,
         \A k \in DOMAIN d : d[k] \in Entry
  PROVE  Held(d, c) \in Seq(Times)
  BY EmptySeq DEF Held, EntryOf, Entry

-----------------------------------------------------------------------------
(* Types.                                                                   *)
LEMMA TypeInit == Init => TypeOK
  <1> SUFFICES ASSUME Init PROVE TypeOK
    OBVIOUS
  <1>1. now \in Times
    BY LimitAssumption DEF Init, Times
  <1>2. granted \in [Clients -> Seq(Times)]
    BY EmptySeq DEF Init
  <1>3. DOMAIN events = {} /\ events = [c \in DOMAIN events |-> events[c]]
    BY DEF Init
  <1>4. QED BY <1>1, <1>2, <1>3 DEF Init, TypeOK

LEMMA TypeStep == TypeOK /\ [Next]_vars => TypeOK'
  <1> SUFFICES ASSUME TypeOK, [Next]_vars PROVE TypeOK'
    OBVIOUS
  <1>1. CASE Tick
    BY <1>1, LimitAssumption DEF Tick, TypeOK, past, Times
  <1>2. ASSUME NEW c \in Clients, Allow(c) PROVE TypeOK'
    <2>0. PICK d \in MadeRoom(c) : \E fresh \in Popped(EntryOf(d, c).times) :
            Grant(c, d, fresh) \/ Deny(c, d, fresh)
      BY <1>2 DEF Allow
    <2>1. PICK fresh \in Popped(EntryOf(d, c).times) :
            Grant(c, d, fresh) \/ Deny(c, d, fresh)
      BY <2>0
    <2>2. /\ DOMAIN d \subseteq DOMAIN events
          /\ \A k \in DOMAIN d : d[k] \in Entry /\ d[k].times = events[k].times
          /\ c \in DOMAIN events => d = events
      BY <2>1, RoomKeeps
    <2>3. EntryOf(d, c) \in Entry
      BY <2>2, EmptySeq DEF EntryOf, Entry, TypeOK
    <2>4. EntryOf(d, c).times \in Seq(Times)
      BY <2>3 DEF Entry
    <2>5. fresh \in Seq(Times) /\ Len(fresh) \in Nat /\ Len(fresh) =< Len(EntryOf(d, c).times)
      BY <2>1, <2>4, PoppedSuffix, LenProperties
    <2>6. Len(EntryOf(d, c).times) =< Requests
      BY <2>2, LimitAssumption DEF EntryOf, TypeOK
    <2>7. now' \in Times /\ asked' \in [Clients -> Times \cup {LongAgo}]
      BY <1>2 DEF Allow, TypeOK
    <2>8. ASSUME NEW s \in Seq(Times), Len(s) \in 1 .. Requests, events' = Put(d, c, s)
          PROVE  /\ events' = [k \in DOMAIN events' |-> events'[k]]
                 /\ DOMAIN events' \subseteq Clients
                 /\ \A k \in DOMAIN events' :
                      events'[k] \in Entry /\ Len(events'[k].times) \in 1 .. Requests
      <3>1. DOMAIN events' = DOMAIN d \cup {c}
        BY <2>8 DEF Put
      <3>2. events'[c] = [times |-> s, older |-> EntryOf(d, c).older]
        BY <2>8 DEF Put
      <3>3. \A k \in DOMAIN d \ {c} : events'[k] = d[k]
        BY <2>8 DEF Put
      <3>4. events'[c] \in Entry /\ events'[c].times = s
        BY <2>3, <3>2 DEF Entry
      <3>5. events' = [k \in DOMAIN events' |-> events'[k]]
        BY <2>8 DEF Put
      <3>6. \A k \in DOMAIN d : Len(d[k].times) \in 1 .. Requests
        BY <2>2 DEF TypeOK
      <3>7. DOMAIN events' \subseteq Clients
        BY <2>2, <3>1 DEF TypeOK
      <3>8. QED BY <2>2, <2>8, <3>1, <3>3, <3>4, <3>5, <3>6, <3>7
    <2>9. CASE Grant(c, d, fresh)
      <3>1. Append(fresh, now) \in Seq(Times) /\ Len(Append(fresh, now)) = Len(fresh) + 1
        BY <2>5, AppendProperties DEF TypeOK
      <3>2. \A k \in Clients : Append(granted[k], now) \in Seq(Times)
        BY AppendProperties DEF TypeOK
      <3>3. granted' \in [Clients -> Seq(Times)]
        BY <2>9, <3>2, EmptySeq DEF Grant, TypeOK
      <3>4. Len(Append(fresh, now)) \in 1 .. Requests
        BY <2>5, <2>9, <3>1, LimitAssumption DEF Grant
      <3>5. events' = Put(d, c, Append(fresh, now)) /\ denied' = denied
        BY <2>9 DEF Grant
      <3>6. QED BY <2>7, <2>8, <3>1, <3>3, <3>4, <3>5 DEF TypeOK
    <2>10. CASE Deny(c, d, fresh)
      <3>1. Len(fresh) \in 1 .. Requests
        BY <2>3, <2>4, <2>5, <2>6, <2>10, LimitAssumption, LenProperties DEF Deny
      <3>2. /\ events' = Put(d, c, fresh)
            /\ granted' = granted
            /\ denied' \in [Clients -> Times \cup {LongAgo}]
        BY <2>10 DEF Deny, TypeOK
      <3>3. QED BY <2>5, <2>7, <2>8, <3>1, <3>2 DEF TypeOK
    <2>11. QED BY <2>1, <2>9, <2>10
  <1>3. CASE UNCHANGED vars
    BY <1>3 DEF TypeOK, vars
  <1>4. QED BY <1>1, <1>2, <1>3 DEF Next

(* Times, quotas and the shape of the dictionary, in every reachable state. *)
THEOREM TypeCorrect == Spec => []TypeOK
  <1>1. QED BY TypeInit, TypeStep, PTL DEF Spec

-----------------------------------------------------------------------------
(* Memory.                                                                  *)
LEMMA MemoryStep == TypeOK /\ MemoryInv /\ [Next]_vars => MemoryInv'
  <1> SUFFICES ASSUME TypeOK, MemoryInv, [Next]_vars PROVE MemoryInv'
    OBVIOUS
  <1>1. CASE UNCHANGED events
    BY <1>1 DEF MemoryInv, MemoryBounded
  <1>2. ASSUME NEW c \in Clients, Allow(c) PROVE MemoryInv'
    <2>1. PICK d \in MadeRoom(c) : \E s : events' = Put(d, c, s)
      BY <1>2 DEF Allow, Grant, Deny
    <2>2. DOMAIN events' = DOMAIN d \cup {c}
      BY <2>1 DEF Put
    <2>3. IsFiniteSet(DOMAIN d) /\ Cardinality(DOMAIN d) \in Nat
      BY <2>1, RoomFits, FS_CardinalityType
    <2>4. /\ IsFiniteSet(DOMAIN events')
          /\ Cardinality(DOMAIN events') =
               IF c \in DOMAIN d THEN Cardinality(DOMAIN d) ELSE Cardinality(DOMAIN d) + 1
      BY <2>2, <2>3, FS_AddElement
    <2>5. c \notin DOMAIN d => c \notin DOMAIN events
      BY <2>1, RoomKeeps
    <2>6. /\ Cardinality(DOMAIN d) =< MaxClients
          /\ c \notin DOMAIN d => Cardinality(DOMAIN d) < MaxClients
      BY <2>1, <2>5, RoomFits
    <2>7. Cardinality(DOMAIN events') =< MaxClients
      BY <2>3, <2>4, <2>6, LimitAssumption
    <2>8. QED BY <2>4, <2>7 DEF MemoryInv, MemoryBounded
  <1>3. QED BY <1>1, <1>2 DEF Next, Tick, vars

LEMMA MemoryInvariant == Spec => [](TypeOK /\ MemoryInv)
  <1>1. Init => MemoryInv
    <2>1. SUFFICES ASSUME Init PROVE MemoryInv
      OBVIOUS
    <2>2. DOMAIN events = {}
      BY <2>1 DEF Init
    <2>3. QED BY <2>2, FS_EmptySet, LimitAssumption DEF MemoryInv, MemoryBounded
  <1>2. TypeOK /\ MemoryInv /\ [Next]_vars => (TypeOK /\ MemoryInv)'
    BY TypeStep, MemoryStep
  <1>3. QED BY TypeInit, <1>1, <1>2, PTL DEF Spec

(* However many clients come, no more than max_clients are remembered.      *)
THEOREM MemoryIsBounded == Spec => []MemoryBounded
  <1>1. MemoryInv => MemoryBounded
    BY DEF MemoryInv
  <1>2. QED BY <1>1, MemoryInvariant, PTL

(* A running quota is only dropped when there is nothing else to drop.      *)
THEOREM EvictsOnlyTheLive == Spec => EvictionIsLastResort
  <1>1. ASSUME TypeOK, MemoryInv, [Next]_vars
        PROVE  [(\E c \in DOMAIN events \ DOMAIN events' : ~Stale(events[c].times)) =>
             /\ Full(events)
             /\ \A k \in DOMAIN events : ~Stale(events[k].times)]_vars
    <2>1. CASE UNCHANGED events
      BY <2>1
    <2>2. ASSUME NEW c \in Clients, Allow(c),
                 NEW k \in DOMAIN events \ DOMAIN events', ~Stale(events[k].times)
          PROVE  /\ Full(events)
                 /\ \A j \in DOMAIN events : ~Stale(events[j].times)
      <3>1. PICK d \in MadeRoom(c) : \E s : events' = Put(d, c, s)
        BY <2>2 DEF Allow, Grant, Deny
      <3>2. k \in DOMAIN events \ DOMAIN d
        BY <2>2, <3>1 DEF Put
      <3>3. k \in DOMAIN Swept(events)
        BY <2>2 DEF Swept, Forget
      <3>4. Full(events) /\ Full(Swept(events))
        BY <3>1, <3>2, <3>3, RoomCases
      <3>5. DOMAIN Swept(events) = {j \in DOMAIN events : ~Stale(events[j].times)}
        BY DEF Swept, Forget
      <3>6. /\ IsFiniteSet(DOMAIN events)
            /\ Cardinality(DOMAIN events) \in Nat
            /\ Cardinality(DOMAIN events) =< MaxClients
        BY <1>1, FS_CardinalityType DEF MemoryInv, MemoryBounded
      <3>7. /\ Cardinality(DOMAIN Swept(events)) \in Nat
            /\ Cardinality(DOMAIN Swept(events)) =< Cardinality(DOMAIN events)
            /\ Cardinality(DOMAIN Swept(events)) = Cardinality(DOMAIN events)
                 => DOMAIN Swept(events) = DOMAIN events
        BY <3>5, <3>6, FS_Subset, FS_CardinalityType
      <3>8. DOMAIN Swept(events) = DOMAIN events
        BY <3>4, <3>6, <3>7, LimitAssumption DEF Full
      <3>9. QED BY <3>4, <3>5, <3>8
    <2>3. QED BY <1>1, <2>1, <2>2 DEF Next, Tick, vars
  <1>2. TypeOK /\ MemoryInv /\ [Next]_vars =>
          [(\E c \in DOMAIN events \ DOMAIN events' : ~Stale(events[c].times)) =>
             /\ Full(events)
             /\ \A k \in DOMAIN events : ~Stale(events[k].times)]_vars
    BY <1>1
  <1>3. QED BY <1>2, MemoryInvariant, PTL DEF Spec, EvictionIsLastResort

-----------------------------------------------------------------------------
(* Quotas.                                                                  *)

(* The grants of k that count when d is the dictionary.                     *)
Kept(d, k) == IF k \in Evicted(d) THEN << >> ELSE granted[k]

(* Making room leaves every client's record right.                          *)
LEMMA RoomRecords ==
  ASSUME NEW c \in Clients, NEW d \in MadeRoom(c), TypeOK, QuotaInv,
         NEW k \in Clients
  PROVE  /\ Recorded(Kept(d, k), Held(d, k))
         /\ Ordered(Kept(d, k))
         /\ Spaced(Kept(d, k))
  <1> DEFINE g == granted[k]
             s == Held(events, k)
  <1>1. g \in Seq(Times) /\ Len(g) \in Nat
    BY LenProperties DEF TypeOK
  <1>2. Recorded(g, s) /\ Ordered(g) /\ Spaced(g)
    BY DEF QuotaInv
  <1>3. /\ DOMAIN d \subseteq DOMAIN events
        /\ \A j \in DOMAIN d : d[j].times = events[j].times
    BY RoomKeeps
  <1>4. CASE k \in DOMAIN d
    <2>1. Kept(d, k) = g /\ Held(d, k) = s
      BY <1>3, <1>4 DEF Kept, Evicted, Held, EntryOf
    <2>2. QED BY <1>2, <2>1
  <1>5. CASE k \notin DOMAIN d /\ k \notin DOMAIN events
    <2>1. Kept(d, k) = g /\ Held(d, k) = s
      BY <1>5 DEF Kept, Evicted, Held, EntryOf
    <2>2. QED BY <1>2, <2>1
  <1>6. CASE k \in Evicted(d)
    <2>1. Kept(d, k) = << >> /\ Held(d, k) = << >>
      BY <1>6 DEF Kept, Evicted, Held, EntryOf
    <2>2. Len(<< >>) = 0
      OBVIOUS
    <2>3. QED BY <2>1, <2>2 DEF Recorded, Ordered, Spaced
  <1>7. CASE k \notin DOMAIN d /\ k \in DOMAIN events /\ k \notin Evicted(d)
    <2>1. Kept(d, k) = g /\ Held(d, k) = << >> /\ Stale(s) /\ s = events[k].times
      BY <1>7 DEF Kept, Evicted, Held, EntryOf
    <2>2. s \in Seq(Times) /\ Len(s) \in 1 .. Requests
      BY <1>7, <2>1 DEF TypeOK, Entry
    <2>3. Len(s) \in Nat \ {0} /\ s # << >>
      BY <2>2, LimitAssumption, LenProperties
    <2>4. Len(s) =< Len(g) /\ s[Len(s)] = g[Len(g)]
      BY <1>1, <1>2, <2>3 DEF Recorded
    <2>5. Expired(g[Len(g)])
      BY <2>1, <2>3, <2>4 DEF Stale
    <2>6. \A i \in 1 .. Len(g) : g[i] =< g[Len(g)] /\ g[i] \in Times
      BY <1>1, <1>2, ElementOfSeq DEF Ordered
    <2>7. \A i \in 1 .. Len(g) : Expired(g[i])
      <3>1. Len(g) \in 1 .. Len(g)
        BY <1>1, <2>3, <2>4
      <3>2. g[Len(g)] \in Int /\ now \in Int /\ Window \in Int
        BY <2>6, <3>1, LimitAssumption DEF TypeOK, Times
      <3>3. QED BY <2>5, <2>6, <3>2 DEF Expired, Times
    <2>8. Recorded(g, << >>)
      BY <1>1, <2>7 DEF Recorded
    <2>9. QED BY <1>2, <2>1, <2>8
  <1>8. QED BY <1>4, <1>5, <1>6, <1>7

(* Popping leaves the record right.                                         *)
LEMMA PopRecords ==
  ASSUME NEW g \in Seq(Times), NEW s \in Seq(Times), NEW f \in Popped(s),
         Recorded(g, s)
  PROVE  Recorded(g, f)
  <1>1. Len(g) \in Nat /\ Len(s) \in Nat
    BY LenProperties
  <1>2. /\ f \in Seq(Times)
        /\ Len(f) =< Len(s)
        /\ \A i \in 1 .. Len(f) : f[i] = s[Len(s) - Len(f) + i]
        /\ \A i \in 1 .. Len(s) - Len(f) : Expired(s[i])
    BY PoppedSuffix
  <1>3. Len(f) \in Nat
    BY <1>2, LenProperties
  <1>4. \A i \in 1 .. Len(f) : f[i] = g[Len(g) - Len(f) + i]
    <2>1. SUFFICES ASSUME NEW i \in 1 .. Len(f) PROVE f[i] = g[Len(g) - Len(f) + i]
      OBVIOUS
    <2>2. Len(s) - Len(f) + i \in 1 .. Len(s)
      BY <1>1, <1>2, <1>3
    <2>3. s[Len(s) - Len(f) + i] = g[Len(g) - Len(s) + (Len(s) - Len(f) + i)]
      BY <2>2 DEF Recorded
    <2>4. Len(g) - Len(s) + (Len(s) - Len(f) + i) = Len(g) - Len(f) + i
      BY <1>1, <1>3
    <2>5. QED BY <1>2, <2>3, <2>4
  <1>5. \A i \in 1 .. Len(g) - Len(f) : Expired(g[i])
    <2>1. SUFFICES ASSUME NEW i \in 1 .. Len(g) - Len(f) PROVE Expired(g[i])
      OBVIOUS
    <2>2. CASE i =< Len(g) - Len(s)
      BY <1>1, <2>2 DEF Recorded
    <2>3. CASE i > Len(g) - Len(s)
      <3> DEFINE j == i - (Len(g) - Len(s))
      <3>1. j \in 1 .. Len(s) /\ j =< Len(s) - Len(f) /\ j \in 1 .. Len(s) - Len(f)
        BY <1>1, <1>2, <1>3, <2>3
      <3>2. s[j] = g[Len(g) - Len(s) + j] /\ Len(g) - Len(s) + j = i
        BY <1>1, <3>1 DEF Recorded
      <3>3. QED BY <1>2, <3>1, <3>2
    <2>4. QED BY <1>1, <2>2, <2>3
  <1>6. QED BY <1>1, <1>2, <1>3, <1>4, <1>5 DEF Recorded

(* A grant within the quota keeps the window's spacing.                     *)
LEMMA GrantSpaces ==
  ASSUME NEW g \in Seq(Times), NEW f \in Seq(Times), TypeOK,
         Recorded(g, f), Ordered(g), Spaced(g), Len(f) < Requests
  PROVE  /\ Recorded(Append(g, now), Append(f, now))
         /\ Ordered(Append(g, now))
         /\ Spaced(Append(g, now))
  <1> DEFINE G == Append(g, now)
             F == Append(f, now)
  <1>1. /\ Len(g) \in Nat /\ Len(f) \in Nat
        /\ Requests \in Nat \ {0} /\ Window \in Nat
        /\ now \in Times /\ now \in Int
    BY LenProperties, LimitAssumption DEF TypeOK, Times
  <1>2. /\ Len(G) = Len(g) + 1
        /\ \A i \in 1 .. Len(g) : G[i] = g[i]
        /\ G[Len(g) + 1] = now
        /\ Len(F) = Len(f) + 1
        /\ \A i \in 1 .. Len(f) : F[i] = f[i]
        /\ F[Len(f) + 1] = now
    BY <1>1, AppendProperties
  <1>3. \A i \in 1 .. Len(g) : g[i] \in Int /\ g[i] =< now
    <2>1. \A i \in 1 .. Len(g) : g[i] \in Times
      BY ElementOfSeq
    <2>2. QED BY <2>1 DEF Times, Ordered
  <1>4. Recorded(G, F)
    <2>1. \A i \in 1 .. Len(F) : F[i] = G[Len(G) - Len(F) + i]
      <3>1. SUFFICES ASSUME NEW i \in 1 .. Len(F) PROVE F[i] = G[Len(G) - Len(F) + i]
        OBVIOUS
      <3>2. CASE i = Len(F)
        BY <1>1, <1>2, <3>2
      <3>3. CASE i # Len(F)
        <4>1. i \in 1 .. Len(f) /\ Len(g) - Len(f) + i \in 1 .. Len(g)
          BY <1>1, <1>2, <3>3 DEF Recorded
        <4>2. f[i] = g[Len(g) - Len(f) + i]
          BY <4>1 DEF Recorded
        <4>3. Len(G) - Len(F) + i = Len(g) - Len(f) + i
          BY <1>1, <1>2
        <4>4. QED BY <1>2, <4>1, <4>2, <4>3
      <3>4. QED BY <3>2, <3>3
    <2>2. \A i \in 1 .. Len(G) - Len(F) : Expired(G[i])
      <3>1. Len(G) - Len(F) = Len(g) - Len(f)
        BY <1>1, <1>2
      <3>2. \A i \in 1 .. Len(g) - Len(f) : i \in 1 .. Len(g)
        BY <1>1
      <3>3. QED BY <1>2, <3>1, <3>2 DEF Recorded
    <2>3. Len(F) =< Len(G)
      BY <1>1, <1>2 DEF Recorded
    <2>4. QED BY <2>1, <2>2, <2>3 DEF Recorded
  <1>5. Ordered(G)
    <2>1. \A i \in 1 .. Len(G) : G[i] =< now
      BY <1>1, <1>2, <1>3
    <2>2. \A i, j \in 1 .. Len(G) : i =< j => G[i] =< G[j]
      BY <1>1, <1>2, <1>3 DEF Ordered
    <2>3. QED BY <2>1, <2>2 DEF Ordered
  <1>6. Spaced(G)
    <2>1. SUFFICES ASSUME NEW i \in 1 .. Len(G), i + Requests =< Len(G)
                   PROVE G[i + Requests] - G[i] >= Window
      BY DEF Spaced
    <2>2. CASE i + Requests =< Len(g)
      <3>1. i \in 1 .. Len(g) /\ i + Requests \in 1 .. Len(g)
        BY <1>1, <2>2
      <3>2. QED BY <1>2, <2>2, <3>1 DEF Spaced
    <2>3. CASE i + Requests > Len(g)
      <3>1. i + Requests = Len(g) + 1
        BY <1>1, <1>2, <2>1, <2>3
      <3>2. i \in 1 .. Len(g) /\ i \in 1 .. Len(g) - Len(f)
        BY <1>1, <3>1
      <3>3. g[i] =< now - Window
        BY <3>2 DEF Recorded, Expired
      <3>4. G[i + Requests] = now /\ G[i] = g[i]
        BY <1>2, <3>1, <3>2
      <3>5. QED BY <1>1, <1>3, <3>2, <3>3, <3>4
    <2>4. i + Requests \in Int /\ Len(g) \in Int
      BY <1>1, <2>1
    <2>5. i + Requests =< Len(g) \/ i + Requests > Len(g)
      BY <2>4
    <2> HIDE DEF G
    <2>6. QED BY <2>2, <2>3, <2>5
  <1>7. QED BY <1>4, <1>5, <1>6

LEMMA QuotaInit == Init => QuotaInv
  <1>1. SUFFICES ASSUME Init, NEW c \in Clients
                 PROVE  /\ Recorded(granted[c], Held(events, c))
                        /\ Ordered(granted[c])
                        /\ Spaced(granted[c])
    BY DEF QuotaInv
  <1>2. granted[c] = << >> /\ Held(events, c) = << >>
    BY <1>1 DEF Init, Held, EntryOf
  <1>3. Len(<< >>) = 0
    OBVIOUS
  <1>4. QED BY <1>2, <1>3 DEF Recorded, Ordered, Spaced

(* Time passing expires events and never the other way round.               *)
LEMMA QuotaTick == TypeOK /\ QuotaInv /\ Tick => QuotaInv'
  <1>1. SUFFICES ASSUME TypeOK, QuotaInv, Tick, NEW c \in Clients
                 PROVE  (/\ Recorded(granted[c], Held(events, c))
                         /\ Ordered(granted[c])
                         /\ Spaced(granted[c]))'
    BY DEF QuotaInv
  <1>2. /\ granted' = granted /\ events' = events /\ now' = now + 1
        /\ now \in Int /\ Window \in Int
    BY <1>1, LimitAssumption DEF Tick, past, TypeOK, Times
  <1>3. \A i \in 1 .. Len(granted[c]) : granted[c][i] \in Int
    <2>1. \A i \in 1 .. Len(granted[c]) : granted[c][i] \in Times
      BY <1>1, ElementOfSeq DEF TypeOK
    <2>2. QED BY <2>1 DEF Times
  <1>4. Recorded(granted[c], Held(events, c)) /\ Ordered(granted[c]) /\ Spaced(granted[c])
    BY <1>1 DEF QuotaInv
  <1>5. Held(events, c)' = Held(events, c)
    BY <1>2 DEF Held, EntryOf
  <1>6. Spaced(granted[c])'
    BY <1>2, <1>4 DEF Spaced
  <1>7. Ordered(granted[c])'
    BY <1>2, <1>3, <1>4 DEF Ordered
  <1>8. Len(granted[c]) \in Nat /\ Len(Held(events, c)) \in Nat
    BY <1>1, HeldType, LenProperties DEF TypeOK
  <1>9. Recorded(granted[c], Held(events, c))'
    BY <1>2, <1>3, <1>4, <1>5, <1>8 DEF Recorded, Expired
  <1>10. QED BY <1>6, <1>7, <1>9

(* A call keeps every client's record: the caller's by popping and perhaps  *)
(* a grant, the others' by making room.                                     *)
LEMMA QuotaAllow ==
  ASSUME NEW c \in Clients, TypeOK, QuotaInv, Allow(c)
  PROVE  QuotaInv'
  <1>1. PICK d \in MadeRoom(c) : \E f \in Popped(EntryOf(d, c).times) :
          Grant(c, d, f) \/ Deny(c, d, f)
    BY DEF Allow
  <1>2. PICK f \in Popped(EntryOf(d, c).times) : Grant(c, d, f) \/ Deny(c, d, f)
    BY <1>1
  <1>3. \A k \in Clients : /\ Recorded(Kept(d, k), Held(d, k))
                           /\ Ordered(Kept(d, k))
                           /\ Spaced(Kept(d, k))
    BY <1>1, RoomRecords
  <1>4. /\ DOMAIN d \subseteq DOMAIN events
        /\ \A k \in DOMAIN d : d[k] \in Entry
        /\ c \in DOMAIN events => d = events
    BY <1>1, RoomKeeps
  <1>5. Held(d, c) \in Seq(Times) /\ f \in Popped(Held(d, c))
    BY <1>2, <1>4, HeldType DEF Held
  <1>6. f \in Seq(Times) /\ Len(f) \in Nat /\ Len(f) =< Len(Held(d, c))
    BY <1>5, PoppedSuffix, LenProperties
  <1>7. granted[c] \in Seq(Times)
    BY DEF TypeOK
  <1>8. c \notin Evicted(d) /\ Kept(d, c) = granted[c]
    BY <1>4 DEF Evicted, Kept
  <1>9. Recorded(granted[c], f) /\ Ordered(granted[c]) /\ Spaced(granted[c])
    BY <1>3, <1>5, <1>7, <1>8, PopRecords
  <1>10. now' = now
    BY DEF Allow
  <1>11. ASSUME NEW s, events' = Put(d, c, s)
         PROVE  /\ Held(events', c) = s
                /\ \A k \in Clients \ {c} : Held(events', k) = Held(d, k)
    BY <1>11 DEF Put, Held, EntryOf
  <1>12. ASSUME NEW g, NEW s, Recorded(g, s), Ordered(g), Spaced(g),
                NEW k \in Clients, granted'[k] = g, Held(events', k) = s
         PROVE  (/\ Recorded(granted[k], Held(events, k))
                 /\ Ordered(granted[k])
                 /\ Spaced(granted[k]))'
    <2>1. Held(events, k)' = Held(events', k)
      BY DEF Held, EntryOf
    <2>2. QED BY <1>10, <1>12, <2>1 DEF Recorded, Ordered, Spaced, Expired
  <1>13. CASE Grant(c, d, f)
    <2>1. /\ events' = Put(d, c, Append(f, now))
          /\ granted'[c] = Append(granted[c], now)
          /\ \A k \in Clients \ {c} : granted'[k] = Kept(d, k)
      BY <1>13 DEF Grant, Kept
    <2>2. /\ Recorded(Append(granted[c], now), Append(f, now))
          /\ Ordered(Append(granted[c], now))
          /\ Spaced(Append(granted[c], now))
      BY <1>6, <1>7, <1>9, <1>13, GrantSpaces DEF Grant
    <2>3. Held(events', c) = Append(f, now)
      BY <1>11, <2>1
    <2>4. \A k \in Clients \ {c} : Held(events', k) = Held(d, k)
      BY <1>11, <2>1
    <2>5. (/\ Recorded(granted[c], Held(events, c))
           /\ Ordered(granted[c])
           /\ Spaced(granted[c]))'
      BY <1>12, <2>1, <2>2, <2>3
    <2>6. \A k \in Clients \ {c} : (/\ Recorded(granted[k], Held(events, k))
                                    /\ Ordered(granted[k])
                                    /\ Spaced(granted[k]))'
      BY <1>3, <1>12, <2>1, <2>4
    <2>7. QED BY <2>5, <2>6 DEF QuotaInv
  <1>14. CASE Deny(c, d, f)
    <2>1. events' = Put(d, c, f) /\ granted' = granted /\ Len(f) >= Requests
      BY <1>14 DEF Deny
    <2>2. c \in DOMAIN d
      <3>1. SUFFICES ASSUME c \notin DOMAIN d PROVE FALSE
        OBVIOUS
      <3>2. Len(Held(d, c)) = 0
        BY <3>1 DEF Held, EntryOf
      <3>3. QED BY <1>6, <2>1, <3>2, LimitAssumption
    <2>3. d = events /\ \A k \in Clients : Kept(d, k) = granted[k]
      BY <1>4, <2>2 DEF Kept, Evicted
    <2>4. Held(events', c) = f /\ \A k \in Clients \ {c} : Held(events', k) = Held(d, k)
      BY <1>11, <2>1
    <2>5. \A k \in Clients : (/\ Recorded(granted[k], Held(events, k))
                              /\ Ordered(granted[k])
                              /\ Spaced(granted[k]))'
      BY <1>3, <1>9, <1>12, <2>1, <2>3, <2>4
    <2>6. QED BY <2>5 DEF QuotaInv
  <1>15. QED BY <1>2, <1>13, <1>14

(* The sliding window is enforced for every quota and window.               *)
THEOREM QuotaIsKept == Spec => []QuotaKept
  <1>1. TypeOK /\ QuotaInv /\ [Next]_vars => QuotaInv'
    <2>1. SUFFICES ASSUME TypeOK, QuotaInv, [Next]_vars PROVE QuotaInv'
      OBVIOUS
    <2>2. CASE UNCHANGED vars
      BY <2>1, <2>2 DEF vars, QuotaInv, Recorded, Ordered, Spaced, Expired, Held, EntryOf
    <2>3. QED BY <2>1, <2>2, QuotaTick, QuotaAllow DEF Next
  <1>2. QuotaInv => QuotaKept
    BY DEF QuotaInv, QuotaKept, Spaced
  <1>3. QED BY <1>1, <1>2, QuotaInit, TypeInit, TypeStep, PTL DEF Spec

-----------------------------------------------------------------------------
(* Retry-After.                                                             *)
LEMMA AskedInit == Init => AskedInv
  <1>1. SUFFICES ASSUME Init, NEW c \in Clients
                 PROVE  /\ asked[c] =< now
                        /\ \A i \in 1 .. Len(Held(events, c)) : Held(events, c)[i] =< asked[c]
    BY DEF AskedInv
  <1>2. Held(events, c) = << >> /\ Len(<< >>) = 0
    BY <1>1 DEF Init, Held, EntryOf
  <1>3. asked[c] =< now
    BY <1>1, LimitAssumption DEF Init, LongAgo
  <1>4. QED BY <1>2, <1>3

(* A call by c leaves the others' entries alone, or removes them.           *)
LEMMA AskedStep == TypeOK /\ AskedInv /\ [Next]_vars => AskedInv'
  <1> SUFFICES ASSUME TypeOK, AskedInv, [Next]_vars PROVE AskedInv'
    OBVIOUS
  <1>1. CASE UNCHANGED vars
    BY <1>1 DEF vars, AskedInv, Held, EntryOf
  <1>2. CASE Tick
    <2>1. /\ asked' = asked /\ events' = events /\ now' = now + 1
          /\ \A c \in Clients : asked[c] \in Int
          /\ now \in Int
      BY <1>2, LimitAssumption DEF Tick, past, TypeOK, Times, LongAgo
    <2>2. \A c \in Clients : Held(events, c)' = Held(events, c)
      BY <2>1 DEF Held, EntryOf
    <2>3. QED BY <2>1, <2>2 DEF AskedInv
  <1>3. ASSUME NEW c \in Clients, Allow(c) PROVE AskedInv'
    <2>1. PICK d \in MadeRoom(c) : \E f \in Popped(EntryOf(d, c).times) :
            Grant(c, d, f) \/ Deny(c, d, f)
      BY <1>3 DEF Allow
    <2>2. PICK f \in Popped(Held(d, c)) : Grant(c, d, f) \/ Deny(c, d, f)
      BY <2>1 DEF Held
    <2>3. /\ DOMAIN d \subseteq DOMAIN events
          /\ \A k \in DOMAIN d : d[k] \in Entry /\ d[k].times = events[k].times
          /\ c \in DOMAIN events => d = events
      BY <2>1, RoomKeeps
    <2>4. Held(d, c) = Held(events, c)
      BY <2>3 DEF Held, EntryOf
    <2>5. Held(d, c) \in Seq(Times)
      BY <2>3, HeldType
    <2>6. /\ f \in Seq(Times)
          /\ Len(f) \in Nat /\ Len(Held(d, c)) \in Nat
          /\ Len(f) =< Len(Held(d, c))
          /\ \A i \in 1 .. Len(f) : f[i] = Held(d, c)[Len(Held(d, c)) - Len(f) + i]
      BY <2>5, PoppedSuffix, LenProperties
    <2>7. \A i \in 1 .. Len(f) : f[i] =< now
      <3>1. SUFFICES ASSUME NEW i \in 1 .. Len(f) PROVE f[i] =< now
        OBVIOUS
      <3>2. Len(Held(d, c)) - Len(f) + i \in 1 .. Len(Held(d, c))
        BY <2>6
      <3>3. f[i] =< asked[c] /\ asked[c] =< now
        BY <2>4, <2>6, <3>2 DEF AskedInv
      <3>4. f[i] \in Int /\ asked[c] \in Int /\ now \in Int
        <4>1. f[i] \in Times
          BY <2>6, ElementOfSeq
        <4>2. QED BY <4>1, LimitAssumption DEF TypeOK, Times, LongAgo
      <3>5. QED BY <3>3, <3>4
    <2>8. /\ now' = now /\ now \in Times /\ now \in Int
          /\ asked' = [asked EXCEPT ![c] = now]
          /\ asked \in [Clients -> Times \cup {LongAgo}]
      BY <1>3 DEF Allow, TypeOK, Times
    <2>9. PICK s : events' = Put(d, c, s) /\ s \in {f, Append(f, now)}
      BY <2>2 DEF Grant, Deny
    <2>10. \A i \in 1 .. Len(s) : s[i] =< now
      <3>1. /\ Len(Append(f, now)) = Len(f) + 1
            /\ \A i \in 1 .. Len(f) : Append(f, now)[i] = f[i]
            /\ Append(f, now)[Len(f) + 1] = now
        BY <2>6, <2>8, AppendProperties
      <3>2. \A i \in 1 .. Len(Append(f, now)) : Append(f, now)[i] =< now
        BY <2>6, <2>7, <2>8, <3>1
      <3>3. QED BY <2>7, <2>9, <3>2
    <2>11. /\ Held(events, c)' = s
           /\ \A k \in Clients \ {c} : Held(events, k)' = Held(d, k)
      BY <2>9 DEF Put, Held, EntryOf
    <2>12. \A k \in Clients \ {c} : Held(d, k) = Held(events, k) \/ Len(Held(d, k)) = 0
      BY <2>3 DEF Held, EntryOf
    <2>13. ASSUME NEW k \in Clients
           PROVE  (/\ asked[k] =< now
                   /\ \A i \in 1 .. Len(Held(events, k)) : Held(events, k)[i] =< asked[k])'
      <3>1. CASE k = c
        BY <2>8, <2>10, <2>11, <3>1
      <3>2. CASE k # c
        <4>1. asked'[k] = asked[k] /\ asked[k] =< now'
          BY <2>8, <3>2 DEF AskedInv
        <4>2. \A i \in 1 .. Len(Held(d, k)) : Held(d, k)[i] =< asked[k]
          BY <2>12, <3>2 DEF AskedInv
        <4>3. QED BY <2>11, <3>2, <4>1, <4>2
      <3>3. QED BY <3>1, <3>2
    <2>14. QED BY <2>13 DEF AskedInv
  <1>4. QED BY <1>1, <1>2, <1>3 DEF Next

(* A client that keeps quiet for a window is served.                        *)
THEOREM RetryAfterIsTrue == Spec => RetryAfterIsEnough
  <1>1. ASSUME TypeOK, AskedInv, [Next]_vars
        PROVE  [\A c \in Clients : denied'[c] # denied[c] => now - asked[c] < Window]_vars
    <2>1. SUFFICES ASSUME NEW k \in Clients, denied'[k] # denied[k]
                   PROVE  now - asked[k] < Window
      OBVIOUS
    <2>2. PICK c \in Clients : Allow(c)
      BY <1>1, <2>1 DEF Next, Tick, past, vars
    <2>3. PICK d \in MadeRoom(c) : \E f \in Popped(EntryOf(d, c).times) :
            Grant(c, d, f) \/ Deny(c, d, f)
      BY <2>2 DEF Allow
    <2>4. PICK f \in Popped(Held(d, c)) : Grant(c, d, f) \/ Deny(c, d, f)
      BY <2>3 DEF Held
    <2>5. k = c /\ Len(f) >= Requests
      BY <1>1, <2>1, <2>4 DEF Grant, Deny, TypeOK
    <2>6. /\ \A j \in DOMAIN d : d[j] \in Entry
          /\ DOMAIN d \subseteq DOMAIN events
          /\ c \in DOMAIN events => d = events
      BY <1>1, <2>3, RoomKeeps
    <2>7. Held(d, c) = Held(events, c)
      BY <2>6 DEF Held, EntryOf
    <2>8. Held(d, c) \in Seq(Times)
      BY <2>6, HeldType
    <2>9. /\ f \in Seq(Times)
          /\ Len(f) \in Nat /\ Len(Held(d, c)) \in Nat
          /\ Len(f) =< Len(Held(d, c))
          /\ \A i \in 1 .. Len(f) : f[i] = Held(d, c)[Len(Held(d, c)) - Len(f) + i]
          /\ Len(f) > 0 => ~Expired(f[1])
      BY <2>8, PoppedSuffix, LenProperties
    <2>10. Len(f) > 0 /\ 1 \in 1 .. Len(f)
      BY <2>5, <2>9, LimitAssumption
    <2>11. Len(Held(d, c)) - Len(f) + 1 \in 1 .. Len(Held(d, c))
      BY <2>9, <2>10
    <2>12. f[1] =< asked[c]
      BY <1>1, <2>7, <2>9, <2>10, <2>11 DEF AskedInv
    <2>13. ~(f[1] =< now - Window)
      BY <2>9, <2>10 DEF Expired
    <2>14. f[1] \in Int /\ asked[c] \in Int /\ now \in Int /\ Window \in Int
      <3>1. f[1] \in Times
        BY <2>9, <2>10, ElementOfSeq
      <3>2. QED BY <1>1, <3>1, LimitAssumption DEF TypeOK, Times, LongAgo
    <2>15. QED BY <2>5, <2>12, <2>13, <2>14
  <1>2. TypeOK /\ AskedInv /\ [Next]_vars =>
          [\A c \in Clients : denied'[c] # denied[c] => now - asked[c] < Window]_vars
    BY <1>1
  <1>3. QED BY <1>2, AskedInit, AskedStep, TypeInit, TypeStep, PTL DEF Spec,
      RetryAfterIsEnough
=============================================================================
