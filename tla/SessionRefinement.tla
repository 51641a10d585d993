------------------------- MODULE SessionRefinement --------------------------
(***************************************************************************)
(* SessionStore implements SessionRegistry: clients of the HTTP API cannot *)
(* tell the store, with its shared connection and its statements spread    *)
(* over awaits, from a registry that changes atomically and durably.       *)
(***************************************************************************)
EXTENDS SessionStoreProofs

(* The ids that are inserted but not committed: at most one, inserted by    *)
(* the create that holds the lock.                                          *)
Pending == DOMAIN work \ DOMAIN disk

PendingInv ==
  /\ Legacy \subseteq minted
  /\ \A i \in Pending :
       /\ i \notin Legacy
       /\ \E p \in Procs : pc[p] = "commitCreate" /\ sid[p] = i

LEMMA PendingInit == Init => PendingInv
  BY DEF Init, PendingInv, Pending

LEMMA PendingStep == TypeInv /\ PendingInv /\ [Next]_vars => PendingInv'
  <1> SUFFICES ASSUME TypeInv, PendingInv, [Next]_vars PROVE PendingInv'
    OBVIOUS
  <1> USE DEF Go, table, local, history
  <1>1. ASSUME NEW p \in Procs, StartCreate(p) PROVE PendingInv'
    BY <1>1 DEF StartCreate, PendingInv, Pending, TypeInv, TypeOK
  <1>2. ASSUME NEW p \in Procs, Acquire(p) PROVE PendingInv'
    BY <1>2 DEF Acquire, PendingInv, Pending, TypeInv, TypeOK
  <1>3. ASSUME NEW p \in Procs, SelectExisting(p) PROVE PendingInv'
    BY <1>3 DEF SelectExisting, PendingInv, Pending, TypeInv, TypeOK
  <1>4. ASSUME NEW p \in Procs, Touch(p) PROVE PendingInv'
    BY <1>4 DEF Touch, PendingInv, Pending, TypeInv, TypeOK
  <1>5. ASSUME NEW p \in Procs, Count(p) PROVE PendingInv'
    BY <1>5 DEF Count, Return, PendingInv, Pending, TypeInv, TypeOK
  <1>6. ASSUME NEW p \in Procs, Insert(p) PROVE PendingInv'
    <2>1. PICK i \in Ids \ minted :
            /\ sid' = [sid EXCEPT ![p] = i]
            /\ minted' = minted \cup {i}
            /\ work' = Inserted(work, i, [cfg |-> cfg[p], enc |-> key, hash |-> cfg[p]])
      BY <1>6 DEF Insert
    <2>2. DOMAIN work' = DOMAIN work \cup {i} /\ disk' = disk
      BY <1>6, <2>1 DEF Inserted, Insert
    <2>3. Pending' \subseteq Pending \cup {i}
      BY <2>2 DEF Pending
    <2>4. ASSUME NEW j \in Pending PROVE FALSE
      <3>1. PICK q \in Procs : pc[q] = "commitCreate" /\ sid[q] = j
        BY DEF PendingInv
      <3>2. q = p
        BY <1>6, <3>1 DEF Insert, TypeInv, LockExcludes, HoldsLock, Locked, CreateLabels
      <3>3. QED BY <1>6, <3>1, <3>2 DEF Insert
    <2>5. QED
      BY <1>6, <2>1, <2>3, <2>4 DEF Insert, PendingInv, TypeInv, TypeOK
  <1>7. ASSUME NEW p \in Procs, CommitCreate(p) PROVE PendingInv'
    BY <1>7 DEF CommitCreate, CommitAll, PendingInv, Pending
  <1>8. ASSUME NEW p \in Procs, StartGet(p) PROVE PendingInv'
    BY <1>8 DEF StartGet, PendingInv, Pending, TypeInv, TypeOK
  <1>9. ASSUME NEW p \in Procs, Read(p) PROVE PendingInv'
    BY <1>9 DEF Read, Return, PendingInv, Pending, TypeInv, TypeOK
  <1>10. ASSUME NEW p \in Procs, Save(p) PROVE PendingInv'
    <2>1. DOMAIN work' = DOMAIN work /\ disk' = disk
      BY <1>10 DEF Save
    <2>2. Pending' = Pending
      BY <2>1 DEF Pending
    <2>3. QED BY <1>10, <2>2 DEF Save, PendingInv, TypeInv, TypeOK
  <1>11. ASSUME NEW p \in Procs, CommitGet(p) PROVE PendingInv'
    BY <1>11 DEF CommitGet, CommitAll, PendingInv, Pending
  <1>12. ASSUME NEW p \in Procs, StartDelete(p) PROVE PendingInv'
    BY <1>12 DEF StartDelete, PendingInv, Pending, TypeInv, TypeOK
  <1>13. ASSUME NEW p \in Procs, Remove(p) PROVE PendingInv'
    <2>1. DOMAIN work' \subseteq DOMAIN work /\ disk' = disk
      BY <1>13 DEF Remove, Deleted
    <2>2. Pending' \subseteq Pending
      BY <2>1 DEF Pending
    <2>3. QED BY <1>13, <2>2 DEF Remove, PendingInv, TypeInv, TypeOK
  <1>14. ASSUME NEW p \in Procs, CommitDelete(p) PROVE PendingInv'
    BY <1>14 DEF CommitDelete, CommitAll, PendingInv, Pending
  <1>15. ASSUME Restart PROVE PendingInv'
    BY <1>15 DEF Restart, PendingInv, Pending
  <1>16. CASE UNCHANGED vars
    BY <1>16 DEF vars, PendingInv, Pending
  <1>17. QED
    BY <1>1, <1>2, <1>3, <1>4, <1>5, <1>6, <1>7, <1>8, <1>9, <1>10, <1>11, <1>12,
        <1>13, <1>14, <1>15, <1>16 DEF Next, Start, Step

LEMMA RefinementInvariant ==
  Spec => [](TypeInv /\ SafeInv /\ CapacityInv /\ PendingInv)
  <1>1. Init => CapacityInv /\ PendingInv
    BY CapacityInit, PendingInit
  <1>2. TypeInv /\ CapacityInv /\ PendingInv /\ [Next]_vars
          => (CapacityInv /\ PendingInv)'
    BY CapacityStep, PendingStep
  <1>3. QED BY <1>1, <1>2, StoreInvariant, PTL DEF Spec

-----------------------------------------------------------------------------
(* The mapping of the table.                                                *)
Sessions == [i \in DOMAIN disk |-> disk[i].cfg]
Spent == minted \ (DOMAIN work \ DOMAIN disk)

LEMMA MappedInit == Init => Registry!RegistryInit
  BY DEF Init, Registry!RegistryInit

(* The registry counts as the store does.                                   *)
LEMMA SameCardinality == \A S : Registry!Cardinality(S) = Cardinality(S)
  BY DEF Registry!Cardinality, Cardinality

(* A commit by whatever request persists at most the one pending session.   *)
LEMMA CommitPersists ==
  ASSUME TypeInv, TypeInv', SafeInv, SafeInv', CapacityInv, PendingInv, CommitAll
  PROVE  Registry!Persist
  <1>1. /\ disk' = work /\ work' = work /\ minted' = minted
        /\ DOMAIN Sessions = DOMAIN disk /\ DOMAIN Sessions' = DOMAIN work
    BY DEF CommitAll, Sessions
  <1>2. DOMAIN Sessions \ DOMAIN Sessions' \subseteq doomed
    BY <1>1 DEF SafeInv, PendingOK
  <1>3. \A i \in DOMAIN Sessions \cap DOMAIN Sessions' : Sessions'[i] = Sessions[i]
    BY <1>1 DEF SafeInv, PendingOK, Sessions
  <1>4. DOMAIN Sessions' \ DOMAIN Sessions = Pending
    BY <1>1 DEF Pending
  <1>5. \A i, j \in Pending : i = j
    BY DEF PendingInv, TypeInv, LockExcludes, HoldsLock, Locked, CreateLabels
  <1>6. ASSUME NEW i \in Pending
        PROVE  /\ i \in Ids \ Spent
               /\ Sessions'[i] \in Configs
               /\ Cardinality(DOMAIN Sessions') =< MaxSessions
               /\ \A j \in DOMAIN Sessions' \ (Legacy \cup {i}) :
                    Sessions'[j] # Sessions'[i]
    <2>1. i \in DOMAIN work /\ i \notin DOMAIN disk /\ i \notin Legacy
      BY DEF Pending, PendingInv
    <2>2. i \in Ids /\ work[i] \in Row
      BY <2>1, TableFacts DEF TypeInv, TypeOK
    <2>3. i \notin Spent
      BY <2>1 DEF Spent
    <2>4. Sessions'[i] \in Configs
      BY <1>1, <2>1, <2>2 DEF Sessions, Row
    <2>5. Cardinality(DOMAIN Sessions') =< MaxSessions
      BY <1>1, <2>1 DEF CapacityInv, Fits
    <2>6. \A j \in DOMAIN Sessions' \ (Legacy \cup {i}) : Sessions'[j] # Sessions'[i]
      BY <1>1, <2>1 DEF SafeInv, Distinct, Sessions
    <2>7. QED BY <2>2, <2>3, <2>4, <2>5, <2>6
  <1>7. Spent' = Spent \cup Pending
    BY <1>1 DEF Spent, Pending, TypeInv, StoredAreMinted
  <1>8. QED
    BY <1>2, <1>3, <1>4, <1>5, <1>6, <1>7, SameCardinality
    DEF Registry!Persist, Sessions, Spent

(* Every step of the store is a step of the registry or leaves it alone.    *)
LEMMA MappedStep ==
  ASSUME TypeInv, TypeInv', SafeInv, SafeInv', CapacityInv, PendingInv, [Next]_vars
  PROVE  [Registry!RegistryNext]_(Registry!rvars)
  <1> USE DEF Go, table, local, history
  <1>1. ASSUME NEW p \in Procs, CommitCreate(p) PROVE Registry!Commit
    <2>1. Registry!Persist
      BY <1>1, CommitPersists DEF CommitCreate
    <2>2. /\ sid[p] \in Ids /\ cfg[p] \in Configs
          /\ disk' = work /\ UNCHANGED <<doomed, revoked>>
          /\ told' = told \cup {[id |-> sid[p], cfg |-> cfg[p]]}
      BY <1>1 DEF CommitCreate, CommitAll, Return, TypeInv, TypeOK, LocalOK, CreateLabels
    <2>3. Stands(p, cfg[p])
      BY <1>1 DEF CommitCreate, Return, SafeInv, FoundOK
    <2>4. \E i \in Ids, c \in Configs : Registry!Tell(i, c)
      BY <2>2, <2>3 DEF Registry!Tell, Stands
    <2>5. QED BY <2>1, <2>2, <2>4 DEF Registry!Commit
  <1>2. ASSUME NEW p \in Procs, CommitGet(p) PROVE Registry!Commit
    <2>1. Registry!Persist
      BY <1>2, CommitPersists DEF CommitGet
    <2>2. /\ sid[p] \in Ids /\ seen[p].cfg \in Configs
          /\ disk' = work /\ UNCHANGED <<doomed, revoked>>
          /\ told' = told \cup {[id |-> sid[p], cfg |-> seen[p].cfg]}
      BY <1>2 DEF CommitGet, CommitAll, Return, TypeInv, TypeOK, LocalOK, GetLabels, Row
    <2>3. Stands(p, seen[p].cfg)
      BY <1>2 DEF CommitGet, Return, SafeInv, FoundOK
    <2>4. \E i \in Ids, c \in Configs : Registry!Tell(i, c)
      BY <2>2, <2>3 DEF Registry!Tell, Stands
    <2>5. QED BY <2>1, <2>2, <2>4 DEF Registry!Commit
  <1>3. ASSUME NEW p \in Procs, CommitDelete(p) PROVE Registry!Commit
    <2>1. Registry!Persist
      BY <1>3, CommitPersists DEF CommitDelete
    <2>2. /\ sid[p] \in Ids /\ disk' = work /\ UNCHANGED <<doomed, told>>
          /\ revoked' = IF seen[p] # None THEN revoked \cup {sid[p]} ELSE revoked
      BY <1>3 DEF CommitDelete, CommitAll, Return, TypeInv, TypeOK, LocalOK, DeleteLabels
    <2>3. CASE seen[p] # None
      <3>1. sid[p] \in doomed /\ sid[p] \notin DOMAIN work
        BY <1>3, <2>3 DEF CommitDelete, Return, SafeInv, FoundOK
      <3>2. \E i \in Ids : Registry!Confirm(i)
        BY <2>2, <2>3, <3>1 DEF Registry!Confirm
      <3>3. QED BY <2>1, <2>2, <3>2 DEF Registry!Commit
    <2>4. CASE seen[p] = None
      BY <2>1, <2>2, <2>4 DEF Registry!Commit, Registry!TellNothing
    <2>5. QED BY <2>3, <2>4
  <1>4. ASSUME NEW p \in Procs, Insert(p) PROVE UNCHANGED Registry!rvars
    <2>1. PICK i \in Ids \ minted :
            /\ minted' = minted \cup {i}
            /\ work' = Inserted(work, i, [cfg |-> cfg[p], enc |-> key, hash |-> cfg[p]])
      BY <1>4 DEF Insert
    <2>2. DOMAIN work' = DOMAIN work \cup {i} /\ i \notin DOMAIN disk
      BY <2>1 DEF Inserted, TypeInv, StoredAreMinted
    <2>3. Spent' = Spent /\ UNCHANGED <<disk, doomed, told, revoked>>
      BY <1>4, <2>1, <2>2 DEF Spent, Insert
    <2>4. QED BY <2>3 DEF Registry!rvars, Spent
  <1>5. ASSUME NEW p \in Procs, Save(p) PROVE UNCHANGED Registry!rvars
    BY <1>5 DEF Save, Registry!rvars
  <1>6. ASSUME NEW p \in Procs, Remove(p) PROVE [Registry!RegistryNext]_(Registry!rvars)
    <2>1. UNCHANGED <<disk, minted, told, revoked>> /\ DOMAIN work' \subseteq DOMAIN work
      BY <1>6 DEF Remove, Deleted
    <2>2. Spent \subseteq Spent'
      BY <2>1 DEF Spent
    <2>3. CASE doomed' = doomed /\ work' = work
      BY <2>1, <2>3 DEF Registry!rvars
    <2>4. CASE doomed' = doomed \cup {sid[p]} /\ sid[p] \in DOMAIN work
      <3>1. sid[p] \in Ids
        BY <2>4, TableFacts DEF TypeInv, TypeOK
      <3>2. Registry!Doom
        BY <2>1, <2>2, <2>4, <3>1 DEF Registry!Doom, Spent
      <3>3. QED BY <3>2 DEF Registry!RegistryNext
    <2>5. QED BY <1>6, <2>3, <2>4 DEF Remove
  <1>7. ASSUME Restart PROVE Registry!Waste
    <2>1. UNCHANGED <<disk, minted, doomed, told, revoked>> /\ work' = disk
      BY <1>7 DEF Restart
    <2>2. Spent \subseteq Spent'
      BY <2>1 DEF Spent
    <2>3. QED BY <2>1, <2>2 DEF Registry!Waste, Spent
  <1>8. ASSUME NEW p \in Procs,
               \/ Start(p) \/ Acquire(p) \/ SelectExisting(p) \/ Touch(p) \/ Count(p)
               \/ Read(p)
        PROVE  UNCHANGED Registry!rvars
    BY <1>8 DEF Start, StartCreate, StartGet, StartDelete, Acquire, SelectExisting, Touch,
      Count, Read, Return, Registry!rvars
  <1>9. CASE UNCHANGED vars
    BY <1>9 DEF vars, Registry!rvars
  <1>10. QED
    BY <1>1, <1>2, <1>3, <1>4, <1>5, <1>6, <1>7, <1>8, <1>9
    DEF Next, Step, Registry!RegistryNext

(* The store implements the registry.                                       *)
THEOREM StoreImplementsRegistry == Spec => ImplementsRegistry
  <1>1. Init => Registry!RegistryInit
    BY MappedInit
  <1>2. /\ TypeInv /\ SafeInv /\ CapacityInv /\ PendingInv
        /\ (TypeInv /\ SafeInv)'
        /\ [Next]_vars
        => [Registry!RegistryNext]_(Registry!rvars)
    BY MappedStep
  <1>3. QED
    BY <1>1, <1>2, RefinementInvariant, PTL
    DEF Spec, ImplementsRegistry, Registry!RegistrySpec
=============================================================================
