------------------------- MODULE SessionStoreProofs -------------------------
(***************************************************************************)
(* Theorems about SessionStore for any number of coroutines, ids,          *)
(* configurations and keys, any capacity and any database left behind by   *)
(* an earlier release.                                                     *)
(***************************************************************************)
EXTENDS SessionStore, FiniteSetTheorems, SequenceTheorems, TLAPS

(* What a coroutine has been given or has found by the time it is there.    *)
LocalOK ==
  \A p \in Procs :
    /\ pc[p] \in CreateLabels => cfg[p] \in Configs
    /\ pc[p] \in {"touch", "commitCreate"} \cup GetLabels \cup DeleteLabels
         => sid[p] \in minted
    /\ pc[p] \in {"save", "commitGet"} => seen[p] \in Row

(* Every row's id was minted.                                               *)
StoredAreMinted == DOMAIN work \cup DOMAIN disk \subseteq minted

TypeInv == TypeOK /\ LocalOK /\ StoredAreMinted /\ LockExcludes

(* A row's hash is that of its configuration; only rows of an earlier       *)
(* release may lack one.                                                    *)
Hashed(rows) ==
  /\ \A i \in DOMAIN rows : rows[i].hash \in {None, rows[i].cfg}
  /\ \A i \in DOMAIN rows \ Legacy : rows[i].hash = rows[i].cfg

(* MintedDistinct, of any table.                                            *)
Distinct(rows) ==
  \A i, j \in DOMAIN rows \ Legacy : rows[i].cfg = rows[j].cfg => i = j

(* Pending statements: a row leaves only by a DELETE, and no statement      *)
(* changes the configuration of a row.                                      *)
PendingOK ==
  /\ DOMAIN disk \ DOMAIN work \subseteq doomed
  /\ \A i \in DOMAIN disk \cap DOMAIN work : work[i].cfg = disk[i].cfg

(* The session p has found stands for c, unless a DELETE came in between.   *)
Stands(p, c) ==
  /\ sid[p] \in DOMAIN work => work[sid[p]].cfg = c
  /\ sid[p] \notin DOMAIN work => sid[p] \in doomed

(* What a coroutine found out before an await still holds after it.         *)
FoundOK ==
  \A p \in Procs :
    /\ pc[p] \in {"count", "insert"}
         => \A i \in DOMAIN work \ Legacy : work[i].cfg # cfg[p]
    /\ pc[p] \in {"touch", "commitCreate"} => Stands(p, cfg[p])
    /\ pc[p] \in {"save", "commitGet"}
         => Stands(p, seen[p].cfg) /\ seen[p].hash \in {None, seen[p].cfg}
    /\ pc[p] \in {"idle", "remove"} => seen[p] = None
    /\ pc[p] = "commitDelete" /\ seen[p] # None
         => sid[p] \notin DOMAIN work /\ sid[p] \in doomed

Answered == ToldIsDurable /\ RevokedStaysGone /\ revoked \subseteq minted

SafeInv ==
  /\ Hashed(work) /\ Hashed(disk)
  /\ Distinct(work) /\ Distinct(disk)
  /\ PendingOK
  /\ FoundOK
  /\ Answered

(* The count taken under the lock still leaves room when the row is         *)
(* inserted.                                                                *)
Fits(rows) ==
  Cardinality(DOMAIN rows) =< MaxSessions \/ DOMAIN rows \subseteq Legacy

CapacityInv ==
  /\ Fits(work) /\ Fits(disk)
  /\ \A p \in Procs : pc[p] = "insert" => Cardinality(DOMAIN work) < MaxSessions

(* A table maps ids to rows.                                                *)
LEMMA TableFacts ==
  ASSUME NEW rows \in Tables
  PROVE  /\ DOMAIN rows \subseteq Ids
         /\ \A i \in DOMAIN rows : rows[i] \in Row
  BY DEF Tables

(* An INSERT makes a table from a table.                                    *)
LEMMA InsertedType ==
  ASSUME NEW rows \in Tables, NEW i \in Ids, NEW row \in Row
  PROVE  Inserted(rows, i, row) \in Tables
  <1>1. /\ DOMAIN rows \cup {i} \in SUBSET Ids
        /\ \A j \in DOMAIN rows : rows[j] \in Row
    BY TableFacts
  <1>2. Inserted(rows, i, row) \in [DOMAIN rows \cup {i} -> Row]
    BY <1>1 DEF Inserted
  <1>3. QED BY <1>1, <1>2 DEF Tables

(* What a DELETE leaves is a table.                                         *)
LEMMA DeletedType ==
  ASSUME NEW rows \in Tables, NEW i
  PROVE  Deleted(rows, i) \in Tables
  <1>1. /\ DOMAIN rows \ {i} \in SUBSET Ids
        /\ \A j \in DOMAIN rows : rows[j] \in Row
    BY TableFacts
  <1>2. Deleted(rows, i) \in [DOMAIN rows \ {i} -> Row]
    BY <1>1 DEF Deleted
  <1>3. QED BY <1>1, <1>2 DEF Tables

(* What get_config writes back is a row that keeps the configuration and    *)
(* the hash.                                                                *)
LEMMA MigratedType ==
  ASSUME NEW row \in Row, NEW old \in Row, key \in Keys
  PROVE  /\ Migrated(row, old) \in Row
         /\ Migrated(row, old).cfg \in {row.cfg, old.cfg}
         /\ Migrated(row, old).hash \in {row.cfg, row.hash}
         /\ row.hash # None => Migrated(row, old).hash = row.hash
  BY DEF Migrated, Row

-----------------------------------------------------------------------------
(* Type correctness, with the coroutine-local facts and the exclusion by    *)
(* the lock that it rests on.                                               *)
LEMMA TypeInit == Init => TypeInv
  <1> SUFFICES ASSUME Init PROVE TypeInv
    OBVIOUS
  <1>1. disk \in Tables
    <2>1. disk \in [Legacy -> Row]
      BY DEF Init, Row
    <2>2. QED BY <2>1, ParamAssumption DEF Tables
  <1>2. TypeOK
    BY <1>1, ParamAssumption DEF Init, TypeOK, Labels
  <1>3. LocalOK /\ StoredAreMinted /\ LockExcludes
    BY DEF Init, LocalOK, StoredAreMinted, LockExcludes, CreateLabels, Locked,
      GetLabels, DeleteLabels
  <1>4. QED BY <1>2, <1>3 DEF TypeInv

(* Every step keeps them.                                                   *)
LEMMA TypeStep == TypeInv /\ [Next]_vars => TypeInv'
  <1> SUFFICES ASSUME TypeInv, [Next]_vars PROVE TypeInv'
    OBVIOUS
  <1> USE DEF Go, table, local, history
  <1>1. ASSUME NEW p \in Procs, StartCreate(p) PROVE TypeInv'
    <2>3. TypeOK'
      BY <1>1, ParamAssumption DEF TypeInv, TypeOK, LocalOK, StartCreate,
          CreateLabels, Locked, GetLabels, DeleteLabels, Labels
    <2>4. LocalOK'
      BY <1>1, ParamAssumption DEF TypeInv, TypeOK, LocalOK, StartCreate,
          CreateLabels, Locked, GetLabels, DeleteLabels, Labels
    <2>5. StoredAreMinted'
      BY <1>1 DEF TypeInv, StoredAreMinted, StartCreate
    <2>6. LockExcludes'
      BY <1>1 DEF TypeInv, TypeOK, LockExcludes, HoldsLock, StartCreate,
          CreateLabels, Locked, GetLabels, DeleteLabels, Labels
    <2>7. QED BY <2>3, <2>4, <2>5, <2>6 DEF TypeInv
  <1>2. ASSUME NEW p \in Procs, Acquire(p) PROVE TypeInv'
    <2>3. TypeOK'
      BY <1>2, ParamAssumption DEF TypeInv, TypeOK, LocalOK, Acquire, CreateLabels,
          Locked, GetLabels, DeleteLabels, Labels
    <2>4. LocalOK'
      BY <1>2, ParamAssumption DEF TypeInv, TypeOK, LocalOK, Acquire, CreateLabels,
          Locked, GetLabels, DeleteLabels, Labels
    <2>5. StoredAreMinted'
      BY <1>2 DEF TypeInv, StoredAreMinted, Acquire
    <2>6. LockExcludes'
      BY <1>2 DEF TypeInv, TypeOK, LockExcludes, HoldsLock, Acquire, CreateLabels,
          Locked, GetLabels, DeleteLabels, Labels
    <2>7. QED BY <2>3, <2>4, <2>5, <2>6 DEF TypeInv
  <1>3. ASSUME NEW p \in Procs, SelectExisting(p) PROVE TypeInv'
    <2>1. CASE /\ Go(p, "select", "touch")
               /\ \E i \in Holding(work, cfg[p]) : sid' = [sid EXCEPT ![p] = i]
               /\ UNCHANGED <<table, lock, cfg, seen, history>>
      <3>1. PICK i \in Holding(work, cfg[p]) : sid' = [sid EXCEPT ![p] = i]
        BY <2>1
      <3>2. i \in minted /\ i \in Ids
        BY <3>1 DEF Holding, TypeInv, TypeOK, StoredAreMinted
      <3>3. TypeOK' /\ StoredAreMinted'
        BY <2>1, <3>1, <3>2 DEF TypeInv, TypeOK, StoredAreMinted, Labels, CreateLabels
      <3>4. LocalOK'
        BY <2>1, <3>1, <3>2 DEF TypeInv, TypeOK, LocalOK, CreateLabels, Locked,
            GetLabels, DeleteLabels, Labels
      <3>5. LockExcludes'
        BY <2>1 DEF TypeInv, TypeOK, LockExcludes, HoldsLock, CreateLabels, Locked,
            GetLabels, DeleteLabels, Labels
      <3>6. QED BY <3>3, <3>4, <3>5 DEF TypeInv
    <2>2. CASE /\ Go(p, "select", "count")
               /\ UNCHANGED <<table, lock, local, history>>
      BY <2>2 DEF TypeInv, TypeOK, LocalOK, StoredAreMinted, LockExcludes, HoldsLock,
        CreateLabels, Locked, GetLabels, DeleteLabels, Labels
    <2>3. QED BY <1>3, <2>1, <2>2 DEF SelectExisting
  <1>4. ASSUME NEW p \in Procs, Touch(p) PROVE TypeInv'
    <2>3. TypeOK'
      BY <1>4, ParamAssumption DEF TypeInv, TypeOK, LocalOK, Touch, CreateLabels,
          Locked, GetLabels, DeleteLabels, Labels
    <2>4. LocalOK'
      BY <1>4, ParamAssumption DEF TypeInv, TypeOK, LocalOK, Touch, CreateLabels,
          Locked, GetLabels, DeleteLabels, Labels
    <2>5. StoredAreMinted'
      BY <1>4 DEF TypeInv, StoredAreMinted, Touch
    <2>6. LockExcludes'
      BY <1>4 DEF TypeInv, TypeOK, LockExcludes, HoldsLock, Touch, CreateLabels,
          Locked, GetLabels, DeleteLabels, Labels
    <2>7. QED BY <2>3, <2>4, <2>5, <2>6 DEF TypeInv
  <1>5. ASSUME NEW p \in Procs, Count(p) PROVE TypeInv'
    <2>1. HoldsLock(p)
      BY <1>5 DEF TypeInv, LockExcludes, Count, Go, Return, CreateLabels, Locked,
          GetLabels, DeleteLabels, Labels
    <2>2. Tail(lock) \in Seq(Procs)
      BY <2>1, HeadTailProperties DEF HoldsLock, TypeInv, TypeOK
    <2>3. TypeOK'
      BY <1>5, <2>2, ParamAssumption DEF TypeInv, TypeOK, Count, Return, Release,
          CreateLabels, Locked, GetLabels, DeleteLabels, Labels
    <2>4. LocalOK'
      BY <1>5, ParamAssumption DEF TypeInv, TypeOK, LocalOK, Count, Return, Release,
          CreateLabels, Locked, GetLabels, DeleteLabels, Labels
    <2>5. StoredAreMinted'
      BY <1>5 DEF TypeInv, StoredAreMinted, Count
    <2>6. LockExcludes'
      BY <1>5 DEF TypeInv, TypeOK, LockExcludes, HoldsLock, Count, Return, Release,
          CreateLabels, Locked, GetLabels, DeleteLabels, Labels
    <2>7. QED BY <2>3, <2>4, <2>5, <2>6 DEF TypeInv
  <1>6. ASSUME NEW p \in Procs, Insert(p) PROVE TypeInv'
    <2>1. PICK i \in Ids \ minted :
            /\ sid' = [sid EXCEPT ![p] = i]
            /\ minted' = minted \cup {i}
            /\ work' = Inserted(work, i, [cfg |-> cfg[p], enc |-> key, hash |-> cfg[p]])
      BY <1>6 DEF Insert
    <2>2. [cfg |-> cfg[p], enc |-> key, hash |-> cfg[p]] \in Row
      BY <1>6 DEF TypeInv, TypeOK, LocalOK, Insert, Row, CreateLabels, Locked,
          GetLabels, DeleteLabels, Labels
    <2>a. work' \in Tables
      BY <2>1, <2>2, InsertedType DEF TypeInv, TypeOK
    <2>3. TypeOK'
      BY <1>6, <2>1, <2>a, ParamAssumption DEF TypeInv, TypeOK, Insert,
          CreateLabels, Locked, GetLabels, DeleteLabels, Labels
    <2>4. LocalOK'
      BY <1>6, <2>1, ParamAssumption DEF TypeInv, TypeOK, LocalOK, Insert,
          CreateLabels, Locked, GetLabels, DeleteLabels, Labels
    <2>5. StoredAreMinted'
      BY <1>6, <2>1 DEF TypeInv, StoredAreMinted, Insert, Inserted
    <2>6. LockExcludes'
      BY <1>6 DEF TypeInv, TypeOK, LockExcludes, HoldsLock, Insert, CreateLabels,
          Locked, GetLabels, DeleteLabels, Labels
    <2>7. QED BY <2>3, <2>4, <2>5, <2>6 DEF TypeInv
  <1>7. ASSUME NEW p \in Procs, CommitCreate(p) PROVE TypeInv'
    <2>1. HoldsLock(p)
      BY <1>7 DEF TypeInv, LockExcludes, CommitCreate, Go, Return, CreateLabels,
          Locked, GetLabels, DeleteLabels, Labels
    <2>2. Tail(lock) \in Seq(Procs)
      BY <2>1, HeadTailProperties DEF HoldsLock, TypeInv, TypeOK
    <2>a. sid[p] \in Ids /\ cfg[p] \in Configs
      BY <1>7 DEF TypeInv, TypeOK, LocalOK, CommitCreate, Return, CreateLabels,
          Locked, GetLabels, DeleteLabels, Labels
    <2>3. TypeOK'
      BY <1>7, <2>2, <2>a, ParamAssumption
      DEF TypeInv, TypeOK, CommitCreate, Return, Release, CommitAll, CreateLabels, Locked, GetLabels, DeleteLabels, Labels
    <2>4. LocalOK'
      BY <1>7, ParamAssumption DEF TypeInv, TypeOK, LocalOK, CommitCreate, Return,
          Release, CommitAll, CreateLabels, Locked, GetLabels, DeleteLabels, Labels
    <2>5. StoredAreMinted'
      BY <1>7 DEF TypeInv, StoredAreMinted, CommitCreate, CommitAll
    <2>6. LockExcludes'
      BY <1>7 DEF TypeInv, TypeOK, LockExcludes, HoldsLock, CommitCreate, Return,
          Release, CommitAll, CreateLabels, Locked, GetLabels, DeleteLabels, Labels
    <2>7. QED BY <2>3, <2>4, <2>5, <2>6 DEF TypeInv
  <1>8. ASSUME NEW p \in Procs, StartGet(p) PROVE TypeInv'
    <2>3. TypeOK'
      BY <1>8, ParamAssumption DEF TypeInv, TypeOK, LocalOK, StartGet, CreateLabels,
          Locked, GetLabels, DeleteLabels, Labels
    <2>4. LocalOK'
      BY <1>8, ParamAssumption DEF TypeInv, TypeOK, LocalOK, StartGet, CreateLabels,
          Locked, GetLabels, DeleteLabels, Labels
    <2>5. StoredAreMinted'
      BY <1>8 DEF TypeInv, StoredAreMinted, StartGet
    <2>6. LockExcludes'
      BY <1>8 DEF TypeInv, TypeOK, LockExcludes, HoldsLock, StartGet, CreateLabels,
          Locked, GetLabels, DeleteLabels, Labels
    <2>7. QED BY <2>3, <2>4, <2>5, <2>6 DEF TypeInv
  <1>9. ASSUME NEW p \in Procs, Read(p) PROVE TypeInv'
    <2>1. CASE /\ sid[p] \in DOMAIN work
               /\ Go(p, "read", "save")
               /\ seen' = [seen EXCEPT ![p] = work[sid[p]]]
               /\ UNCHANGED <<table, lock, sid, cfg, history>>
      <3>1. work[sid[p]] \in Row
        BY <2>1, TableFacts DEF TypeInv, TypeOK
      <3>2. TypeOK' /\ StoredAreMinted'
        BY <2>1, <3>1 DEF TypeInv, TypeOK, StoredAreMinted, Labels, GetLabels
      <3>3. LocalOK'
        BY <2>1, <3>1 DEF TypeInv, TypeOK, LocalOK, CreateLabels, Locked, GetLabels,
            DeleteLabels, Labels
      <3>4. LockExcludes'
        BY <2>1 DEF TypeInv, TypeOK, LockExcludes, HoldsLock, CreateLabels, Locked,
            GetLabels, DeleteLabels, Labels
      <3>5. QED BY <3>2, <3>3, <3>4 DEF TypeInv
    <2>2. CASE Return(p, "read") /\ UNCHANGED <<table, lock, history>>
      BY <2>2 DEF TypeInv, TypeOK, LocalOK, StoredAreMinted, LockExcludes, HoldsLock,
        Return, CreateLabels, Locked, GetLabels, DeleteLabels, Labels
    <2>3. QED BY <1>9, <2>1, <2>2 DEF Read
  <1>10. ASSUME NEW p \in Procs, Save(p) PROVE TypeInv'
    <2>1. seen[p] \in Row
      BY <1>10 DEF TypeInv, LocalOK, Save
    <2>2. work' \in [DOMAIN work -> Row]
      BY <1>10, <2>1, TableFacts, MigratedType DEF TypeInv, TypeOK, Save
    <2>3. work' \in Tables /\ DOMAIN work' = DOMAIN work
      BY <2>2, TableFacts DEF TypeInv, TypeOK, Tables
    <2>4. TypeOK' /\ StoredAreMinted'
      BY <1>10, <2>3 DEF TypeInv, TypeOK, StoredAreMinted, Save, Labels, GetLabels
    <2>5. LocalOK'
      BY <1>10 DEF TypeInv, TypeOK, LocalOK, Save, CreateLabels, Locked, GetLabels,
          DeleteLabels, Labels
    <2>6. LockExcludes'
      BY <1>10 DEF TypeInv, TypeOK, LockExcludes, HoldsLock, Save, CreateLabels,
          Locked, GetLabels, DeleteLabels, Labels
    <2>7. QED BY <2>4, <2>5, <2>6 DEF TypeInv
  <1>11. ASSUME NEW p \in Procs, CommitGet(p) PROVE TypeInv'
    <2>1. sid[p] \in Ids /\ seen[p].cfg \in Configs
      BY <1>11 DEF TypeInv, TypeOK, LocalOK, CommitGet, Return, Row, CreateLabels,
          Locked, GetLabels, DeleteLabels, Labels
    <2>3. TypeOK'
      BY <1>11, <2>1, ParamAssumption
      DEF TypeInv, TypeOK, CommitGet, Return, CommitAll, CreateLabels, Locked, GetLabels, DeleteLabels, Labels
    <2>4. LocalOK'
      BY <1>11, ParamAssumption DEF TypeInv, TypeOK, LocalOK, CommitGet, Return,
          CommitAll, CreateLabels, Locked, GetLabels, DeleteLabels, Labels
    <2>5. StoredAreMinted'
      BY <1>11 DEF TypeInv, StoredAreMinted, CommitGet, CommitAll
    <2>6. LockExcludes'
      BY <1>11 DEF TypeInv, TypeOK, LockExcludes, HoldsLock, CommitGet, Return,
          CommitAll, CreateLabels, Locked, GetLabels, DeleteLabels, Labels
    <2>7. QED BY <2>3, <2>4, <2>5, <2>6 DEF TypeInv
  <1>12. ASSUME NEW p \in Procs, StartDelete(p) PROVE TypeInv'
    <2>3. TypeOK'
      BY <1>12, ParamAssumption DEF TypeInv, TypeOK, LocalOK, StartDelete,
          CreateLabels, Locked, GetLabels, DeleteLabels, Labels
    <2>4. LocalOK'
      BY <1>12, ParamAssumption DEF TypeInv, TypeOK, LocalOK, StartDelete,
          CreateLabels, Locked, GetLabels, DeleteLabels, Labels
    <2>5. StoredAreMinted'
      BY <1>12 DEF TypeInv, StoredAreMinted, StartDelete
    <2>6. LockExcludes'
      BY <1>12 DEF TypeInv, TypeOK, LockExcludes, HoldsLock, StartDelete,
          CreateLabels, Locked, GetLabels, DeleteLabels, Labels
    <2>7. QED BY <2>3, <2>4, <2>5, <2>6 DEF TypeInv
  <1>13. ASSUME NEW p \in Procs, Remove(p) PROVE TypeInv'
    <2>1. sid[p] \in Ids /\ (sid[p] \in DOMAIN work => work[sid[p]] \in Row)
      BY <1>13, TableFacts DEF TypeInv, TypeOK, LocalOK, Remove, DeleteLabels
    <2>2. work' \in Tables /\ DOMAIN work' \subseteq DOMAIN work
      BY <1>13, DeletedType DEF TypeInv, TypeOK, Remove, Deleted
    <2>3. TypeOK' /\ StoredAreMinted'
      BY <1>13, <2>1, <2>2
      DEF TypeInv, TypeOK, StoredAreMinted, Remove, Labels, DeleteLabels
    <2>4. LocalOK'
      BY <1>13 DEF TypeInv, TypeOK, LocalOK, Remove, CreateLabels, Locked,
          GetLabels, DeleteLabels, Labels
    <2>5. LockExcludes'
      BY <1>13 DEF TypeInv, TypeOK, LockExcludes, HoldsLock, Remove, CreateLabels,
          Locked, GetLabels, DeleteLabels, Labels
    <2>6. QED BY <2>3, <2>4, <2>5 DEF TypeInv
  <1>14. ASSUME NEW p \in Procs, CommitDelete(p) PROVE TypeInv'
    <2>3. TypeOK'
      BY <1>14, ParamAssumption DEF TypeInv, TypeOK, LocalOK, CommitDelete, Return,
          CommitAll, CreateLabels, Locked, GetLabels, DeleteLabels, Labels
    <2>4. LocalOK'
      BY <1>14, ParamAssumption DEF TypeInv, TypeOK, LocalOK, CommitDelete, Return,
          CommitAll, CreateLabels, Locked, GetLabels, DeleteLabels, Labels
    <2>5. StoredAreMinted'
      BY <1>14 DEF TypeInv, StoredAreMinted, CommitDelete, CommitAll
    <2>6. LockExcludes'
      BY <1>14 DEF TypeInv, TypeOK, LockExcludes, HoldsLock, CommitDelete, Return,
          CommitAll, CreateLabels, Locked, GetLabels, DeleteLabels, Labels
    <2>7. QED BY <2>3, <2>4, <2>5, <2>6 DEF TypeInv
  <1>15. ASSUME Restart PROVE TypeInv'
    BY <1>15 DEF TypeInv, TypeOK, LocalOK, StoredAreMinted, LockExcludes, Restart,
      CreateLabels, Locked, GetLabels, DeleteLabels, Labels
  <1>16. CASE UNCHANGED vars
    BY <1>16 DEF TypeInv, TypeOK, LocalOK, StoredAreMinted, LockExcludes, HoldsLock,
      vars
  <1>17. QED
    BY <1>1, <1>2, <1>3, <1>4, <1>5, <1>6, <1>7, <1>8, <1>9, <1>10, <1>11, <1>12,
        <1>13, <1>14, <1>15, <1>16 DEF Next, Start, Step

(* The store's state is well typed in every reachable state.                *)
THEOREM TypeCorrect == Spec => []TypeOK
  <1>1. Init => TypeInv
    BY TypeInit
  <1>2. TypeInv /\ [Next]_vars => TypeInv'
    BY TypeStep
  <1>3. TypeInv => TypeOK
    BY DEF TypeInv
  <1>4. QED BY <1>1, <1>2, <1>3, PTL DEF Spec

-----------------------------------------------------------------------------
(* Safety: deduplication, durable answers and final revocations.            *)
LEMMA SafeInit == Init => SafeInv
  <1> SUFFICES ASSUME Init PROVE SafeInv
    OBVIOUS
  <1>1. DOMAIN disk = Legacy /\ \A i \in DOMAIN disk : disk[i].hash = None
    BY DEF Init
  <1>2. QED
    BY <1>1 DEF Init, SafeInv, Hashed, Distinct, PendingOK, FoundOK, Stands,
        Answered, ToldIsDurable, RevokedStaysGone

(* Every step keeps it: one step per action, the statements that write to   *)
(* the table and the commits in more detail.                                *)
LEMMA SafeStep == TypeInv /\ SafeInv /\ [Next]_vars => SafeInv'
  <1> SUFFICES ASSUME TypeInv, SafeInv, [Next]_vars PROVE SafeInv'
    OBVIOUS
  <1> USE DEF Go, table, local, history
  <1>1. ASSUME NEW p \in Procs, StartCreate(p) PROVE SafeInv'
    BY <1>1 DEF StartCreate, TypeInv, TypeOK,
      SafeInv, Hashed, Distinct, PendingOK, FoundOK, Stands, Answered, ToldIsDurable, RevokedStaysGone
  <1>2. ASSUME NEW p \in Procs, Acquire(p) PROVE SafeInv'
    BY <1>2 DEF Acquire, TypeInv, TypeOK,
      SafeInv, Hashed, Distinct, PendingOK, FoundOK, Stands, Answered, ToldIsDurable, RevokedStaysGone
  <1>3. ASSUME NEW p \in Procs, SelectExisting(p) PROVE SafeInv'
    <2>1. UNCHANGED <<disk, work, minted, doomed, told, revoked>>
      BY <1>3 DEF SelectExisting
    <2>2. FoundOK'
      <3>1. cfg[p] \in Configs /\ cfg[p] # None
        BY <1>3, ParamAssumption DEF SelectExisting, TypeInv, LocalOK, CreateLabels
      <3>2. CASE Holding(work, cfg[p]) = {} /\ Go(p, "select", "count")
                 /\ UNCHANGED local
        BY <2>1, <3>2 DEF Holding, SafeInv, Hashed, FoundOK, Stands, TypeInv, TypeOK
      <3>3. ASSUME NEW i \in Holding(work, cfg[p]), Go(p, "select", "touch"),
                   sid' = [sid EXCEPT ![p] = i], UNCHANGED <<cfg, seen>>
            PROVE  FoundOK'
        <4>1. i \in DOMAIN work /\ work[i].cfg = cfg[p]
          BY <3>1, <3>3 DEF Holding, SafeInv, Hashed
        <4>2. QED
          BY <2>1, <3>3, <4>1 DEF SafeInv, FoundOK, Stands, TypeInv, TypeOK
      <3>4. QED BY <1>3, <3>2, <3>3 DEF SelectExisting
    <2>3. QED
      BY <2>1, <2>2 DEF SafeInv, Hashed, Distinct, PendingOK, Answered, ToldIsDurable,
        RevokedStaysGone
  <1>4. ASSUME NEW p \in Procs, Touch(p) PROVE SafeInv'
    BY <1>4 DEF Touch, TypeInv, TypeOK,
      SafeInv, Hashed, Distinct, PendingOK, FoundOK, Stands, Answered, ToldIsDurable, RevokedStaysGone
  <1>5. ASSUME NEW p \in Procs, Count(p) PROVE SafeInv'
    BY <1>5 DEF Count, Return, TypeInv, TypeOK,
      SafeInv, Hashed, Distinct, PendingOK, FoundOK, Stands, Answered, ToldIsDurable, RevokedStaysGone
  <1>6. ASSUME NEW p \in Procs, Insert(p) PROVE SafeInv'
    <2>1. PICK i \in Ids \ minted :
            /\ sid' = [sid EXCEPT ![p] = i]
            /\ minted' = minted \cup {i}
            /\ work' = Inserted(work, i, [cfg |-> cfg[p], enc |-> key, hash |-> cfg[p]])
      BY <1>6 DEF Insert
    <2>2. /\ DOMAIN work' = DOMAIN work \cup {i}
          /\ i \notin DOMAIN work /\ i \notin DOMAIN disk
          /\ work'[i] = [cfg |-> cfg[p], enc |-> key, hash |-> cfg[p]]
          /\ \A j \in DOMAIN work : work'[j] = work[j]
      BY <2>1 DEF Inserted, TypeInv, StoredAreMinted
    <2>3. /\ UNCHANGED <<disk, cfg, seen, doomed, told, revoked>>
          /\ pc[p] = "insert" /\ pc' = [pc EXCEPT ![p] = "commitCreate"]
      BY <1>6 DEF Insert
    <2>4. Hashed(work)' /\ Hashed(disk)' /\ Distinct(work)' /\ Distinct(disk)'
      BY <2>2, <2>3 DEF SafeInv, Hashed, Distinct, FoundOK
    <2>5. PendingOK' /\ Answered'
      BY <2>1, <2>2, <2>3
      DEF SafeInv, PendingOK, Answered, ToldIsDurable, RevokedStaysGone
    <2>6. ASSUME NEW q \in Procs, q # p
          PROVE  pc[q] \notin {"count", "insert"}
      BY <2>3, <2>6 DEF TypeInv, LockExcludes, HoldsLock, Locked, CreateLabels
    <2>7. ASSUME NEW q \in Procs, q # p, sid[q] \in minted, NEW c, Stands(q, c)
          PROVE  Stands(q, c)'
      BY <2>1, <2>2, <2>3, <2>7 DEF Stands, TypeInv, TypeOK
    <2>8. FoundOK'
      BY <2>1, <2>2, <2>3, <2>6, <2>7
      DEF SafeInv, FoundOK, Stands, TypeInv, TypeOK, LocalOK, GetLabels, DeleteLabels
    <2>9. QED BY <2>4, <2>5, <2>8 DEF SafeInv
  <1>7. ASSUME NEW p \in Procs, CommitCreate(p) PROVE SafeInv'
    <2>1. /\ disk' = work /\ work' = work /\ UNCHANGED <<minted, doomed>>
          /\ pc' = [pc EXCEPT ![p] = "idle"] /\ sid' = [sid EXCEPT ![p] = None]
          /\ cfg' = [cfg EXCEPT ![p] = None] /\ seen' = [seen EXCEPT ![p] = None]
      BY <1>7 DEF CommitCreate, Return, CommitAll
    <2>2. Hashed(work)' /\ Hashed(disk)' /\ Distinct(work)' /\ Distinct(disk)' /\ PendingOK'
      BY <2>1 DEF SafeInv, Hashed, Distinct, PendingOK
    <2>3. FoundOK'
      BY <2>1 DEF SafeInv, FoundOK, Stands, TypeInv, TypeOK
    <2>4. Answered'
      BY <1>7, <2>1
      DEF CommitCreate, Return, SafeInv, Answered, ToldIsDurable, RevokedStaysGone, PendingOK,
        FoundOK, Stands, TypeInv, TypeOK, LocalOK, GetLabels, DeleteLabels
    <2>5. QED BY <2>2, <2>3, <2>4 DEF SafeInv
  <1>8. ASSUME NEW p \in Procs, StartGet(p) PROVE SafeInv'
    BY <1>8 DEF StartGet, TypeInv, TypeOK,
      SafeInv, Hashed, Distinct, PendingOK, FoundOK, Stands, Answered, ToldIsDurable, RevokedStaysGone
  <1>9. ASSUME NEW p \in Procs, Read(p) PROVE SafeInv'
    <2>1. UNCHANGED <<disk, work, minted, doomed, told, revoked>>
      BY <1>9 DEF Read
    <2>2. FoundOK'
      BY <1>9, <2>1, TableFacts
      DEF Read, Return, Readable, SafeInv, Hashed, FoundOK, Stands, TypeInv, TypeOK
    <2>3. QED
      BY <2>1, <2>2 DEF SafeInv, Hashed, Distinct, PendingOK, Answered, ToldIsDurable,
        RevokedStaysGone
  <1>10. ASSUME NEW p \in Procs, Save(p) PROVE SafeInv'
    <2>1. /\ pc[p] = "save" /\ pc' = [pc EXCEPT ![p] = "commitGet"]
          /\ UNCHANGED <<disk, minted, sid, cfg, seen, doomed, told, revoked>>
          /\ work' = [i \in DOMAIN work |->
                        IF i = sid[p] THEN Migrated(seen[p], work[i]) ELSE work[i]]
      BY <1>10 DEF Save
    <2>2. /\ seen[p] \in Row /\ key \in Keys
          /\ sid[p] \in DOMAIN work => work[sid[p]] \in Row
      BY <2>1, TableFacts DEF TypeInv, TypeOK, LocalOK
    <2>3. /\ sid[p] \in DOMAIN work => work[sid[p]].cfg = seen[p].cfg
          /\ seen[p].hash \in {None, seen[p].cfg}
      BY <2>1 DEF SafeInv, FoundOK, Stands
    <2>4. sid[p] \in DOMAIN work =>
            /\ Migrated(seen[p], work[sid[p]]).cfg = work[sid[p]].cfg
            /\ Migrated(seen[p], work[sid[p]]).hash = work[sid[p]].cfg
      BY <2>2, <2>3 DEF Migrated, Row
    <2>5. /\ DOMAIN work' = DOMAIN work
          /\ \A i \in DOMAIN work :
               /\ work'[i].cfg = work[i].cfg
               /\ work'[i].hash \in {work[i].cfg, work[i].hash}
      BY <2>1, <2>4
    <2>6. Hashed(work)' /\ Hashed(disk)' /\ Distinct(work)' /\ Distinct(disk)'
      BY <2>1, <2>5 DEF SafeInv, Hashed, Distinct
    <2>7. PendingOK' /\ Answered'
      BY <2>1, <2>5 DEF SafeInv, PendingOK, Answered, ToldIsDurable, RevokedStaysGone
    <2>8. FoundOK'
      BY <2>1, <2>5 DEF SafeInv, FoundOK, Stands, TypeInv, TypeOK
    <2>9. QED BY <2>6, <2>7, <2>8 DEF SafeInv
  <1>11. ASSUME NEW p \in Procs, CommitGet(p) PROVE SafeInv'
    <2>1. /\ disk' = work /\ work' = work /\ UNCHANGED <<minted, doomed>>
          /\ pc' = [pc EXCEPT ![p] = "idle"] /\ sid' = [sid EXCEPT ![p] = None]
          /\ cfg' = [cfg EXCEPT ![p] = None] /\ seen' = [seen EXCEPT ![p] = None]
      BY <1>11 DEF CommitGet, Return, CommitAll
    <2>2. Hashed(work)' /\ Hashed(disk)' /\ Distinct(work)' /\ Distinct(disk)' /\ PendingOK'
      BY <2>1 DEF SafeInv, Hashed, Distinct, PendingOK
    <2>3. FoundOK'
      BY <2>1 DEF SafeInv, FoundOK, Stands, TypeInv, TypeOK
    <2>4. Answered'
      BY <1>11, <2>1
      DEF CommitGet, Return, SafeInv, Answered, ToldIsDurable, RevokedStaysGone, PendingOK,
        FoundOK, Stands, TypeInv, TypeOK, LocalOK, GetLabels, DeleteLabels
    <2>5. QED BY <2>2, <2>3, <2>4 DEF SafeInv
  <1>12. ASSUME NEW p \in Procs, StartDelete(p) PROVE SafeInv'
    BY <1>12 DEF StartDelete, TypeInv, TypeOK,
      SafeInv, Hashed, Distinct, PendingOK, FoundOK, Stands, Answered, ToldIsDurable, RevokedStaysGone
  <1>13. ASSUME NEW p \in Procs, Remove(p) PROVE SafeInv'
    <2>1. CASE sid[p] \in DOMAIN work
      <3>1. /\ pc[p] = "remove" /\ pc' = [pc EXCEPT ![p] = "commitDelete"]
            /\ UNCHANGED <<disk, minted, sid, cfg, told, revoked>>
            /\ seen' = [seen EXCEPT ![p] = work[sid[p]]]
            /\ doomed' = doomed \cup {sid[p]}
            /\ DOMAIN work' = DOMAIN work \ {sid[p]}
            /\ \A i \in DOMAIN work' : work'[i] = work[i]
        BY <1>13, <2>1 DEF Remove, Deleted
      <3>2. Hashed(work)' /\ Hashed(disk)' /\ Distinct(work)' /\ Distinct(disk)'
        BY <3>1 DEF SafeInv, Hashed, Distinct
      <3>3. PendingOK' /\ Answered'
        BY <3>1 DEF SafeInv, PendingOK, Answered, ToldIsDurable, RevokedStaysGone
      <3>4. FoundOK'
        BY <3>1 DEF SafeInv, FoundOK, Stands, TypeInv, TypeOK
      <3>5. QED BY <3>2, <3>3, <3>4 DEF SafeInv
    <2>2. CASE sid[p] \notin DOMAIN work
      BY <1>13, <2>2 DEF Remove, TypeInv, TypeOK, SafeInv, Hashed, Distinct,
          PendingOK, FoundOK, Stands, Answered, ToldIsDurable, RevokedStaysGone
    <2>3. QED BY <2>1, <2>2
  <1>14. ASSUME NEW p \in Procs, CommitDelete(p) PROVE SafeInv'
    <2>1. /\ disk' = work /\ work' = work /\ UNCHANGED <<minted, doomed>>
          /\ pc' = [pc EXCEPT ![p] = "idle"] /\ sid' = [sid EXCEPT ![p] = None]
          /\ cfg' = [cfg EXCEPT ![p] = None] /\ seen' = [seen EXCEPT ![p] = None]
      BY <1>14 DEF CommitDelete, Return, CommitAll
    <2>2. Hashed(work)' /\ Hashed(disk)' /\ Distinct(work)' /\ Distinct(disk)' /\ PendingOK'
      BY <2>1 DEF SafeInv, Hashed, Distinct, PendingOK
    <2>3. FoundOK'
      BY <2>1 DEF SafeInv, FoundOK, Stands, TypeInv, TypeOK
    <2>4. Answered'
      BY <1>14, <2>1
      DEF CommitDelete, Return, SafeInv, Answered, ToldIsDurable, RevokedStaysGone, PendingOK,
        FoundOK, Stands, TypeInv, TypeOK, LocalOK, GetLabels, DeleteLabels
    <2>5. QED BY <2>2, <2>3, <2>4 DEF SafeInv
  <1>15. ASSUME Restart PROVE SafeInv'
    BY <1>15 DEF Restart, TypeInv, TypeOK,
      SafeInv, Hashed, Distinct, PendingOK, FoundOK, Stands, Answered, ToldIsDurable, RevokedStaysGone
  <1>16. CASE UNCHANGED vars
    BY <1>16 DEF vars,
      SafeInv, Hashed, Distinct, PendingOK, FoundOK, Stands, Answered, ToldIsDurable, RevokedStaysGone
  <1>17. QED
    BY <1>1, <1>2, <1>3, <1>4, <1>5, <1>6, <1>7, <1>8, <1>9, <1>10, <1>11, <1>12,
        <1>13, <1>14, <1>15, <1>16 DEF Next, Start, Step

LEMMA StoreInvariant == Spec => [](TypeInv /\ SafeInv)
  <1>1. Init => TypeInv /\ SafeInv
    BY TypeInit, SafeInit
  <1>2. TypeInv /\ SafeInv /\ [Next]_vars => (TypeInv /\ SafeInv)'
    BY TypeStep, SafeStep
  <1>3. QED BY <1>1, <1>2, PTL DEF Spec

(* No answer given to a client is ever lost by a crash.                     *)
THEOREM ToldDurable == Spec => []ToldIsDurable
  <1>1. TypeInv /\ SafeInv => ToldIsDurable
    BY DEF SafeInv, Answered
  <1>2. QED BY <1>1, StoreInvariant, PTL

(* A revocation answered with success is final.                             *)
THEOREM RevocationFinal == Spec => []RevokedStaysGone
  <1>1. TypeInv /\ SafeInv => RevokedStaysGone
    BY DEF SafeInv, Answered
  <1>2. QED BY <1>1, StoreInvariant, PTL

(* Creates that race never mint two sessions for one configuration.         *)
THEOREM Deduplicated == Spec => []MintedDistinct
  <1>1. TypeInv /\ SafeInv => MintedDistinct
    BY DEF SafeInv, Distinct, MintedDistinct
  <1>2. QED BY <1>1, StoreInvariant, PTL

-----------------------------------------------------------------------------
(* Capacity.                                                                *)
LEMMA FiniteTables ==
  ASSUME NEW rows \in Tables
  PROVE  IsFiniteSet(DOMAIN rows) /\ Cardinality(DOMAIN rows) \in Nat
  BY TableFacts, ParamAssumption, FS_Subset, FS_CardinalityType

LEMMA CapacityInit == Init => CapacityInv
  BY DEF Init, CapacityInv, Fits

(* Only an INSERT grows the table, and the lock keeps the count taken       *)
(* before it valid.                                                         *)
LEMMA CapacityStep == TypeInv /\ CapacityInv /\ [Next]_vars => CapacityInv'
  <1> SUFFICES ASSUME TypeInv, CapacityInv, [Next]_vars PROVE CapacityInv'
    OBVIOUS
  <1> USE DEF Go, table, local, history
  <1>f. /\ IsFiniteSet(DOMAIN work) /\ Cardinality(DOMAIN work) \in Nat
    BY FiniteTables DEF TypeInv, TypeOK
  <1>1. ASSUME NEW p \in Procs, StartCreate(p) PROVE CapacityInv'
    BY <1>1 DEF StartCreate, CapacityInv, Fits, TypeInv, TypeOK
  <1>2. ASSUME NEW p \in Procs, Acquire(p) PROVE CapacityInv'
    BY <1>2 DEF Acquire, CapacityInv, Fits, TypeInv, TypeOK
  <1>3. ASSUME NEW p \in Procs, SelectExisting(p) PROVE CapacityInv'
    BY <1>3 DEF SelectExisting, CapacityInv, Fits, TypeInv, TypeOK
  <1>4. ASSUME NEW p \in Procs, Touch(p) PROVE CapacityInv'
    BY <1>4 DEF Touch, CapacityInv, Fits, TypeInv, TypeOK
  <1>5. ASSUME NEW p \in Procs, Count(p) PROVE CapacityInv'
    BY <1>5 DEF Count, Return, CapacityInv, Fits, TypeInv, TypeOK
  <1>6. ASSUME NEW p \in Procs, Insert(p) PROVE CapacityInv'
    <2>1. PICK i \in Ids \ minted :
            work' = Inserted(work, i, [cfg |-> cfg[p], enc |-> key, hash |-> cfg[p]])
      BY <1>6 DEF Insert
    <2>2. DOMAIN work' = DOMAIN work \cup {i}
      BY <2>1 DEF Inserted
    <2>3. Cardinality(DOMAIN work') =< MaxSessions
      <3>1. Cardinality(DOMAIN work) < MaxSessions
        BY <1>6 DEF Insert, CapacityInv
      <3>2. Cardinality(DOMAIN work \cup {i}) =
              IF i \in DOMAIN work THEN Cardinality(DOMAIN work)
                                   ELSE Cardinality(DOMAIN work) + 1
        BY <1>f, FS_AddElement
      <3>3. QED BY <3>1, <3>2, <1>f, <2>2, ParamAssumption
    <2>4. \A q \in Procs : pc'[q] # "insert"
      BY <1>6 DEF Insert, TypeInv, TypeOK, LockExcludes, HoldsLock, Locked, CreateLabels
    <2>5. UNCHANGED disk
      BY <1>6 DEF Insert
    <2>6. QED BY <2>3, <2>4, <2>5 DEF CapacityInv, Fits
  <1>7. ASSUME NEW p \in Procs, CommitCreate(p) PROVE CapacityInv'
    BY <1>7 DEF CommitCreate, Return, CommitAll, CapacityInv, Fits, TypeInv, TypeOK
  <1>8. ASSUME NEW p \in Procs, StartGet(p) PROVE CapacityInv'
    BY <1>8 DEF StartGet, CapacityInv, Fits, TypeInv, TypeOK
  <1>9. ASSUME NEW p \in Procs, Read(p) PROVE CapacityInv'
    BY <1>9 DEF Read, Return, CapacityInv, Fits, TypeInv, TypeOK
  <1>10. ASSUME NEW p \in Procs, Save(p) PROVE CapacityInv'
    <2>1. DOMAIN work' = DOMAIN work
      BY <1>10 DEF Save
    <2>2. QED BY <1>10, <2>1 DEF Save, CapacityInv, Fits, TypeInv, TypeOK
  <1>11. ASSUME NEW p \in Procs, CommitGet(p) PROVE CapacityInv'
    BY <1>11 DEF CommitGet, Return, CommitAll, CapacityInv, Fits, TypeInv, TypeOK
  <1>12. ASSUME NEW p \in Procs, StartDelete(p) PROVE CapacityInv'
    BY <1>12 DEF StartDelete, CapacityInv, Fits, TypeInv, TypeOK
  <1>13. ASSUME NEW p \in Procs, Remove(p) PROVE CapacityInv'
    <2>1. DOMAIN work' \subseteq DOMAIN work
      BY <1>13 DEF Remove, Deleted
    <2>2. /\ Cardinality(DOMAIN work') =< Cardinality(DOMAIN work)
          /\ Cardinality(DOMAIN work') \in Nat
      BY <1>f, <2>1, FS_Subset, FS_CardinalityType
    <2>3. Fits(work)'
      BY <1>f, <2>1, <2>2, ParamAssumption DEF CapacityInv, Fits
    <2>4. \A q \in Procs : pc'[q] = "insert" => Cardinality(DOMAIN work') < MaxSessions
      BY <1>f, <1>13, <2>2, ParamAssumption DEF CapacityInv, Remove, TypeInv, TypeOK
    <2>5. UNCHANGED disk
      BY <1>13 DEF Remove
    <2>6. QED BY <2>3, <2>4, <2>5 DEF CapacityInv, Fits
  <1>14. ASSUME NEW p \in Procs, CommitDelete(p) PROVE CapacityInv'
    BY <1>14 DEF CommitDelete, Return, CommitAll, CapacityInv, Fits, TypeInv, TypeOK
  <1>15. ASSUME Restart PROVE CapacityInv'
    BY <1>15 DEF Restart, CapacityInv, Fits
  <1>16. CASE UNCHANGED vars
    BY <1>16 DEF vars, CapacityInv, Fits
  <1>17. QED
    BY <1>1, <1>2, <1>3, <1>4, <1>5, <1>6, <1>7, <1>8, <1>9, <1>10, <1>11, <1>12,
        <1>13, <1>14, <1>15, <1>16 DEF Next, Start, Step

(* The table never outgrows MAX_SESSIONS unless it started larger.          *)
THEOREM CapacityRespected == Spec => []WithinCapacity
  <1>1. Init => CapacityInv
    BY CapacityInit
  <1>2. TypeInv /\ CapacityInv /\ [Next]_vars => CapacityInv'
    BY CapacityStep
  <1>3. CapacityInv => WithinCapacity
    BY DEF CapacityInv, Fits, WithinCapacity
  <1>4. QED BY <1>1, <1>2, <1>3, StoreInvariant, PTL DEF Spec

-----------------------------------------------------------------------------
(* Keys.  A pending migration is of a row that is still plain text on disk, *)
(* and a get that read plain text can only overwrite plain text or the same *)
(* key's ciphertext.                                                        *)
CipherInv ==
  /\ \A i \in DOMAIN disk \cap DOMAIN work :
       work[i].enc # disk[i].enc => disk[i].enc = Plain
  /\ \A p \in Procs : pc[p] = "save" =>
       /\ Readable(seen[p])
       /\ sid[p] \in DOMAIN work /\ seen[p].enc = Plain => Readable(work[sid[p]])

LEMMA CipherInit == Init => CipherInv
  BY DEF Init, CipherInv

LEMMA CipherStep == TypeInv /\ CipherInv /\ [Next]_vars => CipherInv'
  <1> SUFFICES ASSUME TypeInv, CipherInv, [Next]_vars PROVE CipherInv'
    OBVIOUS
  <1> USE DEF Go, table, local, history
  <1>1. ASSUME NEW p \in Procs, StartCreate(p) PROVE CipherInv'
    BY <1>1 DEF StartCreate, CipherInv, Readable, TypeInv, TypeOK
  <1>2. ASSUME NEW p \in Procs, Acquire(p) PROVE CipherInv'
    BY <1>2 DEF Acquire, CipherInv, Readable, TypeInv, TypeOK
  <1>3. ASSUME NEW p \in Procs, SelectExisting(p) PROVE CipherInv'
    BY <1>3 DEF SelectExisting, CipherInv, Readable, TypeInv, TypeOK
  <1>4. ASSUME NEW p \in Procs, Touch(p) PROVE CipherInv'
    BY <1>4 DEF Touch, CipherInv, Readable, TypeInv, TypeOK
  <1>5. ASSUME NEW p \in Procs, Count(p) PROVE CipherInv'
    BY <1>5 DEF Count, Return, CipherInv, Readable, TypeInv, TypeOK
  <1>6. ASSUME NEW p \in Procs, Insert(p) PROVE CipherInv'
    <2>1. PICK i \in Ids \ minted :
            work' = Inserted(work, i, [cfg |-> cfg[p], enc |-> key, hash |-> cfg[p]])
      BY <1>6 DEF Insert
    <2>2. /\ DOMAIN work' = DOMAIN work \cup {i} /\ i \notin DOMAIN disk
          /\ \A j \in DOMAIN work : work'[j] = work[j]
          /\ \A q \in Procs : pc[q] = "save" => sid[q] # i
      BY <2>1 DEF Inserted, TypeInv, StoredAreMinted, LocalOK, GetLabels
    <2>3. QED
      BY <1>6, <2>2 DEF Insert, CipherInv, Readable, TypeInv, TypeOK
  <1>7. ASSUME NEW p \in Procs, CommitCreate(p) PROVE CipherInv'
    BY <1>7 DEF CommitCreate, Return, CommitAll, CipherInv, Readable, TypeInv, TypeOK
  <1>8. ASSUME NEW p \in Procs, StartGet(p) PROVE CipherInv'
    BY <1>8 DEF StartGet, CipherInv, Readable, TypeInv, TypeOK
  <1>9. ASSUME NEW p \in Procs, Read(p) PROVE CipherInv'
    BY <1>9 DEF Read, Return, CipherInv, Readable, TypeInv, TypeOK
  <1>10. ASSUME NEW p \in Procs, Save(p) PROVE CipherInv'
    <2>1. /\ pc[p] = "save" /\ pc' = [pc EXCEPT ![p] = "commitGet"]
          /\ UNCHANGED <<disk, key, sid, seen>>
          /\ work' = [i \in DOMAIN work |->
                        IF i = sid[p] THEN Migrated(seen[p], work[i]) ELSE work[i]]
      BY <1>10 DEF Save
    <2>2. sid[p] \in DOMAIN work => work[sid[p]] \in Row
      BY TableFacts DEF TypeInv, TypeOK
    <2>3. sid[p] \in DOMAIN work =>
            LET new == Migrated(seen[p], work[sid[p]]).enc IN
              /\ new # work[sid[p]].enc => work[sid[p]].enc = Plain
              /\ Readable(work[sid[p]]) => new \in {key, Plain}
      BY <2>1, <2>2 DEF CipherInv, Readable, Migrated, Row
    <2>4. /\ DOMAIN work' = DOMAIN work
          /\ \A i \in DOMAIN work :
               /\ work'[i].enc # work[i].enc => work[i].enc = Plain
               /\ Readable(work[i]) => work'[i].enc \in {key, Plain}
      BY <2>1, <2>3 DEF Readable
    <2>5. QED BY <2>1, <2>4 DEF CipherInv, Readable, TypeInv, TypeOK
  <1>11. ASSUME NEW p \in Procs, CommitGet(p) PROVE CipherInv'
    BY <1>11 DEF CommitGet, Return, CommitAll, CipherInv, Readable, TypeInv, TypeOK
  <1>12. ASSUME NEW p \in Procs, StartDelete(p) PROVE CipherInv'
    BY <1>12 DEF StartDelete, CipherInv, Readable, TypeInv, TypeOK
  <1>13. ASSUME NEW p \in Procs, Remove(p) PROVE CipherInv'
    BY <1>13 DEF Remove, Deleted, CipherInv, Readable, TypeInv, TypeOK
  <1>14. ASSUME NEW p \in Procs, CommitDelete(p) PROVE CipherInv'
    BY <1>14 DEF CommitDelete, Return, CommitAll, CipherInv, Readable, TypeInv, TypeOK
  <1>15. ASSUME Restart PROVE CipherInv'
    BY <1>15 DEF Restart, CipherInv
  <1>16. CASE UNCHANGED vars
    BY <1>16 DEF vars, CipherInv, Readable
  <1>17. QED
    BY <1>1, <1>2, <1>3, <1>4, <1>5, <1>6, <1>7, <1>8, <1>9, <1>10, <1>11, <1>12,
        <1>13, <1>14, <1>15, <1>16 DEF Next, Start, Step

(* Only plain text is ever re-encrypted.                                    *)
THEOREM CiphertextIsKept == Spec => CiphertextKept
  <1>1. Init => CipherInv
    BY CipherInit
  <1>2. TypeInv /\ CipherInv /\ [Next]_vars => CipherInv'
    BY CipherStep
  <1>3. CipherInv /\ [Next]_vars =>
          [\A i \in DOMAIN disk \cap DOMAIN disk' :
             disk'[i].enc # disk[i].enc => disk[i].enc = Plain]_vars
    <2>1. [Next]_vars => disk' \in {disk, work}
      BY DEF Next, Start, Step, StartCreate, Acquire, SelectExisting, Touch, Count,
        Insert, CommitCreate, StartGet, Read, Save, CommitGet, StartDelete, Remove,
        CommitDelete, Restart, CommitAll, table, vars
    <2>2. QED BY <2>1 DEF CipherInv
  <1>4. QED BY <1>1, <1>2, <1>3, StoreInvariant, PTL DEF Spec, CiphertextKept

-----------------------------------------------------------------------------
(* Whoever changes the rows goes to its own commit, and a commit takes all. *)
LEMMA LingersStep == TypeInv /\ NothingLingers /\ [Next]_vars => NothingLingers'
  <1> SUFFICES ASSUME TypeInv, NothingLingers, [Next]_vars PROVE NothingLingers'
    OBVIOUS
  <1> USE DEF Go, table, local, history
  <1>0. pc \in [Procs -> Labels]
    BY DEF TypeInv, TypeOK
  <1>1. ASSUME NEW p \in Procs, Start(p) PROVE NothingLingers'
    BY <1>0, <1>1 DEF Start, StartCreate, StartGet, StartDelete, NothingLingers
  <1>2. ASSUME NEW p \in Procs, Acquire(p) \/ SelectExisting(p) \/ Touch(p) \/ Count(p) \/ Read(p)
        PROVE  NothingLingers'
    BY <1>0, <1>2 DEF Acquire, SelectExisting, Touch, Count, Read, Return, NothingLingers
  <1>3. ASSUME NEW p \in Procs, Insert(p) \/ Save(p) \/ Remove(p) PROVE NothingLingers'
    <2>1. pc'[p] \in {"commitCreate", "commitGet", "commitDelete"}
      BY <1>0, <1>3 DEF Insert, Save, Remove
    <2>2. QED BY <2>1 DEF NothingLingers
  <1>4. ASSUME NEW p \in Procs, CommitCreate(p) \/ CommitGet(p) \/ CommitDelete(p)
        PROVE  NothingLingers'
    BY <1>4 DEF CommitCreate, CommitGet, CommitDelete, CommitAll, NothingLingers
  <1>5. CASE Restart
    BY <1>5 DEF Restart, NothingLingers
  <1>6. CASE UNCHANGED vars
    BY <1>6 DEF vars, NothingLingers
  <1>7. QED BY <1>1, <1>2, <1>3, <1>4, <1>5, <1>6 DEF Next, Step

(* Between the requests nothing is pending on the shared connection.        *)
THEOREM NothingIsPending == Spec => []NothingLingers
  <1>1. Init => NothingLingers
    BY DEF Init, NothingLingers
  <1>2. TypeInv /\ SafeInv /\ NothingLingers /\ [Next]_vars => NothingLingers'
    BY LingersStep
  <1>3. QED BY <1>1, <1>2, StoreInvariant, PTL DEF Spec

=============================================================================
