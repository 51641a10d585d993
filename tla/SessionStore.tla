---------------------------- MODULE SessionStore ----------------------------
(***************************************************************************)
(* plexio/sessions.py: the SQLite store that maps a session id to an addon *)
(* configuration, as the coroutines of POST /sessions, DELETE              *)
(* /sessions/{id} and of every addon request drive it.                     *)
(*                                                                         *)
(* All coroutines share ONE aiosqlite connection.  Each awaited statement  *)
(* is one step; between two of them any other coroutine may run.  The      *)
(* sqlite3 module opens a transaction at the first INSERT, UPDATE or       *)
(* DELETE and nothing ends it but a commit, so a commit by ANY coroutine   *)
(* makes everyone's pending statements durable.  `work` is the database as *)
(* the connection sees it, `disk` what survives a crash.                   *)
(***************************************************************************)
EXTENDS Integers, FiniteSets, Sequences

CONSTANTS
  Procs,        (* request slots: coroutines that may be in flight at once  *)
  Configs,      (* documents of addon configurations, up to the canonical   *)
                (* form that _config_hash takes: one that lacks the fields  *)
                (* of a later release is another document                   *)
  Ids,          (* the uuid4 values the model has room for                  *)
  Keys,         (* Fernet keys a process may be started with                *)
  MaxSessions,  (* settings.max_sessions                                    *)
  Legacy,       (* ids of rows written before 0.4.3, which have no hash     *)
  None,         (* SQL NULL, Python None                                    *)
  Plain         (* the "key" of a row stored unencrypted (before 0.4.1)     *)

ASSUME ParamAssumption ==
  /\ Legacy \subseteq Ids
  /\ MaxSessions \in Nat
  /\ IsFiniteSet(Ids)
  /\ None \notin Configs \cup Ids
  /\ Plain \notin Keys
  /\ None \notin [cfg : Configs, enc : Keys \cup {Plain}, hash : Configs \cup {None}]

VARIABLES
  disk,     (* committed rows: id -> row                                    *)
  work,     (* rows as the shared connection sees them                      *)
  key,      (* the Fernet key of the running process                        *)
  lock,     (* _create_lock: its holder, then its waiters, in FIFO order    *)
  pc,       (* where each coroutine is                                      *)
  sid,      (* the session id a coroutine works on                          *)
  cfg,      (* the configuration a create was given                         *)
  seen,     (* the row a get has read, or a delete has hit                  *)
  minted,   (* history: every id that was ever in the table                 *)
  doomed,   (* history: ids a DELETE statement has hit                      *)
  told,     (* history: [id, cfg] pairs answered to a client                *)
  revoked   (* history: ids whose DELETE was answered with success          *)

table == <<disk, work, key, minted>>
local == <<sid, cfg, seen>>
history == <<doomed, told, revoked>>
vars == <<disk, work, key, lock, pc, sid, cfg, seen, minted, doomed, told, revoked>>

(* A stored row.  `enc` is the key its config_json is encrypted under; the  *)
(* hash of a configuration is collision-free, hence the configuration.      *)
Row == [cfg : Configs, enc : Keys \cup {Plain}, hash : Configs \cup {None}]

(* What the sessions table can contain.                                     *)
Tables == UNION {[S -> Row] : S \in SUBSET Ids}

CreateLabels == {"lock", "select", "touch", "count", "insert", "commitCreate"}
Locked == CreateLabels \ {"lock"}
GetLabels == {"read", "save", "commitGet"}
DeleteLabels == {"remove", "commitDelete"}
Labels == {"idle"} \cup CreateLabels \cup GetLabels \cup DeleteLabels

TypeOK ==
  /\ disk \in Tables
  /\ work \in Tables
  /\ key \in Keys
  /\ lock \in Seq(Procs)
  /\ pc \in [Procs -> Labels]
  /\ sid \in [Procs -> Ids \cup {None}]
  /\ cfg \in [Procs -> Configs \cup {None}]
  /\ seen \in [Procs -> Row \cup {None}]
  /\ minted \in SUBSET Ids
  /\ doomed \in SUBSET Ids
  /\ told \in SUBSET [id : Ids, cfg : Configs]
  /\ revoked \in SUBSET Ids

Go(p, from, to) ==
  /\ pc[p] = from
  /\ pc' = [pc EXCEPT ![p] = to]

(* The coroutine returns or raises: its request is answered.                *)
Return(p, from) ==
  /\ Go(p, from, "idle")
  /\ sid' = [sid EXCEPT ![p] = None]
  /\ cfg' = [cfg EXCEPT ![p] = None]
  /\ seen' = [seen EXCEPT ![p] = None]

(* The databases earlier releases leave behind: rows without a hash, in the *)
(* clear or encrypted, possibly several for one configuration.              *)
Init ==
  /\ disk \in [Legacy -> [cfg : Configs, enc : Keys \cup {Plain}, hash : {None}]]
  /\ work = disk
  /\ key \in Keys
  /\ lock = << >>
  /\ pc = [p \in Procs |-> "idle"]
  /\ sid = [p \in Procs |-> None]
  /\ cfg = [p \in Procs |-> None]
  /\ seen = [p \in Procs |-> None]
  /\ minted = Legacy
  /\ doomed = {}
  /\ told = {}
  /\ revoked = {}

-----------------------------------------------------------------------------
(* SQL on the shared connection.                                            *)

Inserted(rows, i, row) ==
  [j \in DOMAIN rows \cup {i} |-> IF j = i THEN row ELSE rows[j]]

Deleted(rows, i) == [j \in DOMAIN rows \ {i} |-> rows[j]]

Holding(rows, c) == {i \in DOMAIN rows : rows[i].hash = c}

(* Mutant: an undecryptable row is not told from a readable one.            *)
ReadableByAnyKey(row) == row.enc \in Keys \cup {Plain}

(* The row can be decrypted by the running process, or needs no decryption. *)
Readable(row) == row.enc \in {key, Plain}

(* commit(): whatever is pending becomes durable, whoever executed it.      *)
CommitAll == disk' = work /\ UNCHANGED <<work, key, minted>>

-----------------------------------------------------------------------------
(* create(): under the lock, look for the same configuration, else insert.  *)

HoldsLock(p) == lock # << >> /\ Head(lock) = p

Release == lock' = Tail(lock)

(* The bound on the model: a create starts only if an id is left for it.    *)
RoomToMint ==
  Cardinality(minted) + Cardinality({p \in Procs : pc[p] \in CreateLabels})
    < Cardinality(Ids)

(* The request arrives and queues for the lock.                             *)
StartCreate(p) ==
  /\ RoomToMint
  /\ Go(p, "idle", "lock")
  /\ \E c \in Configs : cfg' = [cfg EXCEPT ![p] = c]
  /\ lock' = Append(lock, p)
  /\ UNCHANGED <<table, sid, seen, history>>

(* Mutant: no lock around create.                                           *)
AcquireUnlocked(p) ==
  /\ Go(p, "lock", "select")
  /\ UNCHANGED <<table, lock, local, history>>

Acquire(p) ==
  /\ HoldsLock(p)
  /\ Go(p, "lock", "select")
  /\ UNCHANGED <<table, lock, local, history>>

(* SELECT session_id ... WHERE config_hash = ?                              *)
SelectExisting(p) ==
  \/ /\ Go(p, "select", "touch")
     /\ \E i \in Holding(work, cfg[p]) : sid' = [sid EXCEPT ![p] = i]
     /\ UNCHANGED <<table, lock, cfg, seen, history>>
  \/ /\ Holding(work, cfg[p]) = {}
     /\ Go(p, "select", "count")
     /\ UNCHANGED <<table, lock, local, history>>

(* UPDATE last_used_at of the session found: no data the model keeps.       *)
Touch(p) ==
  /\ Go(p, "touch", "commitCreate")
  /\ UNCHANGED <<table, lock, local, history>>

(* Mutant: the capacity check lets one session too many in.                 *)
CountOffByOne(p) ==
  \/ /\ Cardinality(DOMAIN work) =< MaxSessions
     /\ Go(p, "count", "insert")
     /\ UNCHANGED <<table, lock, local, history>>
  \/ /\ Cardinality(DOMAIN work) > MaxSessions
     /\ Return(p, "count")
     /\ Release
     /\ UNCHANGED <<table, history>>

(* Mutant: a refused create leaves without giving the lock back.            *)
CountKeepsLock(p) ==
  \/ /\ Cardinality(DOMAIN work) < MaxSessions
     /\ Go(p, "count", "insert")
     /\ UNCHANGED <<table, lock, local, history>>
  \/ /\ Cardinality(DOMAIN work) >= MaxSessions
     /\ Return(p, "count")
     /\ UNCHANGED <<table, lock, history>>

(* SELECT COUNT( * ): at capacity the request fails and frees the lock.     *)
Count(p) ==
  \/ /\ Cardinality(DOMAIN work) < MaxSessions
     /\ Go(p, "count", "insert")
     /\ UNCHANGED <<table, lock, local, history>>
  \/ /\ Cardinality(DOMAIN work) >= MaxSessions
     /\ Return(p, "count")
     /\ Release
     /\ UNCHANGED <<table, history>>

(* Mutant: the drawn id is not kept for the answer.                         *)
InsertForgetsId(p) ==
  /\ Go(p, "insert", "commitCreate")
  /\ \E i \in Ids \ minted :
       /\ minted' = minted \cup {i}
       /\ work' = Inserted(work, i, [cfg |-> cfg[p], enc |-> key, hash |-> cfg[p]])
  /\ UNCHANGED <<disk, key, lock, local, history>>

(* Mutant: ids are recycled once their row is gone, as rowids are.          *)
InsertRecyclesId(p) ==
  /\ Go(p, "insert", "commitCreate")
  /\ \E i \in Ids \ DOMAIN work :
       /\ sid' = [sid EXCEPT ![p] = i]
       /\ minted' = minted \cup {i}
       /\ work' = Inserted(work, i, [cfg |-> cfg[p], enc |-> key, hash |-> cfg[p]])
  /\ UNCHANGED <<disk, key, lock, cfg, seen, history>>

Insert(p) ==
  /\ Go(p, "insert", "commitCreate")
  /\ \E i \in Ids \ minted :
       /\ sid' = [sid EXCEPT ![p] = i]
       /\ minted' = minted \cup {i}
       /\ work' = Inserted(work, i, [cfg |-> cfg[p], enc |-> key, hash |-> cfg[p]])
  /\ UNCHANGED <<disk, key, lock, cfg, seen, history>>

(* commit(), then the answer: the id, with the lock released on the way out.*)
CommitCreate(p) ==
  /\ Return(p, "commitCreate")
  /\ CommitAll
  /\ Release
  /\ told' = told \cup {[id |-> sid[p], cfg |-> cfg[p]]}
  /\ UNCHANGED <<doomed, revoked>>

-----------------------------------------------------------------------------
(* get_config(): no lock; reads, migrates the row, commits.  An id that was *)
(* never minted is answered like one that was deleted.                      *)

StartGet(p) ==
  /\ Go(p, "idle", "read")
  /\ \E i \in minted : sid' = [sid EXCEPT ![p] = i]
  /\ UNCHANGED <<table, lock, cfg, seen, history>>

(* No row answers 404.  A row under another key fails to decrypt, is taken  *)
(* for plain text, fails to parse as JSON and answers 500: json.loads comes *)
(* before the UPDATE.                                                       *)
Read(p) ==
  \/ /\ sid[p] \in DOMAIN work
     /\ Readable(work[sid[p]])
     /\ Go(p, "read", "save")
     /\ seen' = [seen EXCEPT ![p] = work[sid[p]]]
     /\ UNCHANGED <<table, lock, sid, cfg, history>>
  \/ /\ sid[p] \in DOMAIN work => ~Readable(work[sid[p]])
     /\ Return(p, "read")
     /\ UNCHANGED <<table, lock, history>>

(* What get_config writes over `old` after having read `row`: a plain-text  *)
(* row is encrypted, and a missing hash is filled in, that of the document  *)
(* as it is stored.                                                         *)
Migrated(row, old) ==
  LET hash == IF row.hash = None THEN row.cfg ELSE row.hash
  IN  IF row.enc = key
      THEN [old EXCEPT !.hash = hash]
      ELSE [cfg |-> row.cfg, enc |-> key, hash |-> hash]

(* Mutant: the row is written back with INSERT OR REPLACE.                  *)
SaveUpserts(p) ==
  /\ Go(p, "save", "commitGet")
  /\ work' = Inserted(work, sid[p], Migrated(seen[p], seen[p]))
  /\ UNCHANGED <<disk, key, minted, lock, local, history>>

(* UPDATE ... WHERE session_id: touches nothing when the row is gone.       *)
Save(p) ==
  /\ Go(p, "save", "commitGet")
  /\ work' = [i \in DOMAIN work |->
                IF i = sid[p] THEN Migrated(seen[p], work[i]) ELSE work[i]]
  /\ UNCHANGED <<disk, key, minted, lock, local, history>>

(* Mutant: a read that changed nothing itself does not commit.              *)
CommitGetSkipsCommit(p) ==
  /\ Return(p, "commitGet")
  /\ told' = told \cup {[id |-> sid[p], cfg |-> seen[p].cfg]}
  /\ UNCHANGED <<table, lock, doomed, revoked>>

CommitGet(p) ==
  /\ Return(p, "commitGet")
  /\ CommitAll
  /\ told' = told \cup {[id |-> sid[p], cfg |-> seen[p].cfg]}
  /\ UNCHANGED <<lock, doomed, revoked>>

-----------------------------------------------------------------------------
(* delete(): DELETE, commit, and success iff a row was hit.                 *)

StartDelete(p) ==
  /\ Go(p, "idle", "remove")
  /\ \E i \in minted : sid' = [sid EXCEPT ![p] = i]
  /\ UNCHANGED <<table, lock, cfg, seen, history>>

Remove(p) ==
  /\ Go(p, "remove", "commitDelete")
  /\ \/ /\ sid[p] \in DOMAIN work
        /\ seen' = [seen EXCEPT ![p] = work[sid[p]]]
        /\ work' = Deleted(work, sid[p])
        /\ doomed' = doomed \cup {sid[p]}
     \/ /\ sid[p] \notin DOMAIN work
        /\ UNCHANGED <<seen, work, doomed>>
  /\ UNCHANGED <<disk, key, minted, lock, sid, cfg, told, revoked>>

(* Mutant: the DELETE is left to somebody else's commit.                    *)
CommitDeleteSkipsCommit(p) ==
  /\ Return(p, "commitDelete")
  /\ revoked' = IF seen[p] # None THEN revoked \cup {sid[p]} ELSE revoked
  /\ UNCHANGED <<table, lock, doomed, told>>

CommitDelete(p) ==
  /\ Return(p, "commitDelete")
  /\ CommitAll
  /\ revoked' = IF seen[p] # None THEN revoked \cup {sid[p]} ELSE revoked
  /\ UNCHANGED <<lock, doomed, told>>

-----------------------------------------------------------------------------
(* The process dies or is stopped and is started again, with any key: every *)
(* request in flight is lost and so is whatever was not committed.          *)
Restart ==
  /\ work' = disk
  /\ key' \in Keys
  /\ lock' = << >>
  /\ pc' = [p \in Procs |-> "idle"]
  /\ sid' = [p \in Procs |-> None]
  /\ cfg' = [p \in Procs |-> None]
  /\ seen' = [p \in Procs |-> None]
  /\ UNCHANGED <<disk, minted, history>>

Start(p) == StartCreate(p) \/ StartGet(p) \/ StartDelete(p)

Step(p) ==
  \/ Acquire(p) \/ SelectExisting(p) \/ Touch(p) \/ Count(p) \/ Insert(p)
  \/ CommitCreate(p)
  \/ Read(p) \/ Save(p) \/ CommitGet(p)
  \/ Remove(p) \/ CommitDelete(p)

Next == Restart \/ \E p \in Procs : Start(p) \/ Step(p)

Spec == Init /\ [][Next]_vars

(* The event loop resumes every coroutine whose statement has completed,    *)
(* and aiosqlite's thread executes statements in the order they were sent.  *)
FairSpec == Spec /\ \A p \in Procs : WF_vars(Step(p))
-----------------------------------------------------------------------------
(* Properties.                                                              *)

(* A session that a client was told of, by create's answer or by serving    *)
(* its configuration, is on disk with that configuration, so it survives a  *)
(* crash: unless an administrator's DELETE hit it.  get_config may have     *)
(* read a row whose INSERT nobody had committed yet.                        *)
ToldIsDurable ==
  \A t \in told :
    \/ t.id \in DOMAIN disk /\ disk[t.id].cfg = t.cfg
    \/ t.id \in doomed

(* A session whose revocation succeeded is never stored again: not by a get *)
(* that read the row before and updates it after, nor by a restart.         *)
RevokedStaysGone ==
  \A i \in revoked : i \notin DOMAIN disk /\ i \notin DOMAIN work

(* The sessions this release mints are deduplicated: no two of them hold    *)
(* one configuration, however the creates interleave.                       *)
MintedDistinct ==
  \A i, j \in DOMAIN work \ Legacy : work[i].cfg = work[j].cfg => i = j

(* The table does not outgrow MAX_SESSIONS, unless it started larger.       *)
WithinCapacity ==
  \/ Cardinality(DOMAIN work) =< MaxSessions
  \/ DOMAIN work \subseteq Legacy

(* Only plain text is ever re-encrypted: a row under a key the process does *)
(* not have is left as it is, so restoring the key restores the session.    *)
CiphertextKept ==
  [][\A i \in DOMAIN disk \cap DOMAIN disk' :
       disk'[i].enc # disk[i].enc => disk[i].enc = Plain]_vars

(* The rows the connection sees are those on disk whenever no coroutine is  *)
(* between a statement and its commit: nothing lingers to be made durable   *)
(* by somebody else's request later, or lost by a crash.                    *)
NothingLingers ==
  (\A p \in Procs : pc[p] \notin {"commitCreate", "commitGet", "commitDelete"})
    => work = disk

(* At most one create is past the lock, and it is the lock's holder.        *)
LockExcludes ==
  \A p \in Procs : pc[p] \in Locked => HoldsLock(p)

(* Every request is answered, whatever the others do: the lock is handed on *)
(* by a create that succeeds and by one that is refused.                    *)
EveryRequestEnds == \A p \in Procs : pc[p] # "idle" ~> pc[p] = "idle"

(* The store implements the registry.  An INSERT that is still pending has  *)
(* not happened yet, so its id is not spent.                                *)
Registry ==
  INSTANCE SessionRegistry WITH
    sessions <- [i \in DOMAIN disk |-> disk[i].cfg],
    spent    <- minted \ (DOMAIN work \ DOMAIN disk)

ImplementsRegistry == Registry!RegistrySpec

(* README.md: "identical configs are deduplicated"; get_config: "Backfill   *)
(* config_hash for rows created before 0.4.3 so they dedupe too".           *)
IdenticalConfigsDeduplicated ==
  \A i, j \in DOMAIN disk :
    disk[i].hash # None /\ disk[i].hash = disk[j].hash => i = j
=============================================================================
