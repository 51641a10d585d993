--------------------------- MODULE MCSessionStore ---------------------------
(***************************************************************************)
(* Small instances of SessionStore for TLC.  The slots, configurations,    *)
(* keys and the ids that are not in the migrated database are              *)
(* interchangeable.  No symmetry is used where liveness is checked.        *)
(***************************************************************************)
EXTENDS SessionStore, TLC

Symmetry ==
  Permutations(Procs) \cup Permutations(Configs) \cup Permutations(Keys)
    \cup Permutations(Ids \ Legacy)

(* A state for liveness: without the history, and without the locals that   *)
(* the coroutine only copies into the history on its way out.  No guard and *)
(* no assignment to another variable reads what is left out, and each step  *)
(* of a coroutine changes pc, so equal views have the same futures.         *)
StillNeeded(p) ==
  CASE pc[p] \in {"lock", "select", "count", "insert"} -> <<cfg[p]>>
    [] pc[p] \in {"read", "remove"} -> <<sid[p]>>
    [] pc[p] = "save" -> <<sid[p], seen[p]>>
    [] OTHER -> << >>

WithoutHistory == <<disk, work, key, lock, pc, minted, [p \in Procs |-> StillNeeded(p)]>>
=============================================================================
