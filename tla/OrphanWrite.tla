---------------------------- MODULE OrphanWrite ----------------------------
(***************************************************************************)
(* Durability with the writes that outlive their task.  atomic_write_secure *)
(* hands the file to spawn_blocking; aborting the task that awaits it drops *)
(* the handle and the sessions.lock guard, but not the closure, which a     *)
(* blocking thread carries out when it gets to it.                          *)
(***************************************************************************)
EXTENDS Durability

CONSTANT MaxLate   \* bound: writes outstanding behind cancelled turns

VARIABLE late      \* the files they will write

ovars == <<vars, late>>

OInit == Init /\ late = {}

\* turn/cancel while the task awaits a write that has not been carried out.
CancelInWrite ==
  /\ at \in TurnAt /\ job # NoJob /\ Cardinality(late) < MaxLate
  /\ late' = late \cup {job}
  /\ WriteBlob(disk, Recoverable) /\ at' = "cancelBlob"
  /\ UNCHANGED <<turn, text, acked, conv, undo, eng, work, disk, told>>

LateWrite ==
  /\ \E f \in late : disk' = f /\ late' = late \ {f}
  /\ UNCHANGED <<at, turn, text, acked, conv, undo, eng, work, job, told>>

ONext ==
  \/ Next /\ late' = IF at' = "down" THEN {} ELSE late
  \/ CancelInWrite \/ LateWrite

OSpec == OInit /\ [][ONext]_ovars
=============================================================================
