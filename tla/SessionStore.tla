---------------------------- MODULE SessionStore ----------------------------
(***************************************************************************)
(* The session directory that every Bailey process on the machine shares    *)
(* (src/src/services/code_session_store.rs): one file per session, an index *)
(* with a row per session, a lock that every change takes, and one lease per *)
(* session.  An App Server leases the sessions it has loaded; the terminal  *)
(* UI and the one-shot commands save and delete without a lease.            *)
(*                                                                          *)
(* One operation, `op`, holds the lock at a time.  It reads the index once,  *)
(* and then is a chain of writes; between any two of them its process may    *)
(* die, and a session may be opened or closed.  A write is atomic, and may   *)
(* fail.  A save that runs in a turn's task may also be aborted by           *)
(* turn/cancel: its lock and the leases it staged are dropped at once, but   *)
(* not the write that a blocking thread is carrying out for it, `late`.      *)
(***************************************************************************)
EXTENDS Naturals, FiniteSets

CONSTANTS
  Session, NoSession,
  Server,      \* App Server processes
  Client,      \* processes that take no lease
  KeyOf,       \* the API key a session belongs to
  ScopeOf,     \* its key and directory
  ScopeCap,    \* MAX_SESSIONS_PER_SCOPE
  TotalCap     \* MAX_TOTAL_SESSIONS

ASSUME CapAssumption == ScopeCap \in Nat \ {0} /\ TotalCap \in Nat \ {0}
ASSUME ProcessAssumption == Server \cap Client = {}

VARIABLES
  files,       \* the sessions that have a file
  fileNewer,   \* fileNewer[s]: the sessions whose file was saved after that of s
  index,       \* whether index.json is "ok", "corrupt" or "missing"
  rows,        \* the sessions that have a row in it
  rowNewer,    \* rowNewer[s]: the rows saved after that of s
  loaded,      \* loaded[p]: the sessions App Server p has leased as runtimes
  op,          \* the operation that holds sessions.lock, or Free
  late,        \* the write an aborted save left to a blocking thread, or NoWrite
  overtaken    \* history: such a write landed behind what had begun since

vars == <<files, fileNewer, index, rows, rowNewer, loaded, op, late, overtaken>>

Process == Server \cup Client
Key == {KeyOf[s] : s \in Session}
NoOrder == [s \in Session |-> {}]
Free == [kind |-> "free", at |-> "none", staged |-> {}]

\* `rows` and `newer`: the index as the operation has read it and will write it.
Op(p, kind, s, at, staged, read, newer) ==
  [kind |-> kind, by |-> p, session |-> s, at |-> at, staged |-> staged,
   rows |-> read, newer |-> newer]

\* A write is fresh until something begins while it is outstanding; what is saved
\* since is newer than the file it writes.
NoWrite ==
  [what |-> "none", by |-> "none", session |-> NoSession, rows |-> {}, newer |-> NoOrder,
   since |-> {}, fresh |-> FALSE]

Holder == IF op = Free THEN {} ELSE {op.by}

\* Leases: of runtimes, of staged removals, and of thread/delete.
Leased ==
  (UNION {loaded[p] : p \in Server})
    \cup op.staged
    \cup (IF op.kind = "delete" THEN {op.session} ELSE {})

-----------------------------------------------------------------------------
(* The index.                                                                 *)

\* Mutant: rows are ordered by created_at.
StampCreated(newer, R, s) ==
  [u \in Session |->
     IF u \notin R THEN {}
     ELSE IF u = s \/ u \in newer[s] THEN newer[u] \cap R ELSE (newer[u] \cap R) \cup {s}]

\* updated_at = now: s is newer than every other member of R.
Stamp(newer, R, s) ==
  [u \in Session |-> IF u = s \/ u \notin R THEN {} ELSE (newer[u] \cap R) \cup {s}]

Among(newer, R) == [u \in Session |-> IF u \in R THEN newer[u] \cap R ELSE {}]

\* The rows a save starts from: an unreadable index is rebuilt from the files,
\* a missing one is empty.
Readable == IF index = "corrupt" THEN files ELSE rows
Times == IF index = "corrupt" THEN fileNewer ELSE rowNewer

\* Mutant: one row too many is over the cap.
ExcessByOne(R, newer) ==
  {s \in R : Cardinality({u \in newer[s] : ScopeOf[u] = ScopeOf[s]}) + 1 >= ScopeCap}

\* stage_old_session_evictions: the rows beyond the cap of their scope, and
\* then, of the others, those beyond the cap of the index.
Excess(R, newer) ==
  LET over == {s \in R : Cardinality({u \in newer[s] : ScopeOf[u] = ScopeOf[s]}) >= ScopeCap}
      kept == R \ over
  IN over \cup {s \in kept : Cardinality(newer[s] \cap kept) >= TotalCap}

-----------------------------------------------------------------------------
Init ==
  /\ files = {} /\ fileNewer = NoOrder
  /\ index = "missing" /\ rows = {} /\ rowNewer = NoOrder
  /\ loaded = [p \in Server |-> {}]
  /\ op = Free /\ late = NoWrite /\ overtaken = FALSE

Disk == <<files, fileNewer, index, rows, rowNewer>>
Abandoned == <<late, overtaken>>

\* What begins now begins before a write that is still outstanding.
Overtake ==
  /\ late' = [late EXCEPT !.fresh = FALSE]
  /\ UNCHANGED overtaken

\* thread/resume: the lease, and then the file, which has to be there.
Resume(p, s) ==
  /\ s \in files \ Leased
  /\ loaded' = [loaded EXCEPT ![p] = @ \cup {s}]
  /\ Overtake
  /\ UNCHANGED <<Disk, op>>

\* The runtime is dropped, and its lease with it.
Close(p, s) ==
  /\ s \in loaded[p]
  /\ p \notin Holder
  /\ loaded' = [loaded EXCEPT ![p] = @ \ {s}]
  /\ UNCHANGED <<Disk, op, Abandoned>>

\* thread/start: a fresh id is leased and the empty session saved.
Start(p, s) ==
  /\ op = Free /\ s \notin Leased \cup files \cup rows \cup late.rows \cup {late.session}
  /\ loaded' = [loaded EXCEPT ![p] = @ \cup {s}]
  /\ op' = Op(p, "start", s, "file", {}, {}, NoOrder)
  /\ Overtake
  /\ UNCHANGED Disk

\* save_code_session_with_id, by the runtime that leases s or by a client.
Save(p, s) ==
  /\ op = Free
  /\ p \in Server => s \in loaded[p]
  /\ op' = Op(p, "save", s, "file", {}, {}, NoOrder)
  /\ Overtake
  /\ UNCHANGED <<Disk, loaded>>

\* Mutant: the file is removed before the row.
DeletingFileFirst(p, kind, s) == Op(p, kind, s, "file only", {}, {}, NoOrder)

\* delete_chat_session removes the row before the file.
Deleting(p, kind, s) ==
  IF s \in rows THEN Op(p, kind, s, "row", {}, rows, rowNewer)
  ELSE Op(p, kind, s, "file only", {}, {}, NoOrder)

\* Mutant: an unreadable index passes for an empty one.
DeleteBlindly(p, s) ==
  /\ op = Free /\ s \in files \cup rows
  /\ p \in Server => s \notin Leased
  /\ op' = Deleting(p, IF p \in Server THEN "delete" ELSE "client delete", s)
  /\ Overtake
  /\ UNCHANGED <<Disk, loaded>>

\* thread/delete takes the lease first; the terminal UI does not.
Delete(p, s) ==
  /\ op = Free /\ index # "corrupt" /\ s \in files \cup rows
  /\ p \in Server => s \notin Leased
  /\ op' = Deleting(p, IF p \in Server THEN "delete" ELSE "client delete", s)
  /\ Overtake
  /\ UNCHANGED <<Disk, loaded>>

\* remove_sessions_for_key: the rows of a key whose lease is free.
RemoveKey(p, key) ==
  /\ op = Free /\ index # "corrupt"
  /\ LET staged == {s \in rows : KeyOf[s] = key} \ Leased
     IN /\ staged # {}
        /\ op' = Op(p, "remove", NoSession, "index", staged, rows, rowNewer)
  /\ Overtake
  /\ UNCHANGED <<Disk, loaded>>

-----------------------------------------------------------------------------
(* The steps of the operation under way.                                      *)

\* The operation ends; a thread that was not started gives its lease back.
End ==
  /\ op' = Free
  /\ loaded' = IF op.kind = "discard"
               THEN [loaded EXCEPT ![op.by] = @ \ {op.session}] ELSE loaded

\* A write failed.  thread/start then deletes the session, which the index must
\* allow.
Fail ==
  IF op.kind # "start" THEN End
  ELSE IF index = "corrupt"
       THEN /\ op' = Free
            /\ loaded' = [loaded EXCEPT ![op.by] = @ \ {op.session}]
       ELSE /\ op' = Deleting(op.by, "discard", op.session)
            /\ UNCHANGED loaded

\* A file save later than the one that is outstanding.
SaveFile ==
  /\ files' = files \cup {op.session}
  /\ fileNewer' = Stamp(fileNewer, files', op.session)
  /\ late' = IF late.what = "file" THEN [late EXCEPT !.since = @ \cup {op.session}] ELSE late

\* The rows a save is about to write, and their times.
Candidates == Readable \cup {op.session}
CandidateTimes == Stamp(Times, Candidates, op.session)

\* Mutant: the leases of the runtimes are not looked at.
StagedIgnoringLeases == Excess(Candidates, CandidateTimes)

\* The evictions: those whose lease is free.
Staged == Excess(Candidates, CandidateTimes) \ Leased

\* The file is written, and may still fail its verification.
FileSaved ==
  /\ op.kind \in {"start", "save"} /\ op.at = "file"
  /\ \/ SaveFile /\ op' = [op EXCEPT !.at = "stage"] /\ UNCHANGED loaded
     \/ (SaveFile \/ UNCHANGED <<files, fileNewer, late>>) /\ Fail
  /\ UNCHANGED <<index, rows, rowNewer, overtaken>>

\* The index is read, and the evictions staged.
Stage ==
  /\ op.at = "stage"
  /\ op' = [op EXCEPT !.at = "index", !.staged = Staged, !.rows = Candidates, !.newer = CandidateTimes]
  /\ UNCHANGED <<Disk, loaded, Abandoned>>

\* The index is saved without the staged sessions; only then do files go.
IndexSaved ==
  /\ op.at = "index"
  /\ \/ /\ rows' = op.rows \ op.staged /\ rowNewer' = Among(op.newer, rows') /\ index' = "ok"
        /\ op' = [op EXCEPT !.at = "unlink", !.rows = {}, !.newer = NoOrder] /\ UNCHANGED loaded
     \/ Fail /\ UNCHANGED <<index, rows, rowNewer>>
  /\ UNCHANGED <<files, fileNewer, Abandoned>>

\* One staged session's file is removed, or cannot be; its lease is dropped.
Unlink ==
  /\ op.at = "unlink"
  /\ \E s \in op.staged :
       /\ files' \in {files, files \ {s}}
       /\ op' = [op EXCEPT !.staged = @ \ {s}]
  /\ fileNewer' = Among(fileNewer, files')
  /\ UNCHANGED <<index, rows, rowNewer, loaded, Abandoned>>

Unlinked ==
  /\ op.at = "unlink" /\ op.staged = {}
  /\ End
  /\ UNCHANGED <<Disk, Abandoned>>

\* Mutant: the index is written in place, and the write may tear it.
RowDroppedInPlace ==
  /\ op.at = "row"
  /\ rows' = op.rows \ {op.session} /\ index' = "torn" /\ End
  /\ UNCHANGED <<files, fileNewer, rowNewer, Abandoned>>

RowDropped ==
  /\ op.at = "row"
  /\ \/ /\ rows' = op.rows \ {op.session} /\ rowNewer' = Among(op.newer, rows') /\ index' = "ok"
        /\ op' = [op EXCEPT !.at = "file after row"] /\ UNCHANGED loaded
     \/ End /\ UNCHANGED <<index, rows, rowNewer>>
  /\ UNCHANGED <<files, fileNewer, Abandoned>>

FileDropped ==
  /\ op.at \in {"file only", "file after row"}
  /\ \/ files' = files \ {op.session} /\ End
     \/ /\ op.session \in files /\ UNCHANGED files
        /\ IF op.at = "file only" THEN End
           ELSE op' = [op EXCEPT !.at = "rollback"] /\ UNCHANGED loaded
  /\ fileNewer' = Among(fileNewer, files')
  /\ UNCHANGED <<index, rows, rowNewer, Abandoned>>

\* The file could not be removed: the index is saved as it was read, if it can be.
RolledBack ==
  /\ op.at = "rollback"
  /\ \/ rows' = op.rows /\ rowNewer' = op.newer /\ index' = "ok"
     \/ UNCHANGED <<index, rows, rowNewer>>
  /\ End
  /\ UNCHANGED <<files, fileNewer, Abandoned>>

-----------------------------------------------------------------------------
(* Saves aborted by turn/cancel.                                              *)

\* What the save under way may have handed to a blocking thread.
Write(what, s) ==
  [what |-> what, by |-> op.by, session |-> s,
   rows |-> op.rows \ op.staged, newer |-> Among(op.newer, op.rows \ op.staged),
   since |-> {}, fresh |-> TRUE]

InFlight ==
  IF op.at = "file" THEN {Write("file", op.session)}
  ELSE IF op.at = "index" THEN {Write("index", NoSession)}
  ELSE IF op.at = "unlink" THEN {Write("unlink", s) : s \in op.staged}
  ELSE {}

\* The save of a turn's task is aborted between two of its writes or in one.
\* Bound: one write is outstanding at a time.
Abort ==
  /\ op.kind = "save" /\ op.by \in Server
  /\ op' = Free
  /\ late' \in IF late = NoWrite THEN {NoWrite} \cup InFlight ELSE {late}
  /\ UNCHANGED <<Disk, loaded, overtaken>>

\* The file has the time of the aborted save: what was saved since is newer.
FileLands ==
  LET s == late.session
      placed == [u \in Session |->
                   IF u = s THEN late.since \ {s}
                   ELSE IF u \in late.since THEN fileNewer[u] \ {s} ELSE fileNewer[u] \cup {s}]
  IN /\ late.what = "file"
     /\ files' = files \cup {s} /\ fileNewer' = Among(placed, files')
     /\ UNCHANGED <<index, rows, rowNewer>>

IndexLands ==
  /\ late.what = "index"
  /\ rows' = late.rows /\ rowNewer' = late.newer /\ index' = "ok"
  /\ UNCHANGED <<files, fileNewer>>

UnlinkLands ==
  /\ late.what = "unlink"
  /\ files' = files \ {late.session} /\ fileNewer' = Among(fileNewer, files')
  /\ UNCHANGED <<index, rows, rowNewer>>

\* The outstanding write lands, or fails.
Land ==
  /\ late # NoWrite
  /\ \/ (FileLands \/ IndexLands \/ UnlinkLands) /\ overtaken' = (overtaken \/ ~late.fresh)
     \/ UNCHANGED <<Disk, overtaken>>
  /\ late' = NoWrite
  /\ UNCHANGED <<loaded, op>>

-----------------------------------------------------------------------------
(* The process dies: the kernel drops its lock and its leases, and its        *)
(* outstanding write is lost.                                                 *)
Crash(p) ==
  /\ loaded' = [q \in Server |-> IF q = p THEN {} ELSE loaded[q]]
  /\ op' = IF p \in Holder THEN Free ELSE op
  /\ late' = IF late.by = p THEN NoWrite ELSE late
  /\ UNCHANGED <<Disk, overtaken>>

\* index.json is damaged or removed from outside, while nothing is being saved.
IndexLost(how) ==
  /\ op = Free /\ late = NoWrite /\ index = "ok"
  /\ index' = how /\ rows' = {} /\ rowNewer' = NoOrder
  /\ UNCHANGED <<files, fileNewer, loaded, op, Abandoned>>

Next ==
  \/ \E p \in Server, s \in Session : Resume(p, s) \/ Close(p, s) \/ Start(p, s)
  \/ \E p \in Process, s \in Session : Save(p, s) \/ Delete(p, s)
  \/ \E p \in Process, key \in Key : RemoveKey(p, key)
  \/ FileSaved \/ Stage \/ IndexSaved \/ Unlink \/ Unlinked
  \/ RowDropped \/ FileDropped \/ RolledBack
  \/ Abort \/ Land
  \/ \E p \in Process : Crash(p)
  \/ \E how \in {"corrupt", "missing"} : IndexLost(how)

Spec == Init /\ [][Next]_vars

-----------------------------------------------------------------------------
(* Properties.                                                                *)

Orders == [Session -> SUBSET Session]

Ops ==
  {Free} \cup
  [kind : {"start", "save", "delete", "client delete", "discard", "remove"},
   by : Process, session : Session \cup {NoSession}, staged : SUBSET Session,
   at : {"file", "stage", "index", "unlink", "row", "file only", "file after row", "rollback"},
   rows : SUBSET Session, newer : Orders]

Writes ==
  {NoWrite} \cup
  [what : {"file", "index", "unlink"}, by : Server, session : Session \cup {NoSession},
   rows : SUBSET Session, newer : Orders, since : SUBSET Session, fresh : BOOLEAN]

TypeOK ==
  /\ files \subseteq Session /\ rows \subseteq Session
  /\ fileNewer \in Orders /\ rowNewer \in Orders
  /\ index \in {"ok", "corrupt", "missing"}
  /\ loaded \in [Server -> SUBSET Session] /\ op \in Ops
  /\ late \in Writes /\ overtaken \in BOOLEAN

\* "never a stale index row that points at a missing session": whatever write
\* failed, whoever died or was aborted between two writes or in one, until a write
\* of an aborted save lands behind an operation or a lease taken since.
RowHasFile == overtaken \/ rows \subseteq files

\* When a save has written the index, the session it saved is in it and has its
\* file: an eviction never takes what is being saved.  Again until a write lands
\* that was overtaken.
SavedIsListed ==
  (op.kind \in {"start", "save"} /\ op.at = "unlink" /\ ~overtaken) => op.session \in rows \cap files

\* "A loaded session returns THREAD_BUSY", and a save, an eviction or the removal
\* of a key in another process spares it too: what an App Server has loaded keeps
\* its file and its row, also from the writes of a save whose staged leases an
\* abort has dropped, as long as the session was not loaded, and nothing else
\* begun, before they land.  Only a client's own deletion takes no lease.
LoadedIsKept ==
  [][\A p \in Server : \A s \in loaded[p] \cap loaded'[p] :
       (op.kind # "client delete" /\ ~overtaken') =>
         /\ s \in files => s \in files'
         /\ (index = "ok" /\ index' = "ok" /\ s \in rows) => s \in rows']_vars

\* A save evicts a session only behind a full scope or a full index of newer
\* ones, which it keeps: in the index it read and now writes, whatever late write
\* has changed the one on disk in between.
EvictsOnlyOldest ==
  [][(op.kind \in {"start", "save"} /\ op.at = "index" /\ op'.at = "unlink") =>
       \A u \in op.staged :
         LET newer == op.newer[u] \cap rows'
         IN \/ Cardinality({v \in newer : ScopeOf[v] = ScopeOf[u]}) >= ScopeCap
            \/ Cardinality(newer) >= TotalCap]_vars

\* "A corrupt/unreadable index is not equivalent to an empty one and must never
\* authorize file removal".
UnreadableRemovesNothing == [][index = "corrupt" => files \subseteq files']_vars
=============================================================================
