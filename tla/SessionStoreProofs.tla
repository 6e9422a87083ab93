------------------------- MODULE SessionStoreProofs -------------------------
(***************************************************************************)
(* For any number of sessions, App Servers and clients and for any caps, the *)
(* session directory never lists a session that has no file, a save leaves   *)
(* the session it saved, and what an App Server has loaded is not removed    *)
(* under it, until a write of an aborted save lands behind what has begun    *)
(* since.  One inductive invariant, DirInv, carries all of it: what each     *)
(* point of the operation under way has established, who may hold which      *)
(* lease meanwhile, and what a write that is still outstanding may do.       *)
(***************************************************************************)
EXTENDS SessionStore, DataLemmas

Saving == op.kind \in {"start", "save"}

\* Where an operation of each kind may be, and what it has in hand there.
Steps ==
  /\ op.at \in {"file", "stage", "row", "file only", "file after row", "rollback"}
       => op.session \in Session
  /\ op.at \in {"file", "stage"} => Saving /\ op.staged = {}
  /\ Saving => op.at \in {"file", "stage", "index", "unlink"} /\ op.session \in Session
  /\ (Saving /\ op.at = "index") => op.session \in op.rows
  /\ (Saving /\ op.at \in {"index", "unlink"}) => op.session \notin op.staged
  /\ op.kind \in {"delete", "client delete", "discard"} =>
       op.at \in {"row", "file only", "file after row", "rollback"}
  /\ op.kind = "remove" => op.at \in {"index", "unlink"}
  /\ (op # Free /\ op.at = "unlink") => op.rows = {}
  /\ late.what \in {"file", "unlink"} => late.session \in Session

\* Who holds the leases.
Leases ==
  /\ \A p, q \in Server : p # q => loaded[p] \cap loaded[q] = {}
  /\ \A p \in Server : op.staged \cap loaded[p] = {}
  /\ op.kind = "delete" => \A p \in Server : op.session \notin loaded[p]
  /\ op.kind \in {"start", "discard"} => op.by \in Server /\ op.session \in loaded[op.by]

\* An index that cannot be read admits only saves, and no removal is outstanding.
Unreadable ==
  index = "corrupt" => (op = Free \/ (Saving /\ op.at # "unlink")) /\ late.what # "unlink"

\* What the operation has written so far, and that the index on disk is the one it
\* has read.
Written ==
  /\ rows \subseteq files
  /\ op # Free => op.rows \subseteq files
  /\ op.at \in {"index", "row", "file after row", "rollback"} => rows \subseteq op.rows
  /\ (Saving /\ op.at \in {"stage", "index", "unlink"}) => op.session \in files
  /\ (Saving /\ op.at = "unlink") => op.session \in rows
  /\ op.at = "unlink" => op.staged \cap rows = {}
  /\ op.at \in {"file only", "file after row"} => op.session \notin rows
  /\ (op.kind = "start" /\ op.at # "unlink") => op.session \notin rows
  /\ op.kind = "discard" => op.at = "file only"

\* A write that nothing has overtaken does what its save would have done.
Harmless ==
  late.fresh =>
    /\ op = Free
    /\ late.what = "index" =>
         late.rows \subseteq files /\ \A p \in Server : rows \cap loaded[p] \subseteq late.rows
    /\ late.what = "unlink" =>
         late.session \notin rows /\ \A p \in Server : late.session \notin loaded[p]

Sound == Written /\ Harmless

DirInv == TypeOK /\ Steps /\ Leases /\ Unreadable /\ (overtaken \/ Sound)

-----------------------------------------------------------------------------
(* Records.                                                                   *)

Kinds == {"start", "save", "delete", "client delete", "discard", "remove"}
Places == {"file", "stage", "index", "unlink", "row", "file only", "file after row", "rollback"}

LEMMA FreeFields ==
  Free \in Ops /\ Free.kind = "free" /\ Free.at = "none" /\ Free.staged = {}
BY DEF Free, Ops

LEMMA NoOrderType == NoOrder \in Orders
BY DEF NoOrder, Orders

LEMMA NoWriteFields ==
  /\ NoWrite \in Writes /\ NoWrite.what = "none" /\ NoWrite.fresh = FALSE
  /\ NoWrite.session = NoSession /\ NoWrite.rows = {}
BY DEF NoWrite, Writes

\* A busy operation's fields.
LEMMA BusyFields ==
  ASSUME op \in Ops, op # Free
  PROVE  /\ op.kind \in Kinds /\ op.by \in Process /\ op.session \in Session \cup {NoSession}
         /\ op.staged \in SUBSET Session /\ op.at \in Places
         /\ op.rows \in SUBSET Session /\ op.newer \in Orders
BY DEF Ops, Kinds, Places

LEMMA StagedOp ==
  ASSUME op \in Ops, op # Free, Staged \in SUBSET Session, Candidates \in SUBSET Session,
         CandidateTimes \in Orders,
         op' = [op EXCEPT !.at = "index", !.staged = Staged, !.rows = Candidates, !.newer = CandidateTimes]
  PROVE  /\ op' \in Ops /\ op' # Free /\ op'.kind = op.kind /\ op'.by = op.by
         /\ op'.session = op.session /\ op'.at = "index" /\ op'.staged = Staged
         /\ op'.rows = Candidates /\ op'.newer = CandidateTimes
<1>1. /\ op' \in Ops /\ op'.kind = op.kind /\ op'.by = op.by
      /\ op'.session = op.session /\ op'.at = "index" /\ op'.staged = Staged
      /\ op'.rows = Candidates /\ op'.newer = CandidateTimes
  BY DEF Ops
<1>2. op' # Free
  BY <1>1, FreeFields, BusyFields DEF Kinds
<1> QED
  BY <1>1, <1>2

LEMMA MovedAt ==
  ASSUME op \in Ops, op # Free, NEW at \in Places, op' = [op EXCEPT !.at = at]
  PROVE  /\ op' \in Ops /\ op' # Free /\ op'.kind = op.kind /\ op'.by = op.by
         /\ op'.session = op.session /\ op'.at = at /\ op'.staged = op.staged
         /\ op'.rows = op.rows /\ op'.newer = op.newer
<1>1. /\ op' \in Ops /\ op'.kind = op.kind /\ op'.by = op.by
      /\ op'.session = op.session /\ op'.at = at /\ op'.staged = op.staged
      /\ op'.rows = op.rows /\ op'.newer = op.newer
  BY DEF Ops, Places
<1>2. op' # Free
  BY <1>1, FreeFields, BusyFields DEF Kinds
<1> QED
  BY <1>1, <1>2

LEMMA IndexWritten ==
  ASSUME op \in Ops, op # Free, op' = [op EXCEPT !.at = "unlink", !.rows = {}, !.newer = NoOrder]
  PROVE  /\ op' \in Ops /\ op' # Free /\ op'.kind = op.kind /\ op'.by = op.by
         /\ op'.session = op.session /\ op'.at = "unlink" /\ op'.staged = op.staged
         /\ op'.rows = {} /\ op'.newer = NoOrder
<1>1. /\ op' \in Ops /\ op'.kind = op.kind /\ op'.by = op.by
      /\ op'.session = op.session /\ op'.at = "unlink" /\ op'.staged = op.staged
      /\ op'.rows = {} /\ op'.newer = NoOrder
  BY NoOrderType DEF Ops
<1>2. op' # Free
  BY <1>1, FreeFields, BusyFields DEF Kinds
<1> QED
  BY <1>1, <1>2

\* The write that has been overtaken by what begins.
LEMMA Overtaken ==
  ASSUME late \in Writes, Overtake
  PROVE  /\ late' \in Writes /\ late'.what = late.what /\ late'.session = late.session
         /\ late'.rows = late.rows /\ late'.newer = late.newer /\ late'.since = late.since
         /\ late'.fresh = FALSE /\ overtaken' = overtaken
BY NoWriteFields DEF Overtake, Writes, NoWrite

LEMMA StampType ==
  ASSUME NEW newer \in Orders, NEW R \in SUBSET Session, NEW s \in Session
  PROVE  Stamp(newer, R, s) \in Orders /\ Stamp(newer, R, s)[s] = {}
BY DEF Stamp, Orders

LEMMA AmongType ==
  ASSUME NEW newer, NEW R \in SUBSET Session
  PROVE  Among(newer, R) \in Orders
BY DEF Among, Orders

\* The session being saved is newer than every other: it is no eviction.
LEMMA SavedIsNoExcess ==
  ASSUME NEW R, NEW newer, NEW s, newer[s] = {}
  PROVE  s \notin Excess(R, newer)
<1>1. {u \in newer[s] : ScopeOf[u] = ScopeOf[s]} = {}
  OBVIOUS
<1>2. \A K : newer[s] \cap K = {}
  OBVIOUS
<1>3. Cardinality({}) = 0
  BY FS_EmptySet
<1>4. ~(0 >= ScopeCap) /\ ~(0 >= TotalCap)
  BY CapAssumption
<1> QED
  BY <1>1, <1>2, <1>3, <1>4 DEF Excess

LEMMA ExcessIsRows ==
  ASSUME NEW R, NEW newer
  PROVE  Excess(R, newer) \subseteq R
BY DEF Excess
-----------------------------------------------------------------------------
(* Steps that end the operation, and steps that refuse it.                    *)

DiskTypes ==
  /\ files \subseteq Session /\ rows \subseteq Session
  /\ fileNewer \in Orders /\ rowNewer \in Orders
  /\ index \in {"ok", "corrupt", "missing"}

LateTypes ==
  /\ late \in Writes /\ overtaken \in BOOLEAN
  /\ late.what \in {"file", "unlink"} => late.session \in Session
  /\ index = "corrupt" => late.what # "unlink"

\* Nothing outstanding changes, and nothing that it may touch.
LEMMA LateKept ==
  ASSUME DirInv, UNCHANGED Abandoned, index' = "corrupt" => index = "corrupt"
  PROVE  LateTypes'
BY DEF DirInv, TypeOK, Steps, Unreadable, LateTypes, Abandoned

\* A busy operation has nothing fresh behind it.
LEMMA NoneFresh ==
  ASSUME DirInv, op # Free, ~overtaken
  PROVE  ~late.fresh
BY DEF DirInv, Sound, Harmless

LEMMA Freed ==
  ASSUME DirInv, op' = Free, loaded' \in [Server -> SUBSET Session],
         \A p \in Server : loaded'[p] \subseteq loaded[p],
         DiskTypes', LateTypes', overtaken' \/ (rows' \subseteq files' /\ Harmless')
  PROVE  DirInv'
<1>1. TypeOK'
  BY FreeFields DEF TypeOK, DiskTypes, LateTypes
<1>2. Steps' /\ Unreadable'
  BY FreeFields DEF Steps, Unreadable, Saving, LateTypes
<1>3. Leases'
  <2>1. \A p, q \in Server : p # q => loaded'[p] \cap loaded'[q] = {}
    BY DEF DirInv, Leases
  <2> QED
    BY <2>1, FreeFields DEF Leases
<1>4. overtaken' \/ Sound'
  BY FreeFields DEF Sound, Written, Saving
<1> QED
  BY <1>1, <1>2, <1>3, <1>4 DEF DirInv

LEMMA EndFrees ==
  ASSUME DirInv, op # Free, End
  PROVE  /\ op' = Free /\ loaded' \in [Server -> SUBSET Session]
         /\ \A p \in Server : loaded'[p] \subseteq loaded[p]
BY DEF DirInv, TypeOK, End

\* An operation that ends by itself.
LEMMA EndStep ==
  ASSUME DirInv, op # Free, End, DiskTypes', UNCHANGED Abandoned,
         index' = "corrupt" => index = "corrupt",
         overtaken \/ rows' \subseteq files'
  PROVE  DirInv'
<1>1. LateTypes'
  BY LateKept
<1>2. overtaken' \/ (rows' \subseteq files' /\ Harmless')
  BY NoneFresh DEF Abandoned, Harmless
<1> QED
  BY <1>1, <1>2, EndFrees, Freed

LEMMA FailStep ==
  ASSUME DirInv, op # Free, op.at \in {"file", "index"}, Fail,
         UNCHANGED <<index, rows, overtaken>>, DiskTypes', LateTypes', late'.fresh = late.fresh,
         overtaken \/ rows' \subseteq files'
  PROVE  DirInv'
<1>0. overtaken' \/ (rows' \subseteq files' /\ Harmless')
  BY NoneFresh DEF Harmless
<1>1. CASE op.kind # "start"
  <2>1. End
    BY <1>1 DEF Fail
  <2> QED
    BY <1>0, <2>1, EndFrees, Freed
<1>2. CASE op.kind = "start" /\ index = "corrupt"
  <2>1. /\ op' = Free /\ loaded' = [loaded EXCEPT ![op.by] = @ \ {op.session}]
    BY <1>2 DEF Fail
  <2>2. /\ loaded' \in [Server -> SUBSET Session]
        /\ \A p \in Server : loaded'[p] \subseteq loaded[p]
    BY <2>1 DEF DirInv, TypeOK
  <2> QED
    BY <1>0, <2>1, <2>2, Freed
<1>3. CASE op.kind = "start" /\ index # "corrupt"
  <2> DEFINE hasRow == op.session \in rows
  <2>1. /\ op.session \in Session /\ op.by \in Server /\ op.session \in loaded[op.by]
        /\ op.by \in Process /\ rowNewer \in Orders /\ rows \in SUBSET Session
    BY <1>3 DEF DirInv, TypeOK, Steps, Leases, Saving, Process
  <2>2. loaded' = loaded /\ op' = Deleting(op.by, "discard", op.session)
    BY <1>3 DEF Fail
  <2>3. /\ op' \in Ops /\ op' # Free /\ op'.kind = "discard" /\ op'.by = op.by
        /\ op'.session = op.session /\ op'.at = (IF hasRow THEN "row" ELSE "file only")
        /\ op'.staged = {} /\ op'.rows \subseteq rows
    <3>1. CASE hasRow
      <4>1. op' = Op(op.by, "discard", op.session, "row", {}, rows, rowNewer)
        BY <2>2, <3>1 DEF Deleting
      <4>2. /\ op'.kind = "discard" /\ op'.by = op.by /\ op'.session = op.session /\ op'.at = "row"
            /\ op'.staged = {} /\ op'.rows = rows /\ op'.newer = rowNewer /\ op' \in Ops
        BY <2>1, <4>1, NoOrderType DEF Op, Ops
      <4> QED
        BY <3>1, <4>2, FreeFields
    <3>2. CASE ~hasRow
      <4>1. op' = Op(op.by, "discard", op.session, "file only", {}, {}, NoOrder)
        BY <2>2, <3>2 DEF Deleting
      <4>2. /\ op'.kind = "discard" /\ op'.by = op.by /\ op'.session = op.session /\ op'.at = "file only"
            /\ op'.staged = {} /\ op'.rows = {} /\ op'.newer = NoOrder /\ op' \in Ops
        BY <2>1, <4>1, NoOrderType DEF Op, Ops
      <4> QED
        BY <3>2, <4>2, FreeFields
    <3> QED
      BY <3>1, <3>2
  <2>4. TypeOK'
    BY <2>2, <2>3 DEF DirInv, TypeOK, DiskTypes, LateTypes
  <2>5. Steps'
    BY <2>1, <2>3 DEF Steps, Saving, LateTypes
  <2>6. Leases'
    BY <2>1, <2>2, <2>3 DEF DirInv, Leases
  <2>7. Unreadable'
    BY <1>3 DEF Unreadable
  <2>8. ASSUME ~overtaken PROVE Sound'
    <3>1. op.session \notin rows
      BY <1>3, <2>8 DEF DirInv, Sound, Written
    <3>2. Written'
      BY <2>3, <2>8, <3>1 DEF Written, Saving
    <3> QED
      BY <1>0, <2>8, <3>2 DEF Sound
  <2> QED
    BY <2>4, <2>5, <2>6, <2>7, <2>8 DEF DirInv
<1> QED
  BY <1>1, <1>2, <1>3

-----------------------------------------------------------------------------
(* Steps that begin an operation, or none.                                    *)

LEMMA NotLeased ==
  ASSUME NEW s, s \notin Leased
  PROVE  /\ s \notin op.staged /\ \A p \in Server : s \notin loaded[p]
         /\ op.kind = "delete" => s # op.session
<1> DEFINE Runtimes == UNION {loaded[p] : p \in Server}
           Deleted == IF op.kind = "delete" THEN {op.session} ELSE {}
<1>1. Leased = Runtimes \cup op.staged \cup Deleted
  BY DEF Leased
<1> HIDE DEF Runtimes, Deleted
<1>2. s \notin Runtimes /\ s \notin op.staged /\ s \notin Deleted
  BY <1>1
<1>3. \A p \in Server : s \notin loaded[p]
  BY <1>2 DEF Runtimes
<1>4. op.kind = "delete" => s # op.session
  BY <1>2 DEF Deleted
<1> QED
  BY <1>2, <1>3, <1>4

\* What begins finds the write outstanding, and overtakes it.
LEMMA OvertakeTypes ==
  ASSUME DirInv, Overtake, UNCHANGED index
  PROVE  LateTypes' /\ Harmless' /\ overtaken' = overtaken
<1>1. late \in Writes /\ overtaken \in BOOLEAN
  BY DEF DirInv, TypeOK
<1> QED
  BY <1>1, Overtaken DEF DirInv, Steps, Unreadable, LateTypes, Harmless

LEMMA ResumeStep ==
  ASSUME DirInv, NEW p \in Server, NEW s \in Session, Resume(p, s)
  PROVE  DirInv'
<1>1. /\ UNCHANGED <<files, fileNewer, index, rows, rowNewer, op>>
      /\ loaded' = [loaded EXCEPT ![p] = @ \cup {s}] /\ s \notin Leased
  BY DEF Resume, Disk
<1>2. \A q \in Server : loaded'[q] = IF q = p THEN loaded[q] \cup {s} ELSE loaded[q]
  BY <1>1 DEF DirInv, TypeOK
<1>3. LateTypes' /\ Harmless' /\ overtaken' = overtaken
  BY <1>1, OvertakeTypes DEF Resume
<1>4. TypeOK'
  BY <1>1, <1>3 DEF DirInv, TypeOK, LateTypes
<1>5. Steps' /\ Unreadable'
  BY <1>1, <1>3 DEF DirInv, Steps, Unreadable, Saving, LateTypes
<1>6. overtaken' \/ Sound'
  BY <1>1, <1>3 DEF DirInv, Sound, Written, Saving
<1>7. Leases'
  <2>1. /\ s \notin op.staged /\ \A q \in Server : s \notin loaded[q]
        /\ op.kind = "delete" => s # op.session
    BY <1>1, NotLeased
  <2>2. ASSUME NEW q \in Server, NEW r \in Server, q # r
        PROVE  loaded'[q] \cap loaded'[r] = {}
    <3>1. loaded[q] \cap loaded[r] = {} /\ s \notin loaded[q] /\ s \notin loaded[r]
      BY <2>1, <2>2 DEF DirInv, Leases
    <3> QED
      BY <1>2, <2>2, <3>1
  <2>3. \A q \in Server : op.staged \cap loaded'[q] = {}
    BY <1>2, <2>1 DEF DirInv, Leases
  <2>4. op.kind = "delete" => \A q \in Server : op.session \notin loaded'[q]
    BY <1>2, <2>1 DEF DirInv, Leases
  <2>5. op.kind \in {"start", "discard"} => op.by \in Server /\ op.session \in loaded'[op.by]
    BY <1>2 DEF DirInv, Leases
  <2> QED
    BY <1>1, <2>2, <2>3, <2>4, <2>5 DEF Leases
<1> QED
  BY <1>4, <1>5, <1>6, <1>7 DEF DirInv

LEMMA CloseStep ==
  ASSUME DirInv, NEW p \in Server, NEW s \in Session, Close(p, s)
  PROVE  DirInv'
<1>1. /\ UNCHANGED <<files, fileNewer, index, rows, rowNewer, op, late, overtaken>>
      /\ loaded' = [loaded EXCEPT ![p] = @ \ {s}] /\ p \notin Holder
  BY DEF Close, Disk, Abandoned
<1>2. \A q \in Server : loaded'[q] = IF q = p THEN loaded[q] \ {s} ELSE loaded[q]
  BY <1>1 DEF DirInv, TypeOK
<1>3. op.kind \in {"start", "discard"} => op.by # p
  BY <1>1, FreeFields DEF Holder
<1>4. TypeOK'
  BY <1>1 DEF DirInv, TypeOK
<1>5. Steps' /\ Unreadable'
  BY <1>1 DEF DirInv, Steps, Unreadable, Saving
<1>6. Leases'
  BY <1>1, <1>2, <1>3 DEF DirInv, Leases
<1>7. overtaken' \/ Sound'
  <2>1. Written => Written'
    BY <1>1 DEF Written, Saving
  <2>2. Harmless => Harmless'
    BY <1>1, <1>2 DEF Harmless
  <2> QED
    BY <1>1, <2>1, <2>2 DEF DirInv, Sound
<1> QED
  BY <1>4, <1>5, <1>6, <1>7 DEF DirInv

LEMMA StartStep ==
  ASSUME DirInv, NEW p \in Server, NEW s \in Session, Start(p, s)
  PROVE  DirInv'
<1>1. /\ UNCHANGED <<files, fileNewer, index, rows, rowNewer>> /\ op = Free
      /\ op' = Op(p, "start", s, "file", {}, {}, NoOrder) /\ s \notin rows
      /\ \A q \in Server : s \notin loaded[q]
      /\ loaded' = [loaded EXCEPT ![p] = @ \cup {s}]
  BY DEF Start, Disk, Leased
<1>2. /\ op' \in Ops /\ op' # Free /\ op'.kind = "start" /\ op'.by = p /\ op'.session = s
      /\ op'.at = "file" /\ op'.staged = {} /\ op'.rows = {}
  BY <1>1, FreeFields, NoOrderType DEF Op, Ops, Process
<1>3. \A q \in Server : loaded'[q] = IF q = p THEN loaded[q] \cup {s} ELSE loaded[q]
  BY <1>1 DEF DirInv, TypeOK
<1>4. LateTypes' /\ Harmless' /\ overtaken' = overtaken
  BY <1>1, OvertakeTypes DEF Start
<1>5. TypeOK'
  BY <1>1, <1>2, <1>4 DEF DirInv, TypeOK, LateTypes
<1>6. Steps' /\ Unreadable'
  BY <1>1, <1>2, <1>4 DEF Steps, Unreadable, Saving, LateTypes
<1>7. Leases'
  BY <1>1, <1>2, <1>3 DEF DirInv, Leases
<1>8. overtaken' \/ Sound'
  BY <1>1, <1>2, <1>4 DEF DirInv, Sound, Written, Saving
<1> QED
  BY <1>5, <1>6, <1>7, <1>8 DEF DirInv

LEMMA SaveStep ==
  ASSUME DirInv, NEW p \in Process, NEW s \in Session, Save(p, s)
  PROVE  DirInv'
<1>1. /\ UNCHANGED <<files, fileNewer, index, rows, rowNewer, loaded>>
      /\ op' = Op(p, "save", s, "file", {}, {}, NoOrder)
  BY DEF Save, Disk
<1>2. /\ op' \in Ops /\ op' # Free /\ op'.kind = "save" /\ op'.by = p /\ op'.session = s
      /\ op'.at = "file" /\ op'.staged = {} /\ op'.rows = {}
  BY <1>1, FreeFields, NoOrderType DEF Op, Ops
<1>3. LateTypes' /\ Harmless' /\ overtaken' = overtaken
  BY <1>1, OvertakeTypes DEF Save
<1>4. TypeOK'
  BY <1>1, <1>2, <1>3 DEF DirInv, TypeOK, LateTypes
<1>5. Steps' /\ Unreadable' /\ Leases'
  BY <1>1, <1>2, <1>3 DEF DirInv, Steps, Unreadable, Saving, Leases, LateTypes
<1>6. overtaken' \/ Sound'
  BY <1>1, <1>2, <1>3 DEF DirInv, Sound, Written, Saving
<1> QED
  BY <1>4, <1>5, <1>6 DEF DirInv

LEMMA DeleteStep ==
  ASSUME DirInv, NEW p \in Process, NEW s \in Session, Delete(p, s)
  PROVE  DirInv'
<1> DEFINE kind == IF p \in Server THEN "delete" ELSE "client delete"
           at == IF s \in rows THEN "row" ELSE "file only"
<1>1. /\ UNCHANGED <<files, fileNewer, index, rows, rowNewer, loaded>> /\ index # "corrupt"
      /\ op' = Deleting(p, kind, s) /\ (p \in Server => s \notin Leased)
  BY DEF Delete, Disk
<1>2. kind \in {"delete", "client delete"} /\ rows \in SUBSET Session /\ rowNewer \in Orders
  BY DEF DirInv, TypeOK
<1> HIDE DEF kind
<1>3. /\ op' \in Ops /\ op' # Free /\ op'.kind = kind /\ op'.by = p /\ op'.session = s
      /\ op'.at = at /\ op'.staged = {} /\ op'.rows = (IF s \in rows THEN rows ELSE {})
  <2>1. CASE s \in rows
    <3>1. op' = Op(p, kind, s, "row", {}, rows, rowNewer)
      BY <1>1, <2>1 DEF Deleting
    <3>2. /\ op'.kind = kind /\ op'.by = p /\ op'.session = s /\ op'.at = "row"
          /\ op'.staged = {} /\ op'.rows = rows /\ op'.newer = rowNewer /\ op' \in Ops
      BY <1>2, <3>1, NoOrderType DEF Op, Ops
    <3> QED
      BY <2>1, <3>2, FreeFields
  <2>2. CASE s \notin rows
    <3>1. op' = Op(p, kind, s, "file only", {}, {}, NoOrder)
      BY <1>1, <2>2 DEF Deleting
    <3>2. /\ op'.kind = kind /\ op'.by = p /\ op'.session = s /\ op'.at = "file only"
          /\ op'.staged = {} /\ op'.rows = {} /\ op'.newer = NoOrder /\ op' \in Ops
      BY <1>2, <3>1, NoOrderType DEF Op, Ops
    <3> QED
      BY <2>2, <3>2, FreeFields
  <2> QED
    BY <2>1, <2>2
<1>4. LateTypes' /\ Harmless' /\ overtaken' = overtaken
  BY <1>1, OvertakeTypes DEF Delete
<1>5. TypeOK'
  BY <1>1, <1>3, <1>4 DEF DirInv, TypeOK, LateTypes
<1>6. Steps' /\ Unreadable'
  BY <1>1, <1>2, <1>3, <1>4 DEF Steps, Unreadable, Saving, LateTypes
<1>7. Leases'
  <2>1. kind = "delete" => \A q \in Server : s \notin loaded[q]
    BY <1>1 DEF Leased, kind
  <2> QED
    BY <1>1, <1>2, <1>3, <2>1 DEF DirInv, Leases
<1>8. ASSUME ~overtaken PROVE Sound'
  <2>1. rows \subseteq files
    BY <1>8 DEF DirInv, Sound, Written
  <2>2. Written'
    BY <1>1, <1>2, <1>3, <2>1 DEF Written, Saving
  <2> QED
    BY <1>4, <2>2 DEF Sound
<1> QED
  BY <1>4, <1>5, <1>6, <1>7, <1>8 DEF DirInv

LEMMA RemoveKeyStep ==
  ASSUME DirInv, NEW p \in Process, NEW key \in Key, RemoveKey(p, key)
  PROVE  DirInv'
<1>1. PICK staged \in SUBSET rows :
        /\ UNCHANGED <<files, fileNewer, index, rows, rowNewer, loaded>> /\ index # "corrupt"
        /\ op' = Op(p, "remove", NoSession, "index", staged, rows, rowNewer)
        /\ staged \cap Leased = {}
  BY DEF RemoveKey, Disk
<1>2. staged \in SUBSET Session /\ rows \in SUBSET Session /\ rowNewer \in Orders
  BY DEF DirInv, TypeOK
<1>3. /\ op' \in Ops /\ op' # Free /\ op'.kind = "remove" /\ op'.by = p /\ op'.at = "index"
      /\ op'.staged = staged /\ op'.rows = rows
  BY <1>1, <1>2, FreeFields DEF Op, Ops
<1>4. LateTypes' /\ Harmless' /\ overtaken' = overtaken
  BY <1>1, OvertakeTypes DEF RemoveKey
<1>5. TypeOK'
  BY <1>1, <1>3, <1>4 DEF DirInv, TypeOK, LateTypes
<1>6. Steps' /\ Unreadable'
  BY <1>1, <1>3, <1>4 DEF Steps, Unreadable, Saving, LateTypes
<1>7. Leases'
  <2>1. \A q \in Server : staged \cap loaded[q] = {}
    BY <1>1 DEF Leased
  <2> QED
    BY <1>1, <1>3, <2>1 DEF DirInv, Leases
<1>8. overtaken' \/ Sound'
  BY <1>1, <1>3, <1>4 DEF DirInv, Sound, Written, Saving
<1> QED
  BY <1>4, <1>5, <1>6, <1>7, <1>8 DEF DirInv

LEMMA CrashStep ==
  ASSUME DirInv, NEW p \in Process, Crash(p)
  PROVE  DirInv'
<1>1. /\ loaded' \in [Server -> SUBSET Session]
      /\ \A q \in Server : loaded'[q] = IF q = p THEN {} ELSE loaded[q]
      /\ UNCHANGED <<files, fileNewer, index, rows, rowNewer, overtaken>>
  BY DEF Crash, Disk, DirInv, TypeOK
<1>2. late' = NoWrite \/ late' = late
  BY DEF Crash
<1>3. DiskTypes' /\ LateTypes'
  BY <1>1, <1>2, NoWriteFields DEF DirInv, TypeOK, Steps, Unreadable, DiskTypes, LateTypes
<1>4. CASE p \in Holder
  <2>1. op # Free /\ op' = Free
    BY <1>4 DEF Holder, Crash
  <2>2. overtaken' \/ (rows' \subseteq files' /\ Harmless')
    BY <1>1, <1>2, <2>1, NoneFresh, NoWriteFields DEF DirInv, Sound, Written, Harmless
  <2> QED
    BY <1>1, <1>3, <2>1, <2>2, Freed
<1>5. CASE p \notin Holder
  <2>1. op' = op
    BY <1>5 DEF Crash
  <2>2. op.kind \in {"start", "discard"} => op.by # p
    BY <1>5, FreeFields DEF Holder
  <2>3. Leases'
    BY <1>1, <2>1, <2>2 DEF DirInv, Leases
  <2>4. TypeOK' /\ Steps' /\ Unreadable'
    BY <1>1, <1>3, <2>1 DEF DirInv, TypeOK, Steps, Unreadable, Saving, LateTypes
  <2>5. overtaken' \/ Sound'
    <3>1. Written => Written'
      BY <1>1, <2>1 DEF Written, Saving
    <3>2. Harmless => Harmless'
      BY <1>1, <1>2, <2>1, NoWriteFields DEF Harmless
    <3> QED
      BY <1>1, <3>1, <3>2 DEF DirInv, Sound
  <2> QED
    BY <2>3, <2>4, <2>5 DEF DirInv
<1> QED
  BY <1>4, <1>5

LEMMA IndexLostStep ==
  ASSUME DirInv, NEW how \in {"corrupt", "missing"}, IndexLost(how)
  PROVE  DirInv'
<1>1. /\ op' = Free /\ loaded' = loaded /\ files' = files /\ fileNewer' = fileNewer
      /\ index' = how /\ rows' = {} /\ rowNewer' = NoOrder /\ late' = NoWrite
      /\ overtaken' = overtaken
  BY DEF IndexLost, Abandoned
<1>2. DiskTypes' /\ LateTypes' /\ rows' \subseteq files' /\ Harmless'
  BY <1>1, NoOrderType, NoWriteFields DEF DirInv, TypeOK, DiskTypes, LateTypes, Harmless
<1> QED
  BY <1>1, <1>2, Freed DEF DirInv, TypeOK

-----------------------------------------------------------------------------
(* The steps of the operation under way.                                      *)

LEMMA SaveFileFacts ==
  ASSUME DirInv, op # Free, op.session \in Session, SaveFile, UNCHANGED <<index, rows, rowNewer, overtaken>>
  PROVE  /\ files' = files \cup {op.session} /\ DiskTypes' /\ LateTypes'
         /\ late'.fresh = late.fresh
<1>1. files' \in SUBSET Session /\ fileNewer' \in Orders
  <2>1. files' \in SUBSET Session
    BY DEF SaveFile, DirInv, TypeOK
  <2> QED
    BY <2>1, StampType DEF SaveFile, DirInv, TypeOK
<1>2. DiskTypes'
  BY <1>1 DEF DirInv, TypeOK, DiskTypes
<1>3. late' \in Writes /\ late'.what = late.what /\ late'.session = late.session /\ late'.fresh = late.fresh
  BY NoWriteFields DEF SaveFile, DirInv, TypeOK, Writes
<1>4. LateTypes'
  BY <1>3 DEF DirInv, TypeOK, Steps, Unreadable, LateTypes
<1> QED
  BY <1>2, <1>3, <1>4 DEF SaveFile

LEMMA FileSavedStep ==
  ASSUME DirInv, FileSaved
  PROVE  DirInv'
<1>1. /\ op # Free /\ Saving /\ op.at = "file" /\ op \in Ops /\ op.session \in Session
      /\ UNCHANGED <<index, rows, rowNewer, overtaken>> /\ op.staged = {}
  BY FreeFields DEF FileSaved, DirInv, TypeOK, Steps, Saving
<1>2. CASE SaveFile /\ op' = [op EXCEPT !.at = "stage"] /\ UNCHANGED loaded
  <2>1. /\ op' \in Ops /\ op' # Free /\ op'.kind = op.kind /\ op'.by = op.by
        /\ op'.session = op.session /\ op'.at = "stage" /\ op'.staged = op.staged
        /\ op'.rows = op.rows
    BY <1>1, <1>2, MovedAt DEF Places
  <2>2. /\ files' = files \cup {op.session} /\ DiskTypes' /\ LateTypes' /\ late'.fresh = late.fresh
    BY <1>1, <1>2, SaveFileFacts
  <2>3. TypeOK'
    BY <1>2, <2>1, <2>2 DEF DirInv, TypeOK, DiskTypes, LateTypes
  <2>4. Steps'
    BY <1>1, <2>1, <2>2 DEF Steps, Saving, LateTypes
  <2>5. Unreadable'
    BY <1>1, <2>1, <2>2 DEF Unreadable, Saving, LateTypes
  <2>6. Leases'
    BY <1>1, <1>2, <2>1 DEF DirInv, Leases
  <2>7. ASSUME ~overtaken PROVE Sound'
    <3>1. Written /\ ~late'.fresh
      BY <1>1, <2>2, <2>7, NoneFresh DEF DirInv, Sound
    <3>2. Written'
      BY <1>1, <2>1, <2>2, <3>1 DEF Written, Saving
    <3> QED
      BY <3>1, <3>2 DEF Sound, Harmless
  <2> QED
    BY <1>1, <2>3, <2>4, <2>5, <2>6, <2>7 DEF DirInv
<1>3. CASE (SaveFile \/ UNCHANGED <<files, fileNewer, late>>) /\ Fail
  <2>1. DiskTypes' /\ LateTypes' /\ late'.fresh = late.fresh /\ files \subseteq files'
    <3>1. CASE SaveFile
      BY <1>1, <3>1, SaveFileFacts
    <3>2. CASE UNCHANGED <<files, fileNewer, late>>
      BY <1>1, <3>2 DEF DirInv, TypeOK, Steps, Unreadable, DiskTypes, LateTypes
    <3> QED
      BY <1>3, <3>1, <3>2
  <2>2. overtaken \/ rows' \subseteq files'
    BY <1>1, <2>1 DEF DirInv, Sound, Written
  <2> QED
    BY <1>1, <1>3, <2>1, <2>2, FailStep
<1> QED
  BY <1>2, <1>3 DEF FileSaved

\* What a save is about to write.
LEMMA CandidateFacts ==
  ASSUME DirInv, op.session \in Session
  PROVE  /\ Candidates \in SUBSET Session /\ CandidateTimes \in Orders
         /\ op.session \in Candidates /\ op.session \notin Staged
         /\ Staged \subseteq Candidates /\ (rows \subseteq Candidates \/ index = "corrupt")
         /\ \A p \in Server : Staged \cap loaded[p] = {}
<1>1. Candidates \in SUBSET Session /\ op.session \in Candidates /\ (rows \subseteq Candidates \/ index = "corrupt")
  BY DEF DirInv, TypeOK, Candidates, Readable
<1>2. Times \in Orders
  BY DEF DirInv, TypeOK, Times
<1>3. CandidateTimes \in Orders /\ CandidateTimes[op.session] = {}
  BY <1>1, <1>2, StampType DEF CandidateTimes
<1>4. op.session \notin Staged
  BY <1>3, SavedIsNoExcess DEF Staged
<1>5. Staged \subseteq Candidates
  BY ExcessIsRows DEF Staged
<1>6. \A p \in Server : Staged \cap loaded[p] = {}
  <2>1. \A s \in Staged : s \notin Leased
    BY DEF Staged
  <2> QED
    BY <2>1, NotLeased
<1> QED
  BY <1>1, <1>3, <1>4, <1>5, <1>6

LEMMA StageStep ==
  ASSUME DirInv, Stage
  PROVE  DirInv'
<1>1. /\ op # Free /\ Saving /\ op.at = "stage" /\ op \in Ops /\ op.session \in Session
      /\ op' = [op EXCEPT !.at = "index", !.staged = Staged, !.rows = Candidates, !.newer = CandidateTimes]
      /\ UNCHANGED <<files, fileNewer, index, rows, rowNewer, loaded, late, overtaken>>
  BY FreeFields DEF Stage, Disk, Abandoned, DirInv, TypeOK, Steps
<1>2. /\ Candidates \in SUBSET Session /\ CandidateTimes \in Orders /\ Staged \in SUBSET Session
      /\ op.session \in Candidates /\ op.session \notin Staged
      /\ \A p \in Server : Staged \cap loaded[p] = {}
  BY <1>1, CandidateFacts
<1>3. /\ op' \in Ops /\ op' # Free /\ op'.kind = op.kind /\ op'.by = op.by
      /\ op'.session = op.session /\ op'.at = "index" /\ op'.staged = Staged
      /\ op'.rows = Candidates
  BY <1>1, <1>2, StagedOp
<1>4. TypeOK'
  BY <1>1, <1>3 DEF DirInv, TypeOK
<1>5. Steps'
  BY <1>1, <1>2, <1>3 DEF DirInv, Steps, Saving
<1>6. Unreadable'
  BY <1>1, <1>3 DEF DirInv, Unreadable, Saving
<1>7. Leases'
  BY <1>1, <1>2, <1>3 DEF DirInv, Leases
<1>8. ASSUME ~overtaken PROVE Sound'
  <2>1. Written /\ ~late.fresh
    BY <1>1, <1>8, NoneFresh DEF DirInv, Sound
  <2>2. Candidates \subseteq files /\ rows \subseteq Candidates
    BY <1>1, <2>1 DEF Candidates, Readable, Written
  <2>3. Written'
    BY <1>1, <1>3, <2>1, <2>2 DEF Written, Saving
  <2> QED
    BY <1>1, <2>1, <2>3 DEF Sound, Harmless
<1> QED
  BY <1>1, <1>4, <1>5, <1>6, <1>7, <1>8 DEF DirInv

LEMMA IndexSavedStep ==
  ASSUME DirInv, IndexSaved
  PROVE  DirInv'
<1>1. /\ op # Free /\ op.at = "index" /\ op \in Ops /\ op.kind \in {"start", "save", "remove"}
      /\ UNCHANGED <<files, fileNewer, late, overtaken>>
  <2>1. op # Free /\ op.at = "index" /\ op \in Ops
    BY FreeFields DEF IndexSaved, DirInv, TypeOK
  <2>2. op.kind \in {"start", "save", "remove"}
    BY <2>1, BusyFields DEF DirInv, Steps, Kinds
  <2> QED
    BY <2>1, <2>2 DEF IndexSaved, Abandoned
<1>2. CASE Fail /\ UNCHANGED <<index, rows, rowNewer>>
  <2>1. DiskTypes' /\ LateTypes' /\ (overtaken \/ rows' \subseteq files')
    BY <1>1, <1>2 DEF DirInv, TypeOK, Steps, Unreadable, Sound, Written, DiskTypes, LateTypes
  <2> QED
    BY <1>1, <1>2, <2>1, FailStep
<1>3. CASE /\ rows' = op.rows \ op.staged /\ rowNewer' = Among(op.newer, rows') /\ index' = "ok"
           /\ op' = [op EXCEPT !.at = "unlink", !.rows = {}, !.newer = NoOrder] /\ UNCHANGED loaded
  <2>1. /\ op' \in Ops /\ op' # Free /\ op'.kind = op.kind /\ op'.by = op.by
        /\ op'.session = op.session /\ op'.at = "unlink" /\ op'.staged = op.staged
        /\ op'.rows = {}
    BY <1>1, <1>3, IndexWritten
  <2>2. rows' \in SUBSET Session
    BY <1>1, <1>3, BusyFields
  <2>3. rowNewer' \in Orders
    BY <1>3, <2>2, AmongType
  <2>4. TypeOK'
    BY <1>1, <1>3, <2>1, <2>2, <2>3 DEF DirInv, TypeOK
  <2>5. Steps'
    BY <1>1, <2>1 DEF DirInv, Steps, Saving
  <2>6. Unreadable' /\ Leases'
    BY <1>1, <1>3, <2>1 DEF DirInv, Unreadable, Leases
  <2>7. ASSUME ~overtaken PROVE Sound'
    <3>1. Written /\ ~late.fresh /\ Steps
      BY <1>1, <2>7, NoneFresh DEF DirInv, Sound
    <3>2. Saving => op.session \in rows'
      BY <1>1, <1>3, <3>1 DEF Steps
    <3>3. rows' \subseteq op.rows /\ op.staged \cap rows' = {}
      BY <1>3
    <3>4. Written'
      BY <1>1, <2>1, <3>1, <3>2, <3>3 DEF Written, Saving
    <3> QED
      BY <1>1, <3>1, <3>4 DEF Sound, Harmless
  <2> QED
    BY <1>1, <2>4, <2>5, <2>6, <2>7 DEF DirInv
<1> QED
  BY <1>2, <1>3 DEF IndexSaved

LEMMA UnlinkStep ==
  ASSUME DirInv, Unlink
  PROVE  DirInv'
<1>1. PICK s \in op.staged :
        /\ files' \in {files, files \ {s}}
        /\ op' = [op EXCEPT !.staged = @ \ {s}]
  BY DEF Unlink
<1>2. /\ op # Free /\ op.at = "unlink" /\ op \in Ops /\ op.staged \in SUBSET Session
      /\ UNCHANGED <<index, rows, rowNewer, loaded, late, overtaken>>
      /\ fileNewer' = Among(fileNewer, files')
  BY FreeFields, BusyFields DEF Unlink, Abandoned, DirInv, TypeOK
<1>3. /\ op' \in Ops /\ op'.kind = op.kind /\ op'.by = op.by
      /\ op'.session = op.session /\ op'.at = "unlink" /\ op'.staged = op.staged \ {s}
      /\ op'.rows = op.rows
  BY <1>1, <1>2 DEF Ops
<1>4. files' \in SUBSET Session
  BY <1>1 DEF DirInv, TypeOK
<1>5. fileNewer' \in Orders
  BY <1>2, <1>4, AmongType
<1>6. TypeOK'
  BY <1>2, <1>3, <1>4, <1>5 DEF DirInv, TypeOK
<1>7. Steps'
  BY <1>2, <1>3 DEF DirInv, Steps, Saving
<1>8. Unreadable'
  BY <1>2 DEF DirInv, Unreadable, Saving
<1>9. Leases'
  BY <1>2, <1>3 DEF DirInv, Leases
<1>10. ASSUME ~overtaken PROVE Sound'
  <2>1. Written /\ ~late.fresh
    BY <1>2, <1>10, NoneFresh DEF DirInv, Sound
  <2>0. op'.rows \subseteq files'
    BY <1>2, <1>3 DEF DirInv, Steps
  <2>2. rows \subseteq files' /\ (Saving => op.session \in files')
    BY <1>1, <1>2, <2>1 DEF Written
  <2>3. Written'
    BY <1>2, <1>3, <2>0, <2>1, <2>2 DEF Written, Saving
  <2> QED
    BY <1>2, <2>1, <2>3 DEF Sound, Harmless
<1> QED
  BY <1>2, <1>6, <1>7, <1>8, <1>9, <1>10 DEF DirInv

LEMMA UnlinkedStep ==
  ASSUME DirInv, Unlinked
  PROVE  DirInv'
<1>1. op # Free /\ End /\ UNCHANGED <<files, fileNewer, index, rows, rowNewer>> /\ UNCHANGED Abandoned
  BY FreeFields DEF Unlinked, Disk
<1>2. DiskTypes' /\ (overtaken \/ rows' \subseteq files')
  BY <1>1 DEF DirInv, TypeOK, Sound, Written, DiskTypes
<1> QED
  BY <1>1, <1>2, EndStep

LEMMA RowDroppedStep ==
  ASSUME DirInv, RowDropped
  PROVE  DirInv'
<1>1. /\ op # Free /\ op.at = "row" /\ op \in Ops /\ op.session \in Session
      /\ UNCHANGED <<files, fileNewer, late, overtaken>>
      /\ op.kind \in {"delete", "client delete", "discard"}
  <2>1. /\ op # Free /\ op.at = "row" /\ op \in Ops /\ op.session \in Session
        /\ UNCHANGED <<files, fileNewer, late, overtaken>>
    BY FreeFields DEF RowDropped, Abandoned, DirInv, TypeOK, Steps
  <2>2. op.kind \in {"delete", "client delete", "discard"}
    BY <2>1, BusyFields DEF DirInv, Steps, Saving, Kinds
  <2> QED
    BY <2>1, <2>2
<1>2. CASE End /\ UNCHANGED <<index, rows, rowNewer>>
  <2>1. DiskTypes' /\ (overtaken \/ rows' \subseteq files') /\ UNCHANGED Abandoned
    BY <1>1, <1>2 DEF DirInv, TypeOK, Sound, Written, DiskTypes, Abandoned
  <2> QED
    BY <1>1, <1>2, <2>1, EndStep
<1>3. CASE /\ rows' = op.rows \ {op.session} /\ rowNewer' = Among(op.newer, rows') /\ index' = "ok"
           /\ op' = [op EXCEPT !.at = "file after row"] /\ UNCHANGED loaded
  <2>1. /\ op' \in Ops /\ op' # Free /\ op'.kind = op.kind /\ op'.by = op.by
        /\ op'.session = op.session /\ op'.at = "file after row" /\ op'.staged = op.staged
        /\ op'.rows = op.rows
    BY <1>1, <1>3, MovedAt DEF Places
  <2>2. rows' \in SUBSET Session
    BY <1>1, <1>3, BusyFields
  <2>3. rowNewer' \in Orders
    BY <1>3, <2>2, AmongType
  <2>4. TypeOK'
    BY <1>1, <1>3, <2>1, <2>2, <2>3 DEF DirInv, TypeOK
  <2>5. Steps'
    BY <1>1, <2>1 DEF DirInv, Steps, Saving
  <2>6. Unreadable' /\ Leases'
    BY <1>1, <1>3, <2>1 DEF DirInv, Unreadable, Leases
  <2>7. ASSUME ~overtaken PROVE Sound'
    <3>1. Written /\ ~late.fresh
      BY <1>1, <2>7, NoneFresh DEF DirInv, Sound
    <3>2. rows' \subseteq op.rows /\ op.session \notin rows' /\ op.kind # "discard"
      BY <1>1, <1>3, <3>1 DEF Written
    <3>3. Written'
      BY <1>1, <2>1, <3>1, <3>2 DEF Written, Saving
    <3> QED
      BY <1>1, <3>1, <3>3 DEF Sound, Harmless
  <2> QED
    BY <1>1, <2>4, <2>5, <2>6, <2>7 DEF DirInv
<1> QED
  BY <1>2, <1>3 DEF RowDropped

LEMMA FileDroppedStep ==
  ASSUME DirInv, FileDropped
  PROVE  DirInv'
<1>1. /\ op # Free /\ op.at \in {"file only", "file after row"} /\ op \in Ops /\ op.session \in Session
      /\ UNCHANGED <<index, rows, rowNewer, late, overtaken>> /\ UNCHANGED Abandoned
      /\ fileNewer' = Among(fileNewer, files') /\ ~Saving /\ op.kind # "remove"
  BY FreeFields DEF FileDropped, Abandoned, DirInv, TypeOK, Steps
<1>2. files' \in {files, files \ {op.session}}
  BY DEF FileDropped
<1>3. files' \in SUBSET Session
  BY <1>1, <1>2 DEF DirInv, TypeOK
<1>4. fileNewer' \in Orders
  BY <1>1, <1>3, AmongType
<1>5. DiskTypes'
  BY <1>1, <1>3, <1>4 DEF DirInv, TypeOK, DiskTypes
<1>6. CASE End
  <2>1. overtaken \/ rows' \subseteq files'
    BY <1>1, <1>2 DEF DirInv, Sound, Written
  <2> QED
    BY <1>1, <1>5, <1>6, <2>1, EndStep
<1>7. CASE /\ op.session \in files /\ UNCHANGED files /\ op.at = "file after row"
           /\ op' = [op EXCEPT !.at = "rollback"] /\ UNCHANGED loaded
  <2>1. /\ op' \in Ops /\ op' # Free /\ op'.kind = op.kind /\ op'.by = op.by
        /\ op'.session = op.session /\ op'.at = "rollback" /\ op'.staged = op.staged
        /\ op'.rows = op.rows
    BY <1>1, <1>7, MovedAt DEF Places
  <2>2. TypeOK'
    BY <1>1, <1>5, <1>7, <2>1 DEF DirInv, TypeOK, DiskTypes
  <2>3. Steps'
    BY <1>1, <2>1 DEF DirInv, Steps, Saving
  <2>4. Unreadable'
    BY <1>1 DEF DirInv, Unreadable
  <2>5. Leases'
    BY <1>1, <1>7, <2>1 DEF DirInv, Leases
  <2>6. ASSUME ~overtaken PROVE Sound'
    <3>1. Written /\ ~late.fresh
      BY <1>1, <2>6, NoneFresh DEF DirInv, Sound
    <3>2. op.kind # "discard"
      BY <1>7, <3>1 DEF Written
    <3>3. Written'
      BY <1>1, <1>7, <2>1, <3>1, <3>2 DEF Written, Saving
    <3> QED
      BY <1>1, <3>1, <3>3 DEF Sound, Harmless
  <2> QED
    BY <1>1, <2>2, <2>3, <2>4, <2>5, <2>6 DEF DirInv
<1> QED
  BY <1>1, <1>6, <1>7 DEF FileDropped

LEMMA RolledBackStep ==
  ASSUME DirInv, RolledBack
  PROVE  DirInv'
<1>1. /\ op # Free /\ End /\ op \in Ops /\ UNCHANGED <<files, fileNewer>> /\ UNCHANGED Abandoned
      /\ \/ rows' = op.rows /\ rowNewer' = op.newer /\ index' = "ok"
         \/ UNCHANGED <<index, rows, rowNewer>>
  BY FreeFields DEF RolledBack, DirInv, TypeOK
<1>2. DiskTypes' /\ (index' = "corrupt" => index = "corrupt")
  BY <1>1, BusyFields DEF DirInv, TypeOK, DiskTypes
<1>3. overtaken \/ rows' \subseteq files'
  BY <1>1 DEF DirInv, Sound, Written
<1> QED
  BY <1>1, <1>2, <1>3, EndStep

-----------------------------------------------------------------------------
(* Aborted saves.                                                             *)

\* What an abort may leave outstanding.
LEMMA InFlightFacts ==
  ASSUME DirInv, op # Free, op.kind = "save", op.by \in Server, NEW w \in InFlight
  PROVE  /\ w \in Writes /\ w.what \in {"file", "index", "unlink"} /\ w.fresh = TRUE /\ w # NoWrite
         /\ w.what \in {"file", "unlink"} => w.session \in Session
         /\ w.what = "index" => op.at = "index"
         /\ w.what = "unlink" => op.at = "unlink" /\ w.session \in op.staged
         /\ w.rows = op.rows \ op.staged /\ w.newer = Among(op.newer, w.rows) /\ w.since = {}
<1>1. /\ op.rows \in SUBSET Session /\ op.staged \in SUBSET Session /\ op.session \in Session
      /\ op.newer \in Orders
  BY BusyFields DEF DirInv, TypeOK, Steps, Saving
<1>2. Among(op.newer, op.rows \ op.staged) \in Orders
  BY <1>1, AmongType
<1>3. ASSUME NEW what \in {"file", "index", "unlink"}, NEW s \in Session \cup {NoSession}, w = Write(what, s)
      PROVE  /\ w \in Writes /\ w.what = what /\ w.session = s /\ w.fresh = TRUE /\ w # NoWrite
             /\ w.rows = op.rows \ op.staged /\ w.newer = Among(op.newer, w.rows) /\ w.since = {}
  <2>1. /\ w.what = what /\ w.session = s /\ w.fresh = TRUE
        /\ w.rows = op.rows \ op.staged /\ w.newer = Among(op.newer, w.rows) /\ w.since = {}
    BY <1>3 DEF Write
  <2>2. w \in Writes
    BY <1>1, <1>2, <1>3 DEF Write, Writes
  <2> QED
    BY <2>1, <2>2, NoWriteFields
<1>4. CASE op.at = "file"
  BY <1>1, <1>3, <1>4 DEF InFlight
<1>5. CASE op.at = "index"
  BY <1>1, <1>3, <1>5 DEF InFlight
<1>6. CASE op.at = "unlink"
  <2>1. PICK s \in op.staged : w = Write("unlink", s)
    BY <1>6 DEF InFlight
  <2>2. s \in Session \cup {NoSession} /\ s \in Session
    BY <1>1, <2>1
  <2> QED
    BY <1>3, <1>6, <2>1, <2>2
<1> QED
  BY <1>4, <1>5, <1>6 DEF InFlight

LEMMA AbortStep ==
  ASSUME DirInv, Abort
  PROVE  DirInv'
<1>1. /\ op # Free /\ op.kind = "save" /\ op.by \in Server /\ op' = Free /\ Saving
      /\ UNCHANGED <<files, fileNewer, index, rows, rowNewer, loaded, overtaken>>
  BY FreeFields DEF Abort, Disk, Saving
<1>2. late' = late \/ late' \in InFlight
  BY DEF Abort
<1>3. DiskTypes' /\ loaded' \in [Server -> SUBSET Session]
  BY <1>1 DEF DirInv, TypeOK, DiskTypes
<1>4. LateTypes'
  <2>1. CASE late' = late
    BY <1>1, <2>1, FreeFields DEF DirInv, TypeOK, Steps, Unreadable, LateTypes
  <2>2. CASE late' \in InFlight
    BY <1>1, <2>2, InFlightFacts DEF DirInv, TypeOK, Unreadable, LateTypes
  <2> QED
    BY <1>2, <2>1, <2>2
<1>5. ASSUME ~overtaken PROVE rows' \subseteq files' /\ Harmless'
  <2>1. Written /\ ~late.fresh /\ Leases
    BY <1>1, <1>5, NoneFresh DEF DirInv, Sound
  <2>2. CASE late' = late
    BY <1>1, <2>1, <2>2 DEF Written, Harmless
  <2>3. CASE late' \in InFlight
    <3>1. /\ late'.what = "index" => op.at = "index"
          /\ late'.what = "unlink" => op.at = "unlink" /\ late'.session \in op.staged
          /\ late'.rows = op.rows \ op.staged
      BY <1>1, <2>3, InFlightFacts
    <3>2. ASSUME late'.what = "index"
          PROVE  late'.rows \subseteq files /\ \A p \in Server : rows \cap loaded[p] \subseteq late'.rows
      <4>1. op.rows \subseteq files /\ rows \subseteq op.rows
        BY <1>1, <2>1, <3>1, <3>2 DEF Written
      <4>2. \A p \in Server : op.staged \cap loaded[p] = {}
        BY <2>1 DEF Leases
      <4> QED
        BY <3>1, <4>1, <4>2
    <3>3. ASSUME late'.what = "unlink"
          PROVE  late'.session \notin rows /\ \A p \in Server : late'.session \notin loaded[p]
      BY <2>1, <3>1, <3>3 DEF Written, Leases
    <3> QED
      BY <1>1, <2>1, <3>2, <3>3 DEF Written, Harmless
  <2> QED
    BY <1>2, <2>2, <2>3
<1> QED
  BY <1>1, <1>3, <1>4, <1>5, Freed

\* What lands changes only the disk.
LEMMA LandFacts ==
  ASSUME DirInv, Land
  PROVE  /\ late' = NoWrite /\ UNCHANGED <<loaded, op>> /\ DiskTypes' /\ LateTypes'
         /\ index' = "corrupt" => index = "corrupt"
         /\ \/ UNCHANGED <<Disk, overtaken>>
            \/ (FileLands \/ IndexLands \/ UnlinkLands) /\ overtaken' = (overtaken \/ ~late.fresh)
<1>1. /\ late' = NoWrite /\ UNCHANGED <<loaded, op>>
      /\ \/ UNCHANGED <<Disk, overtaken>>
         \/ (FileLands \/ IndexLands \/ UnlinkLands) /\ overtaken' = (overtaken \/ ~late.fresh)
  BY DEF Land
<1>2. /\ late \in Writes /\ overtaken' \in BOOLEAN /\ files \in SUBSET Session /\ rows \in SUBSET Session
      /\ fileNewer \in Orders /\ rowNewer \in Orders /\ index \in {"ok", "corrupt", "missing"}
      /\ late.what \in {"file", "unlink"} => late.session \in Session
  BY <1>1 DEF DirInv, TypeOK, Steps
<1>3. LateTypes'
  BY <1>1, <1>2, NoWriteFields DEF LateTypes
<1>4. DiskTypes' /\ (index' = "corrupt" => index = "corrupt")
  <2>1. CASE UNCHANGED <<Disk, overtaken>>
    BY <1>2, <2>1 DEF Disk, DiskTypes
  <2>2. CASE FileLands
    <3>1. files' \in SUBSET Session /\ UNCHANGED <<index, rows, rowNewer>>
      BY <1>2, <2>2 DEF FileLands
    <3>2. PICK placed : fileNewer' = Among(placed, files')
      BY <2>2 DEF FileLands
    <3>3. fileNewer' \in Orders
      BY <3>1, <3>2, AmongType
    <3> QED
      BY <1>2, <3>1, <3>3 DEF DiskTypes
  <2>3. CASE IndexLands
    <3>1. late # NoWrite
      BY <2>3, NoWriteFields DEF IndexLands
    <3>2. late.rows \in SUBSET Session /\ late.newer \in Orders
      BY <1>2, <3>1 DEF Writes
    <3> QED
      BY <1>2, <2>3, <3>2 DEF IndexLands, DiskTypes
  <2>4. CASE UnlinkLands
    <3>1. files' \in SUBSET Session /\ UNCHANGED <<index, rows, rowNewer>> /\ fileNewer' = Among(fileNewer, files')
      BY <1>2, <2>4 DEF UnlinkLands
    <3>2. fileNewer' \in Orders
      BY <3>1, AmongType
    <3> QED
      BY <1>2, <3>1, <3>2 DEF DiskTypes
  <2> QED
    BY <1>1, <2>1, <2>2, <2>3, <2>4
<1> QED
  BY <1>1, <1>3, <1>4

LEMMA LandStep ==
  ASSUME DirInv, Land
  PROVE  DirInv'
<1>1. /\ late' = NoWrite /\ UNCHANGED <<loaded, op>> /\ DiskTypes' /\ LateTypes'
      /\ index' = "corrupt" => index = "corrupt"
      /\ \/ UNCHANGED <<Disk, overtaken>>
         \/ (FileLands \/ IndexLands \/ UnlinkLands) /\ overtaken' = (overtaken \/ ~late.fresh)
  BY LandFacts
<1>2. TypeOK'
  BY <1>1 DEF DirInv, TypeOK, DiskTypes, LateTypes
<1>3. Steps' /\ Unreadable' /\ Leases'
  BY <1>1 DEF DirInv, Steps, Unreadable, Leases, Saving, LateTypes
<1>4. Harmless'
  BY <1>1, NoWriteFields DEF Harmless
<1>5. CASE UNCHANGED <<Disk, overtaken>>
  <2>1. overtaken' \/ Written'
    BY <1>1, <1>5 DEF Disk, DirInv, Sound, Written, Saving
  <2> QED
    BY <1>2, <1>3, <1>4, <2>1 DEF DirInv, Sound
<1>6. CASE (FileLands \/ IndexLands \/ UnlinkLands) /\ overtaken' = (overtaken \/ ~late.fresh)
  <2>1. ASSUME ~overtaken' PROVE Written'
    <3>1. Written /\ Harmless /\ late.fresh /\ op = Free
      BY <1>6, <2>1 DEF DirInv, Sound, Harmless
    <3>2. op' = Free
      BY <1>1, <3>1
    <3>3. rows' \subseteq files'
      <4>1. CASE FileLands
        BY <3>1, <4>1 DEF FileLands, Written
      <4>2. CASE IndexLands
        BY <3>1, <4>2 DEF IndexLands, Harmless
      <4>3. CASE UnlinkLands
        BY <3>1, <4>3 DEF UnlinkLands, Written, Harmless
      <4> QED
        BY <1>6, <4>1, <4>2, <4>3
    <3> QED
      BY <3>2, <3>3, FreeFields DEF Written, Saving
  <2> QED
    BY <1>2, <1>3, <1>4, <2>1 DEF DirInv, Sound
<1> QED
  BY <1>1, <1>5, <1>6

-----------------------------------------------------------------------------
(* The theorems.                                                              *)

LEMMA DirStep ==
  ASSUME DirInv, [Next]_vars
  PROVE  DirInv'
<1>1. ASSUME NEW p \in Server, NEW s \in Session, Resume(p, s) \/ Close(p, s) \/ Start(p, s) PROVE DirInv'
  BY <1>1, ResumeStep, CloseStep, StartStep
<1>2. ASSUME NEW p \in Process, NEW s \in Session, Save(p, s) \/ Delete(p, s) PROVE DirInv'
  BY <1>2, SaveStep, DeleteStep
<1>3. ASSUME NEW p \in Process, NEW key \in Key, RemoveKey(p, key) PROVE DirInv'
  BY <1>3, RemoveKeyStep
<1>4. CASE FileSaved \/ Stage \/ IndexSaved \/ Unlink \/ Unlinked
  BY <1>4, FileSavedStep, StageStep, IndexSavedStep, UnlinkStep, UnlinkedStep
<1>5. CASE RowDropped \/ FileDropped \/ RolledBack
  BY <1>5, RowDroppedStep, FileDroppedStep, RolledBackStep
<1>6. CASE Abort \/ Land
  BY <1>6, AbortStep, LandStep
<1>7. ASSUME NEW p \in Process, Crash(p) PROVE DirInv'
  BY <1>7, CrashStep
<1>8. ASSUME NEW how \in {"corrupt", "missing"}, IndexLost(how) PROVE DirInv'
  BY <1>8, IndexLostStep
<1>9. CASE UNCHANGED vars
  <2>0. TypeOK' /\ Unreadable'
    BY <1>9 DEF vars, DirInv, TypeOK, Unreadable, Saving
  <2>1. Steps' /\ Leases'
    BY <1>9 DEF vars, DirInv, Steps, Leases, Saving
  <2>2. Written => Written'
    BY <1>9 DEF vars, Written, Saving
  <2>3. Harmless => Harmless'
    BY <1>9 DEF vars, Harmless
  <2> QED
    BY <1>9, <2>0, <2>1, <2>2, <2>3 DEF vars, DirInv, Sound
<1> QED
  BY <1>1, <1>2, <1>3, <1>4, <1>5, <1>6, <1>7, <1>8, <1>9 DEF Next

LEMMA DirInit ==
  Init => DirInv
<1> SUFFICES ASSUME Init PROVE DirInv
  OBVIOUS
<1>1. TypeOK
  BY FreeFields, NoOrderType, NoWriteFields DEF Init, TypeOK
<1>2. Steps /\ Leases /\ Unreadable
  BY FreeFields, NoWriteFields DEF Init, Steps, Leases, Unreadable, Saving
<1>3. Written /\ Harmless
  BY FreeFields, NoWriteFields DEF Init, Written, Harmless, Saving
<1> QED
  BY <1>1, <1>2, <1>3 DEF DirInv, Sound

\* The session directory keeps its invariant, whoever writes, fails, is aborted
\* or dies.
THEOREM DirInvariance == Spec => []DirInv
<1>1. Init => DirInv
  BY DirInit
<1>2. DirInv /\ [Next]_vars => DirInv'
  BY DirStep
<1> QED
  BY <1>1, <1>2, PTL DEF Spec

\* The session directory's variables keep their types.
THEOREM DirTypes == Spec => []TypeOK
<1>1. DirInv => TypeOK
  BY DEF DirInv
<1> QED
  BY <1>1, DirInvariance, PTL

\* No index row points at a missing session file, unless a write of an aborted
\* save has landed behind what had begun since.
THEOREM NoStaleRow == Spec => []RowHasFile
<1>1. DirInv => RowHasFile
  BY DEF DirInv, Sound, Written, RowHasFile
<1> QED
  BY <1>1, DirInvariance, PTL

\* A save never evicts the session it saves, with the same exception.
THEOREM SaveIsKept == Spec => []SavedIsListed
<1>1. DirInv => SavedIsListed
  BY DEF DirInv, Sound, Written, Saving, SavedIsListed
<1> QED
  BY <1>1, DirInvariance, PTL

\* A corrupt index never authorizes the removal of a session file, not even one
\* that an aborted save left to a blocking thread.
THEOREM CorruptionRemovesNothing == Spec => UnreadableRemovesNothing
<1>1. ASSUME DirInv, [Next]_vars, index = "corrupt"
      PROVE  files \subseteq files'
  <2>1. op.at \notin {"unlink", "file only", "file after row"} /\ late.what # "unlink"
    BY <1>1, FreeFields DEF DirInv, Unreadable, Steps, Saving
  <2>2. ~Unlink /\ ~FileDropped /\ ~UnlinkLands
    BY <2>1 DEF Unlink, FileDropped, UnlinkLands
  <2>3. CASE Land
    BY <2>2, <2>3 DEF Land, FileLands, IndexLands, Disk
  <2>4. CASE ~Land
    BY <1>1, <2>2, <2>4 DEF Next, vars, Resume, Close, Start, Save, Delete, RemoveKey, FileSaved,
       SaveFile, Stage, IndexSaved, Unlinked, RowDropped, RolledBack, Abort, Crash, IndexLost, Disk
  <2> QED
    BY <2>3, <2>4
<1>2. DirInv /\ [Next]_vars => [index = "corrupt" => files \subseteq files']_vars
  BY <1>1
<1> QED
  BY <1>2, DirInvariance, PTL DEF Spec, UnreadableRemovesNothing

\* What was overtaken remains so.
LEMMA OvertakenStays ==
  ASSUME Next, ~overtaken'
  PROVE  ~overtaken
BY DEF Next, Resume, Close, Start, Save, Delete, RemoveKey, FileSaved, Stage, IndexSaved, Unlink,
   Unlinked, RowDropped, FileDropped, RolledBack, Abort, Land, Crash, IndexLost, Overtake, Abandoned

\* No step removes the file of a session that is loaded before and after it.
LEMMA LoadedKeepsFile ==
  ASSUME DirInv, Next, ~overtaken', op.kind # "client delete",
         NEW p \in Server, NEW s \in loaded[p] \cap loaded'[p], s \in files
  PROVE  s \in files'
<1>1. CASE Unlink
  <2>1. PICK u \in op.staged : files' \in {files, files \ {u}}
    BY <1>1 DEF Unlink
  <2>2. op.staged \cap loaded[p] = {}
    BY DEF DirInv, Leases
  <2> QED
    BY <2>1, <2>2
<1>2. CASE FileDropped
  <2>1. op # Free /\ op \in Ops /\ op.at \in {"file only", "file after row"}
    BY <1>2, FreeFields DEF FileDropped, DirInv, TypeOK
  <2>2. op.kind \in {"delete", "discard"}
    BY <2>1, BusyFields DEF DirInv, Steps, Saving, Kinds
  <2>3. files' \in {files, files \ {op.session}}
    BY <1>2 DEF FileDropped
  <2>4. CASE op.kind = "delete"
    BY <2>3, <2>4 DEF DirInv, Leases
  <2>5. CASE op.kind = "discard"
    <3>1. op.by \in Server /\ op.session \in loaded[op.by]
      BY <2>5 DEF DirInv, Leases
    <3>2. CASE End
      <4>1. loaded' = [loaded EXCEPT ![op.by] = @ \ {op.session}]
        BY <2>5, <3>2 DEF End
      <4>2. op.session \notin loaded'[op.by]
        BY <3>1, <4>1 DEF DirInv, TypeOK
      <4>3. p # op.by => op.session \notin loaded[p]
        BY <3>1 DEF DirInv, Leases
      <4> QED
        BY <2>3, <4>2, <4>3
    <3>3. CASE UNCHANGED files
      BY <3>3
    <3> QED
      BY <1>2, <3>2, <3>3 DEF FileDropped
  <2> QED
    BY <2>2, <2>4, <2>5
<1>3. CASE Land
  <2>1. CASE UnlinkLands /\ overtaken' = (overtaken \/ ~late.fresh)
    BY <2>1 DEF UnlinkLands, DirInv, Sound, Harmless
  <2>2. CASE UNCHANGED Disk \/ FileLands \/ IndexLands
    BY <2>2 DEF FileLands, IndexLands, Disk
  <2> QED
    BY <1>3, <2>1, <2>2 DEF Land
<1>4. CASE ~Unlink /\ ~FileDropped /\ ~Land
  BY <1>4 DEF Next, Resume, Close, Start, Save, Delete, RemoveKey, FileSaved, SaveFile, Stage,
     IndexSaved, Unlinked, RowDropped, RolledBack, Abort, Crash, IndexLost, Disk
<1> QED
  BY <1>1, <1>2, <1>3, <1>4

\* No step takes the row of a session that is loaded before and after it.
LEMMA LoadedKeepsRow ==
  ASSUME DirInv, Next, ~overtaken', op.kind # "client delete",
         NEW p \in Server, NEW s \in loaded[p], s \in rows, index = "ok", index' = "ok"
  PROVE  s \in rows'
<1>1. op.staged \cap loaded[p] = {} /\ Written /\ Harmless
  BY OvertakenStays DEF DirInv, Leases, Sound
<1>2. CASE IndexSaved
  <2>1. rows \subseteq op.rows
    BY <1>1, <1>2 DEF IndexSaved, Written
  <2>2. rows' = op.rows \ op.staged \/ rows' = rows
    BY <1>2 DEF IndexSaved
  <2> QED
    BY <1>1, <2>1, <2>2
<1>3. CASE RowDropped
  <2>1. op # Free /\ op \in Ops /\ op.at = "row"
    BY <1>3, FreeFields DEF RowDropped, DirInv, TypeOK
  <2>2. op.kind = "delete" /\ rows \subseteq op.rows
    BY <1>1, <2>1, BusyFields DEF DirInv, Steps, Saving, Kinds, Written
  <2>3. op.session \notin loaded[p]
    BY <2>2 DEF DirInv, Leases
  <2>4. rows' = op.rows \ {op.session} \/ rows' = rows
    BY <1>3 DEF RowDropped
  <2> QED
    BY <2>2, <2>3, <2>4
<1>4. CASE RolledBack
  BY <1>1, <1>4 DEF RolledBack, Written
<1>5. CASE Land
  <2>1. CASE IndexLands /\ overtaken' = (overtaken \/ ~late.fresh)
    BY <1>1, <2>1 DEF IndexLands, Harmless
  <2>2. CASE UNCHANGED Disk \/ FileLands \/ UnlinkLands
    BY <2>2 DEF FileLands, UnlinkLands, Disk
  <2> QED
    BY <1>5, <2>1, <2>2 DEF Land
<1>6. CASE \E how \in {"corrupt", "missing"} : IndexLost(how)
  BY <1>6 DEF IndexLost
<1>7. CASE rows' = rows
  BY <1>7
<1> QED
  BY <1>2, <1>3, <1>4, <1>5, <1>6, <1>7 DEF Next, Resume, Close, Start, Save, Delete, RemoveKey,
     FileSaved, Stage, Unlink, Unlinked, FileDropped, Abort, Crash, Disk

\* What an App Server has loaded keeps its file and its row, whatever any process
\* saves, evicts or removes, and whatever write an aborted save left behind, as
\* long as none of those lands behind what has begun since; only a client's own
\* deletion takes no lease.
THEOREM LoadedSessionsAreKept == Spec => LoadedIsKept
<1> DEFINE Kept ==
      \A p \in Server : \A s \in loaded[p] \cap loaded'[p] :
        (op.kind # "client delete" /\ ~overtaken') =>
          /\ s \in files => s \in files'
          /\ (index = "ok" /\ index' = "ok" /\ s \in rows) => s \in rows'
<1>1. ASSUME DirInv, Next PROVE Kept
  BY <1>1, LoadedKeepsFile, LoadedKeepsRow
<1>2. DirInv /\ [Next]_vars => [Kept]_vars
  BY <1>1
<1> QED
  BY <1>2, DirInvariance, PTL DEF Spec, LoadedIsKept

-----------------------------------------------------------------------------
(* What a save may evict.                                                     *)

\* "Saved after" orders the members of R: only that lets the newest of them be
\* the ones that stay.
Strict(newer, R) ==
  \A u \in R : u \notin newer[u] /\ \A v \in newer[u] \cap R : newer[v] \cap R \subseteq newer[u]

InOrder(newer, R) == IsFiniteSet(R) /\ Strict(newer, R)

\* The members of S are newer than the others of F.
Upper(newer, S, F) ==
  /\ \A v \in S \cap F : newer[v] \cap F \subseteq S
  /\ \A u \in F \ S : S \cap F \subseteq newer[u]

\* The files saved since an outstanding file write began are newer than the rest.
Behind == Upper(fileNewer, late.since, files)

OrderInv ==
  /\ InOrder(fileNewer, files) /\ InOrder(rowNewer, rows) /\ InOrder(late.newer, late.rows)
  /\ op # Free => InOrder(op.newer, op.rows)
  /\ (Saving /\ op.at = "index") =>
       op.staged \subseteq Excess(op.rows, op.newer) /\ \A s \in op.rows : op.newer[s] \subseteq op.rows
  /\ late.what = "file" => Behind

\* Of what is newer than s in A, the members with fewer than k newer ones.
Foremost(newer, s, A, k) == {v \in newer[s] \cap A : ~(Cardinality(newer[v] \cap A) >= k)}

\* Of what is newer than u in A, those with fewer than k newer ones are at least
\* k, when there are k at all.
LEMMA NewestStay ==
  ASSUME NEW R, IsFiniteSet(R), NEW newer, Strict(newer, R), NEW A, A \subseteq R,
         NEW u \in R, NEW k \in Nat, Cardinality(newer[u] \cap A) >= k
  PROVE  Cardinality(Foremost(newer, u, A, k)) >= k
<1> DEFINE X == newer[u] \cap A
           N(v) == newer[v] \cap A
           Y == {v \in X : ~(Cardinality(N(v)) >= k)}
           D == {Cardinality(N(v)) : v \in X \ Y}
<1>1. IsFiniteSet(A)
  BY FS_Subset
<1>2. \A v : IsFiniteSet(N(v)) /\ Cardinality(N(v)) \in Nat
  <2> SUFFICES ASSUME NEW v PROVE IsFiniteSet(N(v)) /\ Cardinality(N(v)) \in Nat
    OBVIOUS
  <2>1. N(v) \in SUBSET A
    OBVIOUS
  <2> HIDE DEF N
  <2>2. IsFiniteSet(N(v))
    BY <1>1, <2>1, FS_Subset
  <2> QED BY <2>2, FS_CardinalityType
<1>3. IsFiniteSet(X) /\ IsFiniteSet(Y) /\ Cardinality(X) \in Nat /\ Cardinality(Y) \in Nat
  <2>1. X \in SUBSET A /\ Y \in SUBSET A
    OBVIOUS
  <2> HIDE DEF X, Y
  <2>2. IsFiniteSet(X) /\ IsFiniteSet(Y)
    BY <1>1, <2>1, FS_Subset
  <2> QED BY <2>2, FS_CardinalityType
<1> SUFFICES ASSUME ~(Cardinality(Y) >= k)
             PROVE  FALSE
  BY DEF Foremost, Y, X, N
<1>4. X \ Y # {}
  <2>1. X # Y
    <3>1. Cardinality(X) >= k
      BY DEF X
    <3> HIDE DEF X, Y
    <3> QED BY <3>1
  <2>2. Y \subseteq X
    OBVIOUS
  <2> QED BY <2>1, <2>2
<1>5. D \subseteq Nat /\ D # {}
  BY <1>2, <1>4
<1>6. PICK v \in X \ Y : \A w \in X \ Y : Cardinality(N(v)) <= Cardinality(N(w))
  <2> HIDE DEF X, Y, N, D
  <2>1. PICK d \in D : \A e \in D : d <= e
    BY <1>5, LeastElement
  <2> QED BY <2>1 DEF D
<1>7. N(v) \subseteq X
  BY <1>6 DEF Strict
<1>8. N(v) \subseteq Y
  <2> SUFFICES ASSUME NEW w \in N(v), w \notin Y
               PROVE  FALSE
    OBVIOUS
  <2>1. w \in X \ Y /\ w \in R /\ v \in R
    BY <1>6, <1>7
  <2>2. N(w) \subseteq N(v) /\ w \notin N(w)
    BY <2>1 DEF Strict
  <2>3. Cardinality(N(v)) <= Cardinality(N(w))
    BY <1>6, <2>1
  <2> HIDE DEF N
  <2>4. Cardinality(N(w)) <= Cardinality(N(v)) /\ Cardinality(N(w)) # Cardinality(N(v))
    BY <1>2, <2>2, FS_Subset
  <2> QED BY <1>2, <2>3, <2>4
<1>9. Cardinality(N(v)) <= Cardinality(Y)
  <2> HIDE DEF N, Y
  <2> QED BY <1>3, <1>8, FS_Subset
<1>10. Cardinality(N(v)) >= k
  BY <1>6 DEF X, Y
<1> HIDE DEF N, Y
<1> QED BY <1>2, <1>3, <1>9, <1>10

\* Behind a staged row there is a full scope of newer rows that are not staged, or
\* a full index of them.
LEMMA ExcessLeavesNewest ==
  ASSUME NEW R, IsFiniteSet(R), NEW newer, Strict(newer, R), \A s \in R : newer[s] \subseteq R,
         NEW u \in Excess(R, newer)
  PROVE  LET left == newer[u] \ Excess(R, newer)
         IN \/ Cardinality({v \in left : ScopeOf[v] = ScopeOf[u]}) >= ScopeCap
            \/ Cardinality(left) >= TotalCap
<1> DEFINE Scoped(s) == {v \in newer[s] : ScopeOf[v] = ScopeOf[s]}
           over == {s \in R : Cardinality(Scoped(s)) >= ScopeCap}
           kept == R \ over
           full == {s \in kept : Cardinality(newer[s] \cap kept) >= TotalCap}
           excess == Excess(R, newer)
           left == newer[u] \ excess
<1>1. excess = over \cup full
  BY DEF Excess
<1>2. ScopeCap \in Nat /\ TotalCap \in Nat /\ u \in R
  BY CapAssumption, <1>1
<1>3. IsFiniteSet(left)
  <2>1. left \in SUBSET R
    BY <1>2
  <2> QED BY <2>1, FS_Subset
\* A full index behind t, for any t that u is, or that is newer than u.
<1>4. ASSUME NEW t \in full, t = u \/ t \in newer[u]
      PROVE  Cardinality(left) >= TotalCap
  <2> DEFINE Z == Foremost(newer, t, kept, TotalCap)
  <2>1. kept \subseteq R /\ t \in R /\ Cardinality(newer[t] \cap kept) >= TotalCap
    OBVIOUS
  <2>2. Z \subseteq newer[t] \ excess
    <3> SUFFICES ASSUME NEW v \in Z PROVE v \in newer[t] \ excess
      OBVIOUS
    <3>1. v \in newer[t] /\ v \in kept /\ v \notin full
      BY DEF Foremost
    <3> HIDE DEF Z, full, Scoped
    <3> QED BY <1>1, <3>1
  <2>3. newer[t] \subseteq newer[u]
    BY <1>2, <1>4, <2>1 DEF Strict
  <2> HIDE DEF kept, full, over, excess
  <2>4. Cardinality(Z) >= TotalCap
    BY <1>2, <2>1, NewestStay
  <2>5. Z \in SUBSET left
    BY <2>2, <2>3
  <2> HIDE DEF Z, left
  <2>6. IsFiniteSet(Z) /\ Cardinality(Z) <= Cardinality(left)
    BY <1>3, <2>5, FS_Subset
  <2>7. Cardinality(Z) \in Nat /\ Cardinality(left) \in Nat
    BY <1>3, <2>6, FS_CardinalityType
  <2> QED BY <1>2, <2>4, <2>6, <2>7
<1>5. CASE u \in full
  <2> HIDE DEF full, excess
  <2> QED BY <1>4, <1>5 DEF excess
<1>6. CASE u \in over
  <2> DEFINE A == {s \in R : ScopeOf[s] = ScopeOf[u]}
             Y == Foremost(newer, u, A, ScopeCap)
             same == {v \in left : ScopeOf[v] = ScopeOf[u]}
  <2>1. \A s \in A : Scoped(s) = newer[s] \cap A
    OBVIOUS
  <2>2. u \in A /\ A \subseteq R
    BY <1>2
  <2>3. Cardinality(newer[u] \cap A) >= ScopeCap
    BY <1>6, <2>1, <2>2
  <2>4. Y \subseteq kept /\ \A v \in Y : v \in newer[u] /\ ScopeOf[v] = ScopeOf[u]
    <3> SUFFICES ASSUME NEW v \in Y PROVE v \in kept /\ v \in newer[u] /\ ScopeOf[v] = ScopeOf[u]
      OBVIOUS
    <3>1. v \in A /\ v \in R /\ v \in newer[u] /\ ~(Cardinality(Scoped(v)) >= ScopeCap)
      BY <2>1 DEF Foremost
    <3> HIDE DEF Scoped
    <3> QED BY <3>1
  <2>5. Cardinality(Y) >= ScopeCap
    <3> HIDE DEF A
    <3> QED BY <1>2, <2>2, <2>3, NewestStay
  <2>6. CASE Y \cap full = {}
    <3> HIDE DEF Y, full, over, Scoped, excess
    <3>1. Y \in SUBSET same
      BY <1>1, <2>4, <2>6
    <3>2. same \in SUBSET left
      OBVIOUS
    <3> HIDE DEF same, left
    <3>3. IsFiniteSet(same)
      BY <1>3, <3>2, FS_Subset
    <3>4. IsFiniteSet(Y) /\ Cardinality(Y) <= Cardinality(same)
      BY <3>1, <3>3, FS_Subset
    <3>5. Cardinality(Y) \in Nat /\ Cardinality(same) \in Nat
      BY <3>3, <3>4, FS_CardinalityType
    <3>6. Cardinality(same) >= ScopeCap
      BY <1>2, <2>5, <3>4, <3>5
    <3> QED BY <3>6 DEF same, left, excess
  <2>7. CASE Y \cap full # {}
    <3> HIDE DEF full, excess
    <3>1. PICK s \in full : s \in newer[u]
      BY <2>4, <2>7
    <3> QED BY <1>4, <3>1 DEF excess
  <2> QED BY <2>6, <2>7
<1> QED BY <1>1, <1>5, <1>6

-----------------------------------------------------------------------------
(* The order of the saves.                                                    *)

LEMMA StrictSmaller ==
  ASSUME NEW newer, NEW R, Strict(newer, R), NEW T, T \subseteq R
  PROVE  Strict(newer, T)
BY DEF Strict

\* The session saved now is newer than all the others.
LEMMA StampStrict ==
  ASSUME NEW newer, NEW R, R \subseteq Session, NEW s \in R, Strict(newer, R \ {s})
  PROVE  /\ Strict(Stamp(newer, R, s), R)
         /\ \A u \in R : Stamp(newer, R, s)[u] \subseteq R
<1> DEFINE next == Stamp(newer, R, s)
<1>1. next[s] = {} /\ \A u \in R \ {s} : next[u] = (newer[u] \cap R) \cup {s}
  BY DEF Stamp
<1>2. \A u \in R \ {s} : u \notin newer[u] /\ \A v \in newer[u] \cap (R \ {s}) : newer[v] \cap (R \ {s}) \subseteq newer[u]
  BY DEF Strict
<1> HIDE DEF next
<1>3. ASSUME NEW u \in R
      PROVE  u \notin next[u] /\ next[u] \subseteq R /\ \A v \in next[u] \cap R : next[v] \cap R \subseteq next[u]
  <2>1. CASE u = s
    BY <1>1, <2>1
  <2>2. CASE u # s
    <3>1. u \notin next[u] /\ next[u] \subseteq R
      BY <1>1, <1>2, <2>2
    <3>2. ASSUME NEW v \in next[u] \cap R, NEW w \in next[v] \cap R
          PROVE  w \in next[u]
      <4>1. CASE w = s
        BY <1>1, <2>2, <4>1
      <4>2. CASE w # s
        <5>1. v # s
          BY <1>1, <3>2
        <5>2. v \in newer[u] \cap (R \ {s}) /\ w \in newer[v] \cap (R \ {s})
          BY <1>1, <2>2, <3>2, <4>2, <5>1
        <5> QED BY <1>1, <1>2, <2>2, <5>2
      <4> QED BY <4>1, <4>2
    <3> QED BY <3>1, <3>2
  <2> QED BY <2>1, <2>2
<1>4. Strict(next, R)
  BY <1>3 DEF Strict
<1> QED BY <1>3, <1>4 DEF next

LEMMA AmongStrict ==
  ASSUME NEW newer, NEW R, Strict(newer, R), NEW T, T \subseteq R, T \subseteq Session
  PROVE  Strict(Among(newer, T), T)
<1>1. \A u \in T : Among(newer, T)[u] = newer[u] \cap T
  BY DEF Among
<1> QED BY <1>1 DEF Strict
\* The empty index is in order, and so is what is left of one that is.
LEMMA EmptyInOrder ==
  ASSUME NEW newer
  PROVE  InOrder(newer, {})
BY FS_EmptySet DEF InOrder, Strict

LEMMA AmongInOrder ==
  ASSUME NEW newer, NEW R, InOrder(newer, R), NEW T, T \subseteq R, T \subseteq Session
  PROVE  InOrder(Among(newer, T), T)
<1>1. IsFiniteSet(T)
  <2>1. T \in SUBSET R
    OBVIOUS
  <2> QED BY <2>1, FS_Subset DEF InOrder
<1> QED BY <1>1, AmongStrict DEF InOrder

\* What a save is about to write is in order.
LEMMA CandidatesOrder ==
  ASSUME DirInv, OrderInv, op.session \in Session
  PROVE  /\ InOrder(CandidateTimes, Candidates)
         /\ \A s \in Candidates : CandidateTimes[s] \subseteq Candidates
<1>1. Candidates \in SUBSET Session /\ op.session \in Candidates
  BY CandidateFacts
<1>2. InOrder(Times, Readable)
  BY DEF OrderInv, Times, Readable
<1>3. IsFiniteSet(Candidates)
  BY <1>2, FS_AddElement DEF InOrder, Candidates
<1>4. Strict(Times, Candidates \ {op.session})
  <2>1. Candidates \ {op.session} \subseteq Readable
    BY DEF Candidates
  <2> QED BY <1>2, <2>1, StrictSmaller DEF InOrder
<1>5. Strict(CandidateTimes, Candidates) /\ \A s \in Candidates : CandidateTimes[s] \subseteq Candidates
  BY <1>1, <1>4, StampStrict DEF CandidateTimes
<1> QED BY <1>3, <1>5 DEF InOrder

LEMMA StampUpper ==
  ASSUME NEW newer, NEW next, NEW F, NEW S, NEW x, Upper(newer, S, F), next[x] = {},
         \A u \in F \ {x} : next[u] = (newer[u] \cap (F \cup {x})) \cup {x}
  PROVE  Upper(next, S \cup {x}, F \cup {x})
<1>1. ASSUME NEW v \in (S \cup {x}) \cap (F \cup {x}), NEW w \in next[v] \cap (F \cup {x})
      PROVE  w \in S \cup {x}
  <2>1. v # x /\ v \in S \cap F
    BY <1>1
  <2>2. w = x \/ w \in newer[v] \cap F
    BY <1>1, <2>1
  <2> QED BY <2>1, <2>2 DEF Upper
<1>2. ASSUME NEW u \in (F \cup {x}) \ (S \cup {x}), NEW w \in (S \cup {x}) \cap (F \cup {x})
      PROVE  w \in next[u]
  <2>1. u \in F \ S /\ next[u] = (newer[u] \cap (F \cup {x})) \cup {x}
    BY <1>2
  <2>2. w = x \/ w \in S \cap F
    BY <1>2
  <2>3. w \in S \cap F => w \in newer[u]
    BY <2>1 DEF Upper
  <2> QED BY <1>2, <2>1, <2>2, <2>3
<1> QED BY <1>1, <1>2 DEF Upper

\* A file put behind those of S, and before the rest.
LEMMA PlacedStrict ==
  ASSUME NEW newer, NEW placed, NEW F, NEW S, NEW s, Strict(newer, F), Upper(newer, S, F),
         placed[s] = S \ {s},
         \A u \in F \ {s} : u \in S => placed[u] = newer[u] \ {s},
         \A u \in F \ {s} : u \notin S => placed[u] = newer[u] \cup {s}
  PROVE  Strict(placed, F \cup {s})
<1>1. ASSUME NEW u \in F \cup {s} PROVE u \notin placed[u]
  <2>1. u \in F => u \notin newer[u]
    BY DEF Strict
  <2> QED BY <2>1
<1>2. ASSUME NEW u \in F \cup {s}, NEW v \in placed[u] \cap (F \cup {s}), NEW w \in placed[v] \cap (F \cup {s})
      PROVE  w \in placed[u]
  <2>1. CASE u = s
    <3>1. v \in S \cap F /\ v # s
      BY <1>2, <2>1
    <3>2. w \in newer[v] \cap F /\ w # s
      BY <1>2, <3>1
    <3> QED BY <2>1, <3>1, <3>2 DEF Upper
  <2>2. CASE u # s /\ u \in S
    <3>1. v \in newer[u] \cap F /\ v # s /\ u \in F
      BY <1>2, <2>2
    <3>2. v \in S
      BY <2>2, <3>1 DEF Upper
    <3>3. w \in newer[v] \cap F /\ w # s
      BY <1>2, <3>1, <3>2
    <3>4. w \in newer[u]
      BY <3>1, <3>3 DEF Strict
    <3> QED BY <2>2, <3>1, <3>3, <3>4
  <2>3. CASE u # s /\ u \notin S /\ v = s
    <3>1. w \in S \cap F /\ w # s /\ u \in F
      BY <1>2, <2>3
    <3>2. w \in newer[u]
      BY <2>3, <3>1 DEF Upper
    <3> QED BY <2>3, <3>1, <3>2
  <2>4. CASE u # s /\ u \notin S /\ v # s
    <3>1. v \in newer[u] \cap F /\ u \in F
      BY <1>2, <2>4
    <3>2. w = s \/ w \in newer[v] \cap F
      BY <1>2, <2>4, <3>1
    <3>3. w \in newer[v] \cap F => w \in newer[u]
      BY <3>1 DEF Strict
    <3> QED BY <2>4, <3>1, <3>2, <3>3
  <2> QED BY <2>1, <2>2, <2>3, <2>4
<1> QED BY <1>1, <1>2 DEF Strict

\* The outstanding file write, if there is one, is still the same, or has just
\* been left.
SameFileWrite ==
  late'.what = "file" => (late.what = "file" /\ late'.since = late.since) \/ late'.since = {}

Removal == files' \subseteq files /\ fileNewer' = Among(fileNewer, files') /\ SameFileWrite

\* The ways in which the files change.
LEMMA FilesChange ==
  ASSUME DirInv, Next
  PROVE  \/ UNCHANGED <<files, fileNewer>> /\ SameFileWrite
         \/ op.session \in Session /\ SaveFile
         \/ Removal
         \/ FileLands /\ late' = NoWrite
<1>1. CASE FileSaved
  <2>1. op.session \in Session
    BY <1>1 DEF FileSaved, DirInv, Steps
  <2> QED
    BY <1>1, <2>1 DEF FileSaved, SameFileWrite
<1>2. CASE Unlink \/ FileDropped
  BY <1>2 DEF Unlink, FileDropped, Removal, SameFileWrite, Abandoned
<1>3. CASE Abort
  <2>1. UNCHANGED <<files, fileNewer>> /\ op # Free /\ op.kind = "save" /\ op.by \in Server
    BY <1>3, FreeFields DEF Abort, Disk
  <2>2. late' = late \/ late' \in InFlight
    BY <1>3 DEF Abort
  <2>3. SameFileWrite
    BY <2>1, <2>2, InFlightFacts DEF SameFileWrite
  <2> QED BY <2>1, <2>3
<1>4. CASE Land
  <2>1. late' = NoWrite /\ SameFileWrite
    BY <1>4, NoWriteFields DEF Land, SameFileWrite
  <2>2. CASE UNCHANGED Disk \/ IndexLands
    BY <2>1, <2>2 DEF IndexLands, Disk
  <2>3. CASE UnlinkLands
    BY <2>1, <2>3 DEF UnlinkLands, Removal
  <2> QED BY <1>4, <2>1, <2>2, <2>3 DEF Land
<1>5. CASE \E p \in Process : Crash(p)
  BY <1>5, NoWriteFields DEF Crash, Disk, SameFileWrite
<1>6. CASE Stage \/ IndexSaved \/ Unlinked \/ RowDropped \/ RolledBack
  BY <1>6 DEF Stage, IndexSaved, Unlinked, RowDropped, RolledBack, SameFileWrite, Disk, Abandoned
<1>7. CASE \/ \E p \in Server, s \in Session : Close(p, s)
           \/ \E how \in {"corrupt", "missing"} : IndexLost(how)
  BY <1>7 DEF Close, IndexLost, SameFileWrite, Disk, Abandoned
<1>8. CASE \/ \E p \in Server, s \in Session : Resume(p, s) \/ Start(p, s)
           \/ \E p \in Process, s \in Session : Save(p, s) \/ Delete(p, s)
           \/ \E p \in Process, key \in Key : RemoveKey(p, key)
  <2>1. Overtake /\ UNCHANGED <<files, fileNewer>>
    BY <1>8 DEF Resume, Start, Save, Delete, RemoveKey, Disk
  <2>2. late \in Writes
    BY DEF DirInv, TypeOK
  <2>3. SameFileWrite
    BY <2>1, <2>2, Overtaken DEF SameFileWrite
  <2> QED BY <2>1, <2>3
<1> QED
  BY <1>1, <1>2, <1>3, <1>4, <1>5, <1>6, <1>7, <1>8 DEF Next

LEMMA SaveFileOrder ==
  ASSUME DirInv, OrderInv, op.session \in Session, SaveFile
  PROVE  InOrder(fileNewer', files') /\ (late'.what = "file" => Behind')
<1> DEFINE x == op.session
<1>1. files \subseteq Session /\ files' = files \cup {x} /\ fileNewer' = Stamp(fileNewer, files', x)
  BY DEF SaveFile, DirInv, TypeOK
<1>2. IsFiniteSet(files')
  BY <1>1, FS_AddElement DEF OrderInv, InOrder
<1>3. Strict(fileNewer, files' \ {x})
  <2>1. files' \ {x} \subseteq files
    BY <1>1
  <2> QED BY <2>1, StrictSmaller DEF OrderInv, InOrder
<1>4. Strict(fileNewer', files')
  BY <1>1, <1>3, StampStrict
<1>5. ASSUME late'.what = "file" PROVE Behind'
  <2>1. late.what = "file" /\ late'.since = late.since \cup {x}
    <3>1. late \in Writes
      BY DEF DirInv, TypeOK
    <3>2. late.what = "file"
      BY <1>5 DEF SaveFile
    <3> QED BY <3>1, <3>2, NoWriteFields DEF SaveFile, Writes
  <2>2. Behind
    BY <2>1 DEF OrderInv
  <2>3. fileNewer'[x] = {} /\ \A u \in files \ {x} : fileNewer'[u] = (fileNewer[u] \cap (files \cup {x})) \cup {x}
    BY <1>1 DEF Stamp
  <2>4. Upper(fileNewer', late.since \cup {x}, files \cup {x})
    <3> HIDE DEF x
    <3> QED BY <2>2, <2>3, StampUpper DEF Behind
  <2> QED BY <1>1, <2>1, <2>4 DEF Behind
<1> QED BY <1>2, <1>4, <1>5 DEF InOrder

LEMMA RemovalOrder ==
  ASSUME DirInv, OrderInv, Removal
  PROVE  InOrder(fileNewer', files') /\ (late'.what = "file" => Behind')
<1>1. files' \subseteq files /\ files' \subseteq Session /\ fileNewer' = Among(fileNewer, files')
  BY DEF Removal, DirInv, TypeOK
<1>2. InOrder(fileNewer', files')
  BY <1>1, AmongInOrder DEF OrderInv
<1>3. \A u \in files' : fileNewer'[u] = fileNewer[u] \cap files'
  BY <1>1 DEF Among
<1>4. CASE late.what = "file" /\ late'.since = late.since
  <2>1. Behind
    BY <1>4 DEF OrderInv
  <2> QED BY <1>1, <1>2, <1>3, <1>4, <2>1 DEF Behind, Upper
<1>5. CASE late'.since = {}
  BY <1>2, <1>5 DEF Behind, Upper
<1>6. CASE late'.what # "file"
  BY <1>2, <1>6
<1> QED BY <1>4, <1>5, <1>6 DEF Removal, SameFileWrite

\* The late file takes its place behind what was saved since, and before the rest.
LEMMA FileLandsOrder ==
  ASSUME DirInv, OrderInv, FileLands
  PROVE  InOrder(fileNewer', files')
<1> DEFINE s == late.session
           since == late.since
           placed == [u \in Session |->
                        IF u = s THEN since \ {s}
                        ELSE IF u \in since THEN fileNewer[u] \ {s} ELSE fileNewer[u] \cup {s}]
<1>1. /\ files \subseteq Session /\ s \in Session /\ files' = files \cup {s}
      /\ fileNewer' = Among(placed, files')
  BY DEF FileLands, DirInv, TypeOK, Steps
<1>2. InOrder(fileNewer, files) /\ Upper(fileNewer, since, files)
  BY DEF FileLands, OrderInv, Behind
<1>3. /\ placed[s] = since \ {s}
      /\ \A u \in files \ {s} : u \in since => placed[u] = fileNewer[u] \ {s}
      /\ \A u \in files \ {s} : u \notin since => placed[u] = fileNewer[u] \cup {s}
  BY <1>1
<1> HIDE DEF placed, s, since
<1>4. Strict(placed, files')
  BY <1>1, <1>2, <1>3, PlacedStrict DEF InOrder
<1>5. IsFiniteSet(files')
  BY <1>1, <1>2, FS_AddElement DEF InOrder
<1> QED BY <1>1, <1>4, <1>5, AmongInOrder DEF InOrder

LEMMA FilesOrder ==
  ASSUME DirInv, OrderInv, Next
  PROVE  InOrder(fileNewer', files') /\ (late'.what = "file" => Behind')
<1>1. CASE UNCHANGED <<files, fileNewer>> /\ SameFileWrite
  <2>1. InOrder(fileNewer', files')
    BY <1>1 DEF OrderInv
  <2>2. ASSUME late'.what = "file" PROVE Behind'
    BY <1>1, <2>2 DEF OrderInv, Behind, Upper, SameFileWrite
  <2> QED BY <2>1, <2>2
<1>2. CASE op.session \in Session /\ SaveFile
  BY <1>2, SaveFileOrder
<1>3. CASE Removal
  BY <1>3, RemovalOrder
<1>4. CASE FileLands /\ late' = NoWrite
  BY <1>4, FileLandsOrder, NoWriteFields
<1> QED BY <1>1, <1>2, <1>3, <1>4, FilesChange

\* Where a deletion begins.
LEMMA DeletingFacts ==
  ASSUME NEW p, NEW kind, NEW s, op' = Deleting(p, kind, s)
  PROVE  /\ op'.kind = kind /\ op'.at \in {"row", "file only"}
         /\ op'.rows = {} \/ (op'.rows = rows /\ op'.newer = rowNewer)
<1>1. CASE s \in rows
  BY <1>1 DEF Deleting, Op
<1>2. CASE s \notin rows
  BY <1>2 DEF Deleting, Op
<1> QED BY <1>1, <1>2

\* What an operation has read it keeps, or has written; only Stage reads again.
Reads ==
  /\ ~(op'.at = "index" /\ op'.kind \in {"start", "save"})
  /\ \/ op'.rows = {}
     \/ op'.rows = rows /\ op'.newer = rowNewer
     \/ op # Free /\ op'.rows = op.rows /\ op'.newer = op.newer

LEMMA FailReads ==
  ASSUME Fail
  PROVE  op' = Free \/ Reads
<1>1. op' = Free \/ op' = Deleting(op.by, "discard", op.session)
  BY DEF Fail, End
<1> QED BY <1>1, DeletingFacts DEF Reads

LEMMA OpChange ==
  ASSUME DirInv, Next
  PROVE  op' = op \/ op' = Free \/ Stage \/ Reads
<1>1. CASE \E p \in Server, s \in Session : Resume(p, s) \/ Close(p, s) \/ Start(p, s)
  BY <1>1 DEF Resume, Close, Start, Op, Reads
<1>2. CASE \/ \E p \in Process, s \in Session : Save(p, s)
           \/ \E p \in Process, key \in Key : RemoveKey(p, key)
  BY <1>2 DEF Save, RemoveKey, Op, Reads
<1>3. CASE \E p \in Process, s \in Session : Delete(p, s)
  <2>1. PICK p \in Process, s \in Session : Delete(p, s)
    BY <1>3
  <2> QED BY <2>1, DeletingFacts DEF Delete, Reads
<1>4. CASE FileSaved
  <2>1. op # Free /\ op \in Ops
    BY <1>4, FreeFields DEF FileSaved, DirInv, TypeOK
  <2>2. CASE op' = [op EXCEPT !.at = "stage"]
    BY <2>1, <2>2, MovedAt DEF Places, Reads
  <2> QED BY <1>4, <2>2, FailReads DEF FileSaved
<1>5. CASE IndexSaved
  <2>1. op # Free /\ op \in Ops
    BY <1>5, FreeFields DEF IndexSaved, DirInv, TypeOK
  <2>2. CASE op' = [op EXCEPT !.at = "unlink", !.rows = {}, !.newer = NoOrder]
    BY <2>1, <2>2, IndexWritten DEF Reads
  <2> QED BY <1>5, <2>2, FailReads DEF IndexSaved
<1>6. CASE Unlink
  <2>1. op # Free /\ op \in Ops /\ op.at = "unlink"
    BY <1>6, FreeFields DEF Unlink, DirInv, TypeOK
  <2>2. PICK s : op' = [op EXCEPT !.staged = @ \ {s}]
    BY <1>6 DEF Unlink
  <2>3. op'.at = op.at /\ op'.rows = op.rows /\ op'.newer = op.newer
    BY <2>1, <2>2 DEF Ops
  <2> QED BY <2>1, <2>3 DEF Reads
<1>7. CASE RowDropped \/ FileDropped
  <2>1. op # Free /\ op \in Ops
    BY <1>7, FreeFields DEF RowDropped, FileDropped, DirInv, TypeOK
  <2>2. \/ op' = Free \/ op' = [op EXCEPT !.at = "file after row"] \/ op' = [op EXCEPT !.at = "rollback"]
    BY <1>7 DEF RowDropped, FileDropped, End
  <2> QED BY <2>1, <2>2, MovedAt DEF Places, Reads
<1>8. CASE Unlinked \/ RolledBack \/ Abort \/ Land
  BY <1>8 DEF Unlinked, RolledBack, Abort, Land, End
<1>9. CASE \/ \E p \in Process : Crash(p)
           \/ \E how \in {"corrupt", "missing"} : IndexLost(how)
  BY <1>9 DEF Crash, IndexLost
<1> QED
  BY <1>1, <1>2, <1>3, <1>4, <1>5, <1>6, <1>7, <1>8, <1>9 DEF Next

\* What the operation under way has read is in order, and what it has staged lies
\* beyond the caps of it.
LEMMA ReadOrder ==
  ASSUME DirInv, OrderInv, Next
  PROVE  /\ op' # Free => InOrder(op'.newer, op'.rows)
         /\ (Saving' /\ op'.at = "index") =>
              /\ op'.staged \subseteq Excess(op'.rows, op'.newer)
              /\ \A s \in op'.rows : op'.newer[s] \subseteq op'.rows
<1>1. CASE op' = op
  BY <1>1 DEF OrderInv, Saving
<1>2. CASE op' = Free
  BY <1>2, FreeFields DEF Saving
<1>3. CASE Stage
  <2>1. op # Free /\ op \in Ops /\ op.session \in Session
    BY <1>3, FreeFields DEF Stage, DirInv, TypeOK, Steps
  <2>2. /\ Candidates \in SUBSET Session /\ CandidateTimes \in Orders /\ Staged \in SUBSET Session
    BY <2>1, CandidateFacts
  <2>3. op'.staged = Staged /\ op'.rows = Candidates /\ op'.newer = CandidateTimes
    BY <1>3, <2>1, <2>2, StagedOp DEF Stage
  <2>4. Staged \subseteq Excess(Candidates, CandidateTimes)
    BY DEF Staged
  <2>5. InOrder(op'.newer, op'.rows) /\ \A s \in op'.rows : op'.newer[s] \subseteq op'.rows
    BY <2>1, <2>3, CandidatesOrder
  <2>6. op'.staged \subseteq Excess(op'.rows, op'.newer)
    BY <2>3, <2>4
  <2> QED BY <2>5, <2>6
<1>4. CASE Reads
  <2>1. ~(Saving' /\ op'.at = "index")
    BY <1>4 DEF Reads, Saving
  <2>2. InOrder(op'.newer, op'.rows)
    BY <1>4, EmptyInOrder DEF Reads, OrderInv
  <2> QED BY <2>1, <2>2
<1> QED BY <1>1, <1>2, <1>3, <1>4, OpChange

LEMMA RowsOrder ==
  ASSUME DirInv, OrderInv, Next
  PROVE  InOrder(rowNewer', rows')
<1>1. CASE UNCHANGED <<rows, rowNewer>>
  BY <1>1 DEF OrderInv
<1>2. CASE \/ op.at = "index" /\ rows' = op.rows \ op.staged /\ rowNewer' = Among(op.newer, rows')
           \/ op.at = "row" /\ rows' = op.rows \ {op.session} /\ rowNewer' = Among(op.newer, rows')
           \/ op.at = "rollback" /\ rows' = op.rows /\ rowNewer' = op.newer
  <2>1. op # Free /\ op \in Ops
    BY <1>2, FreeFields DEF DirInv, TypeOK
  <2>2. InOrder(op.newer, op.rows) /\ op.rows \in SUBSET Session
    BY <2>1, BusyFields DEF OrderInv
  <2> QED BY <1>2, <2>2, AmongInOrder
<1>3. CASE rows' = late.rows /\ rowNewer' = late.newer
  BY <1>3 DEF OrderInv
<1>4. CASE rows' = {}
  BY <1>4, EmptyInOrder
<1>5. CASE IndexSaved \/ RowDropped \/ RolledBack
  BY <1>1, <1>2, <1>5 DEF IndexSaved, RowDropped, RolledBack
<1>6. CASE Land
  BY <1>1, <1>3, <1>6 DEF Land, FileLands, IndexLands, UnlinkLands, Disk
<1>7. CASE \E how \in {"corrupt", "missing"} : IndexLost(how)
  BY <1>4, <1>7 DEF IndexLost
<1> QED
  BY <1>1, <1>5, <1>6, <1>7 DEF Next, Resume, Close, Start, Save, Delete, RemoveKey, FileSaved, Stage,
     Unlink, Unlinked, FileDropped, Abort, Crash, Disk

\* The rows that an outstanding write would put on disk.
LEMMA LateOrder ==
  ASSUME DirInv, OrderInv, Next
  PROVE  InOrder(late'.newer, late'.rows)
<1>0. late \in Writes /\ InOrder(late.newer, late.rows)
  BY DEF DirInv, TypeOK, OrderInv
<1>1. CASE late'.newer = late.newer /\ late'.rows = late.rows
  BY <1>0, <1>1
<1>2. CASE late' = NoWrite
  BY <1>2, NoWriteFields, EmptyInOrder
<1>3. CASE Overtake
  BY <1>0, <1>1, <1>3, Overtaken
<1>4. CASE SaveFile
  <2>1. late.what = "file" => late'.newer = late.newer /\ late'.rows = late.rows
    BY <1>0, <1>4, NoWriteFields DEF SaveFile, Writes
  <2> QED BY <1>1, <1>4, <2>1 DEF SaveFile
<1>5. CASE Abort
  <2>1. op # Free /\ op \in Ops /\ op.kind = "save" /\ op.by \in Server
    BY <1>5, FreeFields DEF Abort, DirInv, TypeOK
  <2>2. CASE late' \in InFlight
    <3>1. late'.rows = op.rows \ op.staged /\ late'.newer = Among(op.newer, late'.rows)
      BY <2>1, <2>2, InFlightFacts
    <3>2. InOrder(op.newer, op.rows) /\ op.rows \in SUBSET Session
      BY <2>1, BusyFields DEF OrderInv
    <3> QED BY <3>1, <3>2, AmongInOrder
  <2> QED BY <1>1, <1>5, <2>2 DEF Abort
<1>6. CASE \E p \in Process : Crash(p)
  BY <1>1, <1>2, <1>6 DEF Crash
<1>7. CASE Land
  BY <1>2, <1>7 DEF Land
<1>8. CASE \/ \E p \in Server, s \in Session : Resume(p, s) \/ Start(p, s)
           \/ \E p \in Process, s \in Session : Save(p, s) \/ Delete(p, s)
           \/ \E p \in Process, key \in Key : RemoveKey(p, key)
  BY <1>3, <1>8 DEF Resume, Start, Save, Delete, RemoveKey
<1>9. CASE FileSaved
  BY <1>1, <1>4, <1>9 DEF FileSaved
<1>10. CASE \/ Stage \/ IndexSaved \/ Unlink \/ Unlinked \/ RowDropped \/ FileDropped \/ RolledBack
            \/ \E p \in Server, s \in Session : Close(p, s)
            \/ \E how \in {"corrupt", "missing"} : IndexLost(how)
  <2>1. UNCHANGED late
    BY <1>10 DEF Stage, IndexSaved, Unlink, Unlinked, RowDropped, FileDropped, RolledBack, Close, IndexLost, Abandoned
  <2> QED BY <1>1, <2>1
<1> QED
  BY <1>5, <1>6, <1>7, <1>8, <1>9, <1>10 DEF Next

\* Only the index's write brings a save to the removal of files.
LEMMA ReachesUnlink ==
  ASSUME DirInv, Next, Saving, op.at = "index", op'.at = "unlink"
  PROVE  rows' = op.rows \ op.staged
<1>1. op' # op /\ op' # Free
  BY FreeFields
<1>2. ~(\E p \in Server, s \in Session : Resume(p, s) \/ Close(p, s) \/ Start(p, s))
  BY <1>1, FreeFields DEF Resume, Close, Start, Op
<1>3. /\ ~(\E p \in Process, s \in Session : Save(p, s) \/ Delete(p, s))
      /\ ~(\E p \in Process, key \in Key : RemoveKey(p, key))
      /\ ~(\E how \in {"corrupt", "missing"} : IndexLost(how))
  BY FreeFields DEF Save, Delete, RemoveKey, IndexLost
<1>4. ~(\E p \in Process : Crash(p)) /\ ~Abort /\ ~Land
  BY <1>1 DEF Crash, Abort, Land
<1>5. ~(FileSaved \/ Stage \/ Unlink \/ Unlinked \/ RowDropped \/ FileDropped \/ RolledBack)
  BY DEF FileSaved, Stage, Unlink, Unlinked, RowDropped, FileDropped, RolledBack
<1>6. IndexSaved
  BY <1>2, <1>3, <1>4, <1>5 DEF Next
<1>7. CASE Fail
  <2>1. op' = Deleting(op.by, "discard", op.session)
    BY <1>1, <1>7 DEF Fail, End
  <2> QED BY <2>1, DeletingFacts
<1> QED BY <1>6, <1>7 DEF IndexSaved

LEMMA OrderStep == DirInv /\ OrderInv /\ [Next]_vars => OrderInv'
<1> SUFFICES ASSUME DirInv, OrderInv, [Next]_vars PROVE OrderInv'
  OBVIOUS
<1>1. CASE Next
  BY <1>1, FilesOrder, RowsOrder, ReadOrder, LateOrder DEF OrderInv
<1>2. CASE UNCHANGED vars
  BY <1>2 DEF vars, OrderInv, Saving, Behind
<1> QED BY <1>1, <1>2

LEMMA OrderInit == Init => OrderInv
BY FreeFields, NoWriteFields, EmptyInOrder DEF Init, OrderInv, Saving

\* "Saved after" stays an order of the files, of the rows and of what has been
\* read of them, wherever a late file takes its place, and what a save has staged
\* is still what lies beyond the caps when it writes the index.
THEOREM OrderInvariance == Spec => []OrderInv
<1> QED
  BY OrderInit, OrderStep, DirInvariance, PTL DEF Spec

\* A save evicts a session only behind a full scope or a full index of newer
\* ones, which it keeps, whatever the caps and whoever else is at work.
THEOREM EvictionSparesTheNewest == Spec => EvictsOnlyOldest
<1> DEFINE Spares ==
      (op.kind \in {"start", "save"} /\ op.at = "index" /\ op'.at = "unlink") =>
       \A u \in op.staged :
         LET newer == op.newer[u] \cap rows'
         IN \/ Cardinality({v \in newer : ScopeOf[v] = ScopeOf[u]}) >= ScopeCap
            \/ Cardinality(newer) >= TotalCap
<1>1. ASSUME DirInv, OrderInv, Next PROVE Spares
  <2> SUFFICES ASSUME Saving, op.at = "index", op'.at = "unlink", NEW u \in op.staged
               PROVE  LET newer == op.newer[u] \cap rows'
                      IN \/ Cardinality({v \in newer : ScopeOf[v] = ScopeOf[u]}) >= ScopeCap
                         \/ Cardinality(newer) >= TotalCap
    BY DEF Saving
  <2> DEFINE read == op.rows
             times == op.newer
             excess == Excess(read, times)
             left == times[u] \ excess
             newer == times[u] \cap rows'
             inLeft == {v \in left : ScopeOf[v] = ScopeOf[u]}
             inNewer == {v \in newer : ScopeOf[v] = ScopeOf[u]}
  <2>1. op # Free
    BY FreeFields DEF Saving
  <2>2. rows' = read \ op.staged
    BY <1>1, ReachesUnlink
  <2>3. op.staged \subseteq excess /\ \A s \in read : times[s] \subseteq read
    BY <1>1 DEF OrderInv
  <2>4. IsFiniteSet(read) /\ Strict(times, read)
    BY <1>1, <2>1 DEF OrderInv, InOrder
  <2> HIDE DEF read, times
  <2>5. Cardinality(inLeft) >= ScopeCap \/ Cardinality(left) >= TotalCap
    BY <2>3, <2>4, ExcessLeavesNewest
  <2>6. u \in read
    BY <2>3, ExcessIsRows
  <2>7. left \subseteq newer /\ inLeft \subseteq inNewer /\ newer \subseteq read /\ inNewer \subseteq read
    BY <2>2, <2>3, <2>6
  <2> HIDE DEF left, inLeft, newer, inNewer
  <2>8. /\ IsFiniteSet(newer) /\ Cardinality(left) <= Cardinality(newer)
        /\ IsFiniteSet(inNewer) /\ Cardinality(inLeft) <= Cardinality(inNewer)
        /\ IsFiniteSet(left) /\ IsFiniteSet(inLeft)
    <3>1. IsFiniteSet(newer) /\ IsFiniteSet(inNewer)
      BY <2>4, <2>7, FS_Subset
    <3> QED BY <2>7, <3>1, FS_Subset
  <2>9. /\ Cardinality(newer) \in Nat /\ Cardinality(left) \in Nat
        /\ Cardinality(inNewer) \in Nat /\ Cardinality(inLeft) \in Nat
    BY <2>8, FS_CardinalityType
  <2>10. Cardinality(inNewer) >= ScopeCap \/ Cardinality(newer) >= TotalCap
    BY <2>5, <2>8, <2>9, CapAssumption
  <2> QED BY <2>10 DEF inNewer, newer, times
<1>2. DirInv /\ OrderInv /\ [Next]_vars => [Spares]_vars
  BY <1>1
<1> QED
  BY <1>2, DirInvariance, OrderInvariance, PTL DEF Spec, EvictsOnlyOldest
=============================================================================
