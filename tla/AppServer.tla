----------------------------- MODULE AppServer -----------------------------
(***************************************************************************)
(* The turn lifecycle of the Bailey App Server (src/src/app_server).        *)
(*                                                                          *)
(* The process runs on ONE thread (main.rs builds a current-thread runtime):*)
(* the stdin loop, the turn tasks and the router's connection tasks are     *)
(* interleaved only where one of them awaits, so an action is the code      *)
(* between two awaits.  sessions.lock and stats.lock are taken with a       *)
(* blocking flock on that one thread, and held across awaits: a task that   *)
(* asks for a lock another task of the process holds stops every task       *)
(* (action Block).                                                          *)
(***************************************************************************)
EXTENDS Naturals, FiniteSets

CONSTANTS
  Thread,     \* session slots a client may load as runtime threads
  NoThread,
  MaxTurns,   \* bound: turn ids handed out
  MaxAsks,    \* bound: interaction ids handed out
  MaxSaid     \* bound: events of one turn while its engine runs

ASSUME BoundsAssumption == MaxTurns \in Nat /\ MaxAsks \in Nat /\ MaxSaid \in Nat
ASSUME NoThreadAssumption == NoThread \notin Thread

Turn == 1..MaxTurns
Ask == 1..MaxAsks
None == 0                   \* no turn

VARIABLES
  loaded,      \* the keys of AppServer.threads
  loop,        \* where the stdin loop is suspended, and on whose behalf
  nextTurn,    \* id_seq
  owner,       \* owner[t]: the thread t was accepted on, or NoThread
  phase,       \* phase[t]: where turn t's task is suspended
  active,      \* active[th]: the slot ThreadRuntime.active
  terminal,    \* terminal[t]: the flag shared by the task and the canceller
  engine,      \* engine[th]: the turn holding the engine mutex
  pending,     \* pending[id]: the turn of an unanswered interaction, or None
  nextAsk,     \* request_seq
  accounting,  \* whether a router's connection task is inside record_tokens
  said,        \* said[t]: non-terminal messages sent for turn t
  finished,    \* finished[t]: terminal events sent by t's own task
  cancelled,   \* cancelled[t]: turn.cancelled events sent for t
  wedged       \* the runtime thread is blocked in flock for ever

taskVars == <<owner, phase, active, terminal, engine>>
askVars == <<pending, nextAsk>>
wireVars == <<said, finished, cancelled>>
vars == <<loaded, loop, nextTurn, taskVars, askVars, accounting, wireVars, wedged>>

-----------------------------------------------------------------------------
(* The awaits of the stdin loop that hold sessions.lock, and those of a turn  *)
(* task.                                                                     *)
LoopSaves == {"userSnapshot", "userBlob", "userUndo", "empty", "discard",
              "flush", "delete", "interrupted"}
TaskSaves == {"snapshot", "blob"}
LoopAt == LoopSaves \cup {"read", "record", "join", "kill", "drain", "exited"}
Phase == TaskSaves \cup {"new", "spawned", "routing", "engine", "asking",
                         "answered", "export", "ended", "aborted"}

At(at, th, t, then) == [at |-> at, th |-> th, turn |-> t, then |-> then]
Reading == At("read", NoThread, None, "read")
LoopState == [at : LoopAt, th : Thread \cup {NoThread}, turn : Turn \cup {None},
              then : {"read", "read-closed", "exit"}]

Serving == loop.at = "read" /\ ~wedged

\* abort() has been called on t's task and the runtime has not dropped it yet.
Aborted(t) == loop.at = "join" /\ loop.turn = t

Runs(t, p) == phase[t] = p /\ ~Aborted(t) /\ ~wedged

SavingTurns == {t \in Turn : phase[t] \in TaskSaves}
SessionsLocked == loop.at \in LoopSaves \/ SavingTurns # {}
StatsLocked == loop.at = "record" \/ accounting = "recording"

Goto(t, p) == phase' = [phase EXCEPT ![t] = p]

\* Mutant: the id sequence starts at the value that means "no turn".
InitFromZero ==
  /\ loaded = {} /\ loop = Reading /\ nextTurn = 0
  /\ owner = [t \in Turn |-> NoThread] /\ phase = [t \in Turn |-> "new"]
  /\ active = [th \in Thread |-> None] /\ terminal = [t \in Turn |-> FALSE]
  /\ engine = [th \in Thread |-> None]
  /\ pending = [id \in Ask |-> None] /\ nextAsk = 1 /\ accounting = "unused"
  /\ said = [t \in Turn |-> 0] /\ finished = [t \in Turn |-> 0]
  /\ cancelled = [t \in Turn |-> 0] /\ wedged = FALSE

Init ==
  /\ loaded = {}
  /\ loop = Reading
  /\ nextTurn = 1
  /\ owner = [t \in Turn |-> NoThread]
  /\ phase = [t \in Turn |-> "new"]
  /\ active = [th \in Thread |-> None]
  /\ terminal = [t \in Turn |-> FALSE]
  /\ engine = [th \in Thread |-> None]
  /\ pending = [id \in Ask |-> None]
  /\ nextAsk = 1
  /\ accounting = "unused"
  /\ said = [t \in Turn |-> 0]
  /\ finished = [t \in Turn |-> 0]
  /\ cancelled = [t \in Turn |-> 0]
  /\ wedged = FALSE

LoopOnly == UNCHANGED <<nextTurn, taskVars, askVars, accounting, wireVars, wedged>>

-----------------------------------------------------------------------------
(* thread/start, thread/resume, thread/flush and thread/delete.               *)

\* A runtime is being created: its last step is record_selection.
OpenThread(th) ==
  /\ Serving /\ th \notin loaded /\ ~StatsLocked
  /\ loop' = At("record", th, None, "read")
  /\ UNCHANGED loaded /\ LoopOnly

\* thread/resume answers once the selection is recorded; thread/start still
\* has the empty session to save; either may fail.
SelectionRecorded ==
  /\ loop.at = "record" /\ ~wedged
  /\ \/ loaded' = loaded \cup {loop.th} /\ loop' = Reading
     \/ UNCHANGED loaded /\ loop' = Reading
     \/ /\ ~SessionsLocked
        /\ UNCHANGED loaded /\ loop' = At("empty", loop.th, None, "read")
  /\ LoopOnly

\* persist_empty: on failure the session is deleted again.
EmptySaved ==
  /\ loop.at = "empty" /\ ~wedged
  /\ \/ loaded' = loaded \cup {loop.th} /\ loop' = Reading
     \/ UNCHANGED loaded /\ loop' = At("discard", loop.th, None, "read")
  /\ LoopOnly

FlushThread(th) ==
  /\ Serving /\ th \in loaded /\ active[th] = None /\ ~SessionsLocked
  /\ loop' = At("flush", th, None, "read")
  /\ UNCHANGED loaded /\ LoopOnly

DeleteThread(th) ==
  /\ Serving /\ th \notin loaded /\ ~SessionsLocked
  /\ loop' = At("delete", th, None, "read")
  /\ UNCHANGED loaded /\ LoopOnly

\* The save or the deletion ends, well or badly, and the request is answered.
MaintenanceDone ==
  /\ loop.at \in {"flush", "delete", "discard", "userUndo"} /\ ~wedged
  /\ loop' = Reading
  /\ UNCHANGED loaded /\ LoopOnly

-----------------------------------------------------------------------------
(* turn/start: prepare_turn runs to its end before the next frame is read.    *)

\* Mutant: the THREAD_BUSY check is gone.
TurnStartBusy(th) ==
  /\ Serving /\ th \in loaded /\ nextTurn <= MaxTurns /\ ~SessionsLocked
  /\ loop' = At("userSnapshot", th, nextTurn, "read")
  /\ nextTurn' = nextTurn + 1
  /\ UNCHANGED <<loaded, taskVars, askVars, accounting, wireVars, wedged>>

TurnStart(th) ==
  /\ Serving /\ th \in loaded /\ active[th] = None /\ nextTurn <= MaxTurns
  /\ ~SessionsLocked
  /\ loop' = At("userSnapshot", th, nextTurn, "read")
  /\ nextTurn' = nextTurn + 1
  /\ UNCHANGED <<loaded, taskVars, askVars, accounting, wireVars, wedged>>

\* The display history with the new prompt is saved; the transcript blob is
\* cleared next.  A failure of either save refuses the turn.
UserSnapshotDone ==
  /\ loop.at = "userSnapshot" /\ ~wedged
  /\ \/ loop' = At("userBlob", loop.th, loop.turn, loop.then)
     \/ loop' = Reading
  /\ UNCHANGED loaded /\ LoopOnly

UserBlobFailed ==
  /\ loop.at = "userBlob" /\ ~wedged
  /\ loop' = At("userUndo", loop.th, loop.turn, loop.then)
  /\ UNCHANGED loaded /\ LoopOnly

\* The task is spawned, entered in the slot and released: the turn is accepted.
Accept ==
  /\ loop.at = "userBlob" /\ ~wedged
  /\ owner' = [owner EXCEPT ![loop.turn] = loop.th]
  /\ Goto(loop.turn, "spawned")
  /\ active' = [active EXCEPT ![loop.th] = loop.turn]
  /\ loop' = Reading
  /\ UNCHANGED <<loaded, nextTurn, terminal, engine, askVars, accounting, wireVars, wedged>>

-----------------------------------------------------------------------------
(* A turn's own task: run_turn.                                               *)

LoopWaits == UNCHANGED <<loaded, loop, nextTurn, wedged>>
TaskOnly == LoopWaits /\ UNCHANGED accounting

Say(t) == said' = [said EXCEPT ![t] = @ + 1]

\* turn.started, then the route is awaited.
Begin(t) ==
  /\ Runs(t, "spawned")
  /\ Goto(t, "routing") /\ Say(t)
  /\ TaskOnly /\ UNCHANGED <<owner, active, terminal, engine, askVars, finished, cancelled>>

\* engine.lock(): the mutex is awaited, so the step needs it free.
RouteReady(t) ==
  /\ Runs(t, "routing") /\ engine[owner[t]] = None
  /\ Goto(t, "engine")
  /\ engine' = [engine EXCEPT ![owner[t]] = t]
  /\ accounting' = IF accounting = "unused" THEN "idle" ELSE accounting
  /\ LoopWaits /\ UNCHANGED <<owner, active, terminal, askVars, wireVars>>

Speak(t) ==
  /\ Runs(t, "engine") /\ said[t] < MaxSaid
  /\ Say(t)
  /\ TaskOnly /\ UNCHANGED <<taskVars, askVars, finished, cancelled>>

\* ask_permission, ask_external_permission and ask_user: the entry is made and
\* the request sent before the reply is awaited.
AskClient(t) ==
  /\ Runs(t, "engine") /\ nextAsk <= MaxAsks
  /\ pending' = [pending EXCEPT ![nextAsk] = t]
  /\ nextAsk' = nextAsk + 1
  /\ Goto(t, "asking") /\ Say(t)
  /\ TaskOnly /\ UNCHANGED <<owner, active, terminal, engine, finished, cancelled>>

\* A client response: the entry goes, and the waiting future gets the decision
\* (a malformed or unknown decision is a Deny).
ClientReply(id) ==
  /\ Serving /\ pending[id] # None
  /\ pending' = [pending EXCEPT ![id] = None]
  /\ phase' = [phase EXCEPT ![pending[id]] = IF @ = "asking" THEN "answered" ELSE @]
  /\ TaskOnly /\ UNCHANGED <<nextAsk, owner, active, terminal, engine, wireVars>>

Resume(t) ==
  /\ Runs(t, "answered")
  /\ Goto(t, "engine")
  /\ TaskOnly /\ UNCHANGED <<owner, active, terminal, engine, askVars, wireVars>>

\* engine.run_turn returns; the transcript is exported and the mutex released.
EngineReturns(t) ==
  /\ Runs(t, "engine")
  /\ Goto(t, "export")
  /\ engine' = [engine EXCEPT ![owner[t]] = None]
  /\ TaskOnly /\ UNCHANGED <<owner, active, terminal, askVars, wireVars>>

SaveSnapshot(t) ==
  /\ Runs(t, "export") /\ ~SessionsLocked
  /\ Goto(t, "snapshot")
  /\ TaskOnly /\ UNCHANGED <<owner, active, terminal, engine, askVars, wireVars>>

\* Mutant: the terminal event is sent before the transcript is saved.
SaveBlobLate(t) ==
  /\ Runs(t, "snapshot")
  /\ Goto(t, "blob")
  /\ terminal' = [terminal EXCEPT ![t] = TRUE]
  /\ finished' = [finished EXCEPT ![t] = @ + 1]
  /\ TaskOnly /\ UNCHANGED <<owner, active, engine, askVars, said, cancelled>>

SaveBlob(t) ==
  /\ Runs(t, "snapshot")
  /\ Goto(t, "blob")
  /\ TaskOnly /\ UNCHANGED <<owner, active, terminal, engine, askVars, wireVars>>

FailPending(t) == pending' = [id \in Ask |-> IF pending[id] = t THEN None ELSE pending[id]]

\* Mutant: the flag shared with the canceller is not looked at.
EmitTerminalTwice(t) ==
  /\ finished' = [finished EXCEPT ![t] = @ + 1]
  /\ active' = active /\ UNCHANGED terminal
  /\ Goto(t, "ended")

\* emit_terminal_once, then the task empties its slot: one step, no await.
EmitTerminalOnce(t) ==
  /\ terminal' = [terminal EXCEPT ![t] = TRUE]
  /\ finished' = [finished EXCEPT ![t] = IF terminal[t] THEN @ ELSE @ + 1]
  /\ active' = [active EXCEPT ![owner[t]] = IF @ = t THEN None ELSE @]
  /\ Goto(t, "ended")

\* No route to the model: turn.failed.
RouteFailed(t) ==
  /\ Runs(t, "routing")
  /\ EmitTerminalOnce(t)
  /\ TaskOnly /\ UNCHANGED <<owner, engine, askVars, said, cancelled>>

\* A save failed (an error event says so first), or both are done.
Finish(t) ==
  /\ \/ (Runs(t, "snapshot") \/ Runs(t, "blob")) /\ Say(t)
     \/ Runs(t, "blob") /\ UNCHANGED said
  /\ EmitTerminalOnce(t) /\ FailPending(t)
  /\ TaskOnly /\ UNCHANGED <<owner, engine, nextAsk, cancelled>>

\* The router's connection task: record_tokens after a model response, which may
\* outlive the turn that asked for it.
Account ==
  /\ ~wedged /\ ~StatsLocked /\ accounting = "idle"
  /\ accounting' = "recording"
  /\ UNCHANGED <<loaded, loop, nextTurn, taskVars, askVars, wireVars, wedged>>

Accounted ==
  /\ ~wedged /\ accounting = "recording"
  /\ accounting' = "idle"
  /\ UNCHANGED <<loaded, loop, nextTurn, taskVars, askVars, wireVars, wedged>>

-----------------------------------------------------------------------------
(* turn/cancel, thread/close, shutdown and stdin EOF.                         *)

\* prepare_cancel and task.abort() for the turn in th's slot, if there is one
\* that has not ended; otherwise the loop goes on to kill_all.
StopTurn(th, then) ==
  LET t == active[th] IN
  IF t # None /\ ~terminal[t]
  THEN /\ terminal' = [terminal EXCEPT ![t] = TRUE]
       /\ active' = [active EXCEPT ![th] = None]
       /\ loop' = At("join", th, t, then)
  ELSE /\ loop' = At("kill", th, None, then)
       /\ UNCHANGED <<terminal, active>>

StopOnly == UNCHANGED <<nextTurn, owner, phase, engine, askVars, accounting, wireVars, wedged>>

CancelTurn(th) ==
  /\ Serving /\ th \in loaded /\ active[th] # None /\ ~terminal[active[th]]
  /\ StopTurn(th, "read")
  /\ UNCHANGED loaded /\ StopOnly

CloseThread(th) ==
  /\ Serving /\ th \in loaded
  /\ loaded' = loaded \ {th}
  /\ StopTurn(th, "read-closed") /\ StopOnly

\* The shutdown request, or end of input.
Drain ==
  /\ Serving
  /\ loop' = At("drain", NoThread, None, "exit")
  /\ UNCHANGED loaded /\ LoopOnly

\* Mutant: the shutdown forgets the turn of the thread it drops.
DrainThreadOnly(th) ==
  /\ loop.at = "drain" /\ ~wedged /\ th \in loaded
  /\ loaded' = loaded \ {th}
  /\ loop' = At("kill", th, None, "exit")
  /\ UNCHANGED <<terminal, active>> /\ StopOnly

DrainThread(th) ==
  /\ loop.at = "drain" /\ ~wedged /\ th \in loaded
  /\ loaded' = loaded \ {th}
  /\ StopTurn(th, "exit") /\ StopOnly

JoinedTail ==
  /\ loop' = At("interrupted", loop.th, loop.turn, loop.then)
  /\ UNCHANGED <<loaded, nextTurn, owner, active, terminal, nextAsk, accounting, wireVars, wedged>>

\* Mutant: the interactions of the cancelled turn stay pending.
JoinedForgetsAsks ==
  /\ loop.at = "join" /\ ~wedged /\ SavingTurns \subseteq {loop.turn}
  /\ Goto(loop.turn, "aborted") /\ UNCHANGED pending
  /\ engine' = [engine EXCEPT ![loop.th] = IF @ = loop.turn THEN None ELSE @]
  /\ JoinedTail

\* Mutant: the aborted task keeps the engine.
JoinedKeepsEngine ==
  /\ loop.at = "join" /\ ~wedged /\ SavingTurns \subseteq {loop.turn}
  /\ Goto(loop.turn, "aborted") /\ FailPending(loop.turn) /\ UNCHANGED engine
  /\ JoinedTail

\* Mutant: the task is neither dropped nor awaited.
JoinedDetached ==
  /\ loop.at = "join" /\ ~wedged /\ SavingTurns \subseteq {loop.turn}
  /\ FailPending(loop.turn) /\ UNCHANGED <<phase, engine>>
  /\ JoinedTail

\* Mutant: the turn is awaited instead of aborted.
JoinedAwaitsEnd ==
  /\ loop.at = "join" /\ ~wedged /\ phase[loop.turn] = "ended"
  /\ FailPending(loop.turn) /\ UNCHANGED <<phase, engine>>
  /\ JoinedTail

\* The aborted future is dropped (its guards with it) and joined; the turn's
\* interactions fail; the interrupted transcript is about to be saved.
Joined ==
  /\ loop.at = "join" /\ ~wedged
  /\ SavingTurns \subseteq {loop.turn}
  /\ Goto(loop.turn, "aborted")
  /\ engine' = [engine EXCEPT ![loop.th] = IF @ = loop.turn THEN None ELSE @]
  /\ FailPending(loop.turn)
  /\ JoinedTail

\* The transcript is saved, or an error event says it is not; turn.cancelled
\* follows.
Cancelled ==
  /\ loop.at = "interrupted" /\ ~wedged
  /\ UNCHANGED said \/ Say(loop.turn)
  /\ cancelled' = [cancelled EXCEPT ![loop.turn] = @ + 1]
  /\ loop' = IF loop.then = "read" THEN Reading ELSE At("kill", loop.th, None, loop.then)
  /\ UNCHANGED <<loaded, nextTurn, taskVars, askVars, accounting, finished, wedged>>

\* kill_all on the thread's job table.
JobsKilled ==
  /\ loop.at = "kill" /\ ~wedged
  /\ loop' = IF loop.then = "exit" THEN At("drain", NoThread, None, "exit") ELSE Reading
  /\ UNCHANGED loaded /\ LoopOnly

Exit ==
  /\ loop.at = "drain" /\ ~wedged /\ loaded = {}
  /\ pending' = [id \in Ask |-> None]
  /\ loop' = At("exited", NoThread, None, "exit")
  /\ UNCHANGED <<loaded, nextTurn, taskVars, nextAsk, accounting, wireVars, wedged>>

-----------------------------------------------------------------------------
(* Some task is about to take a lock that a suspended task of this process    *)
(* holds: the only thread blocks, so the holder never releases it.            *)
WantsSessions ==
  \/ loop.at = "read" /\ \E th \in Thread : th \in loaded => active[th] = None
  \/ loop.at = "record"
  \/ loop.at = "join" /\ ~(SavingTurns \subseteq {loop.turn})
  \/ \E t \in Turn : Runs(t, "export")

WantsStats ==
  \/ loop.at = "read" /\ loaded # Thread
  \/ accounting # "unused"

Block ==
  /\ ~wedged
  /\ (SessionsLocked /\ WantsSessions) \/ (StatsLocked /\ WantsStats)
  /\ wedged' = TRUE
  /\ UNCHANGED <<loaded, loop, nextTurn, taskVars, askVars, accounting, wireVars>>

-----------------------------------------------------------------------------
LoopStep ==
  \/ SelectionRecorded \/ EmptySaved \/ MaintenanceDone
  \/ UserSnapshotDone \/ UserBlobFailed \/ Accept
  \/ Joined \/ Cancelled \/ JobsKilled \/ Exit
  \/ \E th \in Thread : DrainThread(th)

ClientStep ==
  \/ Drain
  \/ \E id \in Ask : ClientReply(id)
  \/ \E th \in Thread :
       \/ OpenThread(th) \/ FlushThread(th) \/ DeleteThread(th)
       \/ TurnStart(th) \/ CancelTurn(th) \/ CloseThread(th)

\* The task's steps that only wait for the runtime and for the disk.
TaskStep(t) ==
  Begin(t) \/ Resume(t) \/ SaveSnapshot(t) \/ SaveBlob(t) \/ Finish(t)

\* The steps that wait for the model, a tool or the network.
EngineStep(t) ==
  RouteReady(t) \/ RouteFailed(t) \/ Speak(t) \/ AskClient(t) \/ EngineReturns(t)

Next ==
  \/ LoopStep \/ ClientStep \/ Block \/ Account \/ Accounted
  \/ \E t \in Turn : TaskStep(t) \/ EngineStep(t)

Spec == Init /\ [][Next]_vars

\* The runtime polls every task that is ready and file I/O completes.  Nothing
\* is assumed of the client, the model, the tools or the network.
FairSpec ==
  /\ Spec
  /\ WF_vars(LoopStep)
  /\ \A t \in Turn : WF_vars(TaskStep(t))
  /\ WF_vars(Accounted)

-----------------------------------------------------------------------------
(* Properties.                                                                *)

TypeOK ==
  /\ loaded \subseteq Thread
  /\ loop \in LoopState
  /\ nextTurn \in 1..(MaxTurns + 1)
  /\ owner \in [Turn -> Thread \cup {NoThread}]
  /\ phase \in [Turn -> Phase]
  /\ active \in [Thread -> Turn \cup {None}]
  /\ terminal \in [Turn -> BOOLEAN]
  /\ engine \in [Thread -> Turn \cup {None}]
  /\ pending \in [Ask -> Turn \cup {None}]
  /\ nextAsk \in 1..(MaxAsks + 1)
  /\ accounting \in {"unused", "idle", "recording"}
  /\ said \in [Turn -> Nat]
  /\ finished \in [Turn -> Nat]
  /\ cancelled \in [Turn -> Nat]
  /\ wedged \in BOOLEAN

Terminated(t) == finished[t] + cancelled[t] > 0
OpenTurns == {t \in Turn : owner[t] # NoThread /\ ~Terminated(t)}

\* "Every accepted turn emits exactly one terminal event" (the protocol
\* document): whatever cancel, close, shutdown and the turn's own end do to
\* each other, a second terminal event is never sent.
OneTerminalEvent == \A t \in Turn : finished[t] + cancelled[t] <= 1

\* "A runtime thread allows one active turn": a turn is not accepted while the
\* client still waits for the terminal event of an earlier one of its thread.
\* The slot is emptied before the cancelled turn's terminal event, so this
\* rests on the stdin loop being serial, not on the slot alone.
OneOpenTurn ==
  \A t, u \in OpenTurns : owner[t] = owner[u] => t = u

\* When the loop can read a client response, every pending interaction belongs
\* to the active turn of its thread and that turn is suspended on a reply: no
\* late approval can reach a turn that was cancelled or has ended.
PendingIsAwaited ==
  loop.at = "read" =>
    \A id \in Ask : pending[id] # None =>
      /\ phase[pending[id]] = "asking"
      /\ active[owner[pending[id]]] = pending[id]

\* A new turn never waits for the engine of its thread: the mutex of an ended
\* or aborted turn has been released before the next turn reaches run_turn.
EngineUncontended ==
  \A t \in Turn : phase[t] \in {"spawned", "routing"} => engine[owner[t]] = None

\* After the shutdown no turn is left without its terminal event, no
\* interaction without an answer and no slot occupied.
NothingLeftBehind ==
  loop.at = "exited" =>
    /\ OpenTurns = {}
    /\ \A id \in Ask : pending[id] = None
    /\ \A th \in Thread : active[th] = None

\* No message of a turn, event or request, follows its terminal event, also
\* when the task was cancelled in the middle of an event or a save.
SilentAfterTerminal ==
  [][\A t \in Turn : Terminated(t) =>
       UNCHANGED <<said[t], finished[t], cancelled[t]>>]_vars

\* The stdin loop always comes back to reading, or to the end of the process:
\* cancelling never waits for a reply that only the loop itself could read.
LoopReturns ==
  (loop.at \notin {"read", "exited"}) ~> (loop.at \in {"read", "exited"} \/ wedged)

\* The client's view of the turns is that of TurnContract.
Contract == INSTANCE TurnContract
  WITH thread <- owner, closed <- {t \in Turn : Terminated(t)}, said <- said

ContractSpec == Contract!Spec

\* The runtime thread never blocks on a lock that one of its own suspended
\* tasks holds.
NeverWedged == ~wedged
=============================================================================
