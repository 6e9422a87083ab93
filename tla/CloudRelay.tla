------------------------------ MODULE CloudRelay ------------------------------
(***************************************************************************)
(* The cloud record relay of the desktop                                    *)
(* (src/desktop/src-tauri/src/cloud_records.rs): the events of each turn    *)
(* that the App Server sends are observed, queued, and turned by one worker *)
(* into requests that create, annotate and close a run at Bailey Cloud.     *)
(*                                                                          *)
(* A request may be answered, refused, applied with its answer lost, or     *)
(* applied after the client gave up.  The relay of one runtime is modelled; *)
(* module Desktop starts a new one with each runtime.                       *)
(***************************************************************************)
EXTENDS Naturals, Sequences

CONSTANTS
  Turn,             \* the turns of the App Server
  Capacity,         \* RECORD_QUEUE_CAPACITY
  RequestTimeout, RetryDelay, CancelPoll, FlushTimeout,   \* in milliseconds
  ShutdownTimeout

\* The shutdown waits for the worker longer than the worker can take once it is
\* cancelled (two requests, then the flush), so it never aborts it.
ASSUME ShutdownCoversWorker ==
  2 * RequestTimeout + RetryDelay + CancelPoll + FlushTimeout < ShutdownTimeout

ASSUME CapacityAssumption == Capacity \in Nat

Outcome == {"completed", "interrupted"}   \* "failed" and "stopped" go like "completed"

VARIABLES
  said,       \* turn -> the last of its events the App Server sent
  outcome,    \* turn -> how it ended, or "none"
  queue,      \* the observed events
  cancelled,  \* the relay's cancel flag
  worker,     \* what the worker awaits: [at, turn, try, todo]
  active,     \* turn -> "none", "open", or the terminal status remembered
  degraded,   \* turns whose audit events are no longer sent
  cloud,      \* turn -> the status of its run at the cloud, or "none"
  late,       \* requests given up that the cloud may still apply
  told        \* turns reported with durability.updated

relayVars == <<said, outcome, queue, cancelled, worker, active, degraded, cloud, late, told>>
localVars == <<queue, worker, active, degraded>>   \* the worker's own state
turnVars == <<said, outcome>>

Result == {"ok", "refused", "lost", "late"}

-----------------------------------------------------------------------------
(* Observing.                                                                 *)

\* Mutant: the queue takes one event more than it may hold.
ObserveOver(t, kind) ==
  IF cancelled THEN UNCHANGED <<queue, told>>
  ELSE IF Len(queue) <= Capacity
    THEN queue' = Append(queue, [turn |-> t, kind |-> kind]) /\ UNCHANGED told
    ELSE told' = told \cup {t} /\ UNCHANGED queue

\* observe_line: an event that does not fit in the queue is reported.
Observe(t, kind) ==
  IF cancelled THEN UNCHANGED <<queue, told>>
  ELSE IF Len(queue) < Capacity
    THEN queue' = Append(queue, [turn |-> t, kind |-> kind]) /\ UNCHANGED told
    ELSE told' = told \cup {t} /\ UNCHANGED queue

\* The App Server sends an event of a turn: turn.started, one tool event (bound)
\* and one terminal event.
Say(t, kind) ==
  /\ CASE kind = "started" -> said[t] = "nothing"
       [] kind = "audit" -> said[t] = "started"
       [] kind = "terminal" -> said[t] \in {"started", "audit"}
  /\ said' = [said EXCEPT ![t] = kind]
  /\ IF kind = "terminal" THEN \E o \in Outcome : outcome' = [outcome EXCEPT ![t] = o]
     ELSE UNCHANGED outcome
  /\ Observe(t, kind)
  /\ UNCHANGED <<cancelled, worker, active, degraded, cloud, late>>

Cancel == cancelled' = TRUE

-----------------------------------------------------------------------------
(* The worker.                                                                *)

NoTurn == "none"
Awaiting(at, t, try) == [at |-> at, turn |-> t, try |-> try, todo |-> {}]

\* The head of the loop: cancelled, the worker flushes what it holds.
Held == {t \in Turn : active[t] # "none"}
Loop(held) == IF cancelled THEN [Awaiting("flush", NoTurn, 0) EXCEPT !.todo = held]
              ELSE Awaiting("recv", NoTurn, 0)

\* What the cloud does with a request that sets the status of t's run.
Answered(t, status, result) ==
  /\ cloud' = IF result \in {"ok", "lost"} THEN [cloud EXCEPT ![t] = status] ELSE cloud
  /\ late' = IF result = "late" THEN late \cup {<<t, status>>} ELSE late

Degrade(t) == degraded' = degraded \cup {t} /\ told' = told \cup {t}

\* Mutant: the terminal status is not remembered with the run.
ReceiveForgetting ==
  /\ worker.at = "recv" /\ queue # <<>> /\ queue' = Tail(queue)
  /\ LET t == Head(queue).turn
         kind == Head(queue).kind
     IN IF (kind = "started") # (active[t] = "none") \/ (kind # "terminal" /\ t \in degraded) THEN
          /\ worker' = Loop(Held)
          /\ degraded' = IF kind = "terminal" THEN degraded \ {t} ELSE degraded
          /\ UNCHANGED active
        ELSE
          /\ worker' = Awaiting(kind, t, 1)
          /\ UNCHANGED <<active, degraded>>
  /\ UNCHANGED <<turnVars, cancelled, cloud, late, told>>

\* An event is received: the run of a new turn is created, an audit event is
\* appended to it, a terminal event closes it; events without a run are skipped.
Receive ==
  /\ worker.at = "recv" /\ queue # <<>> /\ queue' = Tail(queue)
  /\ LET t == Head(queue).turn
         kind == Head(queue).kind
     IN IF (kind = "started") # (active[t] = "none") \/ (kind # "terminal" /\ t \in degraded) THEN
          /\ worker' = Loop(Held)
          /\ degraded' = IF kind = "terminal" THEN degraded \ {t} ELSE degraded
          /\ UNCHANGED active
        ELSE
          /\ worker' = Awaiting(kind, t, 1)
          /\ active' = IF kind = "terminal" THEN [active EXCEPT ![t] = outcome[t]] ELSE active
          /\ UNCHANGED degraded
  /\ UNCHANGED <<turnVars, cancelled, cloud, late, told>>

\* Nothing received before the poll interval ends, and the relay is cancelled.
StopReceiving ==
  /\ worker.at = "recv" /\ queue = <<>> /\ cancelled
  /\ worker' = Loop(Held)
  /\ UNCHANGED <<turnVars, queue, cancelled, active, degraded, cloud, late, told>>

\* create_run; a run that was created is annotated with turn.started.
Created(result) ==
  LET t == worker.turn IN
  /\ worker.at = "started"
  /\ Answered(t, "running", result)
  /\ IF result = "ok"
     THEN /\ active' = [active EXCEPT ![t] = "open"] /\ worker' = Awaiting("audit", t, 1)
          /\ UNCHANGED <<degraded, told>>
     ELSE Degrade(t) /\ worker' = Loop(Held) /\ UNCHANGED active
  /\ UNCHANGED <<turnVars, queue, cancelled>>

\* append_event
Appended(ok) ==
  /\ worker.at = "audit" /\ worker' = Loop(Held)
  /\ IF ok THEN UNCHANGED <<degraded, told>> ELSE Degrade(worker.turn)
  /\ UNCHANGED <<turnVars, queue, cancelled, active, cloud, late>>

\* finish_run_bounded of a terminal event: two attempts, then the run is kept.
Finished(result) ==
  LET t == worker.turn IN
  /\ worker.at = "terminal"
  /\ Answered(t, outcome[t], result)
  /\ IF result = "ok" THEN
       /\ active' = [active EXCEPT ![t] = "none"] /\ degraded' = degraded \ {t}
       /\ worker' = Loop(Held \ {t}) /\ UNCHANGED told
     ELSE IF worker.try < 2 THEN
       /\ worker' = [worker EXCEPT !.try = @ + 1] /\ UNCHANGED <<active, degraded, told>>
     ELSE Degrade(t) /\ worker' = Loop(Held) /\ UNCHANGED active
  /\ UNCHANGED <<turnVars, queue, cancelled>>

\* flush_active takes the runs one by one, in any order.
FlushNext ==
  /\ worker.at = "flush" /\ worker.turn = NoTurn
  /\ \E t \in worker.todo : worker' = [worker EXCEPT !.turn = t, !.try = 1, !.todo = @ \ {t}]
  /\ UNCHANGED <<turnVars, queue, cancelled, active, degraded, cloud, late, told>>

Flushed(result) ==
  LET t == worker.turn IN
  /\ worker.at = "flush" /\ t # NoTurn
  /\ Answered(t, IF active[t] = "open" THEN "interrupted" ELSE active[t], result)
  /\ active' = IF result = "ok" THEN [active EXCEPT ![t] = "none"] ELSE active
  /\ worker' = IF result # "ok" /\ worker.try < 2 THEN [worker EXCEPT !.try = @ + 1]
               ELSE [worker EXCEPT !.turn = NoTurn]
  /\ UNCHANGED <<turnVars, queue, cancelled, degraded, told>>

\* Mutant: what could not be closed is not reported.
EndSilently ==
  /\ worker.at = "flush" /\ worker.turn = NoTurn /\ worker.todo = {}
  /\ worker' = Awaiting("done", NoTurn, 0)
  /\ UNCHANGED <<turnVars, queue, cancelled, active, degraded, cloud, late, told>>

\* The flush ends or its time runs out; what is still held is reported.
End ==
  /\ worker.at = "flush"
  /\ late' = IF worker.turn = NoTurn THEN late
             ELSE late \cup {<<worker.turn, IF active[worker.turn] = "open" THEN "interrupted"
                                            ELSE active[worker.turn]>>}
  /\ told' = told \cup Held /\ worker' = Awaiting("done", NoTurn, 0)
  /\ UNCHANGED <<turnVars, queue, cancelled, active, degraded, cloud>>

\* The cloud applies a request the relay gave up.
AppliedLate ==
  /\ \E r \in late : late' = late \ {r} /\ cloud' = [cloud EXCEPT ![r[1]] = r[2]]
  /\ UNCHANGED <<turnVars, queue, cancelled, worker, active, degraded, told>>

WorkerStep ==
  \/ Receive \/ StopReceiving \/ FlushNext \/ End
  \/ \E result \in Result : Created(result) \/ Finished(result) \/ Flushed(result)
  \/ \E ok \in BOOLEAN : Appended(ok)
-----------------------------------------------------------------------------
RelayInit ==
  /\ said = [t \in Turn |-> "nothing"] /\ outcome = [t \in Turn |-> "none"]
  /\ queue = <<>> /\ cancelled = TRUE /\ worker = Awaiting("done", NoTurn, 0)
  /\ active = [t \in Turn |-> "none"] /\ degraded = {}
  /\ cloud = [t \in Turn |-> "none"] /\ late = {} /\ told = {}

\* CloudRecordRelay::start
Fresh ==
  /\ queue' = <<>> /\ cancelled' = FALSE /\ worker' = Awaiting("recv", NoTurn, 0)
  /\ active' = [t \in Turn |-> "none"] /\ degraded' = {}

RelayTypeOK ==
  /\ said \in [Turn -> {"nothing", "started", "audit", "terminal"}]
  /\ outcome \in [Turn -> Outcome \cup {"none"}]
  /\ Len(queue) <= Capacity /\ cancelled \in BOOLEAN
  /\ worker.at \in {"recv", "started", "audit", "terminal", "flush", "done"}
  /\ worker.turn \in Turn \cup {NoTurn} /\ worker.try \in 0..2 /\ worker.todo \subseteq Turn
  /\ active \in [Turn -> Outcome \cup {"none", "open"}] /\ degraded \subseteq Turn
  /\ cloud \in [Turn -> Outcome \cup {"none", "running"}]
  /\ late \subseteq Turn \X (Outcome \cup {"running"}) /\ told \subseteq Turn
=============================================================================
