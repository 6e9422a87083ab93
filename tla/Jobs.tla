-------------------------------- MODULE Jobs --------------------------------
(***************************************************************************)
(* Background shell jobs (src/src/agent/jobs.rs): the table that run_bash   *)
(* in the background, check_job and the notices of the engine share, also   *)
(* with sub-agents that run in parallel, and that is torn down at exit.     *)
(*                                                                          *)
(* A critical section of the table runs without an await and is one step.   *)
(* A process is seen through what waiting for it would give: it may exit by *)
(* itself at any time, ignore TERM, and take a while to die of KILL.        *)
(***************************************************************************)
EXTENDS Integers, FiniteSets, Functions

CONSTANTS
  Caller,       \* engines that may be in a check_job with kill
  MaxRunning,   \* MAX_RUNNING_JOBS
  MaxFinished,  \* MAX_FINISHED_JOBS
  MaxJobs       \* bound: jobs ever spawned

ASSUME JobsAssumption == MaxRunning \in Nat \ {0} /\ MaxFinished \in Nat /\ MaxJobs \in Nat

Job == 1..MaxJobs
Ended == {"code", "signal"}

VARIABLES
  jobs,       \* the table: job id -> [status, notified]; ids grow, so their order is its order
  spawned,    \* next_id - 1
  leader,     \* job -> its shell: "none", "alive", or how it ended
  forced,     \* jobs sent KILL
  signaled,   \* jobs sent any signal
  killing,    \* caller -> its kill: [at, id]
  teardown,   \* kill_all at exit: [at, ids]
  told,       \* jobs a model has been told the end of
  announced   \* history: the jobs announced by the last notice

vars == <<jobs, spawned, leader, forced, signaled, killing, teardown, told, announced>>

NoKill == [at |-> "idle", id |-> 0]

Init ==
  /\ jobs = [j \in {} |-> 0] /\ spawned = 0 /\ leader = [j \in Job |-> "none"]
  /\ forced = {} /\ signaled = {} /\ killing = [c \in Caller |-> NoKill]
  /\ teardown = [at |-> "none", ids |-> {}] /\ told = {} /\ announced = {}

-----------------------------------------------------------------------------
(* The table.                                                                 *)

Known(table) == DOMAIN table
Running(table) == {j \in Known(table) : table[j].status = "running"}
Finished(table) == Known(table) \ Running(table)

\* reap: a running job that has ended gets its status, and keeps it.
Reaped(j, entry) ==
  IF entry.status = "running" /\ leader[j] \in Ended
  THEN [entry EXCEPT !.status = leader[j]] ELSE entry

\* The entries of ids are changed by F.
Update(table, ids, F(_, _)) == [j \in Known(table) |-> IF j \in ids THEN F(j, table[j]) ELSE table[j]]
ReapAll(table) == Update(table, Known(table), Reaped)
Seen(j, entry) == IF entry.status = "running" THEN entry ELSE [entry EXCEPT !.notified = TRUE]

\* finalize_killed, and the same with the result told.
Finalized(j, entry) ==
  LET e == Reaped(j, entry) IN IF e.status = "code" THEN e ELSE [e EXCEPT !.status = "killed"]
FinalizedSeen(j, entry) == [Finalized(j, entry) EXCEPT !.notified = TRUE]

\* prune_finished: the oldest finished entries beyond the limit are dropped.
Pruned(table) ==
  LET excess == Cardinality(Finished(table)) - MaxFinished
      Older(j) == Cardinality({k \in Finished(table) : k < j})
  IN Restrict(table, {j \in Known(table) : j \in Running(table) \/ Older(j) >= excess})

-----------------------------------------------------------------------------
(* What the engines do.                                                       *)

Open == teardown.at = "none"

\* Mutant: one job more than the limit is let run.
SpawnOneOver ==
  LET table == Pruned(ReapAll(jobs))
  IN /\ Open /\ spawned < MaxJobs
     /\ \/ jobs' = table /\ UNCHANGED <<spawned, leader>>
        \/ /\ Cardinality(Running(table)) <= MaxRunning
           /\ spawned' = spawned + 1 /\ leader' = [leader EXCEPT ![spawned + 1] = "alive"]
             /\ jobs' = [j \in Known(table) \cup {spawned + 1} |->
                           IF j \in Known(table) THEN table[j] ELSE [status |-> "running", notified |-> FALSE]]
     /\ announced' = {} /\ UNCHANGED <<forced, signaled, killing, teardown, told>>

\* spawn; at the limit of running jobs nothing is started, nor when its log or
\* its process cannot be created, but the table was reaped and pruned.
Spawn ==
  LET table == Pruned(ReapAll(jobs))
  IN /\ Open /\ spawned < MaxJobs
     /\ \/ jobs' = table /\ UNCHANGED <<spawned, leader>>
        \/ /\ Cardinality(Running(table)) < MaxRunning
           /\ spawned' = spawned + 1 /\ leader' = [leader EXCEPT ![spawned + 1] = "alive"]
             /\ jobs' = [j \in Known(table) \cup {spawned + 1} |->
                           IF j \in Known(table) THEN table[j] ELSE [status |-> "running", notified |-> FALSE]]
     /\ announced' = {} /\ UNCHANGED <<forced, signaled, killing, teardown, told>>

\* check: the model learns that the job finished.
Check(j) ==
  LET table == ReapAll(jobs)
  IN /\ Open /\ j \in Known(jobs) /\ jobs' = Update(table, {j}, Seen)
     /\ told' = told \cup ({j} \cap Finished(table))
     /\ announced' = {} /\ UNCHANGED <<spawned, leader, forced, signaled, killing, teardown>>

\* drain_finished_notices, at the step boundary of an engine.
Drain ==
  LET table == ReapAll(jobs)
      fresh == {j \in Finished(table) : ~table[j].notified}
  IN /\ Open /\ jobs' = Update(table, fresh, Seen)
     /\ told' = told \cup fresh /\ announced' = fresh
     /\ UNCHANGED <<spawned, leader, forced, signaled, killing, teardown>>

\* running_count, at each tick of the terminal UI.
Tick ==
  /\ jobs' = ReapAll(jobs) /\ announced' = {}
  /\ UNCHANGED <<spawned, leader, forced, signaled, killing, teardown, told>>

\* kill: TERM to the group of a running job.
KillBegins(c, j) ==
  LET table == ReapAll(jobs)
  IN /\ Open /\ killing[c] = NoKill /\ j \in Known(jobs) /\ announced' = {}
     /\ IF j \in Running(table)
        THEN /\ jobs' = table /\ signaled' = signaled \cup {j}
             /\ killing' = [killing EXCEPT ![c] = [at |-> "grace", id |-> j]] /\ UNCHANGED told
        ELSE /\ jobs' = Update(table, {j}, Seen) /\ told' = told \cup {j}
             /\ UNCHANGED <<signaled, killing>>
     /\ UNCHANGED <<spawned, leader, forced, teardown>>

\* Mutant: the result of the kill does not count as seen.
KillEndsUnseen(c) ==
  LET j == killing[c].id IN
  /\ jobs' = Update(jobs, {j}, Finalized) /\ told' = told \cup {j}
  /\ killing' = [killing EXCEPT ![c] = NoKill] /\ announced' = {}
  /\ UNCHANGED <<spawned, leader, forced, signaled, teardown>>

\* The kill's own result says how the job ended, also when it was pruned.
KillEnds(c) ==
  LET j == killing[c].id IN
  /\ jobs' = Update(jobs, {j}, FinalizedSeen) /\ told' = told \cup {j}
  /\ killing' = [killing EXCEPT ![c] = NoKill] /\ announced' = {}
  /\ UNCHANGED <<spawned, leader, forced, signaled, teardown>>

\* wait_for_exit sees the end within the grace, or does not at its last poll.
GraceEnds(c) ==
  LET j == killing[c].id
      table == Update(jobs, {j}, Reaped)
  IN /\ killing[c].at = "grace"
     /\ IF j \notin Running(table) THEN KillEnds(c)
        ELSE /\ jobs' = table /\ killing' = [killing EXCEPT ![c].at = "force"] /\ announced' = {}
             /\ UNCHANGED <<spawned, leader, forced, signaled, teardown, told>>

\* The group is sent KILL if the table, which is not reaped again, has the job
\* running; its shell may have exited since the poll.
Forces(c) ==
  LET j == killing[c].id
  IN /\ killing[c].at = "force" /\ forced' = forced \cup ({j} \cap Running(jobs))
     /\ killing' = [killing EXCEPT ![c].at = "wait"] /\ announced' = {}
     /\ UNCHANGED <<jobs, spawned, leader, signaled, teardown, told>>

\* The job has died of it, or KILL_WAIT is over.
WaitEnds(c) == killing[c].at = "wait" /\ KillEnds(c)

\* The turn is cancelled, and the future of its kill dropped at one of its waits.
Dropped(c) ==
  /\ killing[c].at \in {"grace", "wait"} /\ killing' = [killing EXCEPT ![c] = NoKill] /\ announced' = {}
  /\ UNCHANGED <<jobs, spawned, leader, forced, signaled, teardown, told>>

-----------------------------------------------------------------------------
(* The tear-down, when no turn runs any more.                                 *)

KillAll ==
  LET table == ReapAll(jobs)
      ids == Running(table)
  IN /\ Open /\ \A c \in Caller : killing[c] = NoKill
     /\ jobs' = table /\ signaled' = signaled \cup ids /\ announced' = {}
     /\ teardown' = [at |-> IF ids = {} THEN "done" ELSE "grace", ids |-> ids]
     /\ UNCHANGED <<spawned, leader, forced, killing, told>>

\* Mutant: survivors of the grace are left to die of TERM.
AllGraceEndsMildly ==
  /\ teardown.at = "grace" /\ jobs' = Update(ReapAll(jobs), teardown.ids, Finalized)
  /\ teardown' = [teardown EXCEPT !.at = "done"] /\ announced' = {}
  /\ UNCHANGED <<spawned, leader, forced, signaled, killing, told>>

AllGraceEnds ==
  LET table == ReapAll(jobs)
  IN /\ teardown.at = "grace" /\ announced' = {}
     /\ IF Running(table) = {}
        THEN jobs' = Update(table, teardown.ids, Finalized) /\ teardown' = [teardown EXCEPT !.at = "done"]
        ELSE jobs' = table /\ teardown' = [teardown EXCEPT !.at = "wait"]
     /\ forced' = forced \cup Running(table)
     /\ UNCHANGED <<spawned, leader, signaled, killing, told>>

\* Mutant: every job of the table is relabeled.
AllWaitEndsRelabeling ==
  /\ teardown.at = "wait" /\ jobs' = Update(jobs, Known(jobs), Finalized)
  /\ teardown' = [teardown EXCEPT !.at = "done"] /\ announced' = {}
  /\ UNCHANGED <<spawned, leader, forced, signaled, killing, told>>

AllWaitEnds ==
  /\ teardown.at = "wait" /\ jobs' = Update(ReapAll(jobs), teardown.ids, Finalized)
  /\ teardown' = [teardown EXCEPT !.at = "done"] /\ announced' = {}
  /\ UNCHANGED <<spawned, leader, forced, signaled, killing, told>>

\* A shell ends; one that was sent KILL does not exit with a code.
Ends(j, how) ==
  /\ leader[j] = "alive" /\ (how = "code" => j \notin forced)
  /\ leader' = [leader EXCEPT ![j] = how] /\ announced' = {}
  /\ UNCHANGED <<jobs, spawned, forced, signaled, killing, teardown, told>>

Next ==
  \/ Spawn \/ Drain \/ Tick \/ KillAll \/ AllGraceEnds \/ AllWaitEnds
  \/ \E j \in Job : Check(j) \/ Ends(j, "code") \/ Ends(j, "signal")
  \/ \E c \in Caller : GraceEnds(c) \/ Forces(c) \/ WaitEnds(c) \/ Dropped(c) \/ \E j \in Job : KillBegins(c, j)

Spec == Init /\ [][Next]_vars
-----------------------------------------------------------------------------
EntryOK(entry) == entry \in [status : {"running", "code", "signal", "killed"}, notified : BOOLEAN]

TypeOK ==
  /\ spawned \in 0..MaxJobs /\ Known(jobs) \subseteq 1..spawned
  /\ \A j \in Known(jobs) : EntryOK(jobs[j])
  /\ Cardinality(Known(jobs)) <= MaxRunning + MaxFinished
  /\ Cardinality(Running(jobs)) <= MaxRunning
  /\ leader \in [Job -> {"none", "alive"} \cup Ended]
  /\ forced \subseteq signaled /\ signaled \subseteq 1..spawned
  /\ killing \in [Caller -> [at : {"idle", "grace", "force", "wait"}, id : 0..MaxJobs]]
  /\ teardown.at \in {"none", "grace", "wait", "done"} /\ teardown.ids \subseteq Job
  /\ told \subseteq 1..spawned /\ announced \subseteq told

\* "Only a forced/unreaped job is marked Killed", and only one that we signaled;
\* a job that exits by itself during the grace keeps its code, whoever reaped it
\* and however many kills were under way or dropped.
LabelsAreTrue ==
  \A j \in Known(jobs) :
    /\ jobs[j].status = "killed" => j \in signaled /\ leader[j] # "code"
    /\ jobs[j].status \in Ended => leader[j] = jobs[j].status

\* "Finished jobs the model hasn't seen yet": an end is announced once, and not
\* after check_job told it.
AnnouncedOnce == [][announced' \cap told = {}]_vars

\* "Background jobs must not outlive the TUI": when the tear-down returns, every
\* shell ever started has ended or was sent KILL, also one whose kill was
\* dropped or whose entry was pruned.
TornDown == teardown.at = "done" => \A j \in 1..spawned : leader[j] = "alive" => j \in forced
=============================================================================
