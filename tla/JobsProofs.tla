----------------------------- MODULE JobsProofs -----------------------------
(***************************************************************************)
(* Theorems about Jobs, for every set of callers and every bound.           *)
(*                                                                          *)
(* An entry is sound when its status agrees with the shell, with the        *)
(* signals sent and with what a model was told.  Reaping, marking and       *)
(* finalizing keep entries sound, each under a condition that the place of  *)
(* the kill or of the tear-down gives; the jobs no longer in the table have *)
(* ended or were sent KILL.  The limits of the table are counted: what a    *)
(* reaping finishes, a spawn prunes down to MaxFinished.                    *)
(***************************************************************************)
EXTENDS Jobs, DataLemmas

Statuses == {"running", "code", "signal", "killed"}

\* An entry of job j, given the shells l, the jobs f sent KILL, the jobs s sent
\* any signal and the jobs t whose end was told.
Sound(j, entry, l, f, s, t) ==
  /\ entry \in [status : Statuses, notified : BOOLEAN]
  /\ entry.status = "killed" => j \in s /\ l[j] # "code" /\ (l[j] = "alive" => j \in f)
  /\ entry.status \in Ended => l[j] = entry.status
  /\ j \in t => entry.status # "running" /\ entry.notified

Table ==
  /\ Known(jobs) \subseteq 1..spawned
  /\ \A j \in Known(jobs) : Sound(j, jobs[j], leader, forced, signaled, told)

Shells ==
  /\ spawned \in 0..MaxJobs
  /\ leader \in [Job -> {"none", "alive"} \cup Ended]
  /\ \A j \in Job : j <= spawned => leader[j] # "none"
  /\ forced \subseteq Job /\ signaled \subseteq Job /\ told \subseteq 1..spawned

\* A job that has left the table is not left alive.
Left == \A j \in 1..spawned : j \notin Known(jobs) => leader[j] \in Ended \/ j \in forced

Kills ==
  /\ killing \in [Caller -> [at : {"idle", "grace", "force", "wait"}, id : 0..MaxJobs]]
  /\ \A c \in Caller :
       /\ killing[c].at # "idle" => killing[c].id \in signaled \cap 1..spawned
       /\ killing[c].at = "wait" => killing[c].id \in forced \/ leader[killing[c].id] \in Ended
       /\ killing[c].at = "idle" => killing[c] = NoKill

Down ==
  /\ teardown \in [at : {"none", "grace", "wait", "done"}, ids : SUBSET Job]
  /\ teardown.ids \subseteq signaled
  /\ teardown.at # "none" => \A c \in Caller : killing[c] = NoKill
  /\ teardown.at \in {"wait", "done"} => \A j \in Known(jobs) : jobs[j].status = "running" => j \in forced

Inv == Shells /\ Table /\ Left /\ Kills /\ Down

-----------------------------------------------------------------------------
(* The operators of the table.                                                *)

\* Reaping keeps an entry sound, and leaves it running only if it was.
LEMMA ReapSound ==
  ASSUME NEW j \in Job, NEW entry, Shells,
         Sound(j, entry, leader, forced, signaled, told), leader[j] # "none"
  PROVE  /\ Sound(j, Reaped(j, entry), leader, forced, signaled, told)
         /\ Reaped(j, entry).status = "running" => entry.status = "running" /\ leader[j] = "alive"
         /\ Reaped(j, entry).notified = entry.notified
<1>1. CASE entry.status = "running" /\ leader[j] \in Ended
  <2>1. Reaped(j, entry) = [entry EXCEPT !.status = leader[j]]
    BY <1>1 DEF Reaped
  <2>2. leader[j] = "code" \/ leader[j] = "signal"
    BY <1>1 DEF Ended
  <2>3. entry \in [status : Statuses, notified : BOOLEAN]
    BY DEF Sound
  <2> QED
    BY <1>1, <2>1, <2>2, <2>3 DEF Sound, Statuses, Ended
<1>2. CASE ~(entry.status = "running" /\ leader[j] \in Ended)
  BY <1>2 DEF Reaped, Shells, Ended
<1> QED
  BY <1>1, <1>2

\* The whole table, reaped.
LEMMA ReapAllSound ==
  ASSUME Inv, NEW j \in Known(jobs)
  PROVE  /\ Known(ReapAll(jobs)) = Known(jobs)
         /\ ReapAll(jobs)[j] = Reaped(j, jobs[j])
         /\ j \in Job /\ j \in 1..spawned /\ leader[j] # "none"
         /\ Sound(j, ReapAll(jobs)[j], leader, forced, signaled, told)
         /\ ReapAll(jobs)[j].status = "running" => jobs[j].status = "running" /\ leader[j] = "alive"
<1>1. Known(ReapAll(jobs)) = Known(jobs) /\ ReapAll(jobs)[j] = Reaped(j, jobs[j])
  BY DEF ReapAll, Update, Known
<1>2. j \in Job /\ j \in 1..spawned /\ leader[j] # "none"
  BY JobsAssumption DEF Inv, Table, Shells, Job
<1>3. Sound(j, jobs[j], leader, forced, signaled, told) /\ Shells
  BY DEF Inv, Table
<1> QED
  BY <1>1, <1>2, <1>3, ReapSound

\* The model was shown an entry that had finished.
LEMMA SeenSound ==
  ASSUME NEW j \in Job, NEW entry, NEW t,
         Sound(j, entry, leader, forced, signaled, told),
         j \in t => j \in told \/ entry.status # "running"
  PROVE  Sound(j, Seen(j, entry), leader, forced, signaled, t)
<1>1. entry \in [status : Statuses, notified : BOOLEAN]
  BY DEF Sound
<1> QED
  BY <1>1 DEF Sound, Seen

\* Of a job that was signaled, and is not left running unless it was sent KILL.
LEMMA FinalSound ==
  ASSUME NEW j \in Job, NEW entry, Shells, leader[j] # "none",
         Sound(j, entry, leader, forced, signaled, told), j \in signaled,
         entry.status = "running" => j \in forced \/ leader[j] # "alive"
  PROVE  /\ Sound(j, Finalized(j, entry), leader, forced, signaled, told)
         /\ Sound(j, FinalizedSeen(j, entry), leader, forced, signaled, told \cup {j})
         /\ Finalized(j, entry).status # "running" /\ FinalizedSeen(j, entry).status # "running"
<1> DEFINE e == Reaped(j, entry)
<1>1. Sound(j, e, leader, forced, signaled, told) /\ (e.status = "running" => leader[j] = "alive" /\ j \in forced)
  BY ReapSound
<1>2. e \in [status : Statuses, notified : BOOLEAN]
  BY <1>1 DEF Sound
<1>3. leader[j] # "code" \/ e.status \in {"code", "killed"}
  BY ReapSound, <1>1, <1>2 DEF Sound, Statuses, Ended, Reaped
<1>4. CASE e.status = "code"
  <2>1. Finalized(j, entry) = e /\ FinalizedSeen(j, entry) = [e EXCEPT !.notified = TRUE]
    BY <1>4 DEF Finalized, FinalizedSeen
  <2> HIDE DEF e
  <2> QED
    BY <2>1, <1>1, <1>2, <1>4 DEF Sound
<1>5. CASE e.status # "code"
  <2>1. /\ Finalized(j, entry) = [e EXCEPT !.status = "killed"]
        /\ FinalizedSeen(j, entry) = [[e EXCEPT !.status = "killed"] EXCEPT !.notified = TRUE]
    BY <1>5 DEF Finalized, FinalizedSeen
  <2>2. leader[j] # "code" /\ (leader[j] = "alive" => j \in forced)
    BY <1>1, <1>2, <1>3, <1>5 DEF Sound, Statuses, Ended
  <2> HIDE DEF e
  <2> QED
    BY <2>1, <2>2, <1>1, <1>2, <1>5 DEF Sound, Statuses, Ended
<1> QED
  BY <1>4, <1>5

-----------------------------------------------------------------------------
(* The initial states and the steps.                                          *)

LEMMA InitInv == Init => Inv
<1> SUFFICES ASSUME Init PROVE Inv
  OBVIOUS
<1>1. Shells
  BY JobsAssumption DEF Init, Shells, Job, Ended
<1>2. Table /\ Left
  BY DEF Init, Table, Left, Known
<1>3. Kills
  BY JobsAssumption DEF Init, Kills, NoKill
<1>4. Down
  BY DEF Init, Down
<1> QED
  BY <1>1, <1>2, <1>3, <1>4 DEF Inv

\* The table was reaped, and entries of ids were marked as seen.
LEMMA SeenTable ==
  ASSUME Inv, NEW ids, NEW t, jobs' = Update(ReapAll(jobs), ids, Seen), told' = told \cup t,
         t \subseteq ids \cap Finished(ReapAll(jobs)), UNCHANGED <<spawned, leader, forced, signaled>>
  PROVE  /\ Shells' /\ Table' /\ Left'
         /\ \A j \in Known(jobs') : j \in Known(jobs) /\ (jobs'[j].status = "running" => jobs[j].status = "running")
<1>1. Known(ReapAll(jobs)) = Known(jobs) /\ Known(jobs') = Known(jobs)
  BY DEF ReapAll, Update, Known
<1>2. ASSUME NEW j \in Known(jobs)
      PROVE  /\ Sound(j, jobs'[j], leader, forced, signaled, told')
             /\ jobs'[j].status = "running" => jobs[j].status = "running"
  <2> DEFINE e == ReapAll(jobs)[j]
  <2>1. /\ j \in Job /\ Sound(j, e, leader, forced, signaled, told)
        /\ e.status = "running" => jobs[j].status = "running"
    BY <1>2, ReapAllSound
  <2>2. jobs'[j] = IF j \in ids THEN Seen(j, e) ELSE e
    BY <1>1 DEF Update, Known
  <2>3. j \in t => j \in ids /\ e.status # "running"
    BY DEF Finished, Running
  <2>4. e \in [status : Statuses, notified : BOOLEAN]
    BY <2>1 DEF Sound
  <2> HIDE DEF e
  <2>5. CASE j \in ids
    <3>1. Sound(j, Seen(j, e), leader, forced, signaled, told')
      BY <2>1, <2>3, SeenSound
    <3> QED
      BY <3>1, <2>1, <2>2, <2>4, <2>5 DEF Seen
  <2>6. CASE j \notin ids
    BY <2>1, <2>2, <2>3, <2>6 DEF Sound
  <2> QED
    BY <2>5, <2>6
<1>3. t \subseteq Known(jobs)
  BY <1>1 DEF Finished
<1> QED
  BY <1>1, <1>2, <1>3 DEF Inv, Table, Shells, Left, Known

\* The table was reaped only.
LEMMA ReapedTable ==
  ASSUME Inv, jobs' = ReapAll(jobs), UNCHANGED <<spawned, leader, forced, told>>,
         signaled \subseteq signaled', signaled' \subseteq Job
  PROVE  /\ Shells' /\ Table' /\ Left'
         /\ \A j \in Known(jobs') : j \in Known(jobs) /\ (jobs'[j].status = "running" => jobs[j].status = "running")
<1>1. Known(jobs') = Known(jobs)
  BY DEF ReapAll, Update, Known
<1>2. ASSUME NEW j \in Known(jobs)
      PROVE  /\ Sound(j, jobs'[j], leader, forced, signaled', told)
             /\ jobs'[j].status = "running" => jobs[j].status = "running"
  BY <1>2, ReapAllSound DEF Sound
<1> QED
  BY <1>1, <1>2 DEF Inv, Table, Shells, Left, Known

\* The entry of one job that was signaled is finalized, and told.
LEMMA KillEndsInv ==
  ASSUME Inv, NEW c \in Caller, KillEnds(c), killing[c].at # "idle",
         killing[c].id \in Known(jobs) /\ jobs[killing[c].id].status = "running"
           => killing[c].id \in forced \/ leader[killing[c].id] # "alive"
  PROVE  Inv'
<1> DEFINE j == killing[c].id
<1>1. Known(jobs') = Known(jobs) /\ j \in signaled /\ j \in 1..spawned /\ j \in Job
  BY JobsAssumption DEF KillEnds, Update, Known, Inv, Kills, Shells, Job
<1>2. ASSUME NEW k \in Known(jobs)
      PROVE  /\ Sound(k, jobs'[k], leader, forced, signaled, told')
             /\ jobs'[k].status = "running" => jobs[k].status = "running"
  <2>1. /\ k \in Job /\ k \in 1..spawned /\ leader[k] # "none"
    BY <1>2, ReapAllSound
  <2>2. Sound(k, jobs[k], leader, forced, signaled, told)
    BY <1>2 DEF Inv, Table
  <2>3. CASE k = j
    <3>1. jobs'[k] = FinalizedSeen(k, jobs[k]) /\ told' = told \cup {k}
      BY <1>2, <2>3 DEF KillEnds, Update, Known
    <3> QED
      BY <1>1, <1>2, <2>1, <2>2, <2>3, <3>1, FinalSound DEF Inv
  <2>4. CASE k # j
    <3>1. jobs'[k] = jobs[k] /\ told' = told \cup {j}
      BY <1>2, <2>4 DEF KillEnds, Update, Known
    <3> QED
      BY <2>2, <2>4, <3>1 DEF Sound
  <2> QED
    BY <2>3, <2>4
<1>3. Table' /\ Left'
  BY <1>1, <1>2 DEF KillEnds, Inv, Table, Left, Known
<1>4. Shells'
  BY <1>1 DEF KillEnds, Inv, Shells
<1>5. Kills' /\ teardown.at = "none"
  BY JobsAssumption DEF KillEnds, Inv, Kills, NoKill, Down
<1>6. Down'
  BY <1>5 DEF KillEnds, Inv, Down
<1> QED
  BY <1>3, <1>4, <1>5, <1>6 DEF Inv

\* Pruning drops finished entries and changes none.
LEMMA PrunedTable ==
  ASSUME NEW table
  PROVE  /\ Known(Pruned(table)) \subseteq Known(table)
         /\ \A j \in Known(Pruned(table)) : Pruned(table)[j] = table[j]
         /\ \A j \in Known(table) \ Known(Pruned(table)) : table[j].status # "running"
<1> DEFINE excess == Cardinality(Finished(table)) - MaxFinished
           Older(j) == Cardinality({k \in Finished(table) : k < j})
           kept == {j \in Known(table) : j \in Running(table) \/ Older(j) >= excess}
<1>1. Pruned(table) = [j \in kept |-> table[j]]
  BY DEF Pruned, Restrict
<1>2. kept \subseteq Known(table) /\ \A j \in Known(table) : table[j].status = "running" => j \in kept
  BY DEF Running
<1> HIDE DEF kept
<1> QED
  BY <1>1, <1>2 DEF Known

LEMMA SpawnInv == ASSUME Inv, Spawn PROVE Inv'
<1> DEFINE table == Pruned(ReapAll(jobs))
<1>1. ASSUME NEW j \in Known(table)
      PROVE  /\ j \in Known(jobs) /\ Sound(j, table[j], leader, forced, signaled, told)
             /\ j \in 1..spawned /\ j \in Job
             /\ table[j].status = "running" => jobs[j].status = "running"
  <2>1. j \in Known(jobs) /\ table[j] = ReapAll(jobs)[j]
    BY <1>1, PrunedTable DEF ReapAll, Update, Known
  <2> QED
    BY <2>1, ReapAllSound
<1>2. \A j \in 1..spawned : j \notin Known(table) => leader[j] \in Ended \/ j \in forced
  <2> SUFFICES ASSUME NEW j \in 1..spawned, j \in Known(jobs), j \notin Known(table)
               PROVE  leader[j] \in Ended \/ j \in forced
    BY DEF Inv, Left
  <2>1. j \in Known(ReapAll(jobs)) /\ Sound(j, ReapAll(jobs)[j], leader, forced, signaled, told)
    BY ReapAllSound
  <2>2. ReapAll(jobs)[j].status # "running"
    BY <2>1, PrunedTable
  <2>3. leader[j] \in {"none", "alive"} \cup Ended /\ leader[j] # "none"
    BY ReapAllSound DEF Inv, Shells
  <2> QED
    BY <2>1, <2>2, <2>3 DEF Sound, Statuses, Ended
<1>3. spawned \in Nat /\ MaxJobs \in Nat /\ spawned < MaxJobs
  BY JobsAssumption DEF Inv, Shells, Spawn
<1>4. Kills' /\ Down'
  <2>1. /\ UNCHANGED <<forced, signaled, killing>> /\ spawned' \in {spawned, spawned + 1}
        /\ \A j \in 1..spawned : leader'[j] = leader[j]
    BY <1>3 DEF Spawn, Inv, Shells, Job
  <2>2. Kills'
    <3>1. 1..spawned \subseteq 1..spawned'
      BY <1>3, <2>1
    <3>2. ASSUME NEW c \in Caller
          PROVE  /\ killing'[c].at # "idle" => killing'[c].id \in signaled' \cap 1..spawned'
                 /\ killing'[c].at = "wait" => killing'[c].id \in forced' \/ leader'[killing'[c].id] \in Ended
                 /\ killing'[c].at = "idle" => killing'[c] = NoKill
      BY <2>1, <3>1 DEF Inv, Kills
    <3> QED
      BY <2>1, <3>2 DEF Inv, Kills
  <2> QED
    BY <2>2 DEF Spawn, Open, Inv, Down
<1>5. CASE jobs' = table /\ UNCHANGED <<spawned, leader>>
  <2> HIDE DEF table
  <2>1. Shells' /\ Table' /\ Left'
    BY <1>1, <1>2, <1>5 DEF Spawn, Inv, Shells, Table, Left, Sound
  <2> QED
    BY <2>1, <1>4 DEF Inv
<1>6. CASE /\ spawned' = spawned + 1 /\ leader' = [leader EXCEPT ![spawned + 1] = "alive"]
           /\ jobs' = [j \in Known(table) \cup {spawned + 1} |->
                         IF j \in Known(table) THEN table[j] ELSE [status |-> "running", notified |-> FALSE]]
  <2> HIDE DEF table
  <2>1. spawned + 1 \in Job /\ spawned + 1 \notin Known(table) /\ spawned + 1 \notin told
    BY <1>1, <1>3 DEF Job, Inv, Shells
  <2>2. UNCHANGED <<forced, signaled, told>>
    BY DEF Spawn
  <2>3. Shells'
    BY <1>3, <1>6, <2>1, <2>2 DEF Inv, Shells, Job, Ended
  <2>4. \A j \in 1..spawned : leader'[j] = leader[j]
    BY <1>3, <1>6 DEF Inv, Shells, Job
  <2>5. Known(jobs') = Known(table) \cup {spawned + 1}
    BY <1>6 DEF Known
  <2>6. ASSUME NEW j \in Known(jobs') PROVE Sound(j, jobs'[j], leader', forced', signaled', told') /\ j \in 1..spawned'
    <3>1. CASE j \in Known(table)
      <4>1. jobs'[j] = table[j] /\ leader'[j] = leader[j]
        BY <1>1, <1>6, <2>4, <2>5, <3>1 DEF Known
      <4> QED
        BY <1>1, <1>3, <1>6, <2>2, <3>1, <4>1 DEF Sound
    <3>2. CASE j = spawned + 1
      <4>1. jobs'[j] = [status |-> "running", notified |-> FALSE]
        BY <1>6, <2>1, <2>5, <3>2 DEF Known
      <4> QED
        BY <1>3, <1>6, <2>1, <2>2, <3>2, <4>1 DEF Sound, Statuses, Ended
    <3> QED
      BY <2>5, <2>6, <3>1, <3>2
  <2>7. Table'
    BY <2>6 DEF Table
  <2>8. Left'
    BY <1>2, <1>3, <1>6, <2>2, <2>4, <2>5 DEF Left, Known
  <2> QED
    BY <2>3, <2>7, <2>8, <1>4 DEF Inv
<1> QED
  BY <1>5, <1>6 DEF Spawn

LEMMA CheckInv == ASSUME Inv, NEW j \in Job, Check(j) PROVE Inv'
<1>1. jobs' = Update(ReapAll(jobs), {j}, Seen) /\ told' = told \cup ({j} \cap Finished(ReapAll(jobs)))
  BY DEF Check
<1>2. Shells' /\ Table' /\ Left'
  BY <1>1, SeenTable DEF Check
<1>3. Kills' /\ Down'
  BY DEF Check, Open, Inv, Kills, Down
<1> QED
  BY <1>2, <1>3 DEF Inv

LEMMA DrainInv == ASSUME Inv, Drain PROVE Inv'
<1> DEFINE fresh == {j \in Finished(ReapAll(jobs)) : ~ReapAll(jobs)[j].notified}
<1>1. jobs' = Update(ReapAll(jobs), fresh, Seen) /\ told' = told \cup fresh /\ fresh \subseteq fresh \cap Finished(ReapAll(jobs))
  BY DEF Drain
<1> HIDE DEF fresh
<1>2. Shells' /\ Table' /\ Left'
  BY <1>1, SeenTable DEF Drain
<1>3. Kills' /\ Down'
  BY DEF Drain, Open, Inv, Kills, Down
<1> QED
  BY <1>2, <1>3 DEF Inv

LEMMA TickInv == ASSUME Inv, Tick PROVE Inv'
<1>1. /\ Shells' /\ Table' /\ Left'
      /\ \A j \in Known(jobs') : j \in Known(jobs) /\ (jobs'[j].status = "running" => jobs[j].status = "running")
  BY ReapedTable DEF Tick, Inv, Shells
<1>2. Kills' /\ Down'
  BY <1>1 DEF Tick, Inv, Kills, Down
<1> QED
  BY <1>1, <1>2 DEF Inv

LEMMA KillBeginsInv == ASSUME Inv, NEW c \in Caller, NEW j \in Job, KillBegins(c, j) PROVE Inv'
<1>1. j \in 1..spawned /\ Known(ReapAll(jobs)) = Known(jobs)
  BY ReapAllSound DEF KillBegins
<1>2. CASE j \in Running(ReapAll(jobs))
  <2>1. /\ jobs' = ReapAll(jobs) /\ signaled' = signaled \cup {j}
        /\ killing' = [killing EXCEPT ![c] = [at |-> "grace", id |-> j]]
        /\ UNCHANGED <<spawned, leader, forced, teardown, told>> /\ teardown.at = "none"
    BY <1>2 DEF KillBegins, Open
  <2>2. Shells' /\ Table' /\ Left'
    BY <2>1, ReapedTable DEF Inv, Shells
  <2>3. Kills'
    BY <1>1, <2>1, JobsAssumption DEF Inv, Kills, NoKill, Shells, Job
  <2>4. Down'
    BY <2>1 DEF Inv, Down
  <2> QED
    BY <2>2, <2>3, <2>4 DEF Inv
<1>3. CASE j \notin Running(ReapAll(jobs))
  <2>1. /\ jobs' = Update(ReapAll(jobs), {j}, Seen) /\ told' = told \cup {j}
        /\ {j} \subseteq {j} \cap Finished(ReapAll(jobs))
        /\ UNCHANGED <<spawned, leader, forced, signaled, killing, teardown>> /\ teardown.at = "none"
    BY <1>1, <1>3 DEF KillBegins, Open, Finished
  <2>2. Shells' /\ Table' /\ Left'
    BY <2>1, SeenTable
  <2>3. Kills' /\ Down'
    BY <2>1 DEF Inv, Kills, Down
  <2> QED
    BY <2>2, <2>3 DEF Inv
<1> QED
  BY <1>2, <1>3

LEMMA GraceEndsInv == ASSUME Inv, NEW c \in Caller, GraceEnds(c) PROVE Inv'
<1> DEFINE j == killing[c].id
           table == Update(jobs, {j}, Reaped)
<1>1. j \in signaled /\ j \in 1..spawned /\ j \in Job
  BY JobsAssumption DEF GraceEnds, Inv, Kills, Shells, Job
<1>2. Known(table) = Known(jobs)
  BY DEF Update, Known
<1>3. \A k \in Known(jobs) : table[k] = IF k = j THEN Reaped(k, jobs[k]) ELSE jobs[k]
  BY DEF Update, Known
<1>4. ASSUME NEW k \in Known(jobs)
      PROVE  /\ Sound(k, jobs[k], leader, forced, signaled, told)
             /\ Sound(k, table[k], leader, forced, signaled, told)
             /\ table[k].status = "running" => jobs[k].status = "running"
  <2>1. k \in Job /\ leader[k] # "none" /\ Shells /\ Sound(k, jobs[k], leader, forced, signaled, told)
    BY <1>4, ReapAllSound DEF Inv, Table
  <2> HIDE DEF table
  <2> QED
    BY <1>3, <1>4, <2>1, ReapSound
<1>5. CASE j \notin Running(table)
  <2>1. j \in Known(jobs) /\ jobs[j].status = "running" => leader[j] # "alive"
    <3> SUFFICES ASSUME j \in Known(jobs), jobs[j].status = "running", leader[j] = "alive" PROVE FALSE
      OBVIOUS
    <3>1. table[j] = jobs[j]
      BY <1>3 DEF Reaped, Ended
    <3> QED
      BY <1>2, <1>5, <3>1 DEF Running
  <2>2. KillEnds(c) /\ killing[c].at # "idle"
    BY <1>5 DEF GraceEnds
  <2> HIDE DEF j, table
  <2> QED
    BY <2>1, <2>2, KillEndsInv DEF j
<1>6. CASE j \in Running(table)
  <2>1. /\ jobs' = table /\ killing' = [killing EXCEPT ![c].at = "force"]
        /\ UNCHANGED <<spawned, leader, forced, signaled, teardown, told>> /\ killing[c].at = "grace"
    BY <1>6 DEF GraceEnds
  <2> HIDE DEF table
  <2>2. Table' /\ Left'
    BY <1>2, <1>4, <2>1 DEF Inv, Table, Left
  <2>3. Shells'
    BY <2>1 DEF Inv, Shells
  <2>4. Kills' /\ teardown.at = "none"
    BY <1>1, <2>1, JobsAssumption DEF Inv, Kills, Down, NoKill
  <2>5. Down'
    BY <2>1, <2>4 DEF Inv, Down
  <2> QED
    BY <2>2, <2>3, <2>4, <2>5 DEF Inv
<1> QED
  BY <1>5, <1>6

LEMMA ForcesInv == ASSUME Inv, NEW c \in Caller, Forces(c) PROVE Inv'
<1> DEFINE j == killing[c].id
<1>1. j \in signaled /\ j \in 1..spawned /\ j \in Job /\ killing[c].at = "force" /\ teardown.at = "none"
  BY JobsAssumption DEF Forces, Inv, Kills, Shells, Job, Down, NoKill
<1>2. /\ forced' = forced \cup ({j} \cap Running(jobs)) /\ killing' = [killing EXCEPT ![c].at = "wait"]
      /\ UNCHANGED <<jobs, spawned, leader, signaled, teardown, told>>
  BY DEF Forces
<1>3. j \in forced' \/ leader[j] \in Ended
  <2>1. CASE j \in Running(jobs)
    BY <1>2, <2>1
  <2>2. CASE j \notin Known(jobs)
    BY <1>1, <1>2, <2>2 DEF Inv, Left
  <2>3. CASE j \in Known(jobs) /\ j \notin Running(jobs)
    <3>1. Sound(j, jobs[j], leader, forced, signaled, told) /\ jobs[j].status # "running"
      BY <2>3 DEF Inv, Table, Running
    <3>2. leader[j] \in {"alive"} \cup Ended
      BY <1>1 DEF Inv, Shells
    <3> QED
      BY <1>2, <3>1, <3>2 DEF Sound, Statuses, Ended
  <2> QED
    BY <2>1, <2>2, <2>3
<1>4. Table' /\ Left'
  BY <1>2 DEF Inv, Table, Left, Sound
<1>5. Shells'
  BY <1>1, <1>2 DEF Inv, Shells
<1>6. Kills'
  <2>1. killing' \in [Caller -> [at : {"idle", "grace", "force", "wait"}, id : 0..MaxJobs]]
    BY <1>2 DEF Inv, Kills
  <2>2. ASSUME NEW k \in Caller
        PROVE  /\ killing'[k].at # "idle" => killing'[k].id \in signaled' \cap 1..spawned'
               /\ killing'[k].at = "wait" => killing'[k].id \in forced' \/ leader'[killing'[k].id] \in Ended
               /\ killing'[k].at = "idle" => killing'[k] = NoKill
    <3>1. CASE k = c
      <4>1. killing'[k].at = "wait" /\ killing'[k].id = j
        BY <1>2, <3>1 DEF Inv, Kills
      <4> QED
        BY <1>1, <1>2, <1>3, <4>1
    <3>2. CASE k # c
      <4>1. killing'[k] = killing[k]
        BY <1>2, <3>2 DEF Inv, Kills
      <4> QED
        BY <1>2, <4>1 DEF Inv, Kills
    <3> QED
      BY <3>1, <3>2
  <2> QED
    BY <2>1, <2>2 DEF Kills
<1>7. Down'
  BY <1>1, <1>2 DEF Inv, Down
<1> QED
  BY <1>4, <1>5, <1>6, <1>7 DEF Inv

LEMMA WaitEndsInv == ASSUME Inv, NEW c \in Caller, WaitEnds(c) PROVE Inv'
<1>1. KillEnds(c) /\ killing[c].at = "wait"
  BY DEF WaitEnds
<1>2. killing[c].id \in forced \/ leader[killing[c].id] # "alive"
  BY <1>1 DEF Inv, Kills, Ended
<1> QED
  BY <1>1, <1>2, KillEndsInv

LEMMA DroppedInv == ASSUME Inv, NEW c \in Caller, Dropped(c) PROVE Inv'
<1>1. Shells' /\ Table' /\ Left'
  BY DEF Dropped, Inv, Shells, Table, Left
<1>2. Kills' /\ Down'
  BY JobsAssumption DEF Dropped, Inv, Kills, Down, NoKill
<1> QED
  BY <1>1, <1>2 DEF Inv

LEMMA KillAllInv == ASSUME Inv, KillAll PROVE Inv'
<1> DEFINE table == ReapAll(jobs)
<1>1. /\ jobs' = table /\ signaled' = signaled \cup Running(table)
      /\ teardown' = [at |-> IF Running(table) = {} THEN "done" ELSE "grace", ids |-> Running(table)]
      /\ UNCHANGED <<spawned, leader, forced, killing, told>> /\ \A c \in Caller : killing[c] = NoKill
  BY DEF KillAll
<1>2. Running(table) \subseteq Job
  BY ReapAllSound DEF Running, ReapAll, Update, Known
<1>3. Shells' /\ Table' /\ Left'
  BY <1>1, <1>2, ReapedTable DEF Inv, Shells
<1>4. Kills'
  BY <1>1, <1>2 DEF Inv, Kills
<1>5. Down'
  <2>1. Running(table) = {} => \A j \in Known(jobs') : jobs'[j].status # "running"
    BY <1>1 DEF Running
  <2> HIDE DEF table
  <2> QED
    BY <1>1, <1>2, <2>1 DEF Inv, Down
<1> QED
  BY <1>3, <1>4, <1>5 DEF Inv

\* The entries of the jobs of the tear-down are finalized.
LEMMA AllEndInv ==
  ASSUME Inv, jobs' = Update(ReapAll(jobs), teardown.ids, Finalized),
         teardown' = [teardown EXCEPT !.at = "done"], teardown.at # "none",
         UNCHANGED <<spawned, leader, forced, signaled, killing, told>>,
         \A j \in Known(jobs) : ReapAll(jobs)[j].status = "running" => j \in forced
  PROVE  Inv'
<1>1. Known(ReapAll(jobs)) = Known(jobs) /\ Known(jobs') = Known(jobs)
  BY DEF ReapAll, Update, Known
<1>2. ASSUME NEW j \in Known(jobs)
      PROVE  /\ Sound(j, jobs'[j], leader, forced, signaled, told)
             /\ jobs'[j].status = "running" => j \in forced
  <2> DEFINE e == ReapAll(jobs)[j]
  <2>1. j \in Job /\ leader[j] # "none" /\ Shells /\ Sound(j, e, leader, forced, signaled, told)
    BY <1>2, ReapAllSound DEF Inv
  <2>2. jobs'[j] = IF j \in teardown.ids THEN Finalized(j, e) ELSE e
    BY <1>1 DEF Update, Known
  <2>3. e.status = "running" => j \in forced
    BY <1>2
  <2>4. j \in teardown.ids => j \in signaled
    BY DEF Inv, Down
  <2> HIDE DEF e
  <2> QED
    BY <2>1, <2>2, <2>3, <2>4, FinalSound
<1>3. Shells' /\ Table' /\ Left'
  BY <1>1, <1>2 DEF Inv, Shells, Table, Left, Known
<1>4. Kills' /\ Down'
  BY <1>1, <1>2 DEF Inv, Kills, Down
<1> QED
  BY <1>3, <1>4 DEF Inv

LEMMA AllGraceEndsInv == ASSUME Inv, AllGraceEnds PROVE Inv'
<1> DEFINE table == ReapAll(jobs)
<1>1. /\ teardown.at = "grace" /\ forced' = forced \cup Running(table)
      /\ UNCHANGED <<spawned, leader, signaled, killing, told>>
  BY DEF AllGraceEnds
<1>2. Known(table) = Known(jobs)
  BY DEF ReapAll, Update, Known
<1>3. CASE Running(table) = {}
  <2>1. /\ jobs' = Update(table, teardown.ids, Finalized) /\ teardown' = [teardown EXCEPT !.at = "done"]
        /\ forced' = forced /\ \A j \in Known(jobs) : table[j].status # "running"
    BY <1>1, <1>2, <1>3 DEF AllGraceEnds, Running
  <2> QED
    BY <1>1, <2>1, AllEndInv
<1>4. CASE Running(table) # {}
  <2>1. jobs' = table /\ teardown' = [teardown EXCEPT !.at = "wait"]
    BY <1>4 DEF AllGraceEnds
  <2>2. ASSUME NEW j \in Known(jobs)
        PROVE  j \in Job /\ Sound(j, table[j], leader, forced, signaled, told)
    BY <2>2, ReapAllSound
  <2>3. Running(table) \subseteq Job /\ \A j \in Known(table) : table[j].status = "running" => j \in forced'
    BY <1>1, <1>2, <2>2 DEF Running
  <2> HIDE DEF table
  <2>4. Table' /\ Left'
    BY <1>1, <1>2, <2>1, <2>2 DEF Inv, Table, Left, Sound
  <2>5. Shells' /\ Kills' /\ Down'
    BY <1>1, <2>1, <2>3 DEF Inv, Shells, Kills, Down
  <2> QED
    BY <2>4, <2>5 DEF Inv
<1> QED
  BY <1>3, <1>4

LEMMA AllWaitEndsInv == ASSUME Inv, AllWaitEnds PROVE Inv'
<1>1. \A j \in Known(jobs) : ReapAll(jobs)[j].status = "running" => j \in forced
  <2> SUFFICES ASSUME NEW j \in Known(jobs), ReapAll(jobs)[j].status = "running" PROVE j \in forced
    OBVIOUS
  <2>1. jobs[j].status = "running"
    BY ReapAllSound
  <2> QED
    BY <2>1 DEF AllWaitEnds, Inv, Down
<1> QED
  BY <1>1, AllEndInv DEF AllWaitEnds

LEMMA EndsInv == ASSUME Inv, NEW j \in Job, NEW how \in Ended, Ends(j, how) PROVE Inv'
<1>1. /\ leader[j] = "alive" /\ (how = "code" => j \notin forced) /\ leader' = [leader EXCEPT ![j] = how]
      /\ UNCHANGED <<jobs, spawned, forced, signaled, killing, teardown, told>> /\ leader \in [Job -> {"none", "alive"} \cup Ended]
  BY DEF Ends, Inv, Shells
<1>2. Shells'
  BY <1>1 DEF Inv, Shells, Ended
<1>3. ASSUME NEW k \in Known(jobs) PROVE Sound(k, jobs[k], leader', forced, signaled, told)
  <2>1. k \in Job /\ Sound(k, jobs[k], leader, forced, signaled, told)
    BY <1>3, ReapAllSound DEF Inv, Table
  <2> QED
    BY <1>1, <2>1 DEF Sound, Ended
<1>4. Table'
  BY <1>1, <1>3 DEF Inv, Table, Known
<1>5. Left'
  BY <1>1, JobsAssumption DEF Inv, Left, Known, Shells, Job
<1>6. Kills' /\ Down'
  BY <1>1 DEF Inv, Kills, Down, Known
<1> QED
  BY <1>2, <1>4, <1>5, <1>6 DEF Inv

LEMMA StepInv == Inv /\ [Next]_vars => Inv'
<1> SUFFICES ASSUME Inv, [Next]_vars PROVE Inv'
  OBVIOUS
<1>1. CASE UNCHANGED vars
  BY <1>1 DEF vars, Inv, Shells, Table, Left, Kills, Down, Known
<1>2. CASE Spawn \/ Drain \/ Tick
  BY <1>2, SpawnInv, DrainInv, TickInv
<1>3. CASE KillAll \/ AllGraceEnds \/ AllWaitEnds
  BY <1>3, KillAllInv, AllGraceEndsInv, AllWaitEndsInv
<1>4. CASE \E j \in Job : Check(j) \/ Ends(j, "code") \/ Ends(j, "signal")
  BY <1>4, CheckInv, EndsInv DEF Ended
<1>5. CASE \E c \in Caller : GraceEnds(c) \/ Forces(c) \/ WaitEnds(c) \/ Dropped(c) \/ \E j \in Job : KillBegins(c, j)
  BY <1>5, GraceEndsInv, ForcesInv, WaitEndsInv, DroppedInv, KillBeginsInv
<1> QED
  BY <1>1, <1>2, <1>3, <1>4, <1>5 DEF Next

-----------------------------------------------------------------------------
(* The theorems.                                                              *)

\* Whatever the callers, the limits and the order of their steps, every entry
\* agrees with its shell, with the signals sent and with what was told.
THEOREM InvHolds == Spec => []Inv
<1> QED
  BY InitInv, StepInv, PTL DEF Spec

\* A status never says of a job what did not happen to it: "killed" only of one
\* that was signaled and did not exit by itself, an exit only of one that ended so.
THEOREM LabelsHold == Spec => []LabelsAreTrue
<1>1. Inv => LabelsAreTrue
  BY DEF Inv, Table, LabelsAreTrue, Sound
<1> QED
  BY InvHolds, <1>1, PTL

\* When the tear-down returns no shell ever started is left alive and unkilled,
\* whatever kills were dropped and whatever left the table.
THEOREM TornDownHolds == Spec => []TornDown
<1>1. Inv => TornDown
  <2> SUFFICES ASSUME Inv, teardown.at = "done", NEW j \in 1..spawned, leader[j] = "alive" PROVE j \in forced
    BY DEF TornDown
  <2>1. CASE j \in Known(jobs)
    BY <2>1 DEF Inv, Table, Sound, Statuses, Ended, Down
  <2>2. CASE j \notin Known(jobs)
    BY <2>2 DEF Inv, Left, Ended
  <2> QED
    BY <2>1, <2>2
<1> QED
  BY InvHolds, <1>1, PTL

\* No job that check_job, a kill or an earlier notice has told is announced.
THEOREM AnnouncedOnceHolds == Spec => AnnouncedOnce
<1>1. Inv /\ [Next]_vars => [announced' \cap told = {}]_vars
  <2> SUFFICES ASSUME Inv, Next PROVE announced' \cap told = {}
    OBVIOUS
  <2>1. CASE Drain
    <3> SUFFICES ASSUME NEW j \in announced', j \in told PROVE FALSE
      OBVIOUS
    <3>1. j \in Known(ReapAll(jobs)) /\ ~ReapAll(jobs)[j].notified
      BY <2>1 DEF Drain, Finished
    <3>2. j \in Known(jobs)
      BY <3>1 DEF ReapAll, Update, Known
    <3> QED
      BY <3>1, <3>2, ReapAllSound DEF Sound
  <2>2. CASE ~Drain
    <3>1. announced' = {}
      BY <2>2 DEF Next, Spawn, Tick, KillAll, AllGraceEnds, AllWaitEnds, Check, Ends, GraceEnds, Forces,
                  WaitEnds, KillEnds, Dropped, KillBegins
    <3> QED
      BY <3>1
  <2> QED
    BY <2>1, <2>2
<1> QED
  BY InvHolds, <1>1, PTL DEF Spec, AnnouncedOnce


-----------------------------------------------------------------------------
(* The limits of the table, and what the tear-down still knows of it.         *)

Counts ==
  /\ Cardinality(Known(jobs)) <= MaxRunning + MaxFinished
  /\ Cardinality(Running(jobs)) <= MaxRunning

Bounds ==
  /\ Counts
  /\ forced \subseteq signaled /\ signaled \subseteq 1..spawned /\ announced \subseteq told
  /\ teardown.at # "none" => Running(jobs) \subseteq teardown.ids

LEMMA TableFinite ==
  ASSUME Inv
  PROVE  /\ IsFiniteSet(Known(jobs)) /\ IsFiniteSet(Running(jobs)) /\ Known(jobs) \subseteq Nat
         /\ Cardinality(Known(jobs)) \in Nat /\ Cardinality(Running(jobs)) \in Nat
<1>1. spawned \in Nat /\ Known(jobs) \subseteq 1..spawned /\ Running(jobs) \subseteq Known(jobs)
  BY JobsAssumption DEF Inv, Shells, Table, Running
<1>2. IsFiniteSet(Known(jobs))
  <2>1. IsFiniteSet(1..spawned)
    BY <1>1, FS_Interval
  <2> QED
    BY <1>1, <2>1, FS_Subset
<1> QED
  BY <1>1, <1>2, FS_Subset, FS_CardinalityType

\* Pruning keeps what runs, and no more finished entries than the limit.
LEMMA PrunedCount ==
  ASSUME NEW table, IsFiniteSet(Known(table)), Known(table) \subseteq Nat
  PROVE  /\ Running(Pruned(table)) = Running(table) /\ Known(Pruned(table)) \subseteq Known(table)
         /\ Cardinality(Finished(Pruned(table))) <= MaxFinished
         /\ Cardinality(Known(Pruned(table))) = Cardinality(Running(table)) + Cardinality(Finished(Pruned(table)))
         /\ Cardinality(Running(table)) \in Nat /\ Cardinality(Finished(Pruned(table))) \in Nat
<1> DEFINE p == Pruned(table)
           Few == {j \in Finished(table) : Cardinality({k \in Finished(table) : k < j})
                                              >= Cardinality(Finished(table)) - MaxFinished}
<1>1. /\ Known(p) \subseteq Known(table) /\ \A j \in Known(p) : p[j] = table[j]
      /\ \A j \in Known(table) \ Known(p) : table[j].status # "running"
  BY PrunedTable
<1>2. Running(p) = Running(table)
  <2> HIDE DEF p
  <2> QED
    BY <1>1 DEF Running
<1>3. Finished(p) \subseteq Few
  <2>1. \A j \in Known(p) : j \in Running(table) \/ Cardinality({k \in Finished(table) : k < j})
                                              >= Cardinality(Finished(table)) - MaxFinished
    BY DEF Pruned, Restrict, Known
  <2> HIDE DEF p
  <2> QED
    BY <1>1, <1>2, <2>1 DEF Finished
<1>4. IsFiniteSet(Finished(table)) /\ Finished(table) \subseteq Nat /\ IsFiniteSet(Running(table))
  BY FS_Subset DEF Finished, Running
<1>5. Cardinality(Few) <= MaxFinished
  BY <1>4, LastFew, JobsAssumption
<1>6. IsFiniteSet(Few) /\ Cardinality(Few) \in Nat
  BY <1>4, FS_Subset, FS_CardinalityType
<1> HIDE DEF p, Few
<1>7. /\ IsFiniteSet(Finished(p)) /\ Cardinality(Finished(p)) <= Cardinality(Few)
      /\ Cardinality(Finished(p)) \in Nat /\ Cardinality(Running(table)) \in Nat
  BY <1>3, <1>4, <1>6, FS_Subset, FS_CardinalityType
<1>8. Known(p) = Running(p) \cup Finished(p) /\ Running(p) \cap Finished(p) = {}
  BY DEF Finished, Running
<1>9. Cardinality(Known(p)) = Cardinality(Running(p)) + Cardinality(Finished(p))
  BY <1>2, <1>4, <1>7, <1>8, CountDisjoint
<1> QED
  BY <1>1, <1>2, <1>5, <1>6, <1>7, <1>9, JobsAssumption DEF p

\* A step that adds no entry and starts none again.
LEMMA CountsKept ==
  ASSUME Inv, Counts, Known(jobs') = Known(jobs), Running(jobs') \subseteq Running(jobs)
  PROVE  Counts'
<1>1. Cardinality(Running(jobs')) <= Cardinality(Running(jobs)) /\ Cardinality(Running(jobs')) \in Nat
  BY TableFinite, FS_Subset, FS_CardinalityType
<1> QED
  BY <1>1, TableFinite, JobsAssumption DEF Counts

LEMMA SpawnCounts == ASSUME Inv, Counts, Spawn PROVE Counts'
<1> DEFINE t == ReapAll(jobs)
           p == Pruned(t)
<1>1. Known(t) = Known(jobs) /\ Running(t) \subseteq Running(jobs)
  <2>1. Known(t) = Known(jobs)
    BY DEF ReapAll, Update, Known
  <2> QED
    BY <2>1, ReapAllSound DEF Running
<1>2. /\ IsFiniteSet(Known(t)) /\ Known(t) \subseteq Nat
      /\ Cardinality(Running(t)) <= Cardinality(Running(jobs))
  BY <1>1, TableFinite, FS_Subset
<1> HIDE DEF t
<1>3. /\ Running(p) = Running(t) /\ Known(p) \subseteq Known(t) /\ IsFiniteSet(Known(p)) /\ IsFiniteSet(Running(p))
      /\ Cardinality(Known(p)) = Cardinality(Running(p)) + Cardinality(Finished(p))
      /\ Cardinality(Finished(p)) <= MaxFinished /\ Cardinality(Finished(p)) \in Nat
      /\ Cardinality(Running(p)) \in Nat /\ Cardinality(Running(p)) <= MaxRunning
  <2>1. /\ Running(p) = Running(t) /\ Known(p) \subseteq Known(t)
        /\ Cardinality(Known(p)) = Cardinality(Running(t)) + Cardinality(Finished(p))
        /\ Cardinality(Finished(p)) <= MaxFinished /\ Cardinality(Finished(p)) \in Nat
        /\ Cardinality(Running(t)) \in Nat
    BY <1>2, PrunedCount
  <2>2. IsFiniteSet(Known(p)) /\ IsFiniteSet(Running(p))
    BY <1>2, <2>1, FS_Subset DEF Running
  <2>3. Cardinality(Running(t)) <= MaxRunning
    BY <1>2, <2>1, TableFinite, JobsAssumption DEF Counts
  <2> QED
    BY <2>1, <2>2, <2>3
<1>4. CASE jobs' = p
  BY <1>3, <1>4, JobsAssumption DEF Counts
<1>5. CASE /\ Cardinality(Running(p)) < MaxRunning
           /\ jobs' = [j \in Known(p) \cup {spawned + 1} |->
                         IF j \in Known(p) THEN p[j] ELSE [status |-> "running", notified |-> FALSE]]
  <2> HIDE DEF p
  <2>1. Known(jobs') = Known(p) \cup {spawned + 1} /\ Running(jobs') \subseteq Running(p) \cup {spawned + 1}
    BY <1>5 DEF Known, Running
  <2>2. /\ Cardinality(Known(p) \cup {spawned + 1}) <= Cardinality(Known(p)) + 1
        /\ Cardinality(Running(p) \cup {spawned + 1}) <= Cardinality(Running(p)) + 1
        /\ IsFiniteSet(Known(p) \cup {spawned + 1}) /\ IsFiniteSet(Running(p) \cup {spawned + 1})
    BY <1>3, CountWithOne
  <2>3. /\ Cardinality(Running(jobs')) <= Cardinality(Running(p) \cup {spawned + 1})
        /\ Cardinality(Running(jobs')) \in Nat /\ Cardinality(Running(p) \cup {spawned + 1}) \in Nat
        /\ Cardinality(Known(jobs')) \in Nat
    BY <2>1, <2>2, FS_Subset, FS_CardinalityType
  <2>4. Cardinality(Known(jobs')) <= MaxRunning + MaxFinished
    BY <1>3, <1>5, <2>1, <2>2, <2>3, JobsAssumption
  <2>5. Cardinality(Running(jobs')) <= MaxRunning
    BY <1>3, <1>5, <2>2, <2>3, JobsAssumption
  <2> QED
    BY <2>4, <2>5 DEF Counts
<1>6. jobs' = p \/ ( /\ Cardinality(Running(p)) < MaxRunning
                     /\ jobs' = [j \in Known(p) \cup {spawned + 1} |->
                         IF j \in Known(p) THEN p[j] ELSE [status |-> "running", notified |-> FALSE]] )
  BY DEF Spawn, t
<1> QED
  BY <1>4, <1>5, <1>6

\* No other step adds an entry, or makes one run that does not.
LEMMA TableShrinks ==
  ASSUME Inv, Next, ~Spawn
  PROVE  Known(jobs') = Known(jobs) /\ Running(jobs') \subseteq Running(jobs)
<1>1. /\ Known(ReapAll(jobs)) = Known(jobs)
      /\ \A j \in Known(jobs) : ReapAll(jobs)[j].status = "running" => jobs[j].status = "running"
  <2>1. Known(ReapAll(jobs)) = Known(jobs)
    BY DEF ReapAll, Update, Known
  <2> QED
    BY <2>1, ReapAllSound
<1>2. ASSUME NEW j \in Known(jobs)
      PROVE  /\ Reaped(j, jobs[j]).status = "running" => jobs[j].status = "running"
             /\ Finalized(j, jobs[j]).status # "running" /\ FinalizedSeen(j, jobs[j]).status # "running"
             /\ Finalized(j, ReapAll(jobs)[j]).status # "running"
             /\ Seen(j, ReapAll(jobs)[j]).status = ReapAll(jobs)[j].status
  <2>1. /\ jobs[j] \in [status : Statuses, notified : BOOLEAN]
        /\ ReapAll(jobs)[j] \in [status : Statuses, notified : BOOLEAN]
    BY <1>2, ReapAllSound DEF Inv, Table, Sound
  <2>2. \A e \in [status : Statuses, notified : BOOLEAN] :
          /\ Finalized(j, e).status # "running" /\ FinalizedSeen(j, e).status # "running"
          /\ Seen(j, e).status = e.status
          /\ (Reaped(j, e).status = "running" => e.status = "running")
    <3> SUFFICES ASSUME NEW e \in [status : Statuses, notified : BOOLEAN]
                 PROVE  /\ Finalized(j, e).status # "running" /\ FinalizedSeen(j, e).status # "running"
                        /\ Seen(j, e).status = e.status
                        /\ (Reaped(j, e).status = "running" => e.status = "running")
      OBVIOUS
    <3>1. leader[j] \in Ended => leader[j] \in Statuses
      BY DEF Ended, Statuses
    <3>2. Reaped(j, e) \in [status : Statuses, notified : BOOLEAN]
          /\ (Reaped(j, e).status = "running" => e.status = "running")
      BY <3>1 DEF Reaped
    <3> DEFINE f == Reaped(j, e)
    <3>3. Finalized(j, e) = IF f.status = "code" THEN f ELSE [f EXCEPT !.status = "killed"]
      BY DEF Finalized
    <3> HIDE DEF f
    <3>4. Finalized(j, e) \in [status : Statuses, notified : BOOLEAN] /\ Finalized(j, e).status # "running"
      BY <3>2, <3>3 DEF f, Statuses
    <3>5. FinalizedSeen(j, e).status # "running"
      BY <3>4 DEF FinalizedSeen
    <3> QED
      BY <3>2, <3>4, <3>5 DEF Seen
  <2> QED
    BY <2>1, <2>2
<1>3. \/ jobs' = jobs \/ jobs' = ReapAll(jobs)
      \/ \E ids : jobs' \in {Update(ReapAll(jobs), ids, Seen), Update(ReapAll(jobs), ids, Finalized),
                             Update(jobs, ids, Reaped), Update(jobs, ids, FinalizedSeen)}
  BY DEF Next, Check, Drain, Tick, KillBegins, GraceEnds, Forces, WaitEnds, KillEnds, Dropped, KillAll, AllGraceEnds,
         AllWaitEnds, Ends
<1>4. CASE jobs' = jobs \/ jobs' = ReapAll(jobs)
  BY <1>1, <1>4 DEF Running
<1>5. CASE \E ids : jobs' \in {Update(ReapAll(jobs), ids, Seen), Update(ReapAll(jobs), ids, Finalized),
                               Update(jobs, ids, Reaped), Update(jobs, ids, FinalizedSeen)}
  <2>1. Known(jobs') = Known(jobs)
    BY <1>1, <1>5 DEF Update, Known
  <2>2. ASSUME NEW j \in Known(jobs), jobs'[j].status = "running" PROVE jobs[j].status = "running"
    <3>1. jobs'[j] \in {jobs[j], ReapAll(jobs)[j], Seen(j, ReapAll(jobs)[j]), Finalized(j, ReapAll(jobs)[j]),
                        Reaped(j, jobs[j]), FinalizedSeen(j, jobs[j])}
      BY <1>1, <1>5, <2>2 DEF Update, Known
    <3> QED
      BY <1>1, <1>2, <2>2, <3>1
  <2> QED
    BY <2>1, <2>2 DEF Running
<1> QED
  BY <1>3, <1>4, <1>5


LEMMA BoundsInit == Init => Bounds
<1> SUFFICES ASSUME Init PROVE Bounds
  OBVIOUS
<1>1. Known(jobs) = {} /\ Running(jobs) = {}
  BY DEF Init, Known, Running
<1>2. Cardinality(Known(jobs)) = 0 /\ Cardinality(Running(jobs)) = 0
  BY <1>1, FS_EmptySet
<1>3. Counts
  BY <1>2, JobsAssumption DEF Counts
<1> QED
  BY <1>3 DEF Init, Bounds

LEMMA BoundsStep == Inv /\ Bounds /\ [Next]_vars => Bounds'
<1> SUFFICES ASSUME Inv, Bounds, [Next]_vars PROVE Bounds'
  OBVIOUS
<1>1. Counts'
  <2>1. CASE Spawn
    BY <2>1, SpawnCounts DEF Bounds
  <2>2. CASE Next /\ ~Spawn
    BY <2>2, TableShrinks, CountsKept DEF Bounds
  <2>3. CASE UNCHANGED vars
    <3>1. jobs' = jobs
      BY <2>3 DEF vars
    <3> QED
      BY <3>1 DEF Bounds, Counts
  <2> QED
    BY <2>1, <2>2, <2>3
<1>2. announced' \subseteq told'
  BY DEF Next, vars, Bounds, Spawn, Check, Drain, Tick, KillBegins, GraceEnds, Forces, WaitEnds, KillEnds, Dropped, KillAll,
         AllGraceEnds, AllWaitEnds, Ends
<1>3. spawned \in Nat /\ spawned' \in Nat /\ spawned <= spawned' /\ Known(jobs) \subseteq 1..spawned
      /\ Known(ReapAll(jobs)) = Known(jobs)
  <2>1. spawned \in Nat /\ Known(jobs) \subseteq 1..spawned
    BY JobsAssumption DEF Inv, Shells, Table
  <2>2. spawned' = spawned \/ spawned' = spawned + 1
    BY DEF Next, vars, Spawn, Check, Drain, Tick, KillBegins, GraceEnds, Forces, WaitEnds, KillEnds, Dropped, KillAll,
           AllGraceEnds, AllWaitEnds, Ends
  <2> QED
    BY <2>1, <2>2 DEF ReapAll, Update, Known
<1>4. signaled' \subseteq 1..spawned'
  <2>1. \/ signaled' = signaled
        \/ \E j \in Known(jobs) : signaled' = signaled \cup {j}
        \/ signaled' = signaled \cup Running(ReapAll(jobs))
    BY DEF Next, vars, Spawn, Check, Drain, Tick, KillBegins, GraceEnds, Forces, WaitEnds, KillEnds, Dropped, KillAll,
           AllGraceEnds, AllWaitEnds, Ends
  <2>2. Running(ReapAll(jobs)) \subseteq Known(jobs)
    BY <1>3 DEF Running
  <2>3. signaled \subseteq 1..spawned /\ 1..spawned \subseteq 1..spawned'
    BY <1>3 DEF Bounds
  <2>4. signaled' \subseteq 1..spawned
    BY <1>3, <2>1, <2>2, <2>3
  <2> QED
    BY <2>3, <2>4
<1>5. teardown.at # "none" => Running(ReapAll(jobs)) \subseteq signaled
  <2>1. Running(ReapAll(jobs)) \subseteq Running(jobs)
    BY <1>3, ReapAllSound DEF Running
  <2> QED
    BY <2>1 DEF Bounds, Inv, Down
<1>6. forced' \subseteq signaled'
  <2>1. signaled \subseteq signaled'
    BY DEF Next, vars, Spawn, Check, Drain, Tick, KillBegins, GraceEnds, Forces, WaitEnds, KillEnds, Dropped, KillAll,
           AllGraceEnds, AllWaitEnds, Ends
  <2>2. \/ forced' = forced
        \/ \E c \in Caller : /\ killing[c].at = "force"
                            /\ forced' = forced \cup ({killing[c].id} \cap Running(jobs))
        \/ teardown.at = "grace" /\ forced' = forced \cup Running(ReapAll(jobs))
    BY DEF Next, vars, Spawn, Check, Drain, Tick, KillBegins, GraceEnds, Forces, WaitEnds, KillEnds, Dropped, KillAll,
           AllGraceEnds, AllWaitEnds, Ends
  <2>3. \A c \in Caller : killing[c].at = "force" => killing[c].id \in signaled
    BY DEF Inv, Kills
  <2>4. forced' \subseteq forced \cup signaled
    <3>1. CASE forced' = forced
      BY <3>1
    <3>2. CASE \E c \in Caller : /\ killing[c].at = "force"
                                /\ forced' = forced \cup ({killing[c].id} \cap Running(jobs))
      BY <2>3, <3>2
    <3>3. CASE teardown.at = "grace" /\ forced' = forced \cup Running(ReapAll(jobs))
      BY <1>5, <3>3
    <3> QED
      BY <2>2, <3>1, <3>2, <3>3
  <2> QED
    BY <2>1, <2>4 DEF Bounds
<1>7. teardown'.at # "none" => Running(jobs') \subseteq teardown'.ids
  <2>1. CASE Spawn
    BY <2>1 DEF Spawn, Open
  <2>2. CASE KillAll
    <3>1. jobs' = ReapAll(jobs) /\ teardown'.ids = Running(ReapAll(jobs))
      BY <2>2 DEF KillAll
    <3> QED
      BY <3>1
  <2>3. CASE Next /\ ~Spawn /\ ~KillAll
    <3>1. Running(jobs') \subseteq Running(jobs)
      BY <2>3, TableShrinks
    <3>2. teardown' \in {teardown, [teardown EXCEPT !.at = "done"], [teardown EXCEPT !.at = "wait"]}
      BY <2>3 DEF Next, Check, Drain, Tick, KillBegins, GraceEnds, Forces, WaitEnds, KillEnds, Dropped,
                  AllGraceEnds, AllWaitEnds, Ends
    <3>3. teardown'.ids = teardown.ids /\ (teardown'.at # "none" => teardown.at # "none")
      <4>1. teardown \in [at : {"none", "grace", "wait", "done"}, ids : SUBSET Job]
        BY DEF Inv, Down
      <4>2. teardown.at = "none" => teardown' = teardown
        BY <2>3 DEF Next, Check, Drain, Tick, KillBegins, GraceEnds, Forces, WaitEnds, KillEnds, Dropped,
                    AllGraceEnds, AllWaitEnds, Ends
      <4> QED
        BY <3>2, <4>1, <4>2
    <3> QED
      BY <3>1, <3>3 DEF Bounds
  <2>4. CASE UNCHANGED vars
    <3>1. jobs' = jobs /\ teardown' = teardown
      BY <2>4 DEF vars
    <3> QED
      BY <3>1 DEF Bounds
  <2> QED
    BY <2>1, <2>2, <2>3, <2>4
<1> QED
  BY <1>1, <1>2, <1>4, <1>6, <1>7 DEF Bounds

\* At most MaxRunning jobs run and at most MaxFinished more are remembered,
\* whoever spawns, reaps, kills and prunes; only a job that was sent some signal
\* is sent KILL, and what a notice announces was told.
THEOREM TypesHold == Spec => []TypeOK
<1>1. Init => Inv /\ Bounds
  BY InitInv, BoundsInit
<1>2. Inv /\ Bounds /\ [Next]_vars => Inv' /\ Bounds'
  BY StepInv, BoundsStep
<1>3. Inv /\ Bounds => TypeOK
  <2> SUFFICES ASSUME Inv, Bounds PROVE TypeOK
    OBVIOUS
  <2>1. \A j \in Known(jobs) : EntryOK(jobs[j])
    BY DEF Inv, Table, Sound, Statuses, EntryOK
  <2>2. /\ spawned \in 0..MaxJobs /\ leader \in [Job -> {"none", "alive"} \cup Ended]
        /\ Known(jobs) \subseteq 1..spawned /\ told \subseteq 1..spawned
        /\ killing \in [Caller -> [at : {"idle", "grace", "force", "wait"}, id : 0..MaxJobs]]
    BY DEF Inv, Shells, Table, Kills
  <2>3. teardown.at \in {"none", "grace", "wait", "done"} /\ teardown.ids \subseteq Job
    BY DEF Inv, Down
  <2> QED
    BY <2>1, <2>2, <2>3 DEF Bounds, Counts, TypeOK
<1> QED
  BY <1>1, <1>2, <1>3, PTL DEF Spec

=============================================================================
