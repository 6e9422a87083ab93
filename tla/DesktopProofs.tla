--------------------------- MODULE DesktopProofs ---------------------------
(***************************************************************************)
(* Theorems about Desktop, for every number of logins, stops and turns and  *)
(* every capacity of the queue.                                             *)
(*                                                                          *)
(* The sidecar: a reader that has seen the exit of its process never reads  *)
(* again, as each start has a generation of its own.  The relay: once a     *)
(* close of a run was sent, only that status may still reach the cloud.     *)
(* The page: the waiting stops and starts reach the mutex in the order it   *)
(* asked for them, so that a page that is signed out has no credentials, no *)
(* start under way and no process.  The account: what a worker still owes   *)
(* of each turn, by where it is, until it owes nothing when it ends.        *)
(***************************************************************************)
EXTENDS Desktop, TLAPS, SequenceTheorems

-----------------------------------------------------------------------------
(* The sidecar.                                                               *)

StopTypes ==
  [at : {"idle", "queued", "graceful", "kill", "confirm", "relay", "ok", "err"},
   gen : Gen \cup {None}, late : BOOLEAN]

SidecarTypes ==
  /\ child \in [gen : Gen \cup {None}, stopping : BOOLEAN]
  /\ proc \in [Gen -> {"none", "alive", "exited"}]
  /\ reader \in [Gen -> {"reading", "draining", "cleared", "done"}]
  /\ stops \in [Stop -> StopTypes]

\* A generation that was not spawned is nobody's; a late stop knows one whose
\* exit was seen, and does not kill.
Generations ==
  /\ \A g \in Gen : proc[g] = "none" => child.gen # g /\ \A s \in Stop : stops[s].gen # g
  /\ child.gen # None /\ reader[child.gen] # "reading" => child.stopping
  /\ \A s \in Stop : stops[s].late =>
       /\ stops[s].gen \in Gen /\ reader[stops[s].gen] # "reading" /\ stops[s].at # "kill"

SidecarInv == SidecarTypes /\ Generations

LEMMA NoneIsNoGen == None \notin Gen
BY LoginsAssumption DEF None, Gen

LEMMA SidecarInitInv == SidecarInit => SidecarInv
BY NoneIsNoGen DEF SidecarInit, SidecarInv, SidecarTypes, StopTypes, Generations, NoChild, NoStop

\* New entries of stops are of stops that know no generation yet.
LEMMA QueuedInv ==
  ASSUME SidecarInv, NEW ss \in SUBSET Stop, NEW s \in Stop,
         stops' \in {Queued(ss), [Queued(ss) EXCEPT ![s] = NoStop], [stops EXCEPT ![s] = NoStop], stops},
         UNCHANGED <<child, proc, reader>>
  PROVE  SidecarInv'
<1>1. stops' = [k \in Stop |-> stops'[k]] /\ \A k \in Stop : stops'[k] \in {stops[k], NoStop, NewStop}
  <2>1. stops = [k \in Stop |-> stops[k]]
    BY DEF SidecarInv, SidecarTypes
  <2>2. Queued(ss) = [k \in Stop |-> IF k \in ss THEN NewStop ELSE stops[k]]
    BY DEF Queued
  <2> QED
    BY <2>1, <2>2
<1>2. SidecarTypes'
  <2>1. NoStop \in StopTypes /\ NewStop \in StopTypes
    BY DEF NoStop, NewStop, StopTypes
  <2>2. \A k \in Stop : stops'[k] \in StopTypes
    BY <1>1, <2>1 DEF SidecarInv, SidecarTypes
  <2>3. stops' \in [Stop -> StopTypes]
    BY <1>1, <2>2
  <2> QED
    BY <2>3 DEF SidecarInv, SidecarTypes
<1>3. Generations'
  BY <1>1, NoneIsNoGen DEF SidecarInv, Generations, NoStop, NewStop
<1> QED
  BY <1>2, <1>3 DEF SidecarInv

\* A stop moves on, and knows the generation it knew.
LEMMA MovesInv ==
  ASSUME SidecarInv, NEW s \in Stop, NEW at, At(s, at),
         at \in {"kill", "confirm", "relay", "ok", "err"},
         stops[s].late => at # "kill",
         UNCHANGED child, UNCHANGED reader,
         proc' \in [Gen -> {"none", "alive", "exited"}], \A g \in Gen : proc'[g] = "none" => proc[g] = "none"
  PROVE  SidecarInv'
<1> DEFINE q == [stops[s] EXCEPT !.at = at]
<1>1. stops[s] \in StopTypes /\ stops' = [k \in Stop |-> IF k = s THEN q ELSE stops[k]]
  BY DEF SidecarInv, SidecarTypes, At
<1>2. q \in StopTypes /\ q.gen = stops[s].gen /\ q.late = stops[s].late /\ q.at = at
  BY <1>1 DEF StopTypes
<1> HIDE DEF q
<1>3. SidecarTypes'
  BY <1>1, <1>2 DEF SidecarInv, SidecarTypes
<1>4. Generations'
  BY <1>1, <1>2 DEF SidecarInv, Generations
<1> QED
  BY <1>3, <1>4 DEF SidecarInv

LEMMA SpawnInv == ASSUME SidecarInv, NEW g \in Gen, Spawn(g) PROVE SidecarInv'
<1>1. /\ proc[g] = "none" /\ child' = [gen |-> g, stopping |-> FALSE] /\ UNCHANGED stops
      /\ proc' = [proc EXCEPT ![g] = "alive"] /\ reader' = [reader EXCEPT ![g] = "reading"]
  BY DEF Spawn
<1>2. SidecarTypes'
  BY <1>1 DEF SidecarInv, SidecarTypes
<1>3. Generations'
  BY <1>1, NoneIsNoGen DEF SidecarInv, SidecarTypes, Generations
<1> QED
  BY <1>2, <1>3 DEF SidecarInv

LEMMA ReaderInv ==
  ASSUME SidecarInv, NEW g \in Gen, SeesExit(g) \/ Clears(g) \/ Completes(g) \/ Exits(g) PROVE SidecarInv'
<1>1. CASE SeesExit(g)
  <2>1. child' = IF child.gen = g THEN [child EXCEPT !.stopping = TRUE] ELSE child
    BY <1>1 DEF SeesExit
  <2>2. child' \in [gen : Gen \cup {None}, stopping : BOOLEAN] /\ child'.gen = child.gen
        /\ (child.gen = g => child'.stopping) /\ (child.gen # g => child' = child)
    BY <2>1 DEF SidecarInv, SidecarTypes
  <2>3. SidecarTypes'
    BY <1>1, <2>2 DEF SeesExit, SidecarInv, SidecarTypes
  <2>4. Generations'
    BY <1>1, <2>2 DEF SeesExit, SidecarInv, SidecarTypes, Generations
  <2> QED
    BY <2>3, <2>4 DEF SidecarInv
<1>2. CASE Clears(g)
  <2>1. child' \in {child, NoChild} /\ NoChild.gen = None /\ NoChild \in [gen : Gen \cup {None}, stopping : BOOLEAN]
    BY <1>2 DEF Clears, NoChild
  <2>2. SidecarTypes'
    BY <1>2, <2>1 DEF Clears, SidecarInv, SidecarTypes
  <2>3. Generations'
    BY <1>2, <2>1, NoneIsNoGen DEF Clears, SidecarInv, SidecarTypes, Generations
  <2> QED
    BY <2>2, <2>3 DEF SidecarInv
<1>3. CASE Completes(g) \/ Exits(g)
  BY <1>3 DEF Completes, Exits, SidecarInv, SidecarTypes, Generations
<1> QED
  BY <1>1, <1>2, <1>3

LEMMA StopBeginsInv == ASSUME SidecarInv, NEW s \in Stop, StopBegins(s) PROVE SidecarInv'
<1>1. CASE child.gen = None
  BY <1>1, MovesInv DEF StopBegins, SidecarInv, SidecarTypes
<1>2. CASE child.gen # None
  <2>1. PICK written \in {TRUE} \cup (IF child.stopping THEN {} ELSE {FALSE}) :
          stops' = [stops EXCEPT ![s] = [at |-> IF written THEN "graceful" ELSE "kill",
                                         gen |-> child.gen, late |-> reader[child.gen] # "reading"]]
    BY <1>2 DEF StopBegins
  <2> DEFINE q == [at |-> IF written THEN "graceful" ELSE "kill",
                   gen |-> child.gen, late |-> reader[child.gen] # "reading"]
  <2>2. child.gen \in Gen /\ proc[child.gen] # "none" /\ (reader[child.gen] # "reading" => child.stopping)
    BY <1>2 DEF SidecarInv, SidecarTypes, Generations
  <2>3. q \in StopTypes /\ q.gen = child.gen /\ (q.late <=> reader[child.gen] # "reading")
        /\ (q.late => q.at # "kill")
    BY <2>2 DEF StopTypes
  <2>4. stops' = [k \in Stop |-> IF k = s THEN q ELSE stops[k]]
    BY <2>1 DEF SidecarInv, SidecarTypes
  <2>5. /\ child' \in [gen : Gen \cup {None}, stopping : BOOLEAN]
        /\ child'.gen = child.gen /\ child'.stopping
        /\ UNCHANGED <<proc, reader>>
    <3>1. child' = [child EXCEPT !.stopping = TRUE] /\ UNCHANGED <<proc, reader>>
      BY <1>2 DEF StopBegins
    <3> QED
      BY <3>1 DEF SidecarInv, SidecarTypes
  <2> HIDE DEF q
  <2>6. SidecarTypes'
    BY <2>3, <2>4, <2>5 DEF SidecarInv, SidecarTypes
  <2>7. Generations'
    BY <2>2, <2>3, <2>4, <2>5 DEF SidecarInv, Generations
  <2> QED
    BY <2>6, <2>7 DEF SidecarInv
<1> QED
  BY <1>1, <1>2

LEMMA StopMovesInv ==
  ASSUME SidecarInv, NEW s \in Stop,
         Confirmed(s) \/ TimesOut(s) \/ Kills(s, TRUE) \/ Kills(s, FALSE) PROVE SidecarInv'
<1>1. CASE Confirmed(s)
  BY <1>1, MovesInv DEF Confirmed, SidecarInv, SidecarTypes
<1>2. CASE TimesOut(s)
  <2>1. stops[s].late => TerminationObserved(stops[s].gen)
    BY DEF SidecarInv, Generations, TerminationObserved
  <2> QED
    BY <1>2, <2>1, MovesInv DEF TimesOut, SidecarInv, SidecarTypes
<1>3. CASE Kills(s, TRUE) \/ Kills(s, FALSE)
  BY <1>3, MovesInv DEF Kills, SidecarInv, SidecarTypes
<1> QED
  BY <1>1, <1>2, <1>3

\* The steps of the page only add stops, and take away what they waited for.
LEMMA PageInv ==
  ASSUME SidecarInv, PageStep \/ UserStep, limit.floats \subseteq Float PROVE SidecarInv'
<1>1. CASE InvokeStart \/ LoggedOut(TRUE) \/ LoggedOut(FALSE) \/ Login \/ TimePasses
  BY <1>1 DEF InvokeStart, LoggedOut, Login, TimePasses, runtimeVars, SidecarInv, SidecarTypes, Generations
<1>2. CASE \E g \in Gen : Exits(g)
  BY <1>2, ReaderInv
<1>3. CASE Expire
  BY <1>3, QueuedInv DEF Expire, Stop
<1>4. ASSUME NEW f \in Float, LogoutStopped(f) \/ ExpireStopped(f) \/ Expired(f, TRUE) \/ Expired(f, FALSE)
                              \/ Logout(f) \/ ConnectFails(f)
      PROVE  SidecarInv'
  <2>1. f \in Stop /\ "logout" \in Stop /\ "expire" \in Stop
    BY DEF Stop
  <2>2. UNCHANGED <<child, proc, reader>>
    BY <1>4 DEF LogoutStopped, ExpireStopped, Expired, Logout, ConnectFails
  <2> DEFINE Stopped(ss, s) == stops' \in {Queued(ss), [Queued(ss) EXCEPT ![s] = NoStop],
                                           [stops EXCEPT ![s] = NoStop], stops}
  <2>3. CASE LogoutStopped(f)
    <3>1. Stopped({f}, "logout")
      BY <2>3 DEF LogoutStopped
    <3> QED
      BY <2>1, <2>2, <3>1, QueuedInv
  <2>4. CASE ExpireStopped(f)
    <3>1. Stopped({f}, "expire")
      BY <2>4 DEF ExpireStopped
    <3> QED
      BY <2>1, <2>2, <3>1, QueuedInv
  <2>5. CASE Expired(f, TRUE) \/ Expired(f, FALSE) \/ ConnectFails(f)
    <3>1. Stopped({f}, f)
      BY <2>5 DEF Expired, ConnectFails
    <3> QED
      BY <2>1, <2>2, <3>1, QueuedInv
  <2>6. CASE Logout(f)
    <3>1. Stopped({"logout", f}, f) \/ Stopped({"logout"}, f)
      BY <2>6 DEF Logout
    <3> QED
      BY <2>1, <2>2, <3>1, QueuedInv
  <2> QED
    BY <1>4, <2>3, <2>4, <2>5, <2>6
<1> QED
  BY <1>1, <1>2, <1>3, <1>4 DEF PageStep, UserStep

LEMMA NativeInv == ASSUME SidecarInv, NativeStep PROVE SidecarInv'
<1>1. CASE StartLoads \/ StartFails \/ \E n \in Gen : StartBegins(n)
  BY <1>1 DEF StartLoads, StartFails, StartBegins, SidecarInv, SidecarTypes, Generations
<1>2. CASE \E n \in Gen : Completes(n)
  BY <1>2, ReaderInv
<1>3. CASE \E s \in Stop : StopBegins(s) \/ Confirmed(s) \/ TimesOut(s) \/ Kills(s, TRUE) \/ Kills(s, FALSE)
  BY <1>3, StopBeginsInv, StopMovesInv
<1>4. CASE \E f \in Float : Ignored(f)
  BY <1>4, QueuedInv DEF Ignored, Stop
<1> QED
  BY <1>1, <1>2, <1>3, <1>4 DEF NativeStep

-----------------------------------------------------------------------------
(* The relay.                                                                 *)

Kinds == {"started", "audit", "terminal"}

WorkerTypes ==
  [at : Kinds \cup {"recv", "flush", "done"}, turn : Turn \cup {NoTurn}, try : Nat, todo : SUBSET Turn]

RelayTypes ==
  /\ said \in [Turn -> {"nothing"} \cup Kinds]
  /\ outcome \in [Turn -> Outcome \cup {"none"}]
  /\ queue \in Seq([turn : Turn, kind : Kinds])
  /\ worker \in WorkerTypes
  /\ active \in [Turn -> Outcome \cup {"none", "open"}]
  /\ cloud \in [Turn -> Outcome \cup {"none", "running"}]
  /\ late \subseteq Turn \X (Outcome \cup {"running"})

\* What the worker awaits is about a run it holds, or about to create.
WorkerOK ==
  /\ worker.at \in Kinds => worker.turn \in Turn
  /\ worker.at = "terminal" => active[worker.turn] \in Outcome
  /\ worker.at = "flush" =>
       /\ \A t \in worker.todo : active[t] # "none"
       /\ worker.turn \in Turn /\ worker.turn # NoTurn =>
            active[worker.turn] # "none" /\ worker.turn \notin worker.todo

IsStarted(i, t) == i \in 1..Len(queue) /\ queue[i].turn = t /\ queue[i].kind = "started"
AtStarted(t) == worker.at = "started" /\ worker.turn = t

\* A turn starts once: its turn.started is queued, or with the worker, or past.
QueueOK ==
  /\ \A i \in 1..Len(queue) : queue[i].kind = "terminal" =>
       said[queue[i].turn] = "terminal" /\ outcome[queue[i].turn] \in Outcome
  /\ \A t \in Turn, i, j \in 1..Len(queue) : IsStarted(i, t) /\ IsStarted(j, t) => i = j
  /\ \A t \in Turn, i \in 1..Len(queue) : IsStarted(i, t) => ~AtStarted(t)

Starting(t) == said[t] = "nothing" \/ AtStarted(t) \/ \E i \in 1..Len(queue) : IsStarted(i, t)
LateOnly(t, ss) == \A r \in late : r[1] = t => r[2] \in ss

Untouched(t) == cloud[t] = "none" /\ active[t] = "none" /\ LateOnly(t, {})

\* What may still reach the cloud of t's run, by what the worker holds of it.
RunOK(t) ==
  /\ said[t] = "nothing" => ~AtStarted(t) /\ \A i \in 1..Len(queue) : queue[i].turn # t
  /\ Starting(t) => Untouched(t)
  /\ active[t] = "none" => \E v \in Outcome \cup {"running"} :
       LateOnly(t, {v}) /\ (cloud[t] \in Outcome => cloud[t] = v)
  /\ active[t] = "open" =>
       /\ cloud[t] \in {"running", "interrupted"} /\ LateOnly(t, {"interrupted"})
       /\ worker.at \notin {"flush", "done"} => cloud[t] = "running" /\ LateOnly(t, {})
  /\ active[t] \in Outcome =>
       /\ said[t] = "terminal" /\ active[t] = outcome[t]
       /\ cloud[t] \in {"running", active[t]} /\ LateOnly(t, {active[t]})

RelayInv == RelayTypes /\ WorkerOK /\ QueueOK /\ \A t \in Turn : RunOK(t)

LEMMA RelayInitInv == RelayInit => RelayInv
<1> SUFFICES ASSUME RelayInit PROVE RelayInv
  OBVIOUS
<1>1. RelayTypes
  BY DEF RelayInit, RelayTypes, WorkerTypes, Awaiting, Kinds, NoTurn
<1>2. WorkerOK /\ QueueOK
  BY DEF RelayInit, WorkerOK, QueueOK, Awaiting, Kinds
<1>3. ASSUME NEW t \in Turn PROVE RunOK(t)
  BY DEF RelayInit, RunOK, Awaiting, Starting, Untouched, LateOnly, AtStarted, IsStarted, Outcome
<1> QED
  BY <1>1, <1>2, <1>3 DEF RelayInv

\* The head of the worker's loop.
LEMMA LoopIs ==
  ASSUME NEW held \in SUBSET Turn
  PROVE  /\ Loop(held) \in WorkerTypes /\ Loop(held).at \in {"recv", "flush"} /\ Loop(held).turn = NoTurn
         /\ Loop(held).todo \subseteq held
<1>1. Awaiting("flush", NoTurn, 0) = [at |-> "flush", turn |-> NoTurn, try |-> 0, todo |-> {}]
  BY DEF Awaiting
<1>2. CASE cancelled
  <2>1. Loop(held) = [[at |-> "flush", turn |-> NoTurn, try |-> 0, todo |-> {}] EXCEPT !.todo = held]
    BY <1>1, <1>2 DEF Loop
  <2> QED
    BY <2>1 DEF WorkerTypes
<1>3. CASE ~cancelled
  <2>1. Loop(held) = [at |-> "recv", turn |-> NoTurn, try |-> 0, todo |-> {}]
    BY <1>3 DEF Loop, Awaiting
  <2> QED
    BY <2>1 DEF WorkerTypes
<1> QED
  BY <1>2, <1>3

\* An observed event joins the queue, or is dropped.
LEMMA ObserveIs ==
  ASSUME RelayTypes, NEW t \in Turn, NEW kind \in Kinds, Observe(t, kind)
  PROVE  \/ queue' = queue
         \/ /\ queue' \in Seq([turn : Turn, kind : Kinds]) /\ Len(queue') = Len(queue) + 1 /\ Len(queue) \in Nat
            /\ \A i \in 1..Len(queue) : queue'[i] = queue[i]
            /\ queue'[Len(queue) + 1] = [turn |-> t, kind |-> kind]
<1>1. [turn |-> t, kind |-> kind] \in [turn : Turn, kind : Kinds] /\ queue \in Seq([turn : Turn, kind : Kinds])
  BY DEF RelayTypes
<1>2. queue' = queue \/ queue' = Append(queue, [turn |-> t, kind |-> kind])
  BY DEF Observe
<1>3. CASE queue' = Append(queue, [turn |-> t, kind |-> kind])
  BY <1>1, <1>3, AppendProperties
<1> QED
  BY <1>2, <1>3

LEMMA SayInv == ASSUME RelayInv, NEW t \in Turn, NEW kind \in Kinds, Say(t, kind) PROVE RelayInv'
<1>1. /\ UNCHANGED <<worker, active, cloud, late>> /\ said' = [said EXCEPT ![t] = kind]
      /\ kind = "started" => said[t] = "nothing"
      /\ said[t] # "terminal" /\ (kind # "started" => said[t] # "nothing")
  BY DEF Say, Kinds
<1>2. /\ outcome' \in [Turn -> Outcome \cup {"none"}]
      /\ \A u \in Turn : u # t => outcome'[u] = outcome[u]
      /\ kind = "terminal" => outcome'[t] \in Outcome
  <2>1. CASE kind = "terminal"
    BY <2>1 DEF Say, RelayInv, RelayTypes
  <2>2. CASE kind # "terminal"
    BY <2>2 DEF Say, RelayInv, RelayTypes
  <2> QED
    BY <2>1, <2>2
<1>3. \/ queue' = queue
      \/ /\ queue' \in Seq([turn : Turn, kind : Kinds]) /\ Len(queue') = Len(queue) + 1 /\ Len(queue) \in Nat
         /\ \A i \in 1..Len(queue) : queue'[i] = queue[i]
         /\ queue'[Len(queue) + 1] = [turn |-> t, kind |-> kind]
  BY ObserveIs DEF Say, RelayInv
<1>4. RelayTypes'
  BY <1>1, <1>2, <1>3 DEF RelayInv, RelayTypes
<1>5. WorkerOK'
  BY <1>1 DEF RelayInv, WorkerOK
<1>6. \A i \in 1..Len(queue) : queue[i].turn = t => kind # "started" /\ queue[i].kind # "terminal"
  BY <1>1 DEF RelayInv, RunOK, QueueOK
<1>7. \A i \in 1..Len(queue') : i \in 1..Len(queue) \/ (i = Len(queue) + 1 /\ queue'[i].turn = t /\ queue'[i].kind = kind)
  <2>1. CASE queue' = queue
    BY <2>1
  <2>2. CASE queue' # queue
    <3>1. queue'[Len(queue) + 1].turn = t /\ queue'[Len(queue) + 1].kind = kind
      BY <1>3, <2>2
    <3>2. 1..Len(queue') = 1..Len(queue) \cup {Len(queue) + 1}
      BY <1>3, <2>2
    <3> QED
      BY <3>1, <3>2
  <2> QED
    BY <2>1, <2>2
<1>8. \A i \in 1..Len(queue) : i \in 1..Len(queue') /\ queue'[i] = queue[i]
  BY <1>3
<1>9. QueueOK'
  <2>1. \A i \in 1..Len(queue') : queue'[i].kind = "terminal" => said'[queue'[i].turn] = "terminal" /\ outcome'[queue'[i].turn] \in Outcome
    <3> SUFFICES ASSUME NEW i \in 1..Len(queue'), queue'[i].kind = "terminal"
                 PROVE  said'[queue'[i].turn] = "terminal" /\ outcome'[queue'[i].turn] \in Outcome
      OBVIOUS
    <3>1. CASE i \in 1..Len(queue)
      <4>1. queue[i].turn \in Turn /\ queue'[i] = queue[i] /\ queue[i].turn # t
        <5>1. queue[i] \in [turn : Turn, kind : Kinds]
          BY <3>1, ElementOfSeq DEF RelayInv, RelayTypes
        <5> QED
          BY <1>6, <1>8, <3>1, <5>1
      <4> QED
        BY <1>1, <1>2, <3>1, <4>1 DEF RelayInv, RelayTypes, QueueOK
    <3>2. CASE queue'[i].turn = t /\ queue'[i].kind = kind
      BY <1>1, <1>2, <3>2 DEF RelayInv, RelayTypes
    <3> QED
      BY <1>7, <3>1, <3>2
  <2>2. \A u \in Turn, i, j \in 1..Len(queue') : IsStarted(i, u)' /\ IsStarted(j, u)' => i = j
    BY <1>6, <1>7, <1>8 DEF RelayInv, QueueOK, IsStarted
  <2>3. \A u \in Turn, i \in 1..Len(queue') : IsStarted(i, u)' => ~AtStarted(u)'
    <3> SUFFICES ASSUME NEW u \in Turn, NEW i \in 1..Len(queue'), IsStarted(i, u)', AtStarted(u)' PROVE FALSE
      OBVIOUS
    <3>1. AtStarted(u)
      BY <1>1 DEF AtStarted
    <3>2. CASE i \in 1..Len(queue)
      BY <1>8, <3>1, <3>2 DEF RelayInv, QueueOK, IsStarted
    <3>3. CASE queue'[i].turn = t /\ queue'[i].kind = kind
      BY <1>1, <3>1, <3>3 DEF RelayInv, RunOK, IsStarted
    <3> QED
      BY <1>7, <3>2, <3>3
  <2> QED
    BY <2>1, <2>2, <2>3 DEF QueueOK
<1>10. ASSUME NEW u \in Turn PROVE RunOK(u)'
  <2>1. RunOK(u) /\ (AtStarted(u)' <=> AtStarted(u)) /\ (LateOnly(u, {})' <=> LateOnly(u, {}))
    BY <1>1 DEF RelayInv, AtStarted, LateOnly
  <2>2. \A i \in 1..Len(queue') : IsStarted(i, u)' => (i \in 1..Len(queue) /\ IsStarted(i, u)) \/ (u = t /\ kind = "started")
    <3> SUFFICES ASSUME NEW i \in 1..Len(queue'), IsStarted(i, u)'
                 PROVE  (i \in 1..Len(queue) /\ IsStarted(i, u)) \/ (u = t /\ kind = "started")
      OBVIOUS
    <3>1. queue'[i].turn = u /\ queue'[i].kind = "started"
      BY DEF IsStarted
    <3>2. CASE i \in 1..Len(queue)
      <4>1. queue'[i] = queue[i]
        BY <1>8, <3>2
      <4>2. queue[i].turn = u /\ queue[i].kind = "started"
        BY <3>1, <4>1
      <4> QED
        BY <3>2, <4>2 DEF IsStarted
    <3>3. CASE queue'[i].turn = t /\ queue'[i].kind = kind
      BY <3>1, <3>3
    <3> QED
      BY <1>7, <3>2, <3>3
  <2>3. Starting(u)' => Starting(u)
    <3>1. said'[u] = "nothing" => said[u] = "nothing"
      BY <1>1 DEF RelayInv, RelayTypes, Kinds
    <3>2. \A i \in 1..Len(queue') : IsStarted(i, u)' => Starting(u)
      BY <1>1, <2>2 DEF Starting
    <3> QED
      BY <2>1, <3>1, <3>2 DEF Starting
  <2>4. said'[u] = "nothing" => said[u] = "nothing" /\ u # t
    BY <1>1 DEF RelayInv, RelayTypes, Kinds
  <2>5. said'[u] = "nothing" => \A i \in 1..Len(queue') : queue'[i].turn # u
    BY <1>7, <1>8, <2>1, <2>4 DEF RunOK
  <2>6. active[u] \in Outcome => u # t
    BY <1>1, <2>1 DEF RunOK
  <2>7. u # t => said'[u] = said[u] /\ outcome'[u] = outcome[u]
    BY <1>1, <1>2 DEF RelayInv, RelayTypes
  <2> QED
    BY <1>1, <2>1, <2>3, <2>4, <2>5, <2>6, <2>7 DEF RunOK, Untouched, LateOnly
<1> QED
  BY <1>4, <1>5, <1>9, <1>10 DEF RelayInv

\* What a worker's step leaves to show when it takes nothing from the queue.
LEMMA QueueKept ==
  ASSUME RelayInv, UNCHANGED <<said, outcome, queue>>, \A t \in Turn : AtStarted(t)' => AtStarted(t)
  PROVE  /\ QueueOK'
         /\ \A t \in Turn : Starting(t)' => Starting(t)
         /\ \A t \in Turn : said'[t] = "nothing" => ~AtStarted(t)' /\ \A i \in 1..Len(queue') : queue'[i].turn # t
<1>1. \A t \in Turn, i \in 1..Len(queue) : IsStarted(i, t)' <=> IsStarted(i, t)
  BY DEF IsStarted
<1>2. QueueOK'
  BY <1>1 DEF RelayInv, QueueOK
<1>3. \A t \in Turn : Starting(t)' => Starting(t)
  BY <1>1 DEF Starting
<1>4. \A t \in Turn : said'[t] = "nothing" => ~AtStarted(t)' /\ \A i \in 1..Len(queue') : queue'[i].turn # t
  BY DEF RelayInv, RunOK
<1> QED
  BY <1>2, <1>3, <1>4

\* The requests of the worker set one run's status at the cloud.
LEMMA AnsweredIs ==
  ASSUME RelayTypes, NEW t \in Turn, NEW status \in Outcome \cup {"running"}, NEW result, Answered(t, status, result)
  PROVE  /\ cloud' \in [Turn -> Outcome \cup {"none", "running"}]
         /\ late' \subseteq Turn \X (Outcome \cup {"running"})
         /\ \A u \in Turn : cloud'[u] = cloud[u] \/ (u = t /\ cloud'[u] = status)
         /\ \A r \in late' : r \in late \/ (r[1] = t /\ r[2] = status)
         /\ result = "ok" => cloud'[t] = status /\ late' = late
<1>1. <<t, status>> \in Turn \X (Outcome \cup {"running"}) /\ <<t, status>>[1] = t /\ <<t, status>>[2] = status
  OBVIOUS
<1>2. cloud' \in [Turn -> Outcome \cup {"none", "running"}]
      /\ (\A u \in Turn : cloud'[u] = cloud[u] \/ (u = t /\ cloud'[u] = status))
      /\ (result = "ok" => cloud'[t] = status)
  <2>1. CASE result \in {"ok", "lost"}
    <3>1. cloud' = [cloud EXCEPT ![t] = status]
      BY <2>1 DEF Answered
    <3> QED
      BY <3>1 DEF RelayTypes
  <2>2. CASE result \notin {"ok", "lost"}
    <3>1. cloud' = cloud
      BY <2>2 DEF Answered
    <3> QED
      BY <2>2, <3>1 DEF RelayTypes
  <2> QED
    BY <2>1, <2>2
<1>3. late' = late \/ (late' = late \cup {<<t, status>>} /\ result # "ok")
  <2>1. CASE result = "late"
    BY <2>1 DEF Answered
  <2>2. CASE result # "late"
    BY <2>2 DEF Answered
  <2> QED
    BY <2>1, <2>2
<1>4. \A r \in late \cup {<<t, status>>} : r \in late \/ (r[1] = t /\ r[2] = status)
  <2> SUFFICES ASSUME NEW r \in late \cup {<<t, status>>}, r \notin late PROVE r[1] = t /\ r[2] = status
    OBVIOUS
  <2>1. r = <<t, status>>
    OBVIOUS
  <2> QED
    BY <1>1, <2>1
<1>5. late \cup {<<t, status>>} \subseteq Turn \X (Outcome \cup {"running"})
  BY <1>1 DEF RelayTypes
<1> HIDE DEF Outcome
<1> QED
  BY <1>2, <1>3, <1>4, <1>5 DEF RelayTypes

LEMMA ReceiveInv == ASSUME RelayInv, Receive PROVE RelayInv'
<1> DEFINE t == Head(queue).turn
           kind == Head(queue).kind
           skip == (kind = "started") # (active[t] = "none") \/ (kind # "terminal" /\ t \in degraded)
<1>1. /\ queue # <<>> /\ queue' = Tail(queue) /\ worker.at = "recv" /\ UNCHANGED <<said, outcome, cloud, late>>
      /\ skip => worker' = Loop(Held) /\ UNCHANGED active
      /\ ~skip => /\ worker' = Awaiting(kind, t, 1)
                  /\ active' = IF kind = "terminal" THEN [active EXCEPT ![t] = outcome[t]] ELSE active
  BY DEF Receive, turnVars
<1>2. /\ t \in Turn /\ kind \in Kinds /\ Len(queue) \in Nat /\ 1 \in 1..Len(queue) /\ queue[1] = Head(queue)
      /\ queue' \in Seq([turn : Turn, kind : Kinds]) /\ Len(queue') = Len(queue) - 1
      /\ \A i \in 1..Len(queue') : queue'[i] = queue[i + 1] /\ i + 1 \in 1..Len(queue) /\ i + 1 # 1
  <2>1. queue \in Seq([turn : Turn, kind : Kinds])
    BY DEF RelayInv, RelayTypes
  <2>2. Head(queue) \in [turn : Turn, kind : Kinds] /\ Len(queue) \in Nat \ {0} /\ queue[1] = Head(queue)
    <3>1. Head(queue) \in [turn : Turn, kind : Kinds]
      BY <1>1, <2>1, HeadTailProperties
    <3>2. Len(queue) \in Nat \ {0}
      BY <1>1, <2>1, EmptySeq
    <3>3. queue[1] = Head(queue)
      BY <1>1, <2>1, <3>2
    <3> QED
      BY <3>1, <3>2, <3>3
  <2>3. /\ queue' \in Seq([turn : Turn, kind : Kinds]) /\ Len(queue') = Len(queue) - 1
        /\ \A i \in 1..Len(queue') : queue'[i] = queue[i + 1]
    BY <1>1, <2>1, HeadTailProperties
  <2> QED
    BY <2>2, <2>3
<1> HIDE DEF t, kind, skip
<1>3. /\ active' \in [Turn -> Outcome \cup {"none", "open"}]
      /\ kind = "terminal" => said[t] = "terminal" /\ outcome[t] \in Outcome
      /\ kind = "started" => IsStarted(1, t)
  BY <1>1, <1>2 DEF RelayInv, RelayTypes, QueueOK, IsStarted, t, kind
<1>4. worker' \in WorkerTypes /\ worker'.at \in {"recv", "flush", kind}
      /\ (worker'.at \in Kinds => ~skip /\ worker'.turn = t /\ worker'.at = kind)
      /\ (worker'.at = "flush" => skip /\ worker'.turn = NoTurn /\ worker'.todo \subseteq Held)
  <2>1. CASE skip
    BY <1>1, <2>1, LoopIs DEF Held, Kinds
  <2>2. CASE ~skip
    BY <1>1, <1>2, <2>2 DEF Awaiting, WorkerTypes, Kinds
  <2> QED
    BY <2>1, <2>2
<1>5. RelayTypes'
  BY <1>1, <1>2, <1>3, <1>4 DEF RelayInv, RelayTypes
<1>6. WorkerOK'
  BY <1>1, <1>2, <1>3, <1>4 DEF WorkerOK, Held, Kinds, RelayInv, RelayTypes
<1>7. \A u \in Turn, i \in 1..Len(queue') : IsStarted(i, u)' => IsStarted(i + 1, u)
  BY <1>2 DEF IsStarted
<1>8. \A u \in Turn : AtStarted(u)' => u = t /\ kind = "started" /\ IsStarted(1, u)
  BY <1>3, <1>4 DEF AtStarted, Kinds
<1>9. QueueOK'
  <2>1. \A i \in 1..Len(queue') : queue'[i].kind = "terminal" => said'[queue'[i].turn] = "terminal" /\ outcome'[queue'[i].turn] \in Outcome
    BY <1>1, <1>2 DEF RelayInv, QueueOK
  <2>2. \A u \in Turn, i, j \in 1..Len(queue') : IsStarted(i, u)' /\ IsStarted(j, u)' => i = j
    <3> SUFFICES ASSUME NEW u \in Turn, NEW i \in 1..Len(queue'), NEW j \in 1..Len(queue'), IsStarted(i, u)', IsStarted(j, u)'
                 PROVE  i = j
      OBVIOUS
    <3>1. i + 1 = j + 1
      BY <1>2, <1>7 DEF RelayInv, QueueOK
    <3> QED
      BY <3>1
  <2>3. \A u \in Turn, i \in 1..Len(queue') : IsStarted(i, u)' => ~AtStarted(u)'
    BY <1>2, <1>7, <1>8 DEF RelayInv, QueueOK
  <2> QED
    BY <2>1, <2>2, <2>3 DEF QueueOK
<1>10. ASSUME NEW u \in Turn PROVE RunOK(u)'
  <2>1. RunOK(u) /\ \A ss : LateOnly(u, ss)' <=> LateOnly(u, ss)
    BY <1>1 DEF RelayInv, LateOnly
  <2>2. Starting(u)' => Starting(u)
    BY <1>1, <1>2, <1>7, <1>8 DEF Starting
  <2>3. said'[u] = "nothing" => ~AtStarted(u)' /\ \A i \in 1..Len(queue') : queue'[i].turn # u
    BY <1>1, <1>2, <1>8, <2>1 DEF RunOK, IsStarted
  <2>4. active'[u] = active[u] \/ (u = t /\ kind = "terminal" /\ ~skip /\ active'[u] = outcome[u])
    BY <1>1 DEF RelayInv, RelayTypes
  <2>5. CASE active'[u] = active[u]
    BY <1>1, <1>4, <2>1, <2>2, <2>3, <2>5 DEF RunOK, Untouched
  <2>6. CASE u = t /\ kind = "terminal" /\ ~skip /\ active'[u] = outcome[u]
    <3>1. active[u] # "none" /\ active[u] \in Outcome \cup {"none", "open"}
      BY <2>6, <1>2 DEF skip, RelayInv, RelayTypes
    <3>2. active'[u] \in Outcome /\ said'[u] = "terminal" /\ active'[u] = outcome'[u]
      BY <1>1, <1>3, <2>6
    <3>3. cloud[u] \in {"running", active'[u]} /\ LateOnly(u, {active'[u]})
      BY <1>1, <2>1, <2>6, <3>1 DEF RunOK, LateOnly
    <3>4. ~Starting(u)
      BY <2>1, <3>1 DEF RunOK, Untouched
    <3> QED
      BY <1>1, <2>1, <2>2, <2>3, <3>2, <3>3, <3>4 DEF RunOK, Outcome
  <2> QED
    BY <2>4, <2>5, <2>6
<1> QED
  BY <1>5, <1>6, <1>9, <1>10 DEF RelayInv

\* A step after which the worker is at the head of its loop, or still where it
\* was, and that leaves the runs as they are.
LEMMA WorkerMovesInv ==
  ASSUME RelayInv, UNCHANGED <<said, outcome, queue, active, cloud, late>>, worker' \in WorkerTypes,
         worker'.at \in {"recv", "flush", "done"}, worker.at \in {"flush", "done"} => worker'.at # "recv",
         worker'.at = "flush" =>
           /\ \A t \in worker'.todo : active[t] # "none"
           /\ (worker'.turn \in Turn /\ worker'.turn # NoTurn =>
                 active[worker'.turn] # "none" /\ worker'.turn \notin worker'.todo)
  PROVE  RelayInv'
<1>1. \A t \in Turn : ~AtStarted(t)'
  BY DEF AtStarted
<1>2. RelayTypes' /\ WorkerOK'
  BY DEF RelayInv, RelayTypes, WorkerOK, Kinds
<1>3. ASSUME NEW t \in Turn PROVE RunOK(t)'
  <2>1. RunOK(t) /\ \A ss : LateOnly(t, ss)' <=> LateOnly(t, ss)
    BY DEF RelayInv, LateOnly
  <2>2. worker.at \in {"flush", "done"} => worker'.at \in {"flush", "done"}
    OBVIOUS
  <2> QED
    BY <1>1, <2>1, <2>2, QueueKept DEF RunOK, Untouched
<1> QED
  BY <1>1, <1>2, <1>3, QueueKept DEF RelayInv

LEMMA AtHeadInv ==
  ASSUME RelayInv, UNCHANGED <<said, outcome, queue, active, cloud, late>>,
         worker' = Loop(Held), worker.at \notin {"flush", "done"}
  PROVE  RelayInv'
<1>1. Held \in SUBSET Turn /\ \A t \in Held : active[t] # "none"
  BY DEF Held
<1>2. worker' \in WorkerTypes /\ worker'.at \in {"recv", "flush"} /\ worker'.turn = NoTurn /\ worker'.todo \subseteq Held
  BY <1>1, LoopIs
<1> QED
  BY <1>1, <1>2, WorkerMovesInv

LEMMA StopReceivingInv == ASSUME RelayInv, StopReceiving PROVE RelayInv'
BY AtHeadInv DEF StopReceiving, turnVars

LEMMA AppendedInv == ASSUME RelayInv, NEW ok, Appended(ok) PROVE RelayInv'
BY AtHeadInv DEF Appended, turnVars

LEMMA FlushNextInv == ASSUME RelayInv, FlushNext PROVE RelayInv'
<1>1. PICK t \in worker.todo : worker' = [worker EXCEPT !.turn = t, !.try = 1, !.todo = @ \ {t}]
  BY DEF FlushNext
<1>2. worker \in WorkerTypes /\ worker.at = "flush" /\ \A u \in worker.todo : active[u] # "none"
  BY DEF RelayInv, RelayTypes, WorkerOK, FlushNext
<1>3. worker' \in WorkerTypes /\ worker'.at = "flush" /\ worker'.turn = t /\ worker'.todo = worker.todo \ {t}
  BY <1>1, <1>2 DEF WorkerTypes
<1> QED
  BY <1>2, <1>3, WorkerMovesInv DEF FlushNext, turnVars

\* A request of the worker for the run of t, and what it then holds of it.
LEMMA RequestInv ==
  ASSUME RelayInv, NEW t \in Turn, NEW status \in Outcome \cup {"running"}, NEW result,
         Answered(t, status, result), UNCHANGED <<said, outcome, queue>>,
         NEW held \in Outcome \cup {"none", "open"}, active' = [active EXCEPT ![t] = held],
         worker' \in WorkerTypes, WorkerOK',
         worker.at \in {"flush", "done"} => worker'.at \in {"flush", "done"},
         \A u \in Turn : AtStarted(u)' => AtStarted(u), RunOK(t)'
  PROVE  RelayInv'
<1>1. /\ cloud' \in [Turn -> Outcome \cup {"none", "running"}]
      /\ late' \subseteq Turn \X (Outcome \cup {"running"})
      /\ \A u \in Turn : cloud'[u] = cloud[u] \/ (u = t /\ cloud'[u] = status)
      /\ \A r \in late' : r \in late \/ (r[1] = t /\ r[2] = status)
  BY AnsweredIs DEF RelayInv
<1>2. RelayTypes'
  BY <1>1 DEF RelayInv, RelayTypes
<1>3. ASSUME NEW u \in Turn, u # t PROVE RunOK(u)'
  <2>1. RunOK(u) /\ cloud'[u] = cloud[u] /\ active'[u] = active[u]
    BY <1>1, <1>3 DEF RelayInv, RelayTypes
  <2>2. \A ss : LateOnly(u, ss) => LateOnly(u, ss)'
    BY <1>1, <1>3 DEF LateOnly
  <2> QED
    BY <2>1, <2>2, QueueKept DEF RunOK, Untouched
<1>4. QueueOK' /\ \A u \in Turn : RunOK(u)'
  BY <1>3, QueueKept
<1> QED
  BY <1>2, <1>4 DEF RelayInv

LEMMA CreatedInv == ASSUME RelayInv, NEW result, Created(result) PROVE RelayInv'
<1>0. PICK t \in Turn : t = worker.turn
  BY DEF Created, RelayInv, WorkerOK, Kinds
<1>1. /\ worker.at = "started" /\ Answered(t, "running", result) /\ UNCHANGED <<said, outcome, queue>>
      /\ AtStarted(t)
  BY <1>0 DEF Created, turnVars, AtStarted
<1>2. Untouched(t) /\ RunOK(t) /\ \A i \in 1..Len(queue) : ~IsStarted(i, t)
  BY <1>1 DEF RelayInv, RunOK, Starting, QueueOK
<1>3. /\ \A r \in late' : r \in late \/ (r[1] = t /\ r[2] = "running")
      /\ cloud'[t] \in {"none", "running"}
      /\ result = "ok" => cloud'[t] = "running" /\ late' = late
  BY <1>1, <1>2, AnsweredIs DEF RelayInv, Untouched
<1>4. ~\E i \in 1..Len(queue') : IsStarted(i, t)'
  BY <1>1, <1>2 DEF IsStarted
<1>5. said[t] # "nothing"
  BY <1>1, <1>2 DEF RunOK
<1>6. CASE result = "ok"
  <2>1. active' = [active EXCEPT ![t] = "open"] /\ worker' = [at |-> "audit", turn |-> t, try |-> 1, todo |-> {}]
    BY <1>0, <1>6 DEF Created, Awaiting
  <2>2. worker' \in WorkerTypes /\ WorkerOK' /\ \A u \in Turn : ~AtStarted(u)'
    BY <1>1, <2>1 DEF WorkerTypes, Kinds, WorkerOK, AtStarted
  <2>3. RunOK(t)'
    <3>1. active'[t] = "open" /\ cloud'[t] = "running" /\ LateOnly(t, {})' /\ LateOnly(t, {"interrupted"})'
      BY <1>1, <1>2, <1>3, <1>6, <2>1 DEF RelayInv, RelayTypes, Untouched, LateOnly
    <3>2. ~Starting(t)' /\ said'[t] # "nothing"
      BY <1>1, <1>4, <1>5, <2>2 DEF Starting
    <3> QED
      BY <3>1, <3>2 DEF RunOK, Outcome
  <2> QED
    BY <1>1, <2>1, <2>2, <2>3, RequestInv
<1>7. CASE result # "ok"
  <2>1. active' = active /\ worker' = Loop(Held)
    BY <1>7 DEF Created
  <2>2. Held \in SUBSET Turn /\ \A u \in Held : active[u] # "none"
    BY DEF Held
  <2>3. worker' \in WorkerTypes /\ worker'.at \in {"recv", "flush"} /\ worker'.turn = NoTurn /\ worker'.todo \subseteq Held
    BY <2>1, <2>2, LoopIs
  <2>4. WorkerOK' /\ \A u \in Turn : ~AtStarted(u)'
    BY <2>1, <2>2, <2>3 DEF WorkerOK, AtStarted, Kinds
  <2>5. active' = [active EXCEPT ![t] = "none"]
    BY <1>2, <2>1 DEF RelayInv, RelayTypes, Untouched
  <2>6. RunOK(t)'
    <3>1. active'[t] = "none" /\ LateOnly(t, {"running"})' /\ cloud'[t] \notin Outcome
      BY <1>1, <1>2, <1>3, <2>1 DEF Untouched, LateOnly, Outcome
    <3>2. ~Starting(t)' /\ said'[t] # "nothing"
      BY <1>1, <1>4, <1>5, <2>4 DEF Starting
    <3> QED
      BY <3>1, <3>2 DEF RunOK, Outcome
  <2> QED
    BY <1>1, <2>3, <2>4, <2>5, <2>6, RequestInv
<1> QED
  BY <1>6, <1>7

\* A close sent for a run that the worker holds.
LEMMA ClosesRun ==
  ASSUME RelayInv, NEW t \in Turn, NEW status \in Outcome, NEW result, Answered(t, status, result),
         UNCHANGED <<said, outcome, queue>>, \A u \in Turn : AtStarted(u)' => AtStarted(u),
         active[t] = "open" => status = "interrupted" /\ worker.at = "flush" /\ worker'.at = "flush",
         active[t] \in Outcome => status = active[t], active[t] # "none",
         NEW held \in {"none", active[t]}, active' = [active EXCEPT ![t] = held]
  PROVE  RunOK(t)' /\ (cloud[t] \in Outcome => cloud'[t] = cloud[t])
<1>1. RunOK(t) /\ active[t] \in Outcome \cup {"open"} /\ active'[t] = held
  BY DEF RelayInv, RelayTypes
<1>2. /\ cloud[t] \in {"running", status} /\ LateOnly(t, {status}) /\ ~Starting(t)
  BY <1>1 DEF RunOK, Untouched, Outcome
<1>3. cloud'[t] \in {"running", status} /\ LateOnly(t, {status})' /\ (cloud[t] \in Outcome => cloud'[t] = cloud[t])
  BY <1>2, AnsweredIs DEF RelayInv, LateOnly, Outcome
<1>4. ~Starting(t)' /\ (said'[t] = "nothing" => ~AtStarted(t)' /\ \A i \in 1..Len(queue') : queue'[i].turn # t)
  BY <1>2, QueueKept
<1>5. CASE held = "none"
  BY <1>1, <1>3, <1>4, <1>5 DEF RunOK, Outcome
<1>6. CASE held = active[t]
  BY <1>1, <1>2, <1>3, <1>4, <1>6 DEF RunOK, Outcome
<1> QED
  BY <1>3, <1>5, <1>6

LEMMA FinishedInv ==
  ASSUME RelayInv, NEW result, Finished(result)
  PROVE  RelayInv' /\ \A u \in Turn : cloud[u] \in Outcome => cloud'[u] = cloud[u]
<1>0. PICK t \in Turn : t = worker.turn
  BY DEF Finished, RelayInv, WorkerOK, Kinds
<1>1. /\ worker.at = "terminal" /\ Answered(t, outcome[t], result) /\ UNCHANGED <<said, outcome, queue>>
      /\ active[t] \in Outcome /\ active[t] = outcome[t]
  BY <1>0 DEF Finished, turnVars, RelayInv, WorkerOK, RunOK
<1>2. /\ Held \in SUBSET Turn /\ (\A u \in Held : active[u] # "none")
      /\ Held \ {t} \in SUBSET Turn
  BY DEF Held
<1>3. PICK held \in {"none", active[t]} : active' = [active EXCEPT ![t] = held]
  <2>1. active' = [active EXCEPT ![t] = "none"] \/ active' = active
    BY <1>0 DEF Finished
  <2>2. active = [active EXCEPT ![t] = active[t]]
    BY DEF RelayInv, RelayTypes
  <2> QED
    BY <2>1, <2>2
<1>4. worker' \in WorkerTypes /\ WorkerOK' /\ \A u \in Turn : ~AtStarted(u)'
  <2>1. CASE result = "ok"
    <3>1. worker' = Loop(Held \ {t}) /\ active' = [active EXCEPT ![t] = "none"]
      BY <1>0, <2>1 DEF Finished
    <3>2. worker' \in WorkerTypes /\ worker'.at \in {"recv", "flush"} /\ worker'.turn = NoTurn /\ worker'.todo \subseteq Held \ {t}
      BY <1>2, <3>1, LoopIs
    <3> QED
      BY <1>2, <3>1, <3>2 DEF WorkerOK, AtStarted, Kinds, RelayInv, RelayTypes
  <2>2. CASE result # "ok" /\ worker.try < 2
    <3>1. worker' = [worker EXCEPT !.try = @ + 1] /\ active' = active /\ worker \in WorkerTypes /\ worker.try + 1 \in Nat
      BY <2>2 DEF Finished, RelayInv, RelayTypes, WorkerTypes
    <3>2. worker' \in WorkerTypes /\ worker'.at = "terminal" /\ worker'.turn = t
      BY <1>0, <1>1, <3>1, Zenon DEF WorkerTypes
    <3> QED
      BY <1>1, <3>1, <3>2 DEF WorkerOK, AtStarted
  <2>3. CASE result # "ok" /\ ~(worker.try < 2)
    <3>1. worker' = Loop(Held) /\ active' = active
      BY <2>3 DEF Finished
    <3>2. worker' \in WorkerTypes /\ worker'.at \in {"recv", "flush"} /\ worker'.turn = NoTurn /\ worker'.todo \subseteq Held
      BY <1>2, <3>1, LoopIs
    <3> QED
      BY <1>2, <3>1, <3>2 DEF WorkerOK, AtStarted, Kinds
  <2> QED
    BY <2>1, <2>2, <2>3
<1>5. RunOK(t)' /\ (cloud[t] \in Outcome => cloud'[t] = cloud[t])
  BY <1>1, <1>3, <1>4, ClosesRun DEF Outcome
<1>6. held \in Outcome \cup {"none", "open"}
  BY <1>1
<1>7. RelayInv'
  BY <1>1, <1>3, <1>4, <1>5, <1>6, RequestInv
<1>8. \A u \in Turn : cloud'[u] = cloud[u] \/ u = t
  BY <1>1, AnsweredIs DEF RelayInv
<1> QED
  BY <1>5, <1>7, <1>8

LEMMA FlushedInv ==
  ASSUME RelayInv, NEW result, Flushed(result)
  PROVE  RelayInv' /\ \A u \in Turn : cloud[u] \in Outcome => cloud'[u] = cloud[u]
<1>0. worker.turn \in Turn /\ worker.turn # NoTurn
  BY DEF Flushed, RelayInv, RelayTypes, WorkerTypes
<1>1. PICK t \in Turn : t = worker.turn
  BY <1>0
<1> DEFINE status == IF active[t] = "open" THEN "interrupted" ELSE active[t]
<1>2. /\ worker.at = "flush" /\ Answered(t, status, result) /\ UNCHANGED <<said, outcome, queue>>
  BY <1>1 DEF Flushed, turnVars
<1>3. active[t] # "none" /\ t \notin worker.todo /\ (\A u \in worker.todo : active[u] # "none") /\ worker \in WorkerTypes
      /\ active[t] \in Outcome \cup {"open"}
  BY <1>0, <1>1, <1>2 DEF RelayInv, RelayTypes, WorkerOK
<1>4. status \in Outcome /\ (active[t] = "open" => status = "interrupted") /\ (active[t] \in Outcome => status = active[t])
  BY <1>3 DEF Outcome
<1>5. PICK v \in Outcome : v = status
  BY <1>4
<1> HIDE DEF status
<1>6. PICK held \in {"none", active[t]} : active' = [active EXCEPT ![t] = held]
  <2>1. active' = [active EXCEPT ![t] = "none"] \/ active' = active
    BY <1>1 DEF Flushed
  <2>2. active = [active EXCEPT ![t] = active[t]]
    BY DEF RelayInv, RelayTypes
  <2> QED
    BY <2>1, <2>2
<1>7. worker' \in WorkerTypes /\ worker'.at = "flush" /\ worker'.todo = worker.todo
      /\ (worker'.turn = NoTurn \/ (worker'.turn = t /\ active' = active))
  <2>1. CASE result # "ok" /\ worker.try < 2
    <3>1. worker' = [worker EXCEPT !.try = @ + 1] /\ active' = active /\ worker.try + 1 \in Nat
      BY <1>3, <2>1 DEF Flushed, WorkerTypes
    <3> QED
      BY <1>1, <1>2, <1>3, <3>1, Zenon DEF WorkerTypes
  <2>2. CASE ~(result # "ok" /\ worker.try < 2)
    <3>1. worker' = [worker EXCEPT !.turn = NoTurn]
      BY <2>2 DEF Flushed
    <3> QED
      BY <1>2, <1>3, <3>1 DEF WorkerTypes
  <2> QED
    BY <2>1, <2>2
<1>8. WorkerOK' /\ \A u \in Turn : ~AtStarted(u)'
  BY <1>3, <1>6, <1>7 DEF WorkerOK, AtStarted, Kinds, RelayInv, RelayTypes
<1>9. Answered(t, v, result)
  BY <1>2, <1>5
<1>10. RunOK(t)' /\ (cloud[t] \in Outcome => cloud'[t] = cloud[t])
  BY <1>2, <1>3, <1>4, <1>5, <1>6, <1>7, <1>8, <1>9, ClosesRun
<1>11. held \in Outcome \cup {"none", "open"}
  BY <1>3
<1>12. RelayInv'
  BY <1>2, <1>6, <1>7, <1>8, <1>9, <1>10, <1>11, RequestInv
<1>13. \A u \in Turn : cloud'[u] = cloud[u] \/ u = t
  BY <1>9, AnsweredIs DEF RelayInv
<1> QED
  BY <1>10, <1>12, <1>13

LEMMA EndInv == ASSUME RelayInv, End PROVE RelayInv'
<1>1. /\ worker.at = "flush" /\ UNCHANGED <<said, outcome, queue, active, cloud>>
      /\ worker' = [at |-> "done", turn |-> NoTurn, try |-> 0, todo |-> {}]
  BY DEF End, turnVars, Awaiting
<1>2. CASE worker.turn = NoTurn
  <2>1. late' = late
    BY <1>2 DEF End
  <2>2. worker' \in WorkerTypes /\ worker'.at = "done"
    BY <1>1 DEF WorkerTypes
  <2> QED
    BY <1>1, <2>1, <2>2, WorkerMovesInv
<1>3. CASE worker.turn # NoTurn
  <2>1. worker.turn \in Turn
    BY <1>3 DEF RelayInv, RelayTypes, WorkerTypes
  <2>2. PICK t \in Turn : t = worker.turn
    BY <2>1
  <2>3. active[t] \in Outcome \cup {"open"}
    BY <1>1, <1>3, <2>2 DEF RelayInv, RelayTypes, WorkerOK
  <2>4. PICK v \in Outcome : v = (IF active[t] = "open" THEN "interrupted" ELSE active[t])
    BY <2>3 DEF Outcome
  <2>5. late' = late \cup {<<t, v>>}
    BY <1>3, <2>2, <2>4 DEF End
  <2>6. Answered(t, v, "late")
    BY <1>1, <2>5 DEF Answered
  <2>7. active' = [active EXCEPT ![t] = active[t]] /\ active[t] \in Outcome \cup {"none", "open"}
    BY <1>1, <2>3 DEF RelayInv, RelayTypes
  <2>8. worker' \in WorkerTypes /\ WorkerOK' /\ \A u \in Turn : ~AtStarted(u)'
    BY <1>1 DEF WorkerTypes, WorkerOK, AtStarted, Kinds
  <2>9. PICK held \in Outcome \cup {"none", "open"} : held = active[t]
    BY <2>7
  <2>10. RunOK(t)'
    <3>1. RunOK(t) /\ LateOnly(t, {v}) /\ ~Starting(t)
      BY <2>3, <2>4 DEF RelayInv, RunOK, Untouched, Outcome
    <3>2. LateOnly(t, {v})'
      BY <2>5, <3>1 DEF LateOnly
    <3>3. ~Starting(t)' /\ (said'[t] = "nothing" => ~AtStarted(t)' /\ \A i \in 1..Len(queue') : queue'[i].turn # t)
      BY <1>1, <2>8, <3>1, QueueKept
    <3> QED
      BY <1>1, <2>3, <2>4, <3>1, <3>2, <3>3 DEF RunOK, Outcome
  <2>11. active' = [active EXCEPT ![t] = held]
    BY <2>7, <2>9
  <2> QED
    BY <1>1, <2>6, <2>8, <2>10, <2>11, RequestInv
<1> QED
  BY <1>2, <1>3

LEMMA AppliedLateInv ==
  ASSUME RelayInv, AppliedLate
  PROVE  RelayInv' /\ \A u \in Turn : cloud[u] \in Outcome => cloud'[u] = cloud[u]
<1>1. PICK r \in late : late' = late \ {r} /\ cloud' = [cloud EXCEPT ![r[1]] = r[2]]
  BY DEF AppliedLate
<1>2. UNCHANGED <<said, outcome, queue, worker, active>>
  BY DEF AppliedLate, turnVars
<1>3. r[1] \in Turn /\ r[2] \in Outcome \cup {"running"}
  BY DEF RelayInv, RelayTypes
<1>4. RelayTypes' /\ WorkerOK' /\ QueueOK'
  BY <1>1, <1>2, <1>3, QueueKept DEF RelayInv, RelayTypes, WorkerOK, AtStarted
<1>5. ASSUME NEW u \in Turn PROVE RunOK(u)' /\ (cloud[u] \in Outcome => cloud'[u] = cloud[u])
  <2>1. RunOK(u) /\ \A ss : LateOnly(u, ss) => LateOnly(u, ss)'
    BY <1>1 DEF RelayInv, LateOnly
  <2>2. Starting(u)' => Starting(u)
    BY <1>2, QueueKept DEF AtStarted
  <2>3. said'[u] = "nothing" => ~AtStarted(u)' /\ \A i \in 1..Len(queue') : queue'[i].turn # u
    BY <1>2, QueueKept DEF AtStarted
  <2>4. active[u] \in Outcome \cup {"none", "open"}
    BY DEF RelayInv, RelayTypes
  <2>5. CASE r[1] # u
    <3>1. cloud'[u] = cloud[u]
      BY <1>1, <1>3, <2>5 DEF RelayInv, RelayTypes
    <3> QED
      BY <1>2, <2>1, <2>2, <2>3, <3>1 DEF RunOK, Untouched
  <2>6. CASE r[1] = u
    <3>1. cloud'[u] = r[2] /\ ~LateOnly(u, {})
      BY <1>1, <1>3, <2>6 DEF RelayInv, RelayTypes, LateOnly
    <3>2. ~Starting(u)
      BY <2>1, <3>1 DEF RunOK, Untouched
    <3>3. CASE active[u] = "none"
      <4>1. PICK v \in Outcome \cup {"running"} : LateOnly(u, {v}) /\ (cloud[u] \in Outcome => cloud[u] = v)
        BY <2>1, <3>3 DEF RunOK
      <4>2. r[2] = v
        BY <2>6, <4>1 DEF LateOnly
      <4>3. LateOnly(u, {v})' /\ (cloud'[u] \in Outcome => cloud'[u] = v)
        BY <2>1, <3>1, <4>1, <4>2
      <4>4. RunOK(u)'
        BY <1>2, <2>2, <2>3, <3>2, <3>3, <4>3 DEF RunOK, Outcome
      <4> QED
        BY <3>1, <4>1, <4>2, <4>4
    <3>4. CASE active[u] = "open"
      <4>1. r[2] = "interrupted" /\ LateOnly(u, {"interrupted"})'
        BY <2>1, <2>6, <3>4 DEF RunOK, LateOnly
      <4>2. worker.at \in {"flush", "done"} /\ cloud[u] \in {"running", "interrupted"}
        BY <2>1, <3>1, <3>4 DEF RunOK
      <4> QED
        BY <1>2, <2>2, <2>3, <3>1, <3>2, <3>4, <4>1, <4>2 DEF RunOK, Outcome
    <3>5. CASE active[u] \in Outcome
      <4>1. LateOnly(u, {active[u]})
        BY <2>1, <3>5 DEF RunOK
      <4>2. r[2] = active[u]
        BY <2>6, <4>1 DEF LateOnly
      <4>3. PICK v \in Outcome : v = active[u] /\ LateOnly(u, {v})
        BY <3>5, <4>1
      <4>4. v = active'[u] /\ LateOnly(u, {v})'
        BY <1>2, <2>1, <4>3
      <4>5. LateOnly(u, {active[u]})'
        BY <4>4
      <4> QED
        BY <1>2, <2>1, <2>2, <2>3, <3>1, <3>2, <3>5, <4>2, <4>5 DEF RunOK, Outcome
    <3> QED
      BY <2>4, <3>3, <3>4, <3>5
  <2> QED
    BY <2>5, <2>6
<1> QED
  BY <1>4, <1>5 DEF RelayInv

\* A new runtime gets a new relay, which holds no run.
LEMMA FreshInv ==
  ASSUME RelayInv, Fresh, UNCHANGED <<said, outcome, cloud, late>> PROVE RelayInv'
<1>1. /\ queue' = <<>> /\ worker' = [at |-> "recv", turn |-> NoTurn, try |-> 0, todo |-> {}]
      /\ active' = [t \in Turn |-> "none"]
  BY DEF Fresh, Awaiting
<1>2. RelayTypes' /\ WorkerOK' /\ QueueOK'
  BY <1>1 DEF RelayInv, RelayTypes, WorkerTypes, WorkerOK, QueueOK, Kinds, IsStarted
<1>3. ASSUME NEW t \in Turn PROVE RunOK(t)'
  <2>1. RunOK(t) /\ (\A ss : LateOnly(t, ss)' <=> LateOnly(t, ss)) /\ active[t] \in Outcome \cup {"none", "open"}
    BY DEF RelayInv, RelayTypes, LateOnly
  <2>2. active'[t] = "none" /\ ~AtStarted(t)' /\ Len(queue') = 0
    BY <1>1 DEF AtStarted
  <2>3. Starting(t)' => said[t] = "nothing"
    BY <2>2 DEF Starting
  <2>4. said[t] = "nothing" => Untouched(t)'
    BY <2>1, <2>2 DEF RunOK, Untouched, Starting
  <2>5. \E v \in Outcome \cup {"running"} : LateOnly(t, {v})' /\ (cloud'[t] \in Outcome => cloud'[t] = v)
    <3>1. CASE active[t] = "none"
      BY <2>1, <3>1 DEF RunOK
    <3>2. CASE active[t] = "open"
      BY <2>1, <3>2 DEF RunOK, Outcome
    <3>3. CASE active[t] \in Outcome
      BY <2>1, <3>3 DEF RunOK, Outcome
    <3> QED
      BY <2>1, <3>1, <3>2, <3>3
  <2>6. said'[t] = "nothing" => ~AtStarted(t)' /\ \A i \in 1..Len(queue') : queue'[i].turn # t
    BY <2>2
  <2>7. Starting(t)' => Untouched(t)'
    BY <2>3, <2>4
  <2> QED
    BY <2>2, <2>5, <2>6, <2>7 DEF RunOK, Outcome
<1> QED
  BY <1>2, <1>3 DEF RelayInv

\* Nothing the relay does but the requests of the worker shows at the cloud.
LEMMA RelayStepInv ==
  ASSUME RelayInv, WorkerStep \/ AppliedLate
  PROVE  RelayInv' /\ \A u \in Turn : cloud[u] \in Outcome => cloud'[u] = cloud[u]
<1>1. CASE Receive \/ StopReceiving \/ FlushNext \/ End \/ \E ok \in BOOLEAN : Appended(ok)
  <2>1. RelayInv'
    BY <1>1, ReceiveInv, StopReceivingInv, FlushNextInv, EndInv, AppendedInv
  <2>2. cloud' = cloud
    BY <1>1 DEF Receive, StopReceiving, FlushNext, End, Appended
  <2> QED
    BY <2>1, <2>2
<1>2. ASSUME NEW result \in Result, Created(result)
      PROVE  RelayInv' /\ \A u \in Turn : cloud[u] \in Outcome => cloud'[u] = cloud[u]
  <2>1. PICK t \in Turn : t = worker.turn
    BY <1>2 DEF Created, RelayInv, WorkerOK, Kinds
  <2>2. AtStarted(t) /\ Answered(t, "running", result)
    BY <1>2, <2>1 DEF Created, AtStarted
  <2>3. cloud[t] = "none"
    BY <2>2 DEF RelayInv, RunOK, Starting, Untouched
  <2>4. \A u \in Turn : cloud'[u] = cloud[u] \/ u = t
    BY <2>2, AnsweredIs DEF RelayInv
  <2> QED
    BY <1>2, <2>3, <2>4, CreatedInv DEF Outcome
<1> QED
  BY <1>1, <1>2, FinishedInv, FlushedInv, AppliedLateInv DEF WorkerStep

-----------------------------------------------------------------------------
(* The theorems.                                                              *)

Inv == SidecarInv /\ RelayInv /\ limit \in Limits

LEMMA InitInv == Init => Inv
BY SidecarInitInv, RelayInitInv DEF Init, Inv

LEMMA StepInv == Inv /\ [Next]_vars => Inv' /\ \A t \in Turn : cloud[t] \in Outcome => cloud'[t] = cloud[t]
<1> SUFFICES ASSUME Inv, [Next]_vars
             PROVE  Inv' /\ \A t \in Turn : cloud[t] \in Outcome => cloud'[t] = cloud[t]
  OBVIOUS
<1>1. limit' \in Limits /\ limit.floats \subseteq Float /\ limit.turns \subseteq Turn
  BY LimitsAssumption DEF Inv, Next, vars
<1>2. UNCHANGED relayVars => RelayInv' /\ cloud' = cloud
  <2> SUFFICES ASSUME UNCHANGED relayVars PROVE RelayInv' /\ cloud' = cloud
    OBVIOUS
  <2>1. UNCHANGED <<said, outcome, queue, worker, active, cloud, late>>
    BY DEF relayVars
  <2>2. RelayTypes' /\ WorkerOK' /\ QueueOK'
    BY <2>1 DEF Inv, RelayInv, RelayTypes, WorkerOK, QueueOK, IsStarted, AtStarted
  <2>3. \A t \in Turn : RunOK(t)'
    BY <2>1 DEF Inv, RelayInv, RunOK, Untouched, LateOnly, Starting, IsStarted, AtStarted
  <2> QED
    BY <2>1, <2>2, <2>3 DEF RelayInv
<1>3. UNCHANGED <<child, proc, reader, stops>> => SidecarInv'
  BY DEF Inv, SidecarInv, SidecarTypes, Generations
<1>4. CASE (NativeStep \/ PageStep \/ UserStep) /\ UNCHANGED <<relayVars, owner>>
  BY <1>1, <1>2, <1>4, NativeInv, PageInv DEF Inv
<1>5. CASE (WorkerStep \/ AppliedLate) /\ UNCHANGED <<sidecarVars, owner>>
  BY <1>1, <1>3, <1>5, RelayStepInv DEF Inv, sidecarVars, runtimeVars
<1>6. CASE \E g \in Gen : SpawnWithRelay(g)
  BY <1>1, <1>6, SpawnInv, FreshInv DEF Inv, SpawnWithRelay, turnVars
<1>7. CASE \E g \in Gen : ExitCancelsRelay(g)
  <2>1. UNCHANGED <<said, outcome, queue, worker, active, cloud, late>>
    BY <1>7 DEF ExitCancelsRelay, turnVars, localVars
  <2>2. RelayTypes' /\ WorkerOK' /\ QueueOK'
    BY <2>1 DEF Inv, RelayInv, RelayTypes, WorkerOK, QueueOK, IsStarted, AtStarted
  <2>3. \A t \in Turn : RunOK(t)'
    BY <2>1 DEF Inv, RelayInv, RunOK, Untouched, LateOnly, Starting, IsStarted, AtStarted
  <2>4. SidecarInv'
    BY <1>7, ReaderInv DEF Inv, ExitCancelsRelay
  <2> QED
    BY <1>1, <2>1, <2>2, <2>3, <2>4 DEF Inv, RelayInv
<1>8. CASE \E g \in Gen : ClearsAfterRelay(g)
  BY <1>1, <1>2, <1>8, ReaderInv DEF Inv, ClearsAfterRelay
<1>9. CASE \E t \in limit.turns, kind \in {"started", "audit", "terminal"} : Reads(t, kind)
  <2>1. PICK t \in Turn, kind \in Kinds : Say(t, kind) /\ UNCHANGED sidecarVars
    BY <1>1, <1>9 DEF Reads, Kinds
  <2>2. cloud' = cloud /\ UNCHANGED <<child, proc, reader, stops>>
    BY <2>1 DEF Say, sidecarVars, runtimeVars
  <2> QED
    BY <1>1, <1>3, <2>1, <2>2, SayInv DEF Inv
<1>10. CASE UNCHANGED vars
  BY <1>1, <1>2, <1>3, <1>10 DEF Inv, vars, sidecarVars, runtimeVars
<1> QED
  BY <1>4, <1>5, <1>6, <1>7, <1>8, <1>9, <1>10 DEF Next, Step

\* Every stop, reader and run is where the steps so far have led it.
THEOREM InvHolds == Spec => []Inv
<1> QED
  BY InitInv, StepInv, PTL DEF Spec

\* However many stops, logins and exits overlap, a stop that began after the
\* exit of its process was seen does not kill by process id.
THEOREM NoLateKillHolds == Spec => []NoLateKill
<1>1. Inv => NoLateKill
  BY DEF Inv, SidecarInv, Generations, NoLateKill
<1> QED
  BY InvHolds, <1>1, PTL

\* For every number of turns and every capacity, the status of a closed run is
\* never changed, whatever requests are lost, repeated or applied late.
THEOREM ClosedIsFinalHolds == Spec => ClosedIsFinal
<1>1. Inv /\ [Next]_vars => [\A t \in Turn : cloud[t] \in Outcome => cloud'[t] = cloud[t]]_vars
  BY StepInv
<1> QED
  BY InvHolds, <1>1, PTL DEF Spec, ClosedIsFinal

-----------------------------------------------------------------------------
(* The page: what waits for the mutex, what holds it, and what that leaves    *)
(* alive.                                                                     *)

Command == ({"stop"} \X Stop) \cup ({"start"} \X Gen)

PageTypes ==
  /\ account \in {"signed_out", "signed_in", "stopped"}
  /\ bundle \in {"none", "valid", "expired"}
  /\ client \in [id : Nat, at : {"new", "listening", "starting", "started", "failed"},
                 disposed : BOOLEAN]
  /\ logout \in {"idle", "stop", "revoke"}
  /\ expire \in [at : {"idle", "stop", "clear"}, cancelled : BOOLEAN]
  /\ commands \in Seq(Command)
  /\ lock \in [at : {"free", "bundle", "provision"}, by : Gen \cup {None}]

\* The slot holds the one runtime whose event task has not ended, and none is
\* spawned while it does.
SlotOK ==
  /\ \A g \in Gen : reader[g] \in {"reading", "draining"} => child.gen = g
  /\ child.gen # None => reader[child.gen] \in {"reading", "draining"}
  /\ lock.at # "free" => child.gen = None /\ lock.by \in Gen
  /\ \A g \in Gen : proc[g] = "alive" => reader[g] = "reading"
  /\ \A g \in Gen : proc[g] = "none" => reader[g] = "done"
  /\ \A g, h \in Gen : h < g /\ proc[g] # "none" => proc[h] # "none"

\* q waits for the mutex: each stop at most once, and only while it is queued;
\* every start before the stop of a logout.
QueueOrdered(q, st) ==
  /\ \A s \in Stop, i \in 1..Len(q) : q[i] = <<"stop", s>> => st[s].at = "queued"
  /\ \A s \in Stop, i, j \in 1..Len(q) : q[i] = <<"stop", s>> /\ q[j] = <<"stop", s>> => i = j
  /\ \A i, j \in 1..Len(q) : q[i][1] = "start" /\ q[j] = <<"stop", "logout">> => i < j

NoStart(q) == \A i \in 1..Len(q) : q[i][1] # "start"

ClientOK ==
  /\ client.at # "new" => client.id \in Gen
  /\ account = "stopped" => client.disposed

\* What a stop knows of its runtime at each of its waits.
StopsOK ==
  \A s \in Stop :
    /\ stops[s].at \in {"idle", "queued"} => stops[s].gen = None
    /\ stops[s].at \in {"graceful", "kill", "confirm"} => stops[s].gen # None
    /\ stops[s].at = "relay" => stops[s].gen # None /\ reader[stops[s].gen] # "reading"
    /\ stops[s].at = "ok" /\ stops[s].gen # None => reader[stops[s].gen] = "done"

Begun(s) == stops[s].at \notin {"idle", "queued"}
OnlyOf(s) == \A g \in Gen : proc[g] = "alive" => stops[s].gen = g
NoneAlive == \A g \in Gen : proc[g] # "alive"

LogoutOK ==
  /\ logout # "idle" => account = "stopped"
  /\ logout = "stop" <=> stops["logout"].at # "idle"
  /\ Begun("logout") => NoStart(commands) /\ lock.at = "free" /\ OnlyOf("logout")
  /\ logout = "revoke" => NoStart(commands) /\ lock.at = "free" /\ NoneAlive

ExpireOK ==
  /\ expire.at = "stop" <=> stops["expire"].at # "idle"
  /\ expire.at # "idle" /\ ~expire.cancelled => account = "signed_in" /\ bundle # "valid"
  /\ Begun("expire") /\ ~expire.cancelled => lock.at # "provision" /\ OnlyOf("expire")
  /\ expire.at = "clear" /\ ~expire.cancelled => lock.at # "provision" /\ NoneAlive

SignedOutOK == account = "signed_out" => bundle # "valid" /\ lock.at # "provision" /\ NoneAlive

PageOK ==
  /\ PageTypes /\ SlotOK /\ QueueOrdered(commands, stops) /\ ClientOK /\ StopsOK
  /\ LogoutOK /\ ExpireOK /\ SignedOutOK

LEMMA StopNames == "logout" \in Stop /\ "expire" \in Stop /\ "logout" # "expire"
                   /\ \A f \in Float : f \in Stop /\ f # "logout" /\ f # "expire"
BY FloatAssumption DEF Stop

LEMMA PageInitOK == SidecarInit => PageOK
<1> SUFFICES ASSUME SidecarInit PROVE PageOK
  OBVIOUS
<1>1. \A s \in Stop : stops[s] = NoStop
  BY DEF SidecarInit
<1>2. NoStop.at = "idle" /\ NoStop.gen = None
  BY DEF NoStop
<1>3. PageTypes
  BY DEF SidecarInit, PageTypes, NewClient, NoExpire, Free
<1>4. SlotOK
  BY DEF SidecarInit, SlotOK, NoChild, Free
<1>5. commands = <<>> /\ Len(commands) = 0
  BY DEF SidecarInit
<1>6. QueueOrdered(commands, stops) /\ NoStart(commands)
  BY <1>5 DEF QueueOrdered, NoStart
<1>7. ClientOK /\ StopsOK
  BY <1>1, <1>2 DEF SidecarInit, ClientOK, StopsOK, NewClient
<1>8. LogoutOK /\ ExpireOK /\ SignedOutOK
  BY <1>1, <1>2, StopNames DEF SidecarInit, LogoutOK, ExpireOK, SignedOutOK, NoneAlive, Begun, NoExpire, Free
<1> QED
  BY <1>3, <1>4, <1>6, <1>7, <1>8 DEF PageOK

\* A command joins the end of the queue.
LEMMA CommandAdded ==
  ASSUME NEW q \in Seq(Command), NEW c \in Command
  PROVE  /\ Append(q, c) \in Seq(Command)
         /\ \A i \in 1..Len(Append(q, c)) :
              \/ i \in 1..Len(q) /\ Append(q, c)[i] = q[i]
              \/ i = Len(q) + 1 /\ Append(q, c)[i] = c
         /\ Len(q) \in Nat
BY AppendProperties, LenProperties

LEMMA StopAdded ==
  ASSUME NEW q \in Seq(Command), NEW st, NEW s \in Stop, QueueOrdered(q, st), st[s].at # "queued",
         NEW st2, st2[s].at = "queued", \A r \in Stop : r # s => st2[r] = st[r]
  PROVE  /\ QueueOrdered(Append(q, <<"stop", s>>), st2)
         /\ Append(q, <<"stop", s>>) \in Seq(Command)
         /\ NoStart(q) => NoStart(Append(q, <<"stop", s>>))
<1> DEFINE c == <<"stop", s>>
           a == Append(q, c)
<1>1. c \in Command /\ c[1] # "start" /\ \A r \in Stop : c = <<"stop", r>> => r = s
  BY DEF Command
<1> HIDE DEF c
<1>2. a \in Seq(Command) /\ Len(q) \in Nat
      /\ \A i \in 1..Len(a) : (i \in 1..Len(q) /\ a[i] = q[i]) \/ (i = Len(q) + 1 /\ a[i] = c)
  BY <1>1, CommandAdded
<1> HIDE DEF a
<1>3. \A i \in 1..Len(q) : q[i] # c
  BY DEF QueueOrdered, c
<1>4. QueueOrdered(a, st2)
  <2>1. ASSUME NEW r \in Stop, NEW i \in 1..Len(a), a[i] = <<"stop", r>>
        PROVE  st2[r].at = "queued"
    <3>1. CASE a[i] = c
      BY <1>1, <2>1, <3>1
    <3>2. CASE i \in 1..Len(q) /\ a[i] = q[i]
      <4>1. st[r].at = "queued"
        BY <2>1, <3>2 DEF QueueOrdered
      <4> QED
        BY <4>1
    <3> QED
      BY <1>2, <3>1, <3>2
  <2>2. ASSUME NEW r \in Stop, NEW i \in 1..Len(a), NEW j \in 1..Len(a), a[i] = <<"stop", r>>, a[j] = <<"stop", r>>
        PROVE  i = j
    <3>1. CASE i \in 1..Len(q) /\ j \in 1..Len(q)
      BY <1>2, <2>2, <3>1 DEF QueueOrdered
    <3>2. CASE i = Len(q) + 1 \/ j = Len(q) + 1
      <4>1. \A k \in 1..Len(a) : k = Len(q) + 1 => a[k] = c
        BY <1>2
      <4>2. a[i] = c \/ a[j] = c
        BY <3>2, <4>1
      <4>3. <<"stop", r>> = c
        BY <2>2, <4>2
      <4> QED
        BY <1>2, <1>3, <2>2, <4>3
    <3> QED
      BY <1>2, <3>1, <3>2
  <2>3. ASSUME NEW i \in 1..Len(a), NEW j \in 1..Len(a), a[i][1] = "start", a[j] = <<"stop", "logout">>
        PROVE  i < j
    <3>1. i \in 1..Len(q) /\ q[i][1] = "start"
      BY <1>1, <1>2, <2>3
    <3>2. CASE j \in 1..Len(q) /\ a[j] = q[j]
      BY <2>3, <3>1, <3>2 DEF QueueOrdered
    <3>3. CASE j = Len(q) + 1
      BY <1>2, <3>1, <3>3
    <3> QED
      BY <1>2, <3>2, <3>3
  <2> QED
    BY <2>1, <2>2, <2>3 DEF QueueOrdered
<1>5. NoStart(q) => NoStart(a)
  BY <1>1, <1>2 DEF NoStart
<1> QED
  BY <1>2, <1>4, <1>5 DEF a, c

LEMMA StartAdded ==
  ASSUME NEW q \in Seq(Command), NEW st, NEW n \in Gen, QueueOrdered(q, st), st["logout"].at # "queued"
  PROVE  QueueOrdered(Append(q, <<"start", n>>), st) /\ Append(q, <<"start", n>>) \in Seq(Command)
<1> DEFINE c == <<"start", n>>
           a == Append(q, c)
<1>1. c \in Command /\ \A r \in Stop : c # <<"stop", r>>
  BY DEF Command
<1> HIDE DEF c
<1>2. a \in Seq(Command) /\ Len(q) \in Nat
      /\ \A i \in 1..Len(a) : (i \in 1..Len(q) /\ a[i] = q[i]) \/ (i = Len(q) + 1 /\ a[i] = c)
  BY <1>1, CommandAdded
<1> HIDE DEF a
<1>3. QueueOrdered(a, st)
  <2>1. \A r \in Stop, i \in 1..Len(a) : a[i] = <<"stop", r>> => st[r].at = "queued"
    BY <1>1, <1>2 DEF QueueOrdered
  <2>2. \A r \in Stop, i, j \in 1..Len(a) : a[i] = <<"stop", r>> /\ a[j] = <<"stop", r>> => i = j
    BY <1>1, <1>2 DEF QueueOrdered
  <2>3. \A j \in 1..Len(a) : a[j] # <<"stop", "logout">>
    BY <2>1, StopNames
  <2> QED
    BY <2>1, <2>2, <2>3 DEF QueueOrdered
<1> QED
  BY <1>2, <1>3 DEF a, c

\* The first command takes the mutex; nothing of a stop that did is left.
LEMMA CommandTaken ==
  ASSUME NEW q \in Seq(Command), q # <<>>, NEW st, QueueOrdered(q, st)
  PROVE  /\ Tail(q) \in Seq(Command) /\ Head(q) \in Command /\ QueueOrdered(Tail(q), st)
         /\ NoStart(q) => NoStart(Tail(q)) /\ Head(q)[1] # "start"
         /\ \A s \in Stop : Head(q) = <<"stop", s>> =>
              /\ st[s].at = "queued" /\ \A i \in 1..Len(Tail(q)) : Tail(q)[i] # <<"stop", s>>
              /\ s = "logout" => NoStart(Tail(q))
<1> DEFINE a == Tail(q)
           l == Len(q)
<1>1. a \in Seq(Command) /\ Head(q) = q[1] /\ Head(q) \in Command /\ l \in Nat \ {0}
      /\ Len(a) = l - 1 /\ \A i \in 1..Len(a) : a[i] = q[i + 1]
  BY HeadTailProperties, LenProperties, EmptySeq
<1> HIDE DEF a
<1>2. 1 \in 1..l /\ \A i \in 1..Len(a) : i + 1 \in 1..l /\ i + 1 # 1
  BY <1>1
<1>3. QueueOrdered(a, st)
  <2>1. \A r \in Stop, i \in 1..Len(a) : a[i] = <<"stop", r>> => st[r].at = "queued"
    BY <1>1, <1>2 DEF QueueOrdered
  <2>2. ASSUME NEW r \in Stop, NEW i \in 1..Len(a), NEW j \in 1..Len(a), a[i] = <<"stop", r>>, a[j] = <<"stop", r>>
        PROVE  i = j
    <3>1. /\ q[i + 1] = <<"stop", r>> /\ q[j + 1] = <<"stop", r>>
          /\ i + 1 \in 1..l /\ j + 1 \in 1..l
      BY <1>1, <1>2, <2>2
    <3>2. i + 1 = j + 1
      BY <3>1 DEF QueueOrdered, l
    <3> QED
      BY <3>2
  <2>3. ASSUME NEW i \in 1..Len(a), NEW j \in 1..Len(a), a[i][1] = "start", a[j] = <<"stop", "logout">>
        PROVE  i < j
    <3>1. q[i + 1][1] = "start" /\ q[j + 1] = <<"stop", "logout">>
      BY <1>1, <2>3
    <3>2. i + 1 < j + 1
      BY <1>2, <3>1 DEF QueueOrdered
    <3> QED
      BY <3>2, <1>1
  <2> QED
    BY <2>1, <2>2, <2>3 DEF QueueOrdered
<1>4. NoStart(q) => NoStart(a) /\ Head(q)[1] # "start"
  BY <1>1, <1>2 DEF NoStart
<1>5. ASSUME NEW s \in Stop, Head(q) = <<"stop", s>>
      PROVE  /\ st[s].at = "queued" /\ \A i \in 1..Len(a) : a[i] # <<"stop", s>>
             /\ s = "logout" => NoStart(a)
  <2>1. q[1] = <<"stop", s>>
    BY <1>1, <1>5
  <2>2. st[s].at = "queued"
    BY <1>2, <2>1 DEF QueueOrdered
  <2>3. \A i \in 1..Len(a) : a[i] # <<"stop", s>>
    BY <1>1, <1>2, <2>1 DEF QueueOrdered
  <2>4. s = "logout" => NoStart(a)
    <3> SUFFICES ASSUME s = "logout", NEW i \in 1..Len(a), a[i][1] = "start" PROVE FALSE
      BY DEF NoStart
    <3>1. q[i + 1][1] = "start" /\ q[1] = <<"stop", "logout">>
      BY <1>1, <2>1
    <3>2. i + 1 < 1
      BY <1>2, <3>1 DEF QueueOrdered
    <3> QED
      BY <3>2
  <2> QED
    BY <2>2, <2>3, <2>4
<1> QED
  BY <1>1, <1>3, <1>4, <1>5 DEF a


ClientTypes == [id : Nat, at : {"new", "listening", "starting", "started", "failed"}, disposed : BOOLEAN]

\* What a start tells its client changes nothing but where that client is.
LEMMA TellsOK ==
  ASSUME PageOK, NEW n \in Gen, NEW what \in {"started", "failed"}, Tells(n, what), UNCHANGED account
  PROVE  client' \in ClientTypes /\ ClientOK'
<1>1. client \in ClientTypes
  BY DEF PageOK, PageTypes, ClientTypes
<1>2. CASE client.id = n
  BY <1>1, <1>2 DEF Tells, ClientTypes, ClientOK, PageOK
<1>3. CASE client.id # n
  BY <1>1, <1>3 DEF Tells, ClientOK, PageOK
<1> QED
  BY <1>2, <1>3

LEMMA StartLoadsOK == ASSUME SidecarInv, PageOK, StartLoads PROVE PageOK'
<1>1. /\ lock.at = "bundle" /\ UNCHANGED <<account, logout, expire, commands, child, proc, reader, stops>>
      /\ lock.by \in Gen
      /\ bundle' \in {"none", "valid", "expired"} /\ (bundle' = "valid" <=> bundle = "valid")
  BY DEF StartLoads, PageOK, PageTypes, SlotOK
<1>2. /\ lock' \in [at : {"free", "bundle", "provision"}, by : Gen \cup {None}]
      /\ lock'.at # "free" => lock'.by = lock.by
      /\ lock'.at = "provision" => bundle = "valid"
      /\ client' \in ClientTypes /\ ClientOK'
  <2>1. CASE bundle = "valid"
    <3>1. lock' = [lock EXCEPT !.at = "provision"] /\ UNCHANGED client
      BY <2>1 DEF StartLoads
    <3> QED
      BY <1>1, <2>1, <3>1 DEF PageOK, PageTypes, ClientTypes, ClientOK
  <2>2. CASE bundle # "valid"
    <3>1. lock' = Free /\ Tells(lock.by, "failed")
      BY <2>2 DEF StartLoads
    <3>2. client' \in ClientTypes /\ ClientOK'
      BY <1>1, <3>1, TellsOK
    <3> QED
      BY <3>1, <3>2 DEF Free
  <2> QED
    BY <2>1, <2>2
<1>3. PageTypes'
  BY <1>1, <1>2 DEF PageOK, PageTypes, ClientTypes
<1>4. SlotOK' /\ QueueOrdered(commands, stops)' /\ StopsOK'
  BY <1>1, <1>2 DEF PageOK, SlotOK, QueueOrdered, StopsOK
<1>5. LogoutOK'
  BY <1>1, <1>2 DEF PageOK, LogoutOK, NoStart, Begun, OnlyOf, NoneAlive
<1>6. ExpireOK' /\ SignedOutOK'
  BY <1>1, <1>2 DEF PageOK, ExpireOK, SignedOutOK, Begun, OnlyOf, NoneAlive
<1> QED
  BY <1>2, <1>3, <1>4, <1>5, <1>6 DEF PageOK

\* The lock is given back, and a process may have been spawned meanwhile.
LEMMA StartFailsOK == ASSUME SidecarInv, PageOK, StartFails PROVE PageOK'
<1>1. /\ lock.at = "provision" /\ lock' = Free /\ lock.by \in Gen /\ Tells(lock.by, "failed")
      /\ UNCHANGED <<account, bundle, logout, expire, commands, child, proc, reader, stops>>
  BY DEF StartFails, PageOK, SlotOK
<1>2. client' \in ClientTypes /\ ClientOK'
  BY <1>1, TellsOK
<1>3. lock'.at = "free" /\ lock' \in [at : {"free", "bundle", "provision"}, by : Gen \cup {None}]
  BY <1>1 DEF Free
<1>4. PageTypes' /\ SlotOK' /\ QueueOrdered(commands, stops)' /\ StopsOK'
  BY <1>1, <1>2, <1>3 DEF PageOK, PageTypes, ClientTypes, SlotOK, QueueOrdered, StopsOK
<1>5. LogoutOK' /\ ExpireOK' /\ SignedOutOK'
  BY <1>1, <1>3 DEF PageOK, LogoutOK, ExpireOK, SignedOutOK, NoStart, Begun, OnlyOf, NoneAlive
<1> QED
  BY <1>2, <1>4, <1>5 DEF PageOK

LEMMA SpawnOK == ASSUME SidecarInv, PageOK, NEW g \in Gen, Spawn(g) PROVE PageOK'
<1>1. /\ lock.at = "provision" /\ lock' = Free /\ lock.by \in Gen /\ Tells(lock.by, "started")
      /\ proc[g] = "none" /\ \A h \in Gen : h < g => proc[h] # "none"
      /\ child.gen = None /\ child' = [gen |-> g, stopping |-> FALSE]
      /\ proc' = [proc EXCEPT ![g] = "alive"] /\ reader' = [reader EXCEPT ![g] = "reading"]
      /\ UNCHANGED <<account, bundle, logout, expire, commands, stops>>
  BY DEF Spawn, PageOK, SlotOK
<1>2. client' \in ClientTypes /\ ClientOK'
  BY <1>1, TellsOK
<1>3. lock'.at = "free" /\ lock' \in [at : {"free", "bundle", "provision"}, by : Gen \cup {None}]
  BY <1>1 DEF Free
<1>4. PageTypes' /\ QueueOrdered(commands, stops)'
  <2>1. PageTypes'
    BY <1>1, <1>2, <1>3 DEF PageOK, PageTypes, ClientTypes
  <2>2. QueueOrdered(commands, stops)'
    BY <1>1 DEF PageOK
  <2> QED
    BY <2>1, <2>2
<1>5. SlotOK'
  <2>1. \A h \in Gen : reader[h] \notin {"reading", "draining"} /\ h \in Int /\ g \in Int
    BY <1>1, NoneIsNoGen, LoginsAssumption DEF PageOK, SlotOK, Gen
  <2>2. \A h \in Gen : h # g => proc'[h] = proc[h] /\ reader'[h] = reader[h] /\ proc'[g] = "alive" /\ reader'[g] = "reading"
    BY <1>1 DEF SidecarInv, SidecarTypes
  <2>3. \A h, k \in Gen : k < h /\ proc'[h] # "none" => proc'[k] # "none"
    BY <1>1, <2>1, <2>2 DEF SidecarInv, SidecarTypes, PageOK, SlotOK
  <2>4. \A h \in Gen : reader'[h] \in {"reading", "draining"} => child'.gen = h
    BY <1>1, <2>1 DEF SidecarInv, SidecarTypes
  <2>5. reader'[g] = "reading" /\ child'.gen = g
    BY <1>1 DEF SidecarInv, SidecarTypes
  <2>6. \A h \in Gen : (proc'[h] = "alive" => reader'[h] = "reading") /\ (proc'[h] = "none" => reader'[h] = "done")
    BY <1>1 DEF SidecarInv, SidecarTypes, PageOK, SlotOK
  <2> QED
    BY <1>3, <2>3, <2>4, <2>5, <2>6 DEF SlotOK
<1>6. StopsOK'
  <2>1. \A s \in Stop : stops[s].gen # g
    BY <1>1 DEF SidecarInv, Generations
  <2>2. \A h : h # g => reader'[h] = reader[h]
    BY <1>1
  <2> QED
    BY <1>1, <2>1, <2>2 DEF PageOK, StopsOK
<1>7. LogoutOK' /\ ExpireOK' /\ SignedOutOK'
  BY <1>1, <1>3 DEF PageOK, LogoutOK, ExpireOK, SignedOutOK, Begun
<1> QED
  BY <1>2, <1>4, <1>5, <1>6, <1>7 DEF PageOK

\* The process and its event task go on; no other comes to live.
LEMMA ReaderMovesOK ==
  ASSUME SidecarInv, PageOK, NEW g \in Gen, SeesExit(g) \/ Clears(g) \/ Completes(g) \/ Exits(g)
  PROVE  PageOK'
<1>1. /\ UNCHANGED <<pageVars, commands, lock, stops>>
      /\ UNCHANGED <<account, bundle, client, logout, expire>>
  BY DEF SeesExit, Clears, Completes, Exits, pageVars
<1>2. /\ \A h \in Gen : proc'[h] = "alive" => proc[h] = "alive"
      /\ \A h \in Gen : proc'[h] = "none" <=> proc[h] = "none"
      /\ \A h \in Gen : reader[h] # "reading" => reader'[h] # "reading"
      /\ \A h \in Gen : reader[h] = "done" => reader'[h] = "done"
      /\ proc' \in [Gen -> {"none", "alive", "exited"}]
  BY DEF SeesExit, Clears, Completes, Exits, SidecarInv, SidecarTypes
<1>3. SlotOK'
  <2>1. \A h, k \in Gen : k < h /\ proc'[h] # "none" => proc'[k] # "none"
    BY <1>2 DEF PageOK, SlotOK
  <2>2. CASE SeesExit(g)
    <3>1. /\ reader[g] = "reading" /\ proc[g] = "exited" /\ UNCHANGED <<proc, lock>>
          /\ reader' = [reader EXCEPT ![g] = "draining"] /\ lock = Free
          /\ child' = IF child.gen = g THEN [child EXCEPT !.stopping = TRUE] ELSE child
      BY <2>2 DEF SeesExit
    <3>2. child'.gen = child.gen
      BY <3>1 DEF SidecarInv, SidecarTypes
    <3> QED
      BY <2>1, <3>1, <3>2 DEF PageOK, SlotOK, SidecarInv, SidecarTypes, Free
  <2>3. CASE Clears(g)
    <3>1. /\ reader[g] = "draining" /\ UNCHANGED <<proc, lock>> /\ lock = Free
          /\ reader' = [reader EXCEPT ![g] = "cleared"]
          /\ child' = IF child.gen = g THEN NoChild ELSE child
      BY <2>3 DEF Clears
    <3>2. child.gen = g /\ child'.gen = None /\ \A h \in Gen : h # g => reader[h] \notin {"reading", "draining"}
      BY <3>1 DEF PageOK, SlotOK, NoChild
    <3> QED
      BY <2>1, <3>1, <3>2 DEF PageOK, SlotOK, SidecarInv, SidecarTypes, Free
  <2>4. CASE Completes(g) \/ Exits(g)
    BY <2>1, <2>4 DEF Completes, Exits, PageOK, SlotOK, SidecarInv, SidecarTypes
  <2> QED
    BY <2>2, <2>3, <2>4
<1>4. PageTypes' /\ QueueOrdered(commands, stops)' /\ ClientOK'
  BY <1>1 DEF PageOK, PageTypes, QueueOrdered, ClientOK
<1>5. StopsOK'
  <2>1. \A s \in Stop : stops[s].gen # None => stops[s].gen \in Gen
    BY DEF SidecarInv, SidecarTypes, StopTypes
  <2> QED
    BY <1>1, <1>2, <2>1 DEF PageOK, StopsOK
<1>6. LogoutOK' /\ ExpireOK' /\ SignedOutOK'
  BY <1>1, <1>2 DEF PageOK, LogoutOK, ExpireOK, SignedOutOK, NoStart, Begun, OnlyOf, NoneAlive
<1> QED
  BY <1>3, <1>4, <1>5, <1>6 DEF PageOK


\* Steps of the page that order no stop.
LEMMA QuietPageOK ==
  ASSUME SidecarInv, PageOK, Login \/ TimePasses \/ LoggedOut(TRUE) \/ LoggedOut(FALSE) PROVE PageOK'
<1>1. UNCHANGED <<expire, runtimeVars>> /\ UNCHANGED <<commands, lock, child, proc, reader, stops>>
  BY DEF Login, TimePasses, LoggedOut, runtimeVars
<1>2. SlotOK' /\ StopsOK'
  BY <1>1 DEF PageOK, SlotOK, StopsOK
<1>3. QueueOrdered(commands, stops)'
  BY <1>1 DEF PageOK
<1>4. NewClient(client.id + 1) \in ClientTypes /\ NewClient(client.id + 1).at = "new"
  BY DEF PageOK, PageTypes, NewClient, ClientTypes
<1>5. CASE Login
  <2>1. /\ account = "signed_out" /\ account' = "signed_in" /\ bundle' = "valid"
        /\ client.id \in Gen /\ client' = [client EXCEPT !.at = "listening"] /\ UNCHANGED logout
    BY <1>5 DEF Login
  <2>2. PageTypes' /\ ClientOK'
    BY <1>1, <2>1 DEF PageOK, PageTypes, ClientOK
  <2>3. LogoutOK' /\ ExpireOK' /\ SignedOutOK'
    BY <1>1, <2>1 DEF PageOK, LogoutOK, ExpireOK, SignedOutOK, NoStart, Begun, OnlyOf, NoneAlive
  <2> QED
    BY <1>2, <1>3, <2>2, <2>3 DEF PageOK
<1>6. CASE TimePasses
  <2>1. bundle' = "expired" /\ UNCHANGED <<account, client, logout>>
    BY <1>6 DEF TimePasses
  <2>2. PageTypes' /\ ClientOK'
    BY <1>1, <2>1 DEF PageOK, PageTypes, ClientOK
  <2>3. LogoutOK' /\ ExpireOK' /\ SignedOutOK'
    BY <1>1, <2>1 DEF PageOK, LogoutOK, ExpireOK, SignedOutOK, NoStart, Begun, OnlyOf, NoneAlive
  <2> QED
    BY <1>2, <1>3, <2>2, <2>3 DEF PageOK
<1>7. CASE LoggedOut(TRUE) \/ LoggedOut(FALSE)
  <2>1. /\ logout = "revoke" /\ logout' = "idle"
        /\ \/ bundle' = "none" /\ account' = "signed_out" /\ client' = NewClient(client.id + 1)
           \/ UNCHANGED <<bundle, account, client>>
    BY <1>7 DEF LoggedOut
  <2>2. PageTypes' /\ ClientOK'
    BY <1>1, <1>4, <2>1 DEF PageOK, PageTypes, ClientOK, ClientTypes
  <2>3. account = "stopped" /\ lock.at = "free" /\ NoneAlive /\ stops["logout"].at = "idle"
    BY <2>1 DEF PageOK, LogoutOK
  <2>4. LogoutOK' /\ ExpireOK' /\ SignedOutOK'
    BY <1>1, <2>1, <2>3 DEF PageOK, LogoutOK, ExpireOK, SignedOutOK, NoStart, Begun, OnlyOf, NoneAlive
  <2> QED
    BY <1>2, <1>3, <2>2, <2>4 DEF PageOK
<1> QED
  BY <1>5, <1>6, <1>7

LEMMA StartBeginsOK == ASSUME SidecarInv, PageOK, NEW n \in Gen, StartBegins(n) PROVE PageOK'
<1>1. /\ lock = Free /\ commands # <<>> /\ Head(commands) = <<"start", n>> /\ commands' = Tail(commands)
      /\ UNCHANGED <<account, bundle, logout, expire, child, proc, reader, stops>>
  BY DEF StartBegins, Takes
<1>2. /\ commands' \in Seq(Command) /\ QueueOrdered(commands, stops)'
      /\ ~NoStart(commands)
  <2>1. commands \in Seq(Command) /\ QueueOrdered(commands, stops) /\ <<"start", n>>[1] = "start"
    BY DEF PageOK, PageTypes
  <2> QED
    BY <1>1, <2>1, CommandTaken
<1>3. /\ lock' \in [at : {"free", "bundle", "provision"}, by : Gen \cup {None}] /\ lock'.at # "provision"
      /\ lock'.at # "free" => child.gen = None /\ lock'.by \in Gen
      /\ client' \in ClientTypes /\ ClientOK'
  <2>1. CASE child.gen = None
    <3>1. lock' = [at |-> "bundle", by |-> n] /\ UNCHANGED client
      BY <2>1 DEF StartBegins
    <3> QED
      BY <1>1, <2>1, <3>1 DEF PageOK, PageTypes, ClientTypes, ClientOK
  <2>2. CASE child.gen # None
    <3>1. lock' = Free /\ \E what \in {"started", "failed"} : Tells(n, what)
      BY <1>1, <2>2 DEF StartBegins
    <3>2. client' \in ClientTypes /\ ClientOK'
      BY <1>1, <3>1, TellsOK
    <3> QED
      BY <3>1, <3>2 DEF Free
  <2> QED
    BY <2>1, <2>2
<1>4. PageTypes' /\ SlotOK' /\ StopsOK'
  BY <1>1, <1>2, <1>3 DEF PageOK, PageTypes, ClientTypes, SlotOK, StopsOK
<1>5. LogoutOK'
  BY <1>1, <1>2 DEF PageOK, LogoutOK, Begun
<1>6. ExpireOK' /\ SignedOutOK'
  BY <1>1, <1>3 DEF PageOK, ExpireOK, SignedOutOK, Begun, OnlyOf, NoneAlive
<1> QED
  BY <1>2, <1>3, <1>4, <1>5, <1>6 DEF PageOK

LEMMA InvokeStartOK == ASSUME SidecarInv, PageOK, InvokeStart PROVE PageOK'
<1>1. /\ client.at = "listening" /\ ~client.disposed /\ client' = [client EXCEPT !.at = "starting"]
      /\ commands' = Append(commands, <<"start", client.id>>)
      /\ UNCHANGED <<account, bundle, logout, expire, lock, child, proc, reader, stops>>
  BY DEF InvokeStart
<1>2. client.id \in Gen /\ account # "stopped" /\ logout = "idle" /\ stops["logout"].at = "idle"
  BY <1>1 DEF PageOK, ClientOK, LogoutOK
<1>3. commands' \in Seq(Command) /\ QueueOrdered(commands, stops)'
  <2>1. commands \in Seq(Command) /\ QueueOrdered(commands, stops)
    BY DEF PageOK, PageTypes
  <2> QED
    BY <1>1, <1>2, <2>1, StartAdded
<1>4. PageTypes' /\ ClientOK'
  BY <1>1, <1>2, <1>3 DEF PageOK, PageTypes, ClientOK
<1>5. SlotOK' /\ StopsOK'
  BY <1>1 DEF PageOK, SlotOK, StopsOK
<1>6. LogoutOK' /\ ExpireOK' /\ SignedOutOK'
  BY <1>1, <1>2 DEF PageOK, LogoutOK, ExpireOK, SignedOutOK, Begun, OnlyOf, NoneAlive
<1> QED
  BY <1>3, <1>4, <1>5, <1>6 DEF PageOK

\* An entry of stops changes; those of the others do not.
LEMMA StopSet ==
  ASSUME SidecarInv, NEW s \in Stop, NEW v, stops' = [stops EXCEPT ![s] = v]
  PROVE  stops'[s] = v /\ \A r \in Stop : r # s => stops'[r] = stops[r]
BY DEF SidecarInv, SidecarTypes

LEMMA StopBeginsOK == ASSUME SidecarInv, PageOK, NEW s \in Stop, StopBegins(s) PROVE PageOK'
<1>1. /\ lock = Free /\ commands # <<>> /\ Head(commands) = <<"stop", s>> /\ commands' = Tail(commands)
      /\ UNCHANGED <<account, bundle, client, logout, expire, lock, proc, reader>>
  BY DEF StopBegins, Takes, pageVars
<1>2. /\ commands' \in Seq(Command) /\ QueueOrdered(commands', stops)
      /\ NoStart(commands) => NoStart(commands')
      /\ stops[s].at = "queued" /\ \A i \in 1..Len(commands') : commands'[i] # <<"stop", s>>
      /\ s = "logout" => NoStart(commands')
  <2>1. commands \in Seq(Command) /\ QueueOrdered(commands, stops)
    BY DEF PageOK, PageTypes
  <2> QED
    BY <1>1, <2>1, CommandTaken
<1>3. stops[s].gen = None
  BY <1>2 DEF PageOK, StopsOK
<1>4. /\ \A r \in Stop : r # s => stops'[r] = stops[r]
      /\ stops'[s].gen = child.gen /\ child'.gen = child.gen
      /\ child.gen = None => stops'[s].at = "ok"
      /\ child.gen # None => stops'[s].at \in {"graceful", "kill"}
  <2>1. CASE child.gen = None
    <3>1. stops' = [stops EXCEPT ![s].at = "ok"] /\ child' = child
      BY <2>1 DEF StopBegins, At
    <3>2. stops' = [stops EXCEPT ![s] = [stops[s] EXCEPT !.at = "ok"]] /\ stops[s] \in StopTypes
      BY <3>1 DEF SidecarInv, SidecarTypes
    <3>3. stops'[s] = [stops[s] EXCEPT !.at = "ok"] /\ \A r \in Stop : r # s => stops'[r] = stops[r]
      BY <3>2, StopSet
    <3>4. stops'[s].at = "ok" /\ stops'[s].gen = None
      BY <1>3, <3>2, <3>3 DEF StopTypes
    <3> QED
      BY <2>1, <3>1, <3>3, <3>4
  <2>2. CASE child.gen # None
    <3>1. PICK written \in BOOLEAN :
            stops' = [stops EXCEPT ![s] = [at |-> IF written THEN "graceful" ELSE "kill",
                                           gen |-> child.gen, late |-> reader[child.gen] # "reading"]]
      BY <2>2 DEF StopBegins
    <3>2. child' = [child EXCEPT !.stopping = TRUE]
      BY <2>2 DEF StopBegins
    <3>3. child'.gen = child.gen
      BY <3>2 DEF SidecarInv, SidecarTypes
    <3> DEFINE q == [at |-> IF written THEN "graceful" ELSE "kill",
                     gen |-> child.gen, late |-> reader[child.gen] # "reading"]
    <3>4. q.gen = child.gen /\ q.at \in {"graceful", "kill"}
      OBVIOUS
    <3>5. stops' = [stops EXCEPT ![s] = q]
      BY <3>1
    <3> HIDE DEF q
    <3>6. stops'[s] = q /\ \A r \in Stop : r # s => stops'[r] = stops[r]
      BY <3>5, StopSet
    <3> QED
      BY <2>2, <3>3, <3>4, <3>6
  <2> QED
    BY <2>1, <2>2
<1>5. QueueOrdered(commands, stops)'
  BY <1>2, <1>4 DEF QueueOrdered
<1>6. PageTypes' /\ ClientOK'
  BY <1>1, <1>2 DEF PageOK, PageTypes, ClientOK
<1>7. SlotOK'
  BY <1>1, <1>4 DEF PageOK, SlotOK
<1>8. StopsOK'
  BY <1>1, <1>4 DEF PageOK, StopsOK
<1>9. OnlyOf(s)' /\ lock.at = "free"
  BY <1>1, <1>4 DEF PageOK, SlotOK, OnlyOf, Free
<1>10. LogoutOK'
  <2>1. Begun("logout")' => NoStart(commands)' /\ OnlyOf("logout")'
    <3>1. CASE s = "logout"
      BY <1>2, <1>9, <3>1
    <3>2. CASE s # "logout"
      BY <1>1, <1>2, <1>4, <3>2, StopNames DEF PageOK, LogoutOK, Begun, OnlyOf
    <3> QED
      BY <3>1, <3>2
  <2> QED
    BY <1>1, <1>2, <1>4, <1>9, <2>1, StopNames DEF PageOK, LogoutOK, NoneAlive
<1>11. ExpireOK'
  <2>1. Begun("expire")' /\ ~expire.cancelled => OnlyOf("expire")'
    <3>1. CASE s = "expire"
      BY <1>9, <3>1
    <3>2. CASE s # "expire"
      BY <1>1, <1>4, <3>2, StopNames DEF PageOK, ExpireOK, Begun, OnlyOf
    <3> QED
      BY <3>1, <3>2
  <2> QED
    BY <1>1, <1>2, <1>4, <1>9, <2>1, StopNames DEF PageOK, ExpireOK, NoneAlive
<1>12. SignedOutOK'
  BY <1>1 DEF PageOK, SignedOutOK, NoneAlive
<1> QED
  BY <1>5, <1>6, <1>7, <1>8, <1>10, <1>11, <1>12 DEF PageOK


\* A stop that has begun goes on to its next wait.
LEMMA StopGoesOn ==
  ASSUME SidecarInv, PageOK, NEW s \in Stop, NEW at \in {"kill", "confirm", "relay", "ok", "err"},
         At(s, at), Begun(s),
         at \in {"kill", "confirm", "relay"} => stops[s].gen # None,
         at = "relay" => reader[stops[s].gen] # "reading",
         at = "ok" /\ stops[s].gen # None => reader[stops[s].gen] = "done",
         UNCHANGED <<pageVars, commands, lock, child, reader>>,
         \A g \in Gen : (proc'[g] = "alive" => proc[g] = "alive") /\ (proc'[g] = "none" <=> proc[g] = "none")
  PROVE  PageOK'
<1>1. UNCHANGED <<account, bundle, client, logout, expire>>
  BY DEF pageVars
<1>2. /\ \A r \in Stop : r # s => stops'[r] = stops[r]
      /\ stops'[s].at = at /\ stops'[s].gen = stops[s].gen
  <2> DEFINE q == [stops[s] EXCEPT !.at = at]
  <2>1. stops[s] \in StopTypes /\ stops' = [stops EXCEPT ![s] = q]
    BY DEF At, SidecarInv, SidecarTypes
  <2>2. q.at = at /\ q.gen = stops[s].gen
    BY <2>1 DEF StopTypes
  <2> HIDE DEF q
  <2>3. stops'[s] = q /\ \A r \in Stop : r # s => stops'[r] = stops[r]
    BY <2>1, StopSet
  <2> QED
    BY <2>2, <2>3
<1>3. Begun(s)'
  BY <1>2 DEF Begun
<1>4. PageTypes' /\ ClientOK'
  BY <1>1 DEF PageOK, PageTypes, ClientOK
<1>5. SlotOK'
  BY DEF PageOK, SlotOK
<1>6. QueueOrdered(commands, stops)'
  <2>1. \A i \in 1..Len(commands) : commands[i] # <<"stop", s>>
    BY DEF PageOK, QueueOrdered, Begun
  <2> QED
    BY <1>2, <2>1 DEF PageOK, QueueOrdered
<1>7. StopsOK'
  BY <1>2 DEF PageOK, StopsOK
<1>8. \A r \in Stop : (Begun(r)' <=> Begun(r)) /\ (OnlyOf(r) => OnlyOf(r)') /\ (stops'[r].at = "idle" <=> stops[r].at = "idle")
  BY <1>2, <1>3 DEF Begun, OnlyOf
<1>9. NoneAlive => NoneAlive'
  BY DEF NoneAlive
<1>10. LogoutOK'
  BY <1>1, <1>8, <1>9, StopNames DEF PageOK, LogoutOK
<1>11. ExpireOK' /\ SignedOutOK'
  BY <1>1, <1>8, <1>9, StopNames DEF PageOK, ExpireOK, SignedOutOK
<1> QED
  BY <1>4, <1>5, <1>6, <1>7, <1>10, <1>11 DEF PageOK

LEMMA StopMovesOK ==
  ASSUME SidecarInv, PageOK, NEW s \in Stop,
         Confirmed(s) \/ TimesOut(s) \/ Kills(s, TRUE) \/ Kills(s, FALSE) PROVE PageOK'
<1>1. CASE Confirmed(s)
  <2>1. UNCHANGED <<pageVars, commands, lock, child, proc, reader>>
    BY <1>1 DEF Confirmed
  <2>2. CASE stops[s].at \in {"graceful", "confirm"}
    <3>1. At(s, "relay") /\ reader[stops[s].gen] # "reading" /\ stops[s].gen # None
      BY <1>1, <2>2 DEF Confirmed, TerminationObserved, PageOK, StopsOK
    <3> QED
      BY <2>1, <2>2, <3>1, StopGoesOn DEF Begun
  <2>3. CASE stops[s].at \notin {"graceful", "confirm"}
    <3>1. At(s, "ok") /\ reader[stops[s].gen] = "done" /\ stops[s].at = "relay"
      BY <1>1, <2>3 DEF Confirmed, ShutdownCompleted
    <3> QED
      BY <2>1, <3>1, StopGoesOn DEF Begun
  <2> QED
    BY <2>2, <2>3
<1>2. CASE TimesOut(s)
  <2>1. UNCHANGED <<pageVars, commands, lock, child, proc, reader>>
    BY <1>2 DEF TimesOut
  <2>2. /\ stops[s].at \in {"graceful", "confirm", "relay"}
        /\ \/ At(s, "kill") /\ stops[s].gen # None
           \/ At(s, "err")
    BY <1>2 DEF TimesOut, PageOK, StopsOK
  <2> QED
    BY <2>1, <2>2, StopGoesOn DEF Begun
<1>3. CASE Kills(s, TRUE) \/ Kills(s, FALSE)
  <2>1. /\ stops[s].at = "kill" /\ At(s, "confirm") /\ UNCHANGED <<pageVars, commands, lock, child, reader>>
        /\ \/ proc[stops[s].gen] = "alive" /\ proc' = [proc EXCEPT ![stops[s].gen] = "exited"]
           \/ proc' = proc
    BY <1>3 DEF Kills
  <2>2. \A g \in Gen : (proc'[g] = "alive" => proc[g] = "alive") /\ (proc'[g] = "none" <=> proc[g] = "none")
    BY <2>1 DEF SidecarInv, SidecarTypes
  <2>3. stops[s].gen # None
    BY <2>1 DEF PageOK, StopsOK
  <2> QED
    BY <2>1, <2>2, <2>3, StopGoesOn DEF Begun
<1> QED
  BY <1>1, <1>2, <1>3

\* What the page does to its stops: it orders some and forgets some.
LEMMA OrdersOK ==
  ASSUME SidecarInv, PageOK, \A r \in Stop : stops'[r] \in {stops[r], NewStop, NoStop},
         UNCHANGED <<lock, child, proc, reader>>
  PROVE  SlotOK' /\ StopsOK'
<1>1. NewStop.at = "queued" /\ NewStop.gen = None /\ NoStop.at = "idle" /\ NoStop.gen = None
  BY DEF NewStop, NoStop
<1>2. StopsOK'
  <2> SUFFICES ASSUME NEW r \in Stop
               PROVE  /\ stops'[r].at \in {"idle", "queued"} => stops'[r].gen = None
                      /\ stops'[r].at \in {"graceful", "kill", "confirm"} => stops'[r].gen # None
                      /\ stops'[r].at = "relay" => stops'[r].gen # None /\ reader'[stops'[r].gen] # "reading"
                      /\ stops'[r].at = "ok" /\ stops'[r].gen # None => reader'[stops'[r].gen] = "done"
    BY DEF StopsOK
  <2>1. CASE stops'[r] = stops[r]
    BY <2>1 DEF PageOK, StopsOK
  <2>2. CASE stops'[r] = NewStop \/ stops'[r] = NoStop
    BY <1>1, <2>2
  <2> QED
    BY <2>1, <2>2
<1>3. SlotOK'
  BY DEF PageOK, SlotOK
<1> QED
  BY <1>2, <1>3

LEMMA QueuedIs ==
  ASSUME SidecarInv, NEW ss
  PROVE  \A r \in Stop : Queued(ss)[r] = IF r \in ss THEN NewStop ELSE stops[r]
BY DEF Queued

LEMMA IgnoredOK == ASSUME SidecarInv, PageOK, NEW f \in Float, Ignored(f) PROVE PageOK'
<1>1. /\ stops[f].at \in {"ok", "err"} /\ stops' = [stops EXCEPT ![f] = NoStop]
      /\ UNCHANGED <<commands, lock, child, proc, reader>>
      /\ UNCHANGED <<account, bundle, client, logout, expire>>
  BY DEF Ignored, pageVars
<1>2. stops'[f] = NoStop /\ \A r \in Stop : r # f => stops'[r] = stops[r]
  BY <1>1, StopSet, StopNames
<1>3. stops'["logout"] = stops["logout"] /\ stops'["expire"] = stops["expire"]
  BY <1>2, StopNames
<1>4. SlotOK' /\ StopsOK'
  BY <1>1, <1>2, OrdersOK
<1>5. PageTypes' /\ ClientOK'
  BY <1>1 DEF PageOK, PageTypes, ClientOK
<1>6. QueueOrdered(commands, stops)'
  <2>1. \A i \in 1..Len(commands) : commands[i] # <<"stop", f>>
    BY <1>1, StopNames DEF PageOK, QueueOrdered
  <2> QED
    BY <1>1, <1>2, <2>1 DEF PageOK, QueueOrdered
<1>7. LogoutOK' /\ ExpireOK' /\ SignedOutOK'
  BY <1>1, <1>3 DEF PageOK, LogoutOK, ExpireOK, SignedOutOK, NoStart, Begun, OnlyOf, NoneAlive
<1> QED
  BY <1>4, <1>5, <1>6, <1>7 DEF PageOK

\* One stop is appended, another may be forgotten.
LEMMA StopOrdered ==
  ASSUME SidecarInv, PageOK, NEW s \in Stop, stops[s].at = "idle",
         commands' = Append(commands, <<"stop", s>>),
         NEW o \in Stop, o # s, stops[o].at # "queued",
         stops' \in {Queued({s}), [Queued({s}) EXCEPT ![o] = NoStop]}
  PROVE  /\ commands' \in Seq(Command) /\ QueueOrdered(commands, stops)'
         /\ NoStart(commands) => NoStart(commands)'
         /\ stops'[s] = NewStop
         /\ \A r \in Stop : r \notin {s, o} => stops'[r] = stops[r]
         /\ stops' = Queued({s}) => stops'[o] = stops[o]
         /\ stops' # Queued({s}) => stops'[o] = NoStop
<1>1. commands \in Seq(Command) /\ QueueOrdered(commands, stops)
  BY DEF PageOK, PageTypes
<1>2. /\ \A r \in Stop : r \notin {s, o} => stops'[r] = stops[r]
      /\ stops'[s] = NewStop
      /\ stops' = Queued({s}) => stops'[o] = stops[o]
      /\ stops' # Queued({s}) => stops'[o] = NoStop
  <2>1. CASE stops' = Queued({s})
    BY <2>1, QueuedIs
  <2>2. CASE stops' # Queued({s})
    <3>1. stops' = [Queued({s}) EXCEPT ![o] = NoStop]
      BY <2>2
    <3>2. Queued({s}) = [r \in Stop |-> IF r \in {s} THEN NewStop ELSE stops[r]]
      BY DEF Queued
    <3>3. stops' = [r \in Stop |-> IF r = o THEN NoStop ELSE IF r \in {s} THEN NewStop ELSE stops[r]]
      BY <3>1, <3>2
    <3> QED
      BY <2>2, <3>3
  <2> QED
    BY <2>1, <2>2
<1>3. NewStop.at = "queued"
  BY DEF NewStop
<1> DEFINE st2 == [r \in Stop |-> IF r = s THEN NewStop ELSE stops[r]]
<1>4. st2[s] = NewStop /\ st2[s].at = "queued" /\ \A r \in Stop : r # s => st2[r] = stops[r]
  BY <1>3
<1> HIDE DEF st2
<1>5. /\ QueueOrdered(commands', st2) /\ commands' \in Seq(Command)
      /\ NoStart(commands) => NoStart(commands')
  <2> DEFINE q == commands
  <2>1. q \in Seq(Command) /\ QueueOrdered(q, stops) /\ stops[s].at # "queued"
    BY <1>1
  <2>2. commands' = Append(q, <<"stop", s>>)
    OBVIOUS
  <2> HIDE DEF q
  <2>3. /\ QueueOrdered(Append(q, <<"stop", s>>), st2) /\ Append(q, <<"stop", s>>) \in Seq(Command)
        /\ NoStart(q) => NoStart(Append(q, <<"stop", s>>))
    BY <1>4, <2>1, StopAdded
  <2> QED
    BY <2>2, <2>3 DEF q
<1>6. QueueOrdered(commands', stops')
  <2>1. \A i \in 1..Len(commands') : commands'[i] # <<"stop", o>>
    BY <1>4, <1>5 DEF QueueOrdered
  <2>2. \A r \in Stop : r # o => stops'[r] = st2[r]
    BY <1>2, <1>4
  <2> QED
    BY <1>5, <2>1, <2>2 DEF QueueOrdered
<1> QED
  BY <1>2, <1>5, <1>6


LEMMA ConnectFailsOK == ASSUME SidecarInv, PageOK, NEW f \in Float, ConnectFails(f) PROVE PageOK'
<1>1. /\ account = "signed_in" /\ client.at \in {"failed", "started"} /\ stops[f].at = "idle"
      /\ commands' = Append(commands, <<"stop", f>>) /\ stops' = Queued({f})
      /\ client' = [client EXCEPT !.disposed = TRUE]
      /\ UNCHANGED <<account, bundle, logout, expire, lock, child, proc, reader>>
  <2>1. commands \o <<>> \o <<<<"stop", f>> >> = Append(commands, <<"stop", f>>)
    BY DEF PageOK, PageTypes
  <2> QED
    BY <2>1 DEF ConnectFails, Dispose
<1>2. logout = "idle" /\ stops["logout"].at = "idle"
  BY <1>1 DEF PageOK, LogoutOK
<1>3. /\ commands' \in Seq(Command) /\ QueueOrdered(commands, stops)'
      /\ stops'[f] = NewStop /\ \A r \in Stop : r # f => stops'[r] = stops[r]
  <2>1. f \in Stop /\ "logout" \in Stop /\ "logout" # f
    BY StopNames
  <2>2. /\ commands' \in Seq(Command) /\ QueueOrdered(commands, stops)' /\ stops'[f] = NewStop
        /\ \A r \in Stop : r \notin {f, "logout"} => stops'[r] = stops[r]
        /\ stops'["logout"] = stops["logout"]
    BY <1>1, <1>2, <2>1, StopOrdered
  <2> QED
    BY <2>2
<1>4. SlotOK' /\ StopsOK'
  BY <1>1, <1>3, OrdersOK
<1>5. PageTypes' /\ ClientOK'
  <2>1. /\ client \in ClientTypes /\ client' \in ClientTypes
        /\ client'.at = client.at /\ client'.id = client.id /\ client'.disposed
    BY <1>1 DEF PageOK, PageTypes, ClientTypes
  <2>2. PageTypes'
    BY <1>1, <1>3, <2>1 DEF PageOK, PageTypes
  <2>3. ClientOK'
    BY <1>1, <2>1 DEF PageOK, ClientOK
  <2> QED
    BY <2>2, <2>3
<1>6. stops'["logout"] = stops["logout"] /\ stops'["expire"] = stops["expire"]
  BY <1>3, StopNames
<1>7. LogoutOK' /\ ExpireOK' /\ SignedOutOK'
  BY <1>1, <1>2, <1>6 DEF PageOK, LogoutOK, ExpireOK, SignedOutOK, Begun, OnlyOf, NoneAlive
<1> QED
  BY <1>3, <1>4, <1>5, <1>7 DEF PageOK

LEMMA ExpireStartsOK == ASSUME SidecarInv, PageOK, Expire PROVE PageOK'
<1>1. /\ account = "signed_in" /\ bundle # "valid" /\ expire.at = "idle"
      /\ expire' = [at |-> "stop", cancelled |-> FALSE]
      /\ commands' = Append(commands, <<"stop", "expire">>) /\ stops' = Queued({"expire"})
      /\ UNCHANGED <<account, bundle, client, logout, lock, child, proc, reader>>
  BY DEF Expire
<1>2. logout = "idle" /\ stops["logout"].at = "idle" /\ stops["expire"].at = "idle"
  BY <1>1 DEF PageOK, LogoutOK, ExpireOK
<1>3. /\ commands' \in Seq(Command) /\ QueueOrdered(commands, stops)'
      /\ stops'["expire"] = NewStop /\ \A r \in Stop : r # "expire" => stops'[r] = stops[r]
  BY <1>1, <1>2, StopNames, StopOrdered
<1>4. SlotOK' /\ StopsOK'
  BY <1>1, <1>3, OrdersOK
<1>5. PageTypes' /\ ClientOK'
  BY <1>1, <1>3 DEF PageOK, PageTypes, ClientOK
<1>6. stops'["logout"] = stops["logout"] /\ stops'["expire"].at = "queued"
  BY <1>3, StopNames DEF NewStop
<1>7. LogoutOK' /\ ExpireOK' /\ SignedOutOK'
  BY <1>1, <1>2, <1>6 DEF PageOK, LogoutOK, ExpireOK, SignedOutOK, Begun, OnlyOf, NoneAlive
<1> QED
  BY <1>3, <1>4, <1>5, <1>7 DEF PageOK

LEMMA LogoutBeginsOK == ASSUME SidecarInv, PageOK, NEW f \in Float, Logout(f) PROVE PageOK'
<1>1. /\ logout = "idle" /\ account \in {"signed_in", "stopped"}
      /\ logout' = "stop" /\ account' = "stopped" /\ stops["logout"].at = "idle"
      /\ expire' = [expire EXCEPT !.cancelled = expire.at # "idle"]
      /\ UNCHANGED <<bundle, lock, child, proc, reader>>
  BY DEF Logout
<1>2. /\ commands' \in Seq(Command) /\ QueueOrdered(commands, stops)' /\ client' \in ClientTypes
      /\ client'.disposed /\ client'.at = client.at /\ client'.id = client.id
      /\ stops'["logout"] = NewStop /\ \A r \in Stop : stops'[r] \in {stops[r], NewStop}
      /\ stops'["expire"] = stops["expire"]
  <2>1. client \in ClientTypes /\ commands \in Seq(Command)
    BY DEF PageOK, PageTypes, ClientTypes
  <2>2. CASE account = "signed_in"
    <3> DEFINE q == Append(commands, <<"stop", "logout">>)
               st == Queued({"logout"})
    <3>1. /\ client' = [client EXCEPT !.disposed = TRUE] /\ stops[f].at = "idle"
          /\ commands' = Append(q, <<"stop", f>>) /\ stops' = Queued({"logout", f})
      <4>1. commands \o <<<<"stop", "logout">> >> \o <<<<"stop", f>> >>
             = Append(Append(commands, <<"stop", "logout">>), <<"stop", f>>)
        BY <2>1
      <4> QED
        BY <2>2, <4>1 DEF Logout, Dispose
    <3>2. /\ \A r \in Stop : st[r] = IF r = "logout" THEN NewStop ELSE stops[r]
          /\ \A r \in Stop : stops'[r] = IF r \in {"logout", f} THEN NewStop ELSE stops[r]
      BY <3>1, QueuedIs
    <3> HIDE DEF st
    <3>3. NewStop.at = "queued"
      BY DEF NewStop
    <3>4. QueueOrdered(commands, stops) /\ "logout" \in Stop /\ f \in Stop /\ f # "logout" /\ f # "expire"
      BY StopNames DEF PageOK
    <3>5. q \in Seq(Command) /\ QueueOrdered(q, st)
      BY <1>1, <2>1, <3>2, <3>3, <3>4, StopAdded
    <3> HIDE DEF q
    <3>6. st[f].at # "queued" /\ stops'[f].at = "queued" /\ \A r \in Stop : r # f => stops'[r] = st[r]
      BY <3>1, <3>2, <3>3, <3>4
    <3>7. Append(q, <<"stop", f>>) \in Seq(Command) /\ QueueOrdered(Append(q, <<"stop", f>>), stops')
      BY <3>4, <3>5, <3>6, StopAdded
    <3>8. client' \in ClientTypes /\ client'.disposed /\ client'.at = client.at /\ client'.id = client.id
      BY <2>1, <3>1 DEF ClientTypes
    <3> QED
      BY <3>1, <3>2, <3>4, <3>7, <3>8, StopNames
  <2>3. CASE account # "signed_in"
    <3>1. commands' = Append(commands, <<"stop", "logout">>) /\ stops' = Queued({"logout"}) /\ UNCHANGED client
      BY <2>3 DEF Logout
    <3>2. client.disposed
      BY <1>1, <2>3 DEF PageOK, ClientOK
    <3>3. \A r \in Stop : stops'[r] = IF r = "logout" THEN NewStop ELSE stops[r]
      BY <3>1, QueuedIs
    <3>4. NewStop.at = "queued" /\ QueueOrdered(commands, stops)
      BY DEF NewStop, PageOK
    <3>5. commands' \in Seq(Command) /\ QueueOrdered(commands', stops')
      BY <1>1, <2>1, <3>1, <3>3, <3>4, StopNames, StopAdded
    <3> QED
      BY <2>1, <3>1, <3>2, <3>3, <3>5, StopNames
  <2> QED
    BY <2>2, <2>3
<1>3. SlotOK' /\ StopsOK'
  BY <1>1, <1>2, OrdersOK
<1>4. PageTypes' /\ ClientOK'
  BY <1>1, <1>2 DEF PageOK, PageTypes, ClientOK, ClientTypes
<1>5. stops'["logout"].at = "queued"
  BY <1>2 DEF NewStop
<1>6. expire'.at = expire.at /\ (expire'.cancelled <=> expire.at # "idle")
  BY <1>1 DEF PageOK, PageTypes
<1>7. LogoutOK'
  BY <1>1, <1>5 DEF LogoutOK, Begun
<1>8. ExpireOK' /\ SignedOutOK'
  BY <1>1, <1>2, <1>6 DEF PageOK, ExpireOK, SignedOutOK, Begun, OnlyOf, NoneAlive
<1> QED
  BY <1>2, <1>3, <1>4, <1>7, <1>8 DEF PageOK


\* A stop that succeeded leaves nothing alive, if only its runtime was.
LEMMA SucceededAlone ==
  ASSUME SidecarInv, PageOK, NEW s \in Stop, stops[s].at = "ok", OnlyOf(s) PROVE NoneAlive
<1> SUFFICES ASSUME NEW g \in Gen, proc[g] = "alive" PROVE FALSE
  BY DEF NoneAlive
<1>1. stops[s].gen = g /\ reader[g] = "reading" /\ g # None
  BY NoneIsNoGen DEF OnlyOf, PageOK, SlotOK
<1> QED
  BY <1>1 DEF PageOK, StopsOK

LEMMA QueuedForgets ==
  ASSUME SidecarInv, NEW ss, NEW o \in Stop,
         stops' \in {[Queued(ss) EXCEPT ![o] = NoStop], [stops EXCEPT ![o] = NoStop]}
  PROVE  stops'[o] = NoStop
<1>1. Queued(ss) = [r \in Stop |-> IF r \in ss THEN NewStop ELSE stops[r]]
  BY DEF Queued
<1>2. stops = [r \in Stop |-> stops[r]]
  BY DEF SidecarInv, SidecarTypes
<1> QED
  BY <1>1, <1>2

LEMMA LogoutStoppedOK == ASSUME SidecarInv, PageOK, NEW f \in Float, LogoutStopped(f) PROVE PageOK'
<1>1. logout = "stop" /\ UNCHANGED <<account, bundle, expire, lock, child, proc, reader>> /\ account = "stopped"
  BY DEF LogoutStopped, PageOK, LogoutOK
<1>2. commands \in Seq(Command) /\ client \in ClientTypes
  BY DEF PageOK, PageTypes, ClientTypes
<1>3. CASE stops["logout"].at = "ok"
  <2>1. /\ logout' = "revoke" /\ stops[f].at = "idle" /\ client' = [client EXCEPT !.disposed = TRUE]
        /\ commands' = Append(commands, <<"stop", f>>)
        /\ stops' = [Queued({f}) EXCEPT !["logout"] = NoStop]
    <3>1. commands \o <<>> \o <<<<"stop", f>> >> = Append(commands, <<"stop", f>>)
      BY <1>2
    <3> QED
      BY <1>3, <3>1 DEF LogoutStopped, Dispose
  <2>2. /\ commands' \in Seq(Command) /\ QueueOrdered(commands, stops)'
        /\ NoStart(commands) => NoStart(commands)'
        /\ stops'[f] = NewStop /\ \A r \in Stop : r \notin {f, "logout"} => stops'[r] = stops[r]
    BY <1>3, <2>1, StopNames, StopOrdered
  <2>3. stops'["logout"] = NoStop /\ NoStop.at = "idle"
    BY <2>1, StopNames, QueuedForgets DEF NoStop
  <2>4. NoStart(commands) /\ lock.at = "free" /\ OnlyOf("logout") /\ NoneAlive
    <3>1. NoStart(commands) /\ lock.at = "free" /\ OnlyOf("logout")
      BY <1>3 DEF PageOK, LogoutOK, Begun
    <3> QED
      BY <1>3, <3>1, StopNames, SucceededAlone
  <2>5. SlotOK' /\ StopsOK'
    BY <1>1, <2>2, <2>3, OrdersOK
  <2>6. PageTypes' /\ ClientOK'
    BY <1>1, <2>1, <2>2 DEF PageOK, PageTypes, ClientOK
  <2>7. stops'["expire"] = stops["expire"]
    BY <2>2, StopNames
  <2>8. LogoutOK'
    BY <1>1, <2>1, <2>2, <2>3, <2>4 DEF LogoutOK, Begun, NoneAlive
  <2>9. ExpireOK' /\ SignedOutOK'
    BY <1>1, <2>7 DEF PageOK, ExpireOK, SignedOutOK, Begun, OnlyOf, NoneAlive
  <2> QED
    BY <2>2, <2>5, <2>6, <2>8, <2>9 DEF PageOK
<1>4. CASE stops["logout"].at # "ok"
  <2>1. /\ logout' = "idle" /\ stops["logout"].at = "err" /\ UNCHANGED <<client, commands>>
        /\ stops' = [stops EXCEPT !["logout"] = NoStop]
    BY <1>4 DEF LogoutStopped
  <2>2. stops'["logout"] = NoStop /\ NoStop.at = "idle" /\ \A r \in Stop : r # "logout" => stops'[r] = stops[r]
    BY <2>1, StopNames, StopSet DEF NoStop
  <2>3. QueueOrdered(commands, stops)'
    <3>1. \A i \in 1..Len(commands) : commands[i] # <<"stop", "logout">>
      BY <2>1, StopNames DEF PageOK, QueueOrdered
    <3> QED
      BY <2>1, <2>2, <3>1 DEF PageOK, QueueOrdered
  <2>4. SlotOK' /\ StopsOK'
    BY <1>1, <2>2, OrdersOK
  <2>5. PageTypes' /\ ClientOK'
    BY <1>1, <2>1 DEF PageOK, PageTypes, ClientOK
  <2>6. stops'["expire"] = stops["expire"]
    BY <2>2, StopNames
  <2>7. LogoutOK' /\ ExpireOK' /\ SignedOutOK'
    BY <1>1, <2>1, <2>2, <2>6 DEF PageOK, LogoutOK, ExpireOK, SignedOutOK, Begun, OnlyOf, NoneAlive
  <2> QED
    BY <2>3, <2>4, <2>5, <2>7 DEF PageOK
<1> QED
  BY <1>3, <1>4

\* Where expireSession is after its stop, by whether it was cancelled.
LEMMA ExpireStoppedOK == ASSUME SidecarInv, PageOK, NEW f \in Float, ExpireStopped(f) PROVE PageOK'
<1>1. /\ expire.at = "stop" /\ stops["expire"].at \in {"ok", "err"}
      /\ expire' = IF stops["expire"].at = "ok" THEN [expire EXCEPT !.at = "clear"] ELSE NoExpire
      /\ account' = IF stops["expire"].at = "err" /\ ~expire.cancelled THEN "stopped" ELSE account
      /\ UNCHANGED <<bundle, logout, lock, child, proc, reader>>
      /\ expire \in [at : {"idle", "stop", "clear"}, cancelled : BOOLEAN]
  BY DEF ExpireStopped, PageOK, PageTypes
<1>2. ~expire.cancelled => account = "signed_in" /\ bundle # "valid" /\ logout = "idle"
                           /\ lock.at # "provision" /\ OnlyOf("expire")
  BY <1>1 DEF PageOK, LogoutOK, ExpireOK, Begun
<1>3. client \in ClientTypes /\ commands \in Seq(Command)
  BY DEF PageOK, PageTypes, ClientTypes
<1>4. CASE stops["expire"].at = "err" /\ expire.cancelled
  <2>1. /\ UNCHANGED <<client, commands, account>> /\ expire' = NoExpire
        /\ stops' = [stops EXCEPT !["expire"] = NoStop]
    BY <1>1, <1>4 DEF ExpireStopped
  <2>2. stops'["expire"] = NoStop /\ NoStop.at = "idle" /\ \A r \in Stop : r # "expire" => stops'[r] = stops[r]
    BY <2>1, StopNames, StopSet DEF NoStop
  <2>3. QueueOrdered(commands, stops)'
    <3>1. \A i \in 1..Len(commands) : commands[i] # <<"stop", "expire">>
      BY <1>4, StopNames DEF PageOK, QueueOrdered
    <3> QED
      BY <2>1, <2>2, <3>1 DEF PageOK, QueueOrdered
  <2>4. SlotOK' /\ StopsOK'
    BY <1>1, <2>2, OrdersOK
  <2>5. PageTypes' /\ ClientOK'
    BY <1>1, <2>1 DEF PageOK, PageTypes, ClientOK, NoExpire
  <2>6. stops'["logout"] = stops["logout"]
    BY <2>2, StopNames
  <2>7. LogoutOK' /\ ExpireOK' /\ SignedOutOK'
    BY <1>1, <2>1, <2>2, <2>6 DEF PageOK, LogoutOK, ExpireOK, SignedOutOK, Begun, OnlyOf, NoneAlive, NoExpire
  <2> QED
    BY <2>3, <2>4, <2>5, <2>7 DEF PageOK
<1>5. CASE ~(stops["expire"].at = "err" /\ expire.cancelled)
  <2>1. /\ stops[f].at = "idle" /\ commands' = Append(commands, <<"stop", f>>)
        /\ client' = IF expire.cancelled THEN client ELSE [client EXCEPT !.disposed = TRUE]
        /\ stops' = [Queued({f}) EXCEPT !["expire"] = NoStop]
    BY <1>5 DEF ExpireStopped
  <2>2. /\ commands' \in Seq(Command) /\ QueueOrdered(commands, stops)'
        /\ NoStart(commands) => NoStart(commands)'
        /\ stops'[f] = NewStop /\ \A r \in Stop : r \notin {f, "expire"} => stops'[r] = stops[r]
    BY <1>1, <2>1, StopNames, StopOrdered
  <2>3. stops'["expire"] = NoStop /\ NoStop.at = "idle"
    BY <2>1, StopNames, QueuedForgets DEF NoStop
  <2>4. /\ client' \in ClientTypes /\ client'.id = client.id /\ client'.at = client.at
        /\ client.disposed \/ ~expire.cancelled => client'.disposed
    BY <1>1, <1>3, <2>1 DEF ClientTypes
  <2>5. SlotOK' /\ StopsOK'
    BY <1>1, <2>2, <2>3, OrdersOK
  <2>6. /\ expire' \in [at : {"idle", "stop", "clear"}, cancelled : BOOLEAN] /\ expire'.at \in {"idle", "clear"}
        /\ expire'.at = "clear" => expire'.cancelled = expire.cancelled /\ stops["expire"].at = "ok"
        /\ account' # account => account' = "stopped" /\ ~expire.cancelled /\ expire'.at = "idle"
        /\ account' \in {account, "stopped"}
    BY <1>1 DEF NoExpire
  <2>7. PageTypes'
    BY <1>1, <2>2, <2>4, <2>6 DEF PageOK, PageTypes, ClientTypes
  <2>8. ClientOK'
    BY <2>4, <2>6 DEF PageOK, ClientOK
  <2>9. stops'["logout"] = stops["logout"]
    BY <2>2, StopNames
  <2>10. LogoutOK' /\ SignedOutOK'
    BY <1>1, <1>2, <2>2, <2>6, <2>9 DEF PageOK, LogoutOK, SignedOutOK, Begun, OnlyOf, NoneAlive
  <2>11. stops["expire"].at = "ok" /\ ~expire.cancelled => NoneAlive
    BY <1>2, StopNames, SucceededAlone
  <2>12. ExpireOK'
    BY <1>1, <1>2, <2>3, <2>6, <2>11 DEF ExpireOK, Begun, NoneAlive
  <2> QED
    BY <2>2, <2>5, <2>7, <2>8, <2>10, <2>12 DEF PageOK
<1> QED
  BY <1>4, <1>5

LEMMA ExpiredOK ==
  ASSUME SidecarInv, PageOK, NEW f \in Float, Expired(f, TRUE) \/ Expired(f, FALSE) PROVE PageOK'
<1>1. /\ expire.at = "clear" /\ expire' = NoExpire
      /\ bundle' \in {"none", "valid", "expired"} /\ (bundle' = "valid" => bundle = "valid")
      /\ UNCHANGED <<logout, lock, child, proc, reader>>
  BY DEF Expired, PageOK, PageTypes
<1>2. stops["expire"].at = "idle"
  BY <1>1 DEF PageOK, ExpireOK
<1>3. NoExpire.at = "idle" /\ NoExpire \in [at : {"idle", "stop", "clear"}, cancelled : BOOLEAN]
  BY DEF NoExpire
<1>4. CASE expire.cancelled
  <2>1. UNCHANGED <<account, client, commands, stops>>
    BY <1>4 DEF Expired
  <2>2. PageTypes' /\ ClientOK'
    BY <1>1, <1>3, <2>1 DEF PageOK, PageTypes, ClientOK
  <2>3. SlotOK' /\ StopsOK'
    BY <1>1, <2>1 DEF PageOK, SlotOK, StopsOK
  <2>4. QueueOrdered(commands, stops)'
    BY <2>1 DEF PageOK
  <2>5. LogoutOK' /\ ExpireOK' /\ SignedOutOK'
    BY <1>1, <1>2, <1>3, <2>1 DEF PageOK, LogoutOK, ExpireOK, SignedOutOK, Begun, OnlyOf, NoneAlive
  <2> QED
    BY <2>2, <2>3, <2>4, <2>5 DEF PageOK
<1>5. CASE ~expire.cancelled
  <2>1. /\ account' = "signed_out" /\ client' = NewClient(client.id + 1)
        /\ stops[f].at = "idle" /\ commands' = Append(commands, <<"stop", f>>) /\ stops' = Queued({f})
    BY <1>5 DEF Expired
  <2>2. account = "signed_in" /\ bundle # "valid" /\ lock.at # "provision" /\ NoneAlive /\ logout = "idle"
        /\ stops["logout"].at = "idle"
    BY <1>1, <1>5 DEF PageOK, ExpireOK, LogoutOK
  <2>3. /\ commands' \in Seq(Command) /\ QueueOrdered(commands, stops)'
        /\ stops'[f] = NewStop /\ \A r \in Stop : r # f => stops'[r] = stops[r]
    BY <2>1, <2>2, StopNames, StopOrdered
  <2>4. SlotOK' /\ StopsOK'
    BY <1>1, <2>3, OrdersOK
  <2>5. client' \in ClientTypes /\ client'.at = "new"
    BY <2>1 DEF PageOK, PageTypes, NewClient, ClientTypes
  <2>6. PageTypes' /\ ClientOK'
    BY <1>1, <1>3, <2>1, <2>3, <2>5 DEF PageOK, PageTypes, ClientOK, ClientTypes
  <2>7. stops'["logout"] = stops["logout"] /\ stops'["expire"] = stops["expire"]
    BY <2>3, StopNames
  <2>8. LogoutOK' /\ ExpireOK' /\ SignedOutOK'
    BY <1>1, <1>2, <1>3, <2>1, <2>2, <2>7 DEF LogoutOK, ExpireOK, SignedOutOK, Begun, OnlyOf, NoneAlive
  <2> QED
    BY <2>3, <2>4, <2>6, <2>8 DEF PageOK
<1> QED
  BY <1>4, <1>5

LEMMA PageStepOK ==
  ASSUME SidecarInv, PageOK, NativeStep \/ PageStep \/ UserStep, limit.floats \subseteq Float PROVE PageOK'
<1>1. CASE NativeStep
  BY <1>1, StartLoadsOK, StartFailsOK, StartBeginsOK, ReaderMovesOK, StopBeginsOK, StopMovesOK, IgnoredOK
  DEF NativeStep
<1>2. CASE PageStep
  BY <1>2, InvokeStartOK, LogoutStoppedOK, ExpireStoppedOK, ExpiredOK, QuietPageOK DEF PageStep
<1>3. CASE UserStep
  BY <1>3, QuietPageOK, ExpireStartsOK, LogoutBeginsOK, ConnectFailsOK, ReaderMovesOK DEF UserStep
<1> QED
  BY <1>1, <1>2, <1>3


-----------------------------------------------------------------------------
(* The relay's account of the turns of its runtime.                           *)

Flushing == worker.at \in {"flush", "done"}
Waits(t, kind) == \E i \in 1..Len(queue) : queue[i].turn = t /\ queue[i].kind = kind
Waiting(t) == \E i \in 1..Len(queue) : queue[i].turn = t

\* t is a turn of the runtime whose relay this is.
Ours(t) == owner[t] # None /\ Newest(owner[t])

BoundsOK ==
  /\ cancelled \in BOOLEAN /\ owner \in [Turn -> Gen \cup {None}]
  /\ degraded \subseteq told /\ told \subseteq Turn
  /\ Len(queue) <= Capacity /\ worker.try \in 0..2

\* The relay lives as long as its runtime is in the slot, and is cancelled by the
\* end of the process.
Tied ==
  /\ Flushing => cancelled
  /\ cancelled <=> \A g \in Gen : reader[g] # "reading"
  /\ child.gen = None => worker.at = "done"
  /\ child.gen # None => Newest(child.gen)
  /\ \A t \in Turn : said[t] = "terminal" <=> outcome[t] # "none"
  /\ \A t \in Turn : owner[t] # None <=> said[t] # "nothing"
  /\ \A t \in Turn : owner[t] # None => proc[owner[t]] # "none"
  /\ worker.at = "done" => \A t \in Turn : active[t] # "none" => t \in told

\* The events of a turn wait in the order they were sent.
EventsOrdered ==
  \A i, j \in 1..Len(queue) : i < j /\ queue[i].turn = queue[j].turn =>
    queue[i].kind # "terminal" /\ queue[j].kind # "started"

\* What became of the events of t, if all of them were taken so far: its run is
\* held while its end was not received, and closed as it ended when it is no
\* longer held.
AccountOK(t) ==
  /\ (said[t] = "terminal" => Waits(t, "terminal")) /\ ~Waits(t, "started") /\ ~Flushing
       => active[t] = "open" \/ AtStarted(t)
  /\ said[t] # "terminal" /\ ~Waiting(t) /\ Flushing
       => active[t] = "open" \/ (active[t] = "none" /\ cloud[t] = "interrupted")
  /\ said[t] = "terminal" /\ ~Waits(t, "terminal")
       => ~Waiting(t) /\ (active[t] = outcome[t] \/ (active[t] = "none" /\ cloud[t] = outcome[t]))

Accounts == \A t \in Turn : Ours(t) /\ t \notin told => AccountOK(t)

AccountInv == BoundsOK /\ Tied /\ EventsOrdered /\ Accounts

LEMMA AccountInit == Init => AccountInv
<1> SUFFICES ASSUME Init PROVE AccountInv
  OBVIOUS
<1>1. RelayInit /\ SidecarInit /\ owner = [t \in Turn |-> None]
  BY DEF Init
<1>2. worker = [at |-> "done", turn |-> NoTurn, try |-> 0, todo |-> {}] /\ queue = <<>> /\ Len(queue) = 0
  BY <1>1 DEF RelayInit, Awaiting
<1>3. BoundsOK
  BY <1>1, <1>2, CapacityAssumption DEF RelayInit, BoundsOK
<1>4. Tied
  BY <1>1, <1>2 DEF RelayInit, SidecarInit, Tied, NoChild
<1>5. EventsOrdered
  BY <1>2 DEF EventsOrdered
<1>6. Accounts
  BY <1>1 DEF Accounts, Ours
<1> QED
  BY <1>3, <1>4, <1>5, <1>6 DEF AccountInv

LEMMA GenOrder == \A g, h \in Gen : g \in Int /\ h \in Int /\ (g < h \/ h < g \/ g = h)
BY LoginsAssumption DEF Gen

LEMMA LoopGoesOn ==
  ASSUME NEW held
  PROVE  /\ Loop(held).try = 0 /\ Loop(held).turn = NoTurn
         /\ cancelled => Loop(held).at = "flush"
         /\ ~cancelled => Loop(held).at = "recv"
BY DEF Loop, Awaiting

\* The event loop of the runtime stays where it is.
LEMMA SidecarQuiet ==
  ASSUME SidecarInv, PageOK, NativeStep \/ PageStep \/ UserStep, limit.floats \subseteq Float
  PROVE  /\ child'.gen = child.gen
         /\ \A g \in Gen : (reader'[g] = "reading" <=> reader[g] = "reading")
                           /\ (proc'[g] = "none" <=> proc[g] = "none")
<1>1. CASE NativeStep
  <2>1. CASE StartLoads \/ StartFails \/ \E n \in Gen : StartBegins(n)
    BY <2>1 DEF StartLoads, StartFails, StartBegins
  <2>2. ASSUME NEW n \in Gen, Completes(n) \/ Exits(n)
        PROVE  /\ child'.gen = child.gen
               /\ \A g \in Gen : (reader'[g] = "reading" <=> reader[g] = "reading")
                                 /\ (proc'[g] = "none" <=> proc[g] = "none")
    BY <2>2 DEF Completes, Exits, SidecarInv, SidecarTypes
  <2>3. ASSUME NEW s \in Stop, StopBegins(s)
        PROVE  child'.gen = child.gen /\ UNCHANGED <<proc, reader>>
    <3>1. child' \in {child, [child EXCEPT !.stopping = TRUE]} /\ UNCHANGED <<proc, reader>>
      BY <2>3 DEF StopBegins
    <3> QED
      BY <3>1 DEF SidecarInv, SidecarTypes
  <2>4. ASSUME NEW s \in Stop, Confirmed(s) \/ TimesOut(s) \/ Kills(s, TRUE) \/ Kills(s, FALSE)
        PROVE  /\ UNCHANGED <<child, reader>>
               /\ \A g \in Gen : proc'[g] = "none" <=> proc[g] = "none"
    <3>1. UNCHANGED <<child, reader>>
      BY <2>4 DEF Confirmed, TimesOut, Kills
    <3>2. proc' = proc \/ (proc[stops[s].gen] = "alive" /\ proc' = [proc EXCEPT ![stops[s].gen] = "exited"])
      BY <2>4 DEF Confirmed, TimesOut, Kills
    <3> QED
      BY <3>1, <3>2 DEF SidecarInv, SidecarTypes
  <2>5. CASE \E f \in Float : Ignored(f)
    BY <2>5 DEF Ignored
  <2> QED
    BY <1>1, <2>1, <2>2, <2>3, <2>4, <2>5 DEF NativeStep
<1>2. CASE PageStep
  BY <1>2 DEF PageStep, InvokeStart, LogoutStopped, ExpireStopped, Expired, LoggedOut, runtimeVars
<1>3. CASE UserStep
  <2>1. CASE \E g \in Gen : Exits(g)
    BY <2>1 DEF Exits, SidecarInv, SidecarTypes
  <2>2. CASE ~\E g \in Gen : Exits(g)
    BY <1>3, <2>2 DEF UserStep, Login, TimePasses, Expire, Logout, ConnectFails, runtimeVars
  <2> QED
    BY <2>1, <2>2
<1> QED
  BY <1>1, <1>2, <1>3

\* Steps of the sidecar that leave the relay alone.
LEMMA RelayUntouched ==
  ASSUME AccountInv, UNCHANGED <<relayVars, owner>>, child'.gen = child.gen \/ (child'.gen = None /\ worker.at = "done"),
         \A g \in Gen : (reader'[g] = "reading" <=> reader[g] = "reading")
                        /\ (proc'[g] = "none" <=> proc[g] = "none")
  PROVE  AccountInv'
<1>1. UNCHANGED <<said, outcome, queue, cancelled, worker, active, degraded, cloud, told>>
  BY DEF relayVars
<1>2. \A g : Newest(g)' <=> Newest(g)
  BY DEF Newest
<1>3. BoundsOK' /\ EventsOrdered'
  BY <1>1 DEF AccountInv, BoundsOK, EventsOrdered
<1>4. Tied'
  BY <1>1, <1>2 DEF AccountInv, BoundsOK, Tied, Flushing
<1>5. Accounts'
  BY <1>1, <1>2 DEF AccountInv, Accounts, Ours, AccountOK, Waits, Waiting, Flushing, AtStarted
<1> QED
  BY <1>3, <1>4, <1>5 DEF AccountInv


LEMMA AccountSpawn ==
  ASSUME Inv, PageOK, AccountInv, NEW g \in Gen, SpawnWithRelay(g) PROVE AccountInv'
<1>1. /\ lock.at = "provision" /\ child.gen = None /\ child' = [gen |-> g, stopping |-> FALSE]
      /\ proc[g] = "none" /\ \A h \in Gen : h < g => proc[h] # "none"
      /\ proc' = [proc EXCEPT ![g] = "alive"] /\ reader' = [reader EXCEPT ![g] = "reading"]
      /\ queue' = <<>> /\ cancelled' = FALSE /\ worker' = [at |-> "recv", turn |-> NoTurn, try |-> 0, todo |-> {}]
      /\ active' = [t \in Turn |-> "none"] /\ degraded' = {}
      /\ UNCHANGED <<said, outcome, cloud, late, told, owner>>
  BY DEF SpawnWithRelay, Spawn, Fresh, Awaiting, turnVars, PageOK, SlotOK
<1>2. /\ proc \in [Gen -> {"none", "alive", "exited"}] /\ reader \in [Gen -> {"reading", "draining", "cleared", "done"}]
  BY DEF Inv, SidecarInv, SidecarTypes
<1>3. BoundsOK'
  <2>1. Len(queue') = 0 /\ worker'.try = 0
    BY <1>1
  <2>2. Len(queue') <= Capacity /\ worker'.try \in 0..2
    BY <2>1, CapacityAssumption
  <2>3. cancelled' \in BOOLEAN /\ degraded' \subseteq told' /\ told' \subseteq Turn /\ owner' \in [Turn -> Gen \cup {None}]
    BY <1>1 DEF AccountInv, BoundsOK
  <2> QED
    BY <2>2, <2>3 DEF BoundsOK
<1>4. \A h \in Gen : h > g => proc[h] = "none"
  BY <1>1, GenOrder DEF PageOK, SlotOK
<1>5. Newest(g)'
  BY <1>1, <1>2, <1>4, GenOrder DEF Newest
<1>6. ASSUME NEW t \in Turn, owner[t] # None PROVE proc'[owner[t]] # "none" /\ ~Newest(owner[t])'
  <2>1. owner[t] \in Gen /\ proc[owner[t]] # "none"
    BY <1>6 DEF AccountInv, BoundsOK, Tied
  <2>2. owner[t] < g
    BY <1>1, <1>4, <2>1, GenOrder
  <2>3. proc'[g] = "alive" /\ proc'[owner[t]] = proc[owner[t]]
    BY <1>1, <1>2, <2>1, <2>2
  <2> QED
    BY <1>1, <2>1, <2>2, <2>3 DEF Newest
<1>7. Tied'
  <2>1. reader'[g] = "reading" /\ child'.gen = g /\ g # None
    BY <1>1, <1>2, NoneIsNoGen
  <2> QED
    BY <1>1, <1>5, <1>6, <2>1 DEF AccountInv, Tied, Flushing
<1>8. EventsOrdered'
  BY <1>1 DEF EventsOrdered
<1>9. Accounts'
  BY <1>1, <1>6 DEF Accounts, Ours
<1> QED
  BY <1>3, <1>7, <1>8, <1>9 DEF AccountInv

LEMMA AccountCancel ==
  ASSUME Inv, PageOK, AccountInv, NEW g \in Gen, ExitCancelsRelay(g) PROVE AccountInv'
<1>1. /\ reader[g] = "reading" /\ reader' = [reader EXCEPT ![g] = "draining"] /\ UNCHANGED proc
      /\ child' = IF child.gen = g THEN [child EXCEPT !.stopping = TRUE] ELSE child
      /\ cancelled' = TRUE
      /\ UNCHANGED <<said, outcome, queue, worker, active, degraded, cloud, late, told, owner>>
  BY DEF ExitCancelsRelay, SeesExit, Cancel, turnVars, localVars
<1>2. child'.gen = child.gen /\ child.gen = g
  BY <1>1 DEF Inv, SidecarInv, SidecarTypes, PageOK, SlotOK
<1>3. \A h \in Gen : reader'[h] # "reading"
  BY <1>1, <1>2 DEF Inv, SidecarInv, SidecarTypes, PageOK, SlotOK
<1>4. BoundsOK' /\ EventsOrdered'
  BY <1>1 DEF AccountInv, BoundsOK, EventsOrdered
<1>5. \A h : Newest(h)' <=> Newest(h)
  BY <1>1 DEF Newest
<1>6. Tied'
  BY <1>1, <1>2, <1>3, <1>5 DEF AccountInv, Tied, Flushing
<1>7. Accounts'
  BY <1>1, <1>5 DEF AccountInv, Accounts, Ours, AccountOK, Waits, Waiting, Flushing, AtStarted
<1> QED
  BY <1>4, <1>6, <1>7 DEF AccountInv

\* An event of t is sent: it waits, or is reported as not recorded.
LEMMA AccountReads ==
  ASSUME Inv, Inv', PageOK, AccountInv, NEW t \in Turn, NEW kind \in Kinds, Reads(t, kind) PROVE AccountInv'
<1>1. /\ child.gen # None /\ proc[child.gen] = "alive"
      /\ owner[t] \in {None, child.gen} /\ owner' = [owner EXCEPT ![t] = child.gen]
      /\ UNCHANGED <<child, proc, reader>>
      /\ said' = [said EXCEPT ![t] = kind]
      /\ kind = "started" => said[t] = "nothing"
      /\ kind # "started" => said[t] \notin {"nothing", "terminal"}
      /\ UNCHANGED <<cancelled, worker, active, degraded, cloud, late>>
      /\ kind # "terminal" => outcome' = outcome
      /\ kind = "terminal" => \E o \in Outcome : outcome' = [outcome EXCEPT ![t] = o]
      /\ Observe(t, kind)
  BY DEF Reads, Say, Kinds, sidecarVars, runtimeVars
<1>2. /\ child.gen \in Gen /\ owner \in [Turn -> Gen \cup {None}] /\ ~cancelled /\ ~Flushing
      /\ said \in [Turn -> {"nothing"} \cup Kinds] /\ outcome \in [Turn -> Outcome \cup {"none"}]
  <2>1. child.gen \in Gen /\ reader[child.gen] = "reading"
    BY <1>1 DEF Inv, SidecarInv, SidecarTypes, PageOK, SlotOK
  <2> QED
    BY <2>1 DEF AccountInv, BoundsOK, Tied, Inv, RelayInv, RelayTypes
<1>3. /\ \A u \in Turn : u # t => owner'[u] = owner[u] /\ said'[u] = said[u] /\ outcome'[u] = outcome[u]
      /\ owner'[t] = child.gen /\ said'[t] = kind
      /\ kind # "terminal" => outcome'[t] = outcome[t]
      /\ kind = "terminal" => outcome'[t] \in Outcome
  BY <1>1, <1>2
<1>4. \/ queue' = queue /\ told' = told \cup {t}
      \/ /\ Len(queue) < Capacity /\ queue' = Append(queue, [turn |-> t, kind |-> kind]) /\ told' = told
         /\ Len(queue') = Len(queue) + 1 /\ Len(queue) \in Nat
         /\ \A i \in 1..Len(queue) : queue'[i] = queue[i]
         /\ queue'[Len(queue) + 1] = [turn |-> t, kind |-> kind]
  <2>1. queue \in Seq([turn : Turn, kind : Kinds])
    BY DEF Inv, RelayInv, RelayTypes
  <2>2. CASE Len(queue) < Capacity
    <3>1. queue' = Append(queue, [turn |-> t, kind |-> kind]) /\ told' = told
      BY <1>1, <1>2, <2>2 DEF Observe
    <3> QED
      BY <2>1, <2>2, <3>1, AppendProperties, LenProperties
  <2>3. CASE ~(Len(queue) < Capacity)
    BY <1>1, <1>2, <2>3 DEF Observe
  <2> QED
    BY <2>2, <2>3
<1>5. BoundsOK'
  BY <1>1, <1>2, <1>4, CapacityAssumption DEF AccountInv, BoundsOK
<1>6. Tied'
  <2>1. \A g : Newest(g)' <=> Newest(g)
    BY <1>1 DEF Newest
  <2>2. /\ (Flushing => cancelled)' /\ (cancelled <=> \A g \in Gen : reader[g] # "reading")'
        /\ (child.gen = None => worker.at = "done")' /\ (child.gen # None => Newest(child.gen))'
    BY <1>1, <2>1 DEF AccountInv, Tied, Flushing
  <2>3. ASSUME NEW u \in Turn
        PROVE  /\ said'[u] = "terminal" <=> outcome'[u] # "none"
               /\ owner'[u] # None <=> said'[u] # "nothing"
               /\ owner'[u] # None => proc'[owner'[u]] # "none"
    <3>1. /\ said[u] = "terminal" <=> outcome[u] # "none"
          /\ owner[u] # None <=> said[u] # "nothing"
          /\ owner[u] # None => proc[owner[u]] # "none"
      BY DEF AccountInv, Tied
    <3>2. CASE u # t
      BY <1>1, <1>3, <3>1, <3>2
    <3>3. CASE u = t
      BY <1>1, <1>3, <3>1, <3>3 DEF Kinds, Outcome
    <3> QED
      BY <3>2, <3>3
  <2>4. (worker.at = "done" => \A u \in Turn : active[u] # "none" => u \in told)'
    BY <1>1, <1>2 DEF Flushing
  <2> QED
    BY <2>2, <2>3, <2>4 DEF Tied
<1>7. CASE queue' = queue /\ told' = told \cup {t}
  <2>1. EventsOrdered'
    BY <1>7 DEF AccountInv, EventsOrdered
  <2>2. ASSUME NEW u \in Turn, u # t, Ours(u)', u \notin told' PROVE AccountOK(u)'
    <3>1. Ours(u) /\ u \notin told
      BY <1>1, <1>3, <1>7, <2>2 DEF Ours, Newest
    <3> QED
      BY <1>1, <1>3, <1>7, <2>2, <3>1 DEF AccountInv, Accounts, AccountOK, Waits, Waiting, Flushing, AtStarted
  <2> QED
    BY <1>5, <1>6, <1>7, <2>1, <2>2 DEF AccountInv, Accounts
<1>8. CASE /\ Len(queue') = Len(queue) + 1 /\ Len(queue) \in Nat /\ told' = told
           /\ \A i \in 1..Len(queue) : queue'[i] = queue[i]
           /\ queue'[Len(queue) + 1] = [turn |-> t, kind |-> kind]
  <2> DEFINE l == Len(queue)
  <2>1. /\ l \in Nat /\ Len(queue') = l + 1 /\ 1..(l + 1) = 1..l \cup {l + 1}
        /\ queue'[l + 1].turn = t /\ queue'[l + 1].kind = kind
        /\ \A i \in 1..l : queue'[i] = queue[i]
    BY <1>8
  <2>2. ASSUME NEW i \in 1..l, queue[i].turn = t PROVE kind # "started" /\ queue[i].kind # "terminal"
    <3>1. RunOK(t) /\ QueueOK
      BY DEF Inv, RelayInv
    <3>2. said[t] # "nothing"
      BY <2>2, <3>1 DEF RunOK
    <3>3. said[t] # "terminal"
      BY <1>1, <3>2
    <3>4. queue[i].kind # "terminal"
      BY <2>2, <3>1, <3>3 DEF QueueOK
    <3> QED
      BY <1>1, <3>2, <3>4
  <2>3. EventsOrdered'
    <3> SUFFICES ASSUME NEW i \in 1..(l + 1), NEW j \in 1..(l + 1), i < j, queue'[i].turn = queue'[j].turn
                 PROVE  queue'[i].kind # "terminal" /\ queue'[j].kind # "started"
      BY <2>1 DEF EventsOrdered
    <3>1. i \in 1..l
      BY <2>1
    <3>2. CASE j \in 1..l
      BY <2>1, <3>1, <3>2 DEF AccountInv, EventsOrdered
    <3>3. CASE j = l + 1
      BY <2>1, <2>2, <3>1, <3>3
    <3> QED
      BY <2>1, <3>2, <3>3
  <2>4. \A u, k : Waits(u, k)' <=> Waits(u, k) \/ (u = t /\ k = kind)
    BY <2>1 DEF Waits
  <2>5. \A u : Waiting(u)' <=> Waiting(u) \/ u = t
    BY <2>1 DEF Waiting
  <2> HIDE DEF l
  <2>6. ASSUME NEW u \in Turn, u # t, Ours(u)', u \notin told' PROVE AccountOK(u)'
    <3>1. Ours(u) /\ u \notin told
      BY <1>1, <1>3, <1>8, <2>6 DEF Ours, Newest
    <3>2. AccountOK(u)
      BY <3>1 DEF AccountInv, Accounts
    <3>3. /\ Waits(u, "terminal")' <=> Waits(u, "terminal")
          /\ Waits(u, "started")' <=> Waits(u, "started")
          /\ Waiting(u)' <=> Waiting(u)
      BY <2>4, <2>5, <2>6
    <3> QED
      BY <1>1, <1>3, <2>6, <3>2, <3>3 DEF AccountOK, Flushing, AtStarted
  <2>7. ASSUME Ours(t)', t \notin told' PROVE AccountOK(t)'
    <3>1. said'[t] = kind /\ worker' = worker /\ active' = active /\ ~Flushing'
      BY <1>1, <1>2, <1>3 DEF Flushing
    <3>2. Waits(t, kind)' /\ Waiting(t)'
      BY <2>4, <2>5
    <3>3. CASE kind = "started"
      BY <3>1, <3>2, <3>3 DEF AccountOK
    <3>4. CASE kind # "started"
      <4>1. owner[t] = child.gen /\ said[t] # "terminal"
        BY <1>1, <3>4 DEF AccountInv, Tied
      <4>2. Ours(t) /\ t \notin told
        BY <1>1, <1>3, <1>8, <2>7, <4>1 DEF Ours, Newest
      <4>3. ~Waits(t, "started") => active[t] = "open" \/ AtStarted(t)
        BY <1>2, <4>1, <4>2 DEF AccountInv, Accounts, AccountOK
      <4>4. (Waits(t, "started")' <=> Waits(t, "started")) /\ (AtStarted(t)' <=> AtStarted(t))
        BY <2>4, <3>1, <3>4 DEF AtStarted
      <4> QED
        BY <3>1, <3>2, <4>3, <4>4 DEF AccountOK
    <3> QED
      BY <3>3, <3>4
  <2> QED
    BY <1>5, <1>6, <2>3, <2>6, <2>7 DEF AccountInv, Accounts
<1> QED
  BY <1>4, <1>7, <1>8


\* A step of the worker that takes no event keeps the account of the runs it
\* goes on to hold.
LEMMA HeldKeeps ==
  ASSUME NEW t \in Turn, AccountOK(t), UNCHANGED <<said, outcome, queue>>,
         said[t] = "terminal" => outcome[t] \in Outcome,
         active'[t] = active[t], cloud[t] \in Outcome => cloud'[t] = cloud[t],
         AtStarted(t) => AtStarted(t)', Flushing => Flushing'
  PROVE  AccountOK(t)'
<1>1. /\ Waiting(t)' <=> Waiting(t)
      /\ \A kind : Waits(t, kind)' <=> Waits(t, kind)
      /\ Waits(t, "started") => Waiting(t)
  BY DEF Waits, Waiting
<1>2. AtStarted(t)' => ~Flushing'
  BY DEF AtStarted, Flushing
<1>3. cloud[t] = "interrupted" => cloud'[t] = "interrupted"
  BY DEF Outcome
<1>4. said[t] = "terminal" /\ cloud[t] = outcome[t] => cloud'[t] = outcome'[t]
  OBVIOUS
<1> QED
  BY <1>1, <1>2, <1>3, <1>4 DEF AccountOK

\* The runs a step of the worker is not about keep theirs.
LEMMA AccountRest ==
  ASSUME Inv, AccountInv, UNCHANGED <<said, outcome, queue, owner, proc>>, told \subseteq told',
         \A u \in Turn : cloud[u] \in Outcome => cloud'[u] = cloud[u],
         Flushing => Flushing',
         NEW S, \A u \in Turn \ S : active'[u] = active[u] /\ (AtStarted(u) => AtStarted(u)'),
         \A u \in Turn \cap S : Ours(u) /\ u \notin told' => AccountOK(u)'
  PROVE  EventsOrdered' /\ Accounts'
<1>1. EventsOrdered'
  BY DEF AccountInv, EventsOrdered
<1>2. ASSUME NEW u \in Turn, Ours(u)', u \notin told' PROVE AccountOK(u)'
  <2>1. Ours(u) /\ u \notin told
    BY <1>2 DEF Ours, Newest
  <2>2. AccountOK(u) /\ (said[u] = "terminal" => outcome[u] \in Outcome)
    BY <2>1 DEF AccountInv, Accounts, Tied, Inv, RelayInv, RelayTypes
  <2> QED
    BY <1>2, <2>1, <2>2, HeldKeeps
<1> QED
  BY <1>1, <1>2 DEF Accounts

\* What every step of the worker keeps.
LEMMA WorkerBasics ==
  ASSUME Inv, AccountInv, WorkerStep \/ AppliedLate, UNCHANGED <<sidecarVars, owner>>
  PROVE  BoundsOK' /\ Tied' /\ told \subseteq told' /\ UNCHANGED <<said, outcome, cancelled, proc>>
<1>1. /\ UNCHANGED <<child, proc, reader>>
      /\ worker \in WorkerTypes /\ WorkerOK /\ worker.turn \in Turn \cup {NoTurn}
      /\ queue \in Seq([turn : Turn, kind : Kinds])
      /\ degraded \subseteq told /\ told \subseteq Turn /\ Len(queue) <= Capacity /\ worker.try \in 0..2
      /\ Flushing => cancelled
  BY DEF sidecarVars, runtimeVars, Inv, RelayInv, RelayTypes, AccountInv, BoundsOK, Tied, WorkerTypes
<1>2. Held \subseteq Turn /\ \A t \in Turn : active[t] # "none" => t \in Held
  BY DEF Held
<1> DEFINE Goal == /\ worker.at # "done" \/ worker' = worker
                   /\ worker'.try \in 0..2
                   /\ Flushing' => cancelled
                   /\ worker'.at = "done" => active' = active /\ (Held \subseteq told' \/ worker' = worker)
                   /\ told \subseteq told' /\ told' \subseteq Turn /\ degraded' \subseteq told'
                   /\ Len(queue') <= Len(queue)
                   /\ UNCHANGED <<said, outcome, cancelled>>
<1>3. worker' = Loop(Held) \/ worker' = Loop(Held \ {worker.turn})
        => worker'.try \in 0..2 /\ (Flushing' => cancelled) /\ worker'.at # "done"
  BY LoopGoesOn, <1>1 DEF Flushing, AccountInv, BoundsOK
<1>4. ASSUME Receive PROVE Goal
  <2>1. /\ worker.at = "recv" /\ queue # <<>> /\ queue' = Tail(queue) /\ told' = told /\ degraded' \subseteq degraded
        /\ worker' = Loop(Held) \/ worker' = Awaiting(Head(queue).kind, Head(queue).turn, 1)
        /\ UNCHANGED <<said, outcome, cancelled>>
    BY <1>4 DEF Receive, turnVars
  <2>2. Head(queue) \in [turn : Turn, kind : Kinds] /\ Len(queue') = Len(queue) - 1 /\ Len(queue) \in Nat
    BY <1>1, <2>1, HeadTailProperties, LenProperties
  <2>3. worker' = Awaiting(Head(queue).kind, Head(queue).turn, 1) =>
          worker'.try \in 0..2 /\ ~Flushing' /\ worker'.at # "done"
    BY <2>2 DEF Awaiting, Flushing, Kinds
  <2> QED
    BY <1>1, <1>3, <2>1, <2>2, <2>3
<1>5. ASSUME StopReceiving PROVE Goal
  BY <1>1, <1>3, <1>5 DEF StopReceiving, turnVars
<1>6. ASSUME FlushNext PROVE Goal
  <2>1. PICK t \in worker.todo : worker' = [worker EXCEPT !.turn = t, !.try = 1, !.todo = @ \ {t}]
    BY <1>6 DEF FlushNext
  <2>2. worker.at = "flush" /\ worker'.at = "flush" /\ worker'.try = 1
    BY <1>1, <1>6, <2>1 DEF FlushNext, WorkerTypes
  <2> QED
    BY <1>1, <1>6, <2>2 DEF FlushNext, turnVars, Flushing
<1>7. ASSUME End PROVE Goal
  <2>1. worker'.at = "done" /\ worker'.try = 0 /\ worker.at = "flush"
    BY <1>7 DEF End, Awaiting
  <2> QED
    BY <1>1, <1>2, <1>7, <2>1 DEF End, turnVars, Flushing
<1>8. ASSUME NEW result, Created(result) PROVE Goal
  <2>1. worker.at = "started" /\ worker.turn \in Turn /\ UNCHANGED <<said, outcome, queue, cancelled>>
    BY <1>1, <1>8 DEF Created, turnVars, WorkerOK, Kinds
  <2>2. CASE result = "ok"
    <3>1. worker' = Awaiting("audit", worker.turn, 1) /\ UNCHANGED <<degraded, told>>
      BY <1>8, <2>2 DEF Created
    <3>2. worker'.at = "audit" /\ worker'.try = 1
      BY <3>1 DEF Awaiting
    <3> QED
      BY <1>1, <2>1, <3>1, <3>2 DEF Flushing
  <2>3. CASE result # "ok"
    BY <1>1, <1>3, <1>8, <2>1, <2>3 DEF Created, Degrade
  <2> QED
    BY <2>2, <2>3
<1>9. ASSUME NEW ok, Appended(ok) PROVE Goal
  <2>1. worker.at = "audit" /\ worker.turn \in Turn /\ UNCHANGED <<said, outcome, queue, cancelled>> /\ worker' = Loop(Held)
    BY <1>1, <1>9 DEF Appended, turnVars, WorkerOK, Kinds
  <2> QED
    BY <1>1, <1>3, <1>9, <2>1 DEF Appended, Degrade
<1>10. ASSUME NEW result, Finished(result) PROVE Goal
  <2>1. worker.at = "terminal" /\ worker.turn \in Turn /\ UNCHANGED <<said, outcome, queue, cancelled>>
    BY <1>1, <1>10 DEF Finished, turnVars, WorkerOK, Kinds
  <2>2. CASE result = "ok"
    BY <1>1, <1>3, <1>10, <2>1, <2>2 DEF Finished
  <2>3. CASE result # "ok" /\ worker.try < 2
    <3>1. worker' = [worker EXCEPT !.try = @ + 1] /\ UNCHANGED <<degraded, told>>
      BY <1>10, <2>3 DEF Finished
    <3>2. worker'.at = "terminal" /\ worker'.try \in 0..2
      BY <1>1, <2>1, <2>3, <3>1 DEF WorkerTypes
    <3> QED
      BY <1>1, <2>1, <3>1, <3>2 DEF Flushing
  <2>4. CASE result # "ok" /\ ~(worker.try < 2)
    BY <1>1, <1>3, <1>10, <2>1, <2>4 DEF Finished, Degrade
  <2> QED
    BY <2>2, <2>3, <2>4
<1>11. ASSUME NEW result, Flushed(result) PROVE Goal
  <2>1. worker.at = "flush" /\ UNCHANGED <<said, outcome, queue, cancelled, degraded, told>>
        /\ worker' \in {[worker EXCEPT !.try = @ + 1], [worker EXCEPT !.turn = NoTurn]}
        /\ (worker' = [worker EXCEPT !.try = @ + 1] => worker.try < 2 \/ worker' = [worker EXCEPT !.turn = NoTurn])
    BY <1>11 DEF Flushed, turnVars
  <2>2. worker'.at = "flush" /\ worker'.try \in 0..2
    BY <1>1, <2>1 DEF WorkerTypes
  <2> QED
    BY <1>1, <2>1, <2>2 DEF Flushing
<1>12. ASSUME AppliedLate PROVE Goal
  BY <1>1, <1>12 DEF AppliedLate, turnVars, Flushing
<1>13. Goal
  BY <1>4, <1>5, <1>6, <1>7, <1>8, <1>9, <1>10, <1>11, <1>12 DEF WorkerStep
<1>14. BoundsOK'
  <2>1. Len(queue') <= Capacity
    <3>1. Len(queue) \in Nat /\ Len(queue') \in Nat
      <4>1. queue' \in Seq([turn : Turn, kind : Kinds])
        BY RelayStepInv DEF Inv, RelayInv, RelayTypes
      <4> QED
        BY <1>1, <4>1, LenProperties
    <3> QED
      BY <1>1, <1>13, <3>1, CapacityAssumption
  <2> QED
    BY <1>13, <2>1 DEF AccountInv, BoundsOK
<1>15. \A g : Newest(g)' <=> Newest(g)
  BY <1>1 DEF Newest
<1>16. Tied'
  <2>1. worker'.at = "done" => \A t \in Turn : active'[t] # "none" => t \in told'
    BY <1>2, <1>13 DEF AccountInv, Tied
  <2>2. child.gen = None => worker'.at = "done"
    BY <1>13 DEF AccountInv, Tied
  <2> QED
    BY <1>1, <1>13, <1>15, <2>1, <2>2 DEF AccountInv, Tied
<1> QED
  BY <1>1, <1>13, <1>14, <1>16


LEMMA AccountQuietSteps ==
  ASSUME Inv, AccountInv, StopReceiving \/ FlushNext \/ End \/ AppliedLate \/ \E ok \in BOOLEAN : Appended(ok),
         UNCHANGED <<sidecarVars, owner>>
  PROVE  EventsOrdered' /\ Accounts'
<1>1. WorkerStep \/ AppliedLate
  BY DEF WorkerStep
<1>2. /\ told \subseteq told' /\ UNCHANGED <<said, outcome, proc>>
      /\ \A u \in Turn : cloud[u] \in Outcome => cloud'[u] = cloud[u]
  BY <1>1, WorkerBasics, RelayStepInv DEF Inv
<1>3. UNCHANGED <<queue, active>>
  BY DEF StopReceiving, FlushNext, End, AppliedLate, Appended
<1>4. CASE AppliedLate
  <2>1. worker' = worker
    BY <1>4 DEF AppliedLate
  <2> QED
    BY <1>2, <1>3, <2>1, AccountRest DEF Flushing, AtStarted
<1>5. CASE FlushNext \/ End
  <2>1. worker.at = "flush" /\ worker \in WorkerTypes
    BY <1>5 DEF FlushNext, End, Inv, RelayInv, RelayTypes
  <2>2. worker'.at \in {"flush", "done"}
    <3>1. CASE FlushNext
      <4>1. PICK t \in worker.todo : worker' = [worker EXCEPT !.turn = t, !.try = 1, !.todo = @ \ {t}]
        BY <3>1 DEF FlushNext
      <4> QED
        BY <2>1, <4>1 DEF WorkerTypes
    <3>2. CASE End
      BY <3>2 DEF End, Awaiting
    <3> QED
      BY <1>5, <3>1, <3>2
  <2> QED
    BY <1>2, <1>3, <2>1, <2>2, AccountRest DEF Flushing, AtStarted
<1>6. CASE StopReceiving \/ \E ok \in BOOLEAN : Appended(ok)
  <2>1. worker.at \in {"recv", "audit"}
    BY <1>6 DEF StopReceiving, Appended
  <2> QED
    BY <1>2, <1>3, <2>1, AccountRest DEF Flushing, AtStarted
<1> QED
  BY <1>4, <1>5, <1>6

LEMMA AccountCreated ==
  ASSUME Inv, AccountInv, NEW result \in Result, Created(result), UNCHANGED <<sidecarVars, owner>>
  PROVE  EventsOrdered' /\ Accounts'
<1>1. WorkerStep \/ AppliedLate
  BY DEF WorkerStep
<1>2. /\ told \subseteq told' /\ UNCHANGED <<said, outcome, proc>>
      /\ \A u \in Turn : cloud[u] \in Outcome => cloud'[u] = cloud[u]
  BY <1>1, WorkerBasics, RelayStepInv DEF Inv
<1>3. PICK t \in Turn : t = worker.turn
  BY DEF Created, Inv, RelayInv, WorkerOK, Kinds
<1>4. worker.at = "started" /\ UNCHANGED queue /\ AtStarted(t)
  BY <1>3 DEF Created, AtStarted
<1>5. ~Flushing /\ \A u \in Turn \ {t} : ~AtStarted(u)
  BY <1>3, <1>4 DEF Flushing, AtStarted
<1>6. active \in [Turn -> Outcome \cup {"none", "open"}]
  BY DEF Inv, RelayInv, RelayTypes
<1>7. CASE result # "ok"
  <2>1. active' = active /\ t \in told'
    BY <1>3, <1>7 DEF Created, Degrade
  <2> QED
    BY <1>2, <1>4, <1>5, <2>1, AccountRest
<1>8. CASE result = "ok"
  <2>1. active' = [active EXCEPT ![t] = "open"] /\ worker' = Awaiting("audit", t, 1) /\ told' = told
    BY <1>3, <1>8 DEF Created
  <2>2. ~Flushing' /\ active'[t] = "open" /\ \A u \in Turn \ {t} : active'[u] = active[u]
    BY <1>6, <2>1 DEF Flushing, Awaiting
  <2>3. ASSUME Ours(t), t \notin told' PROVE AccountOK(t)'
    <3>1. AccountOK(t) /\ Untouched(t) /\ (said[t] = "terminal" => outcome[t] # "none")
      BY <1>4, <2>1, <2>3 DEF AccountInv, Accounts, Tied, Inv, RelayInv, RunOK, Starting
    <3>2. said[t] = "terminal" => Waits(t, "terminal")
      BY <3>1 DEF AccountOK, Untouched
    <3>3. said'[t] = "terminal" => Waits(t, "terminal")'
      BY <1>2, <1>4, <3>2 DEF Waits
    <3> QED
      BY <2>2, <3>3 DEF AccountOK
  <2> QED
    BY <1>2, <1>4, <1>5, <2>2, <2>3, AccountRest
<1> QED
  BY <1>7, <1>8

LEMMA AccountFinished ==
  ASSUME Inv, AccountInv, NEW result \in Result, Finished(result), UNCHANGED <<sidecarVars, owner>>
  PROVE  EventsOrdered' /\ Accounts'
<1>1. WorkerStep \/ AppliedLate
  BY DEF WorkerStep
<1>2. /\ told \subseteq told' /\ UNCHANGED <<said, outcome, proc>>
      /\ \A u \in Turn : cloud[u] \in Outcome => cloud'[u] = cloud[u]
  BY <1>1, WorkerBasics, RelayStepInv DEF Inv
<1>3. PICK t \in Turn : t = worker.turn
  BY DEF Finished, Inv, RelayInv, WorkerOK, Kinds
<1>4. worker.at = "terminal" /\ UNCHANGED queue /\ Answered(t, outcome[t], result)
  BY <1>3 DEF Finished
<1>5. ~Flushing /\ \A u \in Turn : ~AtStarted(u)
  BY <1>4 DEF Flushing, AtStarted
<1>6. /\ active \in [Turn -> Outcome \cup {"none", "open"}]
      /\ active[t] \in Outcome /\ said[t] = "terminal" /\ active[t] = outcome[t]
  BY <1>3, <1>4 DEF Inv, RelayInv, RelayTypes, WorkerOK, RunOK
<1>7. CASE result # "ok"
  <2>1. active' = active
    BY <1>7 DEF Finished
  <2> QED
    BY <1>2, <1>4, <1>5, <2>1, AccountRest
<1>8. CASE result = "ok"
  <2>1. active' = [active EXCEPT ![t] = "none"] /\ worker' = Loop(Held \ {t}) /\ told' = told
    BY <1>3, <1>8 DEF Finished
  <2>2. active'[t] = "none" /\ \A u \in Turn \ {t} : active'[u] = active[u]
    BY <1>6, <2>1
  <2>3. cloud'[t] = outcome[t]
    BY <1>4, <1>6, <1>8, AnsweredIs DEF Inv, RelayInv
  <2>4. ASSUME Ours(t), t \notin told' PROVE AccountOK(t)'
    <3>1. AccountOK(t)
      BY <2>1, <2>4 DEF AccountInv, Accounts
    <3>2. ~((said[t] = "terminal" => Waits(t, "terminal")) /\ ~Waits(t, "started"))
      BY <1>5, <1>6, <3>1 DEF AccountOK, Outcome
    <3>3. ~Waits(t, "terminal") => ~Waiting(t)
      BY <1>6, <3>1 DEF AccountOK
    <3>4. /\ \A kind : Waits(t, kind)' <=> Waits(t, kind)
          /\ Waiting(t)' <=> Waiting(t)
      BY <1>4 DEF Waits, Waiting
    <3> QED
      BY <1>2, <1>6, <2>2, <2>3, <3>2, <3>3, <3>4 DEF AccountOK
  <2> QED
    BY <1>2, <1>4, <1>5, <2>2, <2>4, AccountRest
<1> QED
  BY <1>7, <1>8

LEMMA AccountFlushed ==
  ASSUME Inv, AccountInv, NEW result \in Result, Flushed(result), UNCHANGED <<sidecarVars, owner>>
  PROVE  EventsOrdered' /\ Accounts'
<1>1. WorkerStep \/ AppliedLate
  BY DEF WorkerStep
<1>2. /\ told \subseteq told' /\ UNCHANGED <<said, outcome, proc>>
      /\ \A u \in Turn : cloud[u] \in Outcome => cloud'[u] = cloud[u]
  BY <1>1, WorkerBasics, RelayStepInv DEF Inv
<1>3. worker.at = "flush" /\ worker.turn # NoTurn /\ worker \in WorkerTypes
  BY DEF Flushed, Inv, RelayInv, RelayTypes
<1>4. PICK t \in Turn : t = worker.turn
  BY <1>3 DEF WorkerTypes
<1> DEFINE status == IF active[t] = "open" THEN "interrupted" ELSE active[t]
<1>5. /\ UNCHANGED <<queue, told>> /\ Answered(t, status, result)
      /\ active' = IF result = "ok" THEN [active EXCEPT ![t] = "none"] ELSE active
  BY <1>4 DEF Flushed
<1>6. worker'.at = "flush"
  BY <1>3 DEF Flushed, WorkerTypes
<1>7. Flushing /\ Flushing' /\ \A u \in Turn : ~AtStarted(u)
  BY <1>3, <1>6 DEF Flushing, AtStarted
<1>8. /\ active \in [Turn -> Outcome \cup {"none", "open"}] /\ active[t] # "none"
      /\ status \in Outcome
  BY <1>3, <1>4 DEF Inv, RelayInv, RelayTypes, WorkerOK, Outcome
<1>9. CASE result # "ok"
  <2>1. active' = active
    BY <1>5, <1>9
  <2> QED
    BY <1>2, <1>5, <1>7, <2>1, AccountRest
<1>10. CASE result = "ok"
  <2>1. active'[t] = "none" /\ \A u \in Turn \ {t} : active'[u] = active[u]
    BY <1>5, <1>8, <1>10
  <2>2. cloud'[t] = status
    BY <1>5, <1>8, <1>10, AnsweredIs DEF Inv, RelayInv
  <2>3. ASSUME Ours(t), t \notin told' PROVE AccountOK(t)'
    <3>1. AccountOK(t) /\ (said[t] = "terminal" => outcome[t] \in Outcome)
      BY <1>5, <2>3 DEF AccountInv, Accounts, Tied, Inv, RelayInv, RelayTypes
    <3>2. /\ \A kind : Waits(t, kind)' <=> Waits(t, kind)
          /\ Waiting(t)' <=> Waiting(t)
      BY <1>5 DEF Waits, Waiting
    <3>3. said[t] # "terminal" /\ ~Waiting(t) => cloud'[t] = "interrupted"
      BY <1>7, <1>8, <2>2, <3>1 DEF AccountOK
    <3>4. said[t] = "terminal" /\ ~Waits(t, "terminal") => ~Waiting(t) /\ cloud'[t] = outcome[t]
      BY <1>8, <2>2, <3>1 DEF AccountOK, Outcome
    <3> QED
      BY <1>2, <1>7, <2>1, <3>2, <3>3, <3>4 DEF AccountOK
  <2>4. /\ \A u \in Turn \ {t} : active'[u] = active[u] /\ (AtStarted(u) => AtStarted(u)')
        /\ \A u \in Turn \cap {t} : Ours(u) /\ u \notin told' => AccountOK(u)'
    BY <1>7, <2>1, <2>3
  <2>5. UNCHANGED <<said, outcome, queue, owner, proc>> /\ (Flushing => Flushing')
    BY <1>2, <1>5, <1>7
  <2> QED
    BY <1>2, <2>4, <2>5, AccountRest
<1> QED
  BY <1>9, <1>10


LEMMA AccountReceive ==
  ASSUME Inv, AccountInv, Receive, UNCHANGED <<sidecarVars, owner>>
  PROVE  EventsOrdered' /\ Accounts'
<1>1. queue \in Seq([turn : Turn, kind : Kinds]) /\ queue # <<>> /\ queue' = Tail(queue)
  BY DEF Inv, RelayInv, RelayTypes, Receive
<1>2. PICK t \in Turn, kind \in Kinds : Head(queue) = [turn |-> t, kind |-> kind]
  <2>1. Head(queue) \in [turn : Turn, kind : Kinds]
    BY <1>1, HeadTailProperties
  <2> QED
    BY <2>1
<1> DEFINE skip == (kind = "started") # (active[t] = "none") \/ (kind # "terminal" /\ t \in degraded)
<1>3. /\ worker.at = "recv" /\ UNCHANGED <<said, outcome, cloud, told, owner, proc>>
      /\ skip => worker' = Loop(Held) /\ UNCHANGED active
      /\ ~skip => /\ worker' = Awaiting(kind, t, 1)
                  /\ active' = IF kind = "terminal" THEN [active EXCEPT ![t] = outcome[t]] ELSE active
  BY <1>2 DEF Receive, turnVars, sidecarVars, runtimeVars
<1>4. /\ Len(queue) \in Nat /\ 1 \in 1..Len(queue)
      /\ queue[1].turn = t /\ queue[1].kind = kind /\ Len(queue') = Len(queue) - 1
      /\ \A i \in 1..Len(queue') : queue'[i] = queue[i + 1] /\ i + 1 \in 1..Len(queue) /\ 1 < i + 1
  <2>1. Len(queue) \in Nat \ {0}
    BY <1>1, EmptySeq
  <2>2. queue[1] = Head(queue)
    BY <1>1, <2>1
  <2>3. Len(queue') = Len(queue) - 1 /\ \A i \in 1..Len(queue') : queue'[i] = queue[i + 1]
    BY <1>1, HeadTailProperties
  <2> QED
    BY <1>2, <2>1, <2>2, <2>3
<1> HIDE DEF skip
<1> DEFINE l == Len(queue)
           m == Len(queue')
<1>5. /\ l \in Nat /\ m \in Nat /\ l = m + 1
      /\ \A i \in 1..m : i + 1 \in 1..l /\ queue'[i] = queue[i + 1]
      /\ \A i \in 1..l : i = 1 \/ (i - 1 \in 1..m /\ queue'[i - 1] = queue[i])
  <2>1. l \in Nat /\ m \in Nat /\ l = m + 1
    BY <1>4
  <2>2. \A i \in 1..m : i + 1 \in 1..l /\ queue'[i] = queue[i + 1]
    BY <1>4
  <2>3. ASSUME NEW i \in 1..l, i # 1 PROVE i - 1 \in 1..m /\ queue'[i - 1] = queue[i]
    <3>1. i - 1 \in 1..m /\ (i - 1) + 1 = i
      BY <2>1, <2>3
    <3> QED
      BY <2>2, <3>1
  <2> QED
    BY <2>1, <2>2, <2>3
<1>6. EventsOrdered'
  <2> SUFFICES ASSUME NEW i \in 1..m, NEW j \in 1..m, i < j, queue'[i].turn = queue'[j].turn
               PROVE  queue'[i].kind # "terminal" /\ queue'[j].kind # "started"
    BY DEF EventsOrdered
  <2>1. i + 1 \in 1..l /\ j + 1 \in 1..l /\ i + 1 < j + 1
    BY <1>5
  <2> QED
    BY <1>5, <2>1 DEF AccountInv, EventsOrdered
<1>7. \A u, k : Waits(u, k) <=> Waits(u, k)' \/ (u = t /\ k = kind)
  <2> TAKE u, k
  <2>1. Waits(u, k) => Waits(u, k)' \/ (u = t /\ k = kind)
    BY <1>4, <1>5 DEF Waits
  <2>2. Waits(u, k)' => Waits(u, k)
    BY <1>5 DEF Waits
  <2>3. u = t /\ k = kind => Waits(u, k)
    BY <1>4 DEF Waits
  <2> QED
    BY <2>1, <2>2, <2>3
<1>8. \A u : Waiting(u) <=> Waiting(u)' \/ u = t
  <2> TAKE u
  <2>1. Waiting(u) => Waiting(u)' \/ u = t
    <3> HAVE Waiting(u)
    <3>1. PICK i \in 1..l : queue[i].turn = u
      BY DEF Waiting, l
    <3>2. CASE i = 1
      BY <1>4, <3>1, <3>2
    <3>3. CASE i - 1 \in 1..m /\ queue'[i - 1] = queue[i]
      BY <3>1, <3>3 DEF Waiting, m
    <3> QED
      BY <1>5, <3>2, <3>3
  <2>2. Waiting(u)' => Waiting(u)
    BY <1>5 DEF Waiting
  <2>3. u = t => Waiting(u)
    BY <1>4 DEF Waiting
  <2> QED
    BY <2>1, <2>2, <2>3
<1>9. ~Waits(t, "started")' /\ (kind = "terminal" => ~Waiting(t)')
  <2>1. ASSUME NEW i \in 1..m, queue'[i].turn = t PROVE queue'[i].kind # "started" /\ kind # "terminal"
    <3>1. i + 1 \in 1..l /\ 1 \in 1..l /\ 1 < i + 1
      BY <1>4, <1>5
    <3> QED
      BY <1>4, <1>5, <2>1, <3>1 DEF AccountInv, EventsOrdered
  <2>2. ~\E i \in 1..m : queue'[i].turn = t /\ queue'[i].kind = "started"
    BY <2>1
  <2>3. kind = "terminal" => ~\E i \in 1..m : queue'[i].turn = t
    BY <2>1
  <2>4. ~Waits(t, "started")'
    BY <1>3, <1>4, <2>2 DEF Waits
  <2>5. kind = "terminal" => ~Waiting(t)'
    BY <2>3 DEF Waiting
  <2> QED
    BY <2>4, <2>5
<1> HIDE DEF l, m
<1>10. \A u : Ours(u)' <=> Ours(u)
  BY <1>3 DEF Ours, Newest
<1>11. active \in [Turn -> Outcome \cup {"none", "open"}] /\ degraded \subseteq told
      /\ ~Flushing /\ \A u : ~AtStarted(u)
  BY <1>3 DEF Inv, RelayInv, RelayTypes, AccountInv, BoundsOK, Flushing, AtStarted
<1>12. ASSUME NEW u \in Turn, u # t, Ours(u), u \notin told PROVE AccountOK(u)'
  <2>1. AccountOK(u)
    BY <1>12 DEF AccountInv, Accounts
  <2>2. active'[u] = active[u] /\ cloud'[u] = cloud[u] /\ said'[u] = said[u] /\ outcome'[u] = outcome[u]
    BY <1>3, <1>4, <1>11, <1>12
  <2>3. /\ Waits(u, "terminal")' <=> Waits(u, "terminal")
        /\ Waits(u, "started")' <=> Waits(u, "started")
        /\ Waiting(u)' <=> Waiting(u)
        /\ Waits(u, "started") => Waiting(u)
    <3>1. Waits(u, "started") => Waiting(u)
      BY DEF Waits, Waiting
    <3> QED
      BY <1>7, <1>8, <1>12, <3>1
  <2> QED
    BY <1>11, <2>1, <2>2, <2>3 DEF AccountOK
<1>13. ASSUME Ours(t), t \notin told PROVE AccountOK(t)'
  <2>1. AccountOK(t) /\ RunOK(t) /\ QueueOK /\ t \notin degraded
    BY <1>4, <1>11, <1>13 DEF AccountInv, Accounts, Inv, RelayInv
  <2>2. said[t] = "terminal" => Waits(t, "terminal")
    BY <1>8, <2>1 DEF AccountOK
  <2>3. ~skip => ~Flushing' /\ (kind = "started" => AtStarted(t)')
    BY <1>3, <1>4 DEF Awaiting, Flushing, AtStarted, Kinds
  <2>4. said'[t] = said[t] /\ outcome'[t] = outcome[t] /\ cloud'[t] = cloud[t]
    BY <1>3
  <2>5. CASE kind = "started"
    <3>1. IsStarted(1, t)
      BY <1>4, <2>5 DEF IsStarted
    <3>2. active[t] = "none"
      BY <1>4, <2>1, <3>1 DEF RunOK, Starting, Untouched
    <3>3. ~skip
      BY <2>1, <2>5, <3>2 DEF skip
    <3>4. said[t] = "terminal" => Waits(t, "terminal")'
      BY <1>7, <2>2, <2>5
    <3> QED
      BY <2>3, <2>4, <2>5, <3>3, <3>4 DEF AccountOK
  <2>6. CASE kind # "started"
    <3>1. ~Waits(t, "started")
      BY <1>7, <1>9, <2>6
    <3>2. active[t] = "open"
      BY <1>11, <2>1, <2>2, <3>1 DEF AccountOK
    <3>3. ~skip
      BY <2>1, <2>6, <3>2 DEF skip
    <3>4. CASE kind = "terminal"
      <4>1. active'[t] = outcome[t]
        BY <1>3, <1>4, <1>11, <3>3, <3>4
      <4>2. said[t] = "terminal" /\ ~Waiting(t)' /\ ~Waits(t, "terminal")'
        <5>1. said[t] = "terminal"
          BY <1>4, <2>1, <3>4 DEF QueueOK
        <5>2. ~Waiting(t)' /\ (Waits(t, "terminal")' => Waiting(t)')
          BY <1>9, <3>4 DEF Waits, Waiting
        <5> QED
          BY <5>1, <5>2
      <4> QED
        BY <2>3, <2>4, <3>3, <4>1, <4>2 DEF AccountOK
    <3>5. CASE kind # "terminal"
      <4>1. active' = active
        BY <1>3, <3>3, <3>5
      <4>2. said[t] = "terminal" => Waits(t, "terminal")'
        BY <1>7, <2>2, <3>5
      <4> QED
        BY <2>3, <2>4, <3>2, <3>3, <4>1, <4>2 DEF AccountOK
    <3> QED
      BY <3>4, <3>5
  <2> QED
    BY <2>5, <2>6
<1>14. \A u \in Turn : Ours(u)' /\ u \notin told' => AccountOK(u)'
  BY <1>3, <1>10, <1>12, <1>13
<1> QED
  BY <1>6, <1>14 DEF Accounts


LEMMA AccountWorks ==
  ASSUME Inv, AccountInv, WorkerStep \/ AppliedLate, UNCHANGED <<sidecarVars, owner>> PROVE AccountInv'
<1>1. BoundsOK' /\ Tied'
  BY WorkerBasics
<1>2. EventsOrdered' /\ Accounts'
  BY AccountReceive, AccountQuietSteps, AccountCreated, AccountFinished, AccountFlushed DEF WorkerStep
<1> QED
  BY <1>1, <1>2 DEF AccountInv

-----------------------------------------------------------------------------
(* The theorems about the page and the account.                               *)

DesktopInv == Inv /\ PageOK /\ AccountInv

LEMMA DesktopInit == Init => DesktopInv
BY InitInv, PageInitOK, AccountInit DEF Init, DesktopInv

LEMMA DesktopStep == DesktopInv /\ [Next]_vars => DesktopInv'
<1> SUFFICES ASSUME DesktopInv, [Next]_vars PROVE PageOK' /\ AccountInv'
  BY StepInv DEF DesktopInv
<1>1. Inv /\ Inv' /\ SidecarInv /\ PageOK /\ AccountInv /\ limit.floats \subseteq Float /\ limit.turns \subseteq Turn
  BY StepInv, LimitsAssumption DEF DesktopInv, Inv
<1>2. UNCHANGED sidecarVars => PageOK'
  <2> SUFFICES ASSUME UNCHANGED sidecarVars PROVE PageOK'
    OBVIOUS
  <2>1. UNCHANGED <<account, bundle, client, logout, expire, commands, lock, child, proc, reader, stops>>
    BY DEF sidecarVars, pageVars, runtimeVars
  <2>2. PageTypes' /\ SlotOK' /\ ClientOK' /\ StopsOK'
    BY <1>1, <2>1 DEF PageOK, PageTypes, SlotOK, ClientOK, StopsOK
  <2>3. QueueOrdered(commands, stops)'
    BY <1>1, <2>1 DEF PageOK
  <2>4. LogoutOK' /\ ExpireOK' /\ SignedOutOK'
    BY <1>1, <2>1 DEF PageOK, LogoutOK, ExpireOK, SignedOutOK, Begun, OnlyOf, NoneAlive, NoStart
  <2> QED
    BY <2>2, <2>3, <2>4 DEF PageOK
<1>3. CASE (NativeStep \/ PageStep \/ UserStep) /\ UNCHANGED <<relayVars, owner>>
  BY <1>1, <1>3, PageStepOK, SidecarQuiet, RelayUntouched
<1>4. CASE (WorkerStep \/ AppliedLate) /\ UNCHANGED <<sidecarVars, owner>>
  BY <1>1, <1>2, <1>4, AccountWorks
<1>5. CASE \E g \in Gen : SpawnWithRelay(g)
  BY <1>1, <1>5, SpawnOK, AccountSpawn DEF SpawnWithRelay
<1>6. CASE \E g \in Gen : ExitCancelsRelay(g)
  BY <1>1, <1>6, ReaderMovesOK, AccountCancel DEF ExitCancelsRelay
<1>7. CASE \E g \in Gen : ClearsAfterRelay(g)
  <2>1. PICK g \in Gen : Clears(g) /\ worker.at = "done" /\ UNCHANGED <<relayVars, owner>>
    BY <1>7 DEF ClearsAfterRelay
  <2>2. /\ child'.gen = child.gen \/ (child'.gen = None /\ worker.at = "done")
        /\ \A h \in Gen : (reader'[h] = "reading" <=> reader[h] = "reading")
                          /\ (proc'[h] = "none" <=> proc[h] = "none")
    BY <1>1, <2>1 DEF Clears, NoChild, SidecarInv, SidecarTypes
  <2>3. AccountInv'
    BY <1>1, <2>1, <2>2, RelayUntouched
  <2>4. PageOK'
    BY <1>1, <2>1, ReaderMovesOK
  <2> QED
    BY <2>3, <2>4
<1>8. CASE \E t \in limit.turns, kind \in {"started", "audit", "terminal"} : Reads(t, kind)
  <2>1. PICK t \in Turn, kind \in Kinds : Reads(t, kind)
    BY <1>1, <1>8 DEF Kinds
  <2>2. UNCHANGED sidecarVars
    BY <2>1 DEF Reads
  <2> QED
    BY <1>1, <1>2, <2>1, <2>2, AccountReads
<1>9. CASE UNCHANGED vars
  <2>1. UNCHANGED <<sidecarVars, relayVars, owner>> /\ UNCHANGED <<child, proc, reader>>
    BY <1>9 DEF vars, sidecarVars, runtimeVars
  <2>2. AccountInv'
    BY <1>1, <2>1, RelayUntouched
  <2> QED
    BY <1>2, <2>1, <2>2
<1> QED
  BY <1>3, <1>4, <1>5, <1>6, <1>7, <1>8, <1>9 DEF Next, Step

\* What the page, the sidecar and the relay know of each other is consistent in
\* every reachable state.
THEOREM DesktopInvHolds == Spec => []DesktopInv
<1> QED
  BY DesktopInit, DesktopStep, PTL DEF Spec

\* Every variable of the desktop keeps its type, the queue its capacity, and a
\* request is tried at most twice.
THEOREM TypesHold == Spec => []TypeOK
<1>1. DesktopInv => SidecarTypeOK
  BY DEF DesktopInv, Inv, SidecarInv, SidecarTypes, StopTypes, PageOK, PageTypes, Command, SidecarTypeOK
<1>2. DesktopInv => RelayTypeOK /\ owner \in [Turn -> Gen \cup {None}]
  <2> SUFFICES ASSUME DesktopInv PROVE RelayTypeOK /\ owner \in [Turn -> Gen \cup {None}]
    OBVIOUS
  <2>1. BoundsOK /\ RelayTypes
    BY DEF DesktopInv, Inv, RelayInv, AccountInv
  <2>2. /\ worker.at \in {"recv", "started", "audit", "terminal", "flush", "done"}
        /\ worker.turn \in Turn \cup {NoTurn} /\ worker.todo \subseteq Turn
    BY <2>1 DEF RelayTypes, WorkerTypes, Kinds
  <2>3. degraded \subseteq Turn /\ told \subseteq Turn /\ cancelled \in BOOLEAN /\ Len(queue) <= Capacity
        /\ worker.try \in 0..2 /\ owner \in [Turn -> Gen \cup {None}]
    BY <2>1 DEF BoundsOK
  <2> QED
    BY <2>1, <2>2, <2>3 DEF RelayTypes, Kinds, RelayTypeOK
<1>3. DesktopInv => TypeOK
  BY <1>1, <1>2 DEF TypeOK
<1> QED
  BY DesktopInvHolds, <1>3, PTL

\* However logins, logouts, expiries and starts overlap, and whatever stop fails
\* or times out, no runtime lives, and none can still be spawned, when the page
\* is signed out.
THEOREM SignedOutHolds == Spec => []SignedOutMeansStopped
<1>1. DesktopInv => SignedOutMeansStopped
  BY DEF DesktopInv, PageOK, SignedOutOK, NoneAlive, SignedOutMeansStopped, Alive
<1> QED
  BY DesktopInvHolds, <1>1, PTL

\* A stop that succeeded leaves a process that has exited, and of each turn of
\* the last runtime a run closed as it ended, a report that it was not recorded,
\* or events that were still queued.
THEOREM StopLeavesNothingHolds == Spec => []StopLeavesNothing
<1>1. ASSUME DesktopInv, NEW s \in Stop, stops[s].at = "ok", stops[s].gen # None
      PROVE  /\ proc[stops[s].gen] = "exited"
             /\ \A t \in Turn : owner[t] = stops[s].gen /\ Newest(stops[s].gen) =>
                  \/ t \in told
                  \/ Overlooked(t)
                  \/ cloud[t] = (IF outcome[t] = "none" THEN "interrupted" ELSE outcome[t])
  <2>1. PICK g \in Gen : g = stops[s].gen
    BY <1>1 DEF DesktopInv, Inv, SidecarInv, SidecarTypes, StopTypes
  <2>2. reader[g] = "done" /\ proc[g] \in {"none", "alive", "exited"}
    BY <1>1, <2>1 DEF DesktopInv, Inv, SidecarInv, SidecarTypes, PageOK, StopsOK
  <2>3. proc[g] = "exited"
    BY <1>1, <2>1, <2>2 DEF DesktopInv, Inv, SidecarInv, Generations, PageOK, SlotOK
  <2>4. ASSUME NEW t \in Turn, owner[t] = g, Newest(g), t \notin told, ~Overlooked(t)
        PROVE  cloud[t] = (IF outcome[t] = "none" THEN "interrupted" ELSE outcome[t])
    <3>1. child.gen = None
      <4> SUFFICES ASSUME NEW h \in Gen, child.gen = h PROVE FALSE
        BY <1>1 DEF DesktopInv, Inv, SidecarInv, SidecarTypes
      <4>1. Newest(h) /\ proc[h] # "none" /\ h # g
        BY <1>1, <2>2, NoneIsNoGen DEF DesktopInv, Inv, SidecarInv, Generations, AccountInv, Tied, PageOK, SlotOK
      <4> QED
        BY <2>3, <2>4, <4>1, GenOrder DEF Newest
    <3>2. worker.at = "done" /\ active[t] = "none" /\ Flushing
      BY <1>1, <2>4, <3>1 DEF DesktopInv, AccountInv, Tied, Flushing
    <3>3. ~Waiting(t) /\ ~Waits(t, "terminal")
      <4>1. DOMAIN queue = 1..Len(queue)
        <5>1. queue \in Seq([turn : Turn, kind : Kinds])
          BY <1>1 DEF DesktopInv, Inv, RelayInv, RelayTypes
        <5> QED
          BY <5>1, LenProperties
      <4> QED
        BY <2>4, <4>1 DEF Overlooked, Waiting, Waits
    <3>4. AccountOK(t)
      BY <1>1, <2>1, <2>4, NoneIsNoGen DEF DesktopInv, AccountInv, Accounts, Ours
    <3>5. said[t] = "terminal" <=> outcome[t] # "none"
      BY <1>1 DEF DesktopInv, AccountInv, Tied
    <3> QED
      BY <3>2, <3>3, <3>4, <3>5 DEF AccountOK
  <2> QED
    BY <2>1, <2>3, <2>4
<1>2. DesktopInv => StopLeavesNothing
  BY <1>1 DEF StopLeavesNothing
<1> QED
  BY DesktopInvHolds, <1>2, PTL

=============================================================================
