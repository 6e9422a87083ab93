-------------------------- MODULE AppServerProofs --------------------------
(***************************************************************************)
(* Theorems about AppServer, for every set of threads and every bound.      *)
(*                                                                          *)
(* The invariant says where each turn is.  A live turn is either in the     *)
(* slot of its thread or the one turn the stdin loop is joining; what has   *)
(* been sent for a turn follows from its phase; a pending interaction and a *)
(* held engine belong to a live turn.                                       *)
(***************************************************************************)
EXTENDS AppServer, TLAPS

Live(t) == phase[t] \notin {"new", "ended", "aborted"}
Joining(t) == loop.at = "join" /\ loop.turn = t
Interrupted(t) == loop.at = "interrupted" /\ loop.turn = t

\* Turns are numbered in the order of their turn/start, and belong to a thread
\* from their acceptance on; nothing has stopped a turn that is not accepted.
Numbered ==
  \A t \in Turn :
    /\ t >= nextTurn => phase[t] = "new"
    /\ owner[t] = NoThread <=> phase[t] = "new"
    /\ phase[t] = "new" => ~terminal[t]

\* What the stdin loop knows of the turn it is starting or stopping.
LoopTurn ==
  /\ loop.at \in {"record", "empty"} => loop.th \in Thread
  /\ loop.at \in {"userSnapshot", "userBlob"} =>
       /\ loop.turn \in Turn /\ phase[loop.turn] = "new" /\ loop.turn < nextTurn
       /\ loop.th \in loaded /\ active[loop.th] = None
  /\ loop.at = "join" =>
       /\ loop.turn \in Turn /\ Live(loop.turn) /\ terminal[loop.turn]
       /\ owner[loop.turn] = loop.th /\ active[loop.th] = None
  /\ loop.at = "interrupted" =>
       /\ loop.turn \in Turn /\ phase[loop.turn] = "aborted"
       /\ owner[loop.turn] = loop.th /\ active[loop.th] = None
  /\ loop.at = "exited" => loaded = {}

Slots ==
  \A th \in Thread : active[th] # None =>
    /\ th \in loaded /\ owner[active[th]] = th
    /\ Live(active[th]) /\ ~terminal[active[th]]

LiveTurns == \A t \in Turn : Live(t) => active[owner[t]] = t \/ Joining(t)

Sent ==
  \A t \in Turn :
    /\ finished[t] = IF phase[t] = "ended" THEN 1 ELSE 0
    /\ cancelled[t] = IF phase[t] = "aborted" /\ ~Interrupted(t) THEN 1 ELSE 0

Asked ==
  \A id \in Ask : pending[id] # None =>
    /\ phase[pending[id]] = "asking"
    /\ \A other \in Ask : pending[other] = pending[id] => other = id

Engines ==
  \A th \in Thread : engine[th] # None =>
    owner[engine[th]] = th /\ phase[engine[th]] \in {"engine", "asking", "answered"}

\* Where the turns are, and all of the inductive invariant.
Placed == Numbered /\ LoopTurn /\ Slots /\ LiveTurns /\ Sent
TurnInv == TypeOK /\ Placed /\ Asked /\ Engines

-----------------------------------------------------------------------------
(* Types.                                                                     *)

\* A turn id is never the id that means "no turn".
LEMMA TurnIsNotNone ==
  None \notin Turn
BY DEF None, Turn

\* The stdin loop's state: its fields, and the states it moves to.
LEMMA LoopTypes ==
  /\ Reading \in LoopState
  /\ \A at \in LoopAt, th \in Thread \cup {NoThread}, t \in Turn \cup {None},
        then \in {"read", "read-closed", "exit"} : At(at, th, t, then) \in LoopState
  /\ loop \in LoopState =>
       /\ loop.at \in LoopAt /\ loop.th \in Thread \cup {NoThread}
       /\ loop.turn \in Turn \cup {None} /\ loop.then \in {"read", "read-closed", "exit"}
BY DEF Reading, At, LoopState, LoopAt

\* A turn id that may still be handed out is a turn.
LEMMA NextTurnIsATurn ==
  ASSUME TypeOK, nextTurn <= MaxTurns
  PROVE  nextTurn \in Turn /\ nextTurn + 1 \in 1..(MaxTurns + 1)
BY BoundsAssumption DEF TypeOK, Turn

LEMMA NextAskIsAnAsk ==
  ASSUME TypeOK, nextAsk <= MaxAsks
  PROVE  nextAsk \in Ask /\ nextAsk + 1 \in 1..(MaxAsks + 1)
BY BoundsAssumption DEF TypeOK, Ask

LEMMA EmitTypes ==
  ASSUME TypeOK, NEW t \in Turn, EmitTerminalOnce(t)
  PROVE  /\ terminal' \in [Turn -> BOOLEAN] /\ finished' \in [Turn -> Nat]
         /\ active' \in [Thread -> Turn \cup {None}] /\ phase' \in [Turn -> Phase]
<1>1. terminal' \in [Turn -> BOOLEAN] /\ finished' \in [Turn -> Nat]
  BY DEF TypeOK, EmitTerminalOnce
<1>2. active' \in [Thread -> Turn \cup {None}]
  BY DEF TypeOK, EmitTerminalOnce
<1>3. phase' \in [Turn -> Phase]
  BY DEF TypeOK, EmitTerminalOnce, Goto, Phase
<1> QED
  BY <1>1, <1>2, <1>3

LEMMA StopTypes ==
  ASSUME TypeOK, NEW th \in Thread, NEW then \in {"read", "read-closed", "exit"},
         StopTurn(th, then)
  PROVE  /\ loop' \in LoopState /\ terminal' \in [Turn -> BOOLEAN]
         /\ active' \in [Thread -> Turn \cup {None}]
<1>1. active[th] \in Turn \cup {None}
  BY DEF TypeOK
<1>2. "join" \in LoopAt /\ "kill" \in LoopAt
  BY DEF LoopAt
<1>3. CASE active[th] # None /\ ~terminal[active[th]]
  <2>1. /\ terminal' = [terminal EXCEPT ![active[th]] = TRUE]
        /\ active' = [active EXCEPT ![th] = None]
        /\ loop' = At("join", th, active[th], then)
    BY <1>3 DEF StopTurn
  <2>2. terminal' \in [Turn -> BOOLEAN] /\ active' \in [Thread -> Turn \cup {None}]
    BY <2>1 DEF TypeOK
  <2> QED
    BY <1>1, <1>2, <2>1, <2>2, LoopTypes
<1>4. CASE ~(active[th] # None /\ ~terminal[active[th]])
  BY <1>2, <1>4, LoopTypes DEF TypeOK, StopTurn
<1> QED
  BY <1>3, <1>4

\* Every step keeps the variables in their types.
LEMMA TypeStep ==
  ASSUME TypeOK, LoopTurn, [Next]_vars
  PROVE  TypeOK'
<1> USE LoopTypes, NextTurnIsATurn, NextAskIsAnAsk
    DEF TypeOK, LoopTurn, LoopAt, LoopSaves, Phase, TaskSaves,
        Serving, vars, taskVars, askVars, wireVars
<1>1. ASSUME NEW th \in Thread, OpenThread(th) PROVE  TypeOK'
  BY <1>1 DEF OpenThread, LoopOnly
<1>2. CASE SelectionRecorded
  BY <1>2 DEF SelectionRecorded, LoopOnly
<1>3. CASE EmptySaved
  BY <1>3 DEF EmptySaved, LoopOnly
<1>4. ASSUME NEW th \in Thread, FlushThread(th) PROVE  TypeOK'
  BY <1>4 DEF FlushThread, LoopOnly
<1>5. ASSUME NEW th \in Thread, DeleteThread(th) PROVE  TypeOK'
  BY <1>5 DEF DeleteThread, LoopOnly
<1>6. CASE MaintenanceDone
  BY <1>6 DEF MaintenanceDone, LoopOnly
<1>7. ASSUME NEW th \in Thread, TurnStart(th) PROVE  TypeOK'
  BY <1>7 DEF TurnStart
<1>8. CASE UserSnapshotDone
  <2>1. "userBlob" \in LoopAt /\ (loop' = Reading \/ loop' = At("userBlob", loop.th, loop.turn, loop.then))
    BY <1>8 DEF UserSnapshotDone
  <2> QED
    BY <1>8, <2>1 DEF UserSnapshotDone, LoopOnly
<1>9. CASE UserBlobFailed
  BY <1>9 DEF UserBlobFailed, LoopOnly
<1>10. CASE Accept
  BY <1>10 DEF Accept, Goto
<1>11. ASSUME NEW t \in Turn, Begin(t) PROVE  TypeOK'
  BY <1>11 DEF Begin, TaskOnly, LoopWaits, Goto, Say, Runs
<1>12. ASSUME NEW t \in Turn, RouteReady(t) PROVE  TypeOK'
  BY <1>12 DEF RouteReady, TaskOnly, LoopWaits, Goto, Runs
<1>13. ASSUME NEW t \in Turn, Speak(t) PROVE  TypeOK'
  BY <1>13 DEF Speak, TaskOnly, LoopWaits, Say, Runs
<1>14. ASSUME NEW t \in Turn, AskClient(t) PROVE  TypeOK'
  BY <1>14 DEF AskClient, TaskOnly, LoopWaits, Goto, Say, Runs
<1>15. ASSUME NEW id \in Ask, ClientReply(id) PROVE  TypeOK'
  BY <1>15 DEF ClientReply, TaskOnly, LoopWaits
<1>16. ASSUME NEW t \in Turn, Resume(t) PROVE  TypeOK'
  BY <1>16 DEF Resume, TaskOnly, LoopWaits, Goto, Runs
<1>17. ASSUME NEW t \in Turn, EngineReturns(t) PROVE  TypeOK'
  BY <1>17 DEF EngineReturns, TaskOnly, LoopWaits, Goto, Runs
<1>18. ASSUME NEW t \in Turn, SaveSnapshot(t) PROVE  TypeOK'
  BY <1>18 DEF SaveSnapshot, TaskOnly, LoopWaits, Goto, Runs
<1>19. ASSUME NEW t \in Turn, SaveBlob(t) PROVE  TypeOK'
  BY <1>19 DEF SaveBlob, TaskOnly, LoopWaits, Goto, Runs
<1>20. ASSUME NEW t \in Turn, RouteFailed(t) PROVE  TypeOK'
  BY <1>20, EmitTypes DEF RouteFailed, TaskOnly, LoopWaits
<1>21. ASSUME NEW t \in Turn, Finish(t) PROVE  TypeOK'
  <2>1. pending' \in [Ask -> Turn \cup {None}]
    BY <1>21 DEF Finish, FailPending
  <2>2. said' \in [Turn -> Nat]
    BY <1>21 DEF Finish, Say
  <2> QED
    BY <1>21, <2>1, <2>2, EmitTypes DEF Finish, TaskOnly, LoopWaits
<1>22. CASE Account
  BY <1>22 DEF Account
<1>23. CASE Accounted
  BY <1>23 DEF Accounted
<1>24. ASSUME NEW th \in Thread, CancelTurn(th) PROVE  TypeOK'
  BY <1>24, StopTypes DEF CancelTurn, StopOnly
<1>25. ASSUME NEW th \in Thread, CloseThread(th) PROVE  TypeOK'
  BY <1>25, StopTypes DEF CloseThread, StopOnly
<1>26. CASE Drain
  BY <1>26 DEF Drain, LoopOnly
<1>27. ASSUME NEW th \in Thread, DrainThread(th) PROVE  TypeOK'
  BY <1>27, StopTypes DEF DrainThread, StopOnly
<1>28. CASE Joined
  BY <1>28 DEF Joined, JoinedTail, Goto, FailPending
<1>29. CASE Cancelled
  <2>1. loop.turn \in Turn
    BY <1>29 DEF Cancelled
  <2>2. said' \in [Turn -> Nat] /\ cancelled' \in [Turn -> Nat]
    BY <1>29, <2>1 DEF Cancelled, Say
  <2>3. loop' \in LoopState
    BY <1>29 DEF Cancelled
  <2> QED
    BY <1>29, <2>2, <2>3 DEF Cancelled
<1>30. CASE JobsKilled
  BY <1>30 DEF JobsKilled, LoopOnly
<1>31. CASE Exit
  BY <1>31 DEF Exit
<1>32. CASE Block
  BY <1>32 DEF Block
<1>33. CASE UNCHANGED vars
  BY <1>33 DEF vars, taskVars, askVars, wireVars
<1> QED
  BY <1>1, <1>2, <1>3, <1>4, <1>5, <1>6, <1>7, <1>8, <1>9, <1>10, <1>11, <1>12, <1>13, <1>14, <1>15, <1>16, <1>17, <1>18, <1>19, <1>20, <1>21, <1>22, <1>23, <1>24, <1>25, <1>26, <1>27, <1>28, <1>29, <1>30, <1>31, <1>32, <1>33
  DEF Next, LoopStep, ClientStep, TaskStep, EngineStep

-----------------------------------------------------------------------------
(* The invariant, for steps of one shape.                                     *)

\* A step that touches no turn and keeps the loop away from stopping one.
LEMMA QuietStep ==
  ASSUME TurnInv, LoopTurn', loaded \subseteq loaded',
         loop.at \notin {"join", "interrupted"}, loop'.at \notin {"join", "interrupted"},
         UNCHANGED <<taskVars, askVars, finished, cancelled>>,
         nextTurn' = nextTurn \/ (nextTurn' = nextTurn + 1 /\ nextTurn \in Nat)
  PROVE  Placed' /\ Asked' /\ Engines'
<1> USE DEF TurnInv, Placed, taskVars, askVars
<1>1. Numbered'
  <2>1. \A t \in Turn : t >= nextTurn' => t >= nextTurn
    BY DEF Turn, TypeOK
  <2> QED
    BY <2>1 DEF Numbered
<1>2. Slots'
  BY DEF Slots, Live
<1>3. LiveTurns'
  BY DEF LiveTurns, Live, Joining
<1>4. Sent'
  BY DEF Sent, Interrupted
<1>5. Asked' /\ Engines'
  BY DEF Asked, Engines
<1> QED
  BY <1>1, <1>2, <1>3, <1>4, <1>5

\* A live turn's own step that does not end it.
LEMMA LiveStep ==
  ASSUME TurnInv, NEW t \in Turn, NEW p \in Phase \ {"new", "ended", "aborted"}, Live(t),
         phase' = [phase EXCEPT ![t] = p],
         UNCHANGED <<loaded, loop, nextTurn, owner, active, terminal, finished, cancelled>>
  PROVE  Placed'
<1> USE DEF TurnInv, Placed, TypeOK
<1>1. \A u \in Turn : Live(u)' <=> Live(u)
  BY DEF Live
<1>2. \A u \in Turn : \A q \in {"new", "ended", "aborted"} : phase'[u] = q <=> phase[u] = q
  BY DEF Live
<1>3. Numbered'
  BY <1>2 DEF Numbered
<1>4. LoopTurn'
  BY <1>1, <1>2 DEF LoopTurn
<1>5. Slots'
  BY <1>1 DEF Slots
<1>6. LiveTurns'
  BY <1>1 DEF LiveTurns, Joining
<1>7. Sent'
  BY <1>2 DEF Sent, Interrupted
<1> QED
  BY <1>3, <1>4, <1>5, <1>6, <1>7

\* A live turn that the loop is not joining has its slot and an unclaimed flag.
LEMMA RunningHasItsSlot ==
  ASSUME TurnInv, NEW t \in Turn, Live(t), ~Joining(t)
  PROVE  /\ owner[t] \in Thread /\ active[owner[t]] = t /\ ~terminal[t]
         /\ finished[t] = 0 /\ cancelled[t] = 0
<1>1. owner[t] \in Thread
  BY DEF TurnInv, TypeOK, Placed, Numbered, Live
<1>2. active[owner[t]] = t
  BY DEF TurnInv, Placed, LiveTurns
<1>3. ~terminal[t]
  BY <1>1, <1>2, TurnIsNotNone DEF TurnInv, Placed, Slots
<1>4. finished[t] = 0 /\ cancelled[t] = 0
  BY DEF TurnInv, Placed, Sent, Live
<1> QED
  BY <1>1, <1>2, <1>3, <1>4

\* The end of a turn's own task.
LEMMA EndStep ==
  ASSUME TurnInv, NEW t \in Turn, Live(t), ~Joining(t), EmitTerminalOnce(t),
         UNCHANGED <<loaded, loop, nextTurn, owner, cancelled>>
  PROVE  Placed'
<1> USE RunningHasItsSlot DEF TurnInv, Placed, TypeOK
<1>1. /\ terminal' = [terminal EXCEPT ![t] = TRUE]
      /\ finished' = [finished EXCEPT ![t] = 1]
      /\ active' = [active EXCEPT ![owner[t]] = None]
      /\ phase' = [phase EXCEPT ![t] = "ended"]
  <2>1. active[owner[t]] = t /\ ~terminal[t] /\ finished[t] = 0 /\ owner[t] \in Thread
    BY RunningHasItsSlot
  <2> QED
    BY <2>1 DEF EmitTerminalOnce, Goto
<1>2. \A u \in Turn : u # t => (Live(u)' <=> Live(u))
                              /\ (owner[u] = owner[t] /\ Live(u) => Joining(u))
  <2>1. active[owner[t]] = t
    BY RunningHasItsSlot
  <2>2. \A u \in Turn : u # t => (Live(u)' <=> Live(u))
    BY <1>1 DEF Live
  <2>3. \A u \in Turn : u # t /\ owner[u] = owner[t] /\ Live(u) => Joining(u)
    BY <2>1 DEF LiveTurns
  <2> QED
    BY <2>2, <2>3
<1>3. Numbered'
  BY <1>1 DEF Numbered, Live
<1>4. LoopTurn'
  BY <1>1, <1>2 DEF LoopTurn, Live, Joining
<1>5. Slots'
  BY <1>1, <1>2, TurnIsNotNone DEF Slots, Live
<1>6. LiveTurns'
  BY <1>1, <1>2 DEF LiveTurns, Joining, Live
<1>7. Sent'
  BY <1>1 DEF Sent, Interrupted, Live
<1> QED
  BY <1>3, <1>4, <1>5, <1>6, <1>7

\* Cancel, close and drain: the flag is claimed and the slot emptied, or the
\* slot was empty.
LEMMA StopStep ==
  ASSUME TurnInv, NEW th \in Thread, NEW then \in {"read", "read-closed", "exit"},
         StopTurn(th, then), loop.at \in {"read", "drain"},
         loaded' = loaded \/ loaded' = loaded \ {th},
         UNCHANGED <<nextTurn, owner, phase, engine, askVars, finished, cancelled>>
  PROVE  Placed' /\ Asked' /\ Engines'
<1> USE TurnIsNotNone DEF TurnInv, Placed, TypeOK, askVars
<1>0. active[th] \in Turn \cup {None}
  OBVIOUS
<1>1. Asked' /\ Engines'
  BY DEF Asked, Engines
<1>2. CASE active[th] # None
  <2>1. /\ owner[active[th]] = th /\ Live(active[th]) /\ active[th] \in Turn
        /\ ~terminal[active[th]]
    BY <1>0, <1>2 DEF Slots
  <2>2. /\ terminal' = [terminal EXCEPT ![active[th]] = TRUE]
        /\ active' = [active EXCEPT ![th] = None]
        /\ loop' = At("join", th, active[th], then)
    BY <1>2, <2>1 DEF StopTurn
  <2>3. loop'.at = "join" /\ loop'.th = th /\ loop'.turn = active[th]
    BY <2>2 DEF At
  <2>4. Numbered' /\ LoopTurn'
    BY <2>1, <2>2, <2>3 DEF Numbered, LoopTurn, Live
  <2>5. Slots'
    BY <2>1, <2>2 DEF Slots, Live
  <2>6. LiveTurns'
    BY <2>1, <2>2, <2>3 DEF LiveTurns, Live, Joining
  <2>7. Sent'
    BY <2>3 DEF Sent, Interrupted
  <2> QED
    BY <1>1, <2>4, <2>5, <2>6, <2>7
<1>3. CASE active[th] = None
  <2>1. loop' = At("kill", th, None, then) /\ UNCHANGED <<terminal, active>>
    BY <1>3 DEF StopTurn
  <2>2. loop'.at = "kill"
    BY <2>1 DEF At
  <2>3. Numbered' /\ LoopTurn'
    BY <2>1, <2>2 DEF Numbered, LoopTurn
  <2>4. Slots'
    BY <1>3, <2>1 DEF Slots, Live
  <2>5. LiveTurns'
    BY <2>1, <2>2 DEF LiveTurns, Live, Joining
  <2>6. Sent'
    BY <2>2 DEF Sent, Interrupted
  <2> QED
    BY <1>1, <2>3, <2>4, <2>5, <2>6
<1> QED
  BY <1>2, <1>3

-----------------------------------------------------------------------------
(* The invariant, action by action.                                           *)

\* A step of the invariant's parts other than TypeOK, which TypeStep covers.
LEMMA InvStep ==
  ASSUME TurnInv, [Next]_vars
  PROVE  TurnInv'
<1> USE TurnIsNotNone DEF TurnInv
<1>1. TypeOK'
  BY TypeStep DEF Placed
<1> SUFFICES Placed' /\ Asked' /\ Engines'
  BY <1>1
<1>2. ASSUME NEW th \in Thread, OpenThread(th) PROVE Placed' /\ Asked' /\ Engines'
  BY <1>2, QuietStep DEF OpenThread, LoopOnly, LoopTurn, At, Serving, wireVars
<1>3. CASE SelectionRecorded
  BY <1>3, QuietStep DEF SelectionRecorded, LoopOnly, LoopTurn, Placed, At, Reading, wireVars
<1>4. CASE EmptySaved
  BY <1>4, QuietStep DEF EmptySaved, LoopOnly, LoopTurn, At, Reading, wireVars
<1>5. ASSUME NEW th \in Thread, FlushThread(th) PROVE Placed' /\ Asked' /\ Engines'
  BY <1>5, QuietStep DEF FlushThread, LoopOnly, LoopTurn, At, Serving, wireVars
<1>6. ASSUME NEW th \in Thread, DeleteThread(th) PROVE Placed' /\ Asked' /\ Engines'
  BY <1>6, QuietStep DEF DeleteThread, LoopOnly, LoopTurn, At, Serving, wireVars
<1>7. CASE MaintenanceDone
  BY <1>7, QuietStep DEF MaintenanceDone, LoopOnly, LoopTurn, At, Reading, wireVars
<1>8. ASSUME NEW th \in Thread, TurnStart(th) PROVE Placed' /\ Asked' /\ Engines'
  <2>1. nextTurn \in Turn /\ phase[nextTurn] = "new" /\ nextTurn < nextTurn'
    BY <1>8, NextTurnIsATurn DEF TurnStart, TypeOK, Placed, Numbered, Turn
  <2>2. LoopTurn'
    BY <1>8, <2>1 DEF TurnStart, LoopTurn, At, Serving, taskVars
  <2> QED
    BY <1>8, <2>1, <2>2, QuietStep DEF TurnStart, At, Serving, wireVars, Turn
<1>9. CASE UserSnapshotDone
  BY <1>9, QuietStep DEF UserSnapshotDone, LoopOnly, LoopTurn, Placed, At, Reading, wireVars, taskVars
<1>10. CASE UserBlobFailed
  BY <1>10, QuietStep DEF UserBlobFailed, LoopOnly, LoopTurn, At, wireVars
<1>11. CASE Accept
  <2>1. /\ loop.turn \in Turn /\ loop.turn < nextTurn /\ nextTurn \in Nat
        /\ phase[loop.turn] = "new" /\ loop.th \in Thread
        /\ loop.th \in loaded /\ active[loop.th] = None
    BY <1>11 DEF Accept, Placed, LoopTurn, TypeOK
  <2>2. /\ owner' = [owner EXCEPT ![loop.turn] = loop.th]
        /\ phase' = [phase EXCEPT ![loop.turn] = "spawned"]
        /\ active' = [active EXCEPT ![loop.th] = loop.turn]
        /\ loop'.at = "read" /\ UNCHANGED <<loaded, nextTurn, terminal, engine, askVars, wireVars>>
    BY <1>11 DEF Accept, Goto, Reading, At
  <2>3. Numbered'
    BY <2>1, <2>2, NoThreadAssumption DEF Placed, Numbered, TypeOK, Turn
  <2>4. LoopTurn'
    BY <2>2 DEF LoopTurn
  <2>5. Slots'
    BY <2>1, <2>2 DEF Placed, Slots, Live, TypeOK, Numbered
  <2>6. LiveTurns'
    BY <1>11, <2>1, <2>2 DEF Accept, Placed, LiveTurns, Slots, Live, Joining, TypeOK, Numbered
  <2>7. Sent'
    BY <1>11, <2>1, <2>2 DEF Accept, Placed, Sent, Interrupted, TypeOK, wireVars
  <2>8. Asked' /\ Engines'
    BY <2>1, <2>2 DEF Asked, Engines, TypeOK, askVars, Placed, Numbered
  <2> QED
    BY <2>3, <2>4, <2>5, <2>6, <2>7, <2>8 DEF Placed
<1>12. ASSUME NEW t \in Turn, Begin(t) PROVE Placed' /\ Asked' /\ Engines'
  <2>1. Live(t) /\ phase[t] = "spawned" /\ "routing" \in Phase
    BY <1>12 DEF Begin, Runs, Live, Phase, TaskSaves
  <2>2. Placed'
    BY <1>12, <2>1, LiveStep DEF Begin, Goto, TaskOnly, LoopWaits, wireVars, taskVars
  <2>3. Asked'
    BY <1>12, <2>1 DEF Begin, Goto, TaskOnly, LoopWaits, askVars, taskVars, Asked, TypeOK
  <2>4. Engines'
    BY <1>12, <2>1 DEF Begin, Goto, TaskOnly, LoopWaits, askVars, taskVars, Engines, TypeOK
  <2> QED
    BY <2>2, <2>3, <2>4
<1>13. ASSUME NEW t \in Turn, RouteReady(t) PROVE Placed' /\ Asked' /\ Engines'
  <2>1. Live(t) /\ phase[t] = "routing" /\ "engine" \in Phase
    BY <1>13 DEF RouteReady, Runs, Live, Phase, TaskSaves
  <2>2. Placed'
    BY <1>13, <2>1, LiveStep DEF RouteReady, Goto, TaskOnly, LoopWaits, wireVars, taskVars
  <2>3. Asked'
    BY <1>13, <2>1 DEF RouteReady, Goto, TaskOnly, LoopWaits, askVars, taskVars, Asked, TypeOK
  <2>4. Engines'
    BY <1>13, <2>1 DEF RouteReady, Goto, TaskOnly, LoopWaits, askVars, taskVars, Engines, TypeOK
  <2> QED
    BY <2>2, <2>3, <2>4
<1>14. ASSUME NEW t \in Turn, Speak(t) PROVE Placed' /\ Asked' /\ Engines'
  <2>1. Live(t) /\ phase[t] = "engine" /\ "engine" \in Phase
    BY <1>14 DEF Speak, Runs, Live, Phase, TaskSaves
  <2>2. Placed'
    <3>1. phase' = [phase EXCEPT ![t] = "engine"]
      BY <1>14, <2>1 DEF Speak, taskVars, TypeOK
    <3> QED
      BY <1>14, <2>1, <3>1, LiveStep DEF Speak, TaskOnly, LoopWaits, taskVars
  <2>3. Asked'
    BY <1>14, <2>1 DEF Speak, Goto, TaskOnly, LoopWaits, askVars, taskVars, Asked, TypeOK
  <2>4. Engines'
    BY <1>14, <2>1 DEF Speak, Goto, TaskOnly, LoopWaits, askVars, taskVars, Engines, TypeOK
  <2> QED
    BY <2>2, <2>3, <2>4
<1>15. ASSUME NEW t \in Turn, AskClient(t) PROVE Placed' /\ Asked' /\ Engines'
  <2>1. Live(t) /\ phase[t] = "engine" /\ "asking" \in Phase
    BY <1>15 DEF AskClient, Runs, Live, Phase, TaskSaves
  <2>2. Placed'
    BY <1>15, <2>1, LiveStep DEF AskClient, Goto, TaskOnly, LoopWaits, wireVars, taskVars
  <2>3. Asked'
    BY <1>15, <2>1 DEF AskClient, Goto, TaskOnly, LoopWaits, askVars, taskVars, Asked, TypeOK
  <2>4. Engines'
    BY <1>15, <2>1 DEF AskClient, Goto, TaskOnly, LoopWaits, askVars, taskVars, Engines, TypeOK
  <2> QED
    BY <2>2, <2>3, <2>4
<1>16. ASSUME NEW t \in Turn, Resume(t) PROVE Placed' /\ Asked' /\ Engines'
  <2>1. Live(t) /\ phase[t] = "answered" /\ "engine" \in Phase
    BY <1>16 DEF Resume, Runs, Live, Phase, TaskSaves
  <2>2. Placed'
    BY <1>16, <2>1, LiveStep DEF Resume, Goto, TaskOnly, LoopWaits, wireVars, taskVars
  <2>3. Asked'
    BY <1>16, <2>1 DEF Resume, Goto, TaskOnly, LoopWaits, askVars, taskVars, Asked, TypeOK
  <2>4. Engines'
    BY <1>16, <2>1 DEF Resume, Goto, TaskOnly, LoopWaits, askVars, taskVars, Engines, TypeOK
  <2> QED
    BY <2>2, <2>3, <2>4
<1>17. ASSUME NEW t \in Turn, EngineReturns(t) PROVE Placed' /\ Asked' /\ Engines'
  <2>1. Live(t) /\ phase[t] = "engine" /\ "export" \in Phase
    BY <1>17 DEF EngineReturns, Runs, Live, Phase, TaskSaves
  <2>2. Placed'
    BY <1>17, <2>1, LiveStep DEF EngineReturns, Goto, TaskOnly, LoopWaits, wireVars, taskVars
  <2>3. Asked'
    BY <1>17, <2>1 DEF EngineReturns, Goto, TaskOnly, LoopWaits, askVars, taskVars, Asked, TypeOK
  <2>4. Engines'
    BY <1>17, <2>1 DEF EngineReturns, Goto, TaskOnly, LoopWaits, askVars, taskVars, Engines, TypeOK
  <2> QED
    BY <2>2, <2>3, <2>4
<1>18. ASSUME NEW t \in Turn, SaveSnapshot(t) PROVE Placed' /\ Asked' /\ Engines'
  <2>1. Live(t) /\ phase[t] = "export" /\ "snapshot" \in Phase
    BY <1>18 DEF SaveSnapshot, Runs, Live, Phase, TaskSaves
  <2>2. Placed'
    BY <1>18, <2>1, LiveStep DEF SaveSnapshot, Goto, TaskOnly, LoopWaits, wireVars, taskVars
  <2>3. Asked'
    BY <1>18, <2>1 DEF SaveSnapshot, Goto, TaskOnly, LoopWaits, askVars, taskVars, Asked, TypeOK
  <2>4. Engines'
    BY <1>18, <2>1 DEF SaveSnapshot, Goto, TaskOnly, LoopWaits, askVars, taskVars, Engines, TypeOK
  <2> QED
    BY <2>2, <2>3, <2>4
<1>19. ASSUME NEW t \in Turn, SaveBlob(t) PROVE Placed' /\ Asked' /\ Engines'
  <2>1. Live(t) /\ phase[t] = "snapshot" /\ "blob" \in Phase
    BY <1>19 DEF SaveBlob, Runs, Live, Phase, TaskSaves
  <2>2. Placed'
    BY <1>19, <2>1, LiveStep DEF SaveBlob, Goto, TaskOnly, LoopWaits, wireVars, taskVars
  <2>3. Asked'
    BY <1>19, <2>1 DEF SaveBlob, Goto, TaskOnly, LoopWaits, askVars, taskVars, Asked, TypeOK
  <2>4. Engines'
    BY <1>19, <2>1 DEF SaveBlob, Goto, TaskOnly, LoopWaits, askVars, taskVars, Engines, TypeOK
  <2> QED
    BY <2>2, <2>3, <2>4
<1>20. ASSUME NEW id \in Ask, ClientReply(id) PROVE Placed' /\ Asked' /\ Engines'
  <2> DEFINE t == pending[id]
  <2>1. t \in Turn /\ phase[t] = "asking" /\ Live(t) /\ "answered" \in Phase
    BY <1>20 DEF ClientReply, TypeOK, Asked, Live, Phase
  <2>2. /\ phase' = [phase EXCEPT ![t] = "answered"]
        /\ pending' = [pending EXCEPT ![id] = None]
    BY <1>20, <2>1 DEF ClientReply
  <2>3. Placed'
    BY <1>20, <2>1, <2>2, LiveStep DEF ClientReply, TaskOnly, LoopWaits, wireVars
  <2>4. Asked'
    BY <2>1, <2>2 DEF Asked, TypeOK
  <2>5. Engines'
    BY <1>20, <2>1, <2>2 DEF ClientReply, Engines, TypeOK
  <2> QED
    BY <2>3, <2>4, <2>5
<1>21. ASSUME NEW t \in Turn, RouteFailed(t) PROVE Placed' /\ Asked' /\ Engines'
  <2>1. phase[t] = "routing" /\ Live(t) /\ ~Joining(t) /\ phase' = [phase EXCEPT ![t] = "ended"]
    BY <1>21 DEF RouteFailed, Runs, Aborted, Joining, Live, EmitTerminalOnce, Goto
  <2>2. Placed'
    BY <1>21, <2>1, EndStep DEF RouteFailed, TaskOnly, LoopWaits
  <2>3. Asked' /\ Engines'
    BY <1>21, <2>1 DEF RouteFailed, askVars, Asked, Engines, TypeOK
  <2> QED
    BY <2>2, <2>3
<1>22. ASSUME NEW t \in Turn, Finish(t) PROVE Placed' /\ Asked' /\ Engines'
  <2>1. /\ phase[t] \in {"snapshot", "blob"} /\ Live(t) /\ ~Joining(t)
        /\ phase' = [phase EXCEPT ![t] = "ended"]
    BY <1>22 DEF Finish, Runs, Aborted, Joining, Live, EmitTerminalOnce, Goto
  <2>2. Placed'
    BY <1>22, <2>1, EndStep DEF Finish, TaskOnly, LoopWaits
  <2>3. Asked'
    BY <1>22, <2>1 DEF Finish, FailPending, Asked, TypeOK
  <2>4. Engines'
    BY <1>22, <2>1 DEF Finish, Engines, TypeOK
  <2> QED
    BY <2>2, <2>3, <2>4
<1>23. CASE UNCHANGED <<loaded, loop, nextTurn, taskVars, askVars, finished, cancelled>>
  <2>1. Placed'
    BY <1>23 DEF Placed, Numbered, LoopTurn, Slots, LiveTurns, Sent, Live, Joining, Interrupted, taskVars
  <2>2. Asked' /\ Engines'
    BY <1>23 DEF Asked, Engines, taskVars, askVars
  <2> QED
    BY <2>1, <2>2
<1>24. CASE Account \/ Accounted \/ Block \/ UNCHANGED vars
  BY <1>23, <1>24 DEF Account, Accounted, Block, vars, wireVars
<1>25. ASSUME NEW th \in Thread, CancelTurn(th) PROVE Placed' /\ Asked' /\ Engines'
  BY <1>25, StopStep DEF CancelTurn, Serving, StopOnly, wireVars
<1>26. ASSUME NEW th \in Thread, CloseThread(th) PROVE Placed' /\ Asked' /\ Engines'
  BY <1>26, StopStep DEF CloseThread, Serving, StopOnly, wireVars
<1>27. ASSUME NEW th \in Thread, DrainThread(th) PROVE Placed' /\ Asked' /\ Engines'
  BY <1>27, StopStep DEF DrainThread, StopOnly, wireVars
<1>28. CASE Drain
  BY <1>28, QuietStep DEF Drain, LoopOnly, LoopTurn, At, Serving, wireVars
<1>29. CASE JobsKilled
  BY <1>29, QuietStep DEF JobsKilled, LoopOnly, LoopTurn, At, Reading, wireVars
<1>30. CASE Joined
  <2> DEFINE t == loop.turn
  <2>1. /\ t \in Turn /\ Live(t) /\ terminal[t] /\ owner[t] = loop.th
        /\ active[loop.th] = None /\ loop.th \in Thread /\ Joining(t)
    BY <1>30 DEF Joined, Placed, LoopTurn, Numbered, Live, TypeOK, Joining
  <2>2. /\ phase' = [phase EXCEPT ![t] = "aborted"]
        /\ engine' = [engine EXCEPT ![loop.th] = IF @ = t THEN None ELSE @]
        /\ loop'.at = "interrupted" /\ loop'.turn = t /\ loop'.th = loop.th
        /\ UNCHANGED <<loaded, nextTurn, owner, active, terminal, finished, cancelled>>
    BY <1>30 DEF Joined, JoinedTail, Goto, At, wireVars
  <2>3. Numbered'
    BY <2>1, <2>2 DEF Placed, Numbered, Live, TypeOK
  <2>4. LoopTurn'
    BY <2>1, <2>2 DEF LoopTurn, TypeOK
  <2>5. Slots'
    BY <2>1, <2>2 DEF Placed, Slots, Live, TypeOK
  <2>6. LiveTurns'
    BY <2>1, <2>2 DEF Placed, LiveTurns, Joining, Live, TypeOK
  <2>7. Sent'
    BY <1>30, <2>1, <2>2 DEF Joined, Placed, Sent, Interrupted, Live, TypeOK
  <2>8. Asked'
    BY <1>30, <2>1, <2>2 DEF Joined, FailPending, Asked, TypeOK
  <2>9. Engines'
    BY <2>1, <2>2 DEF Engines, TypeOK
  <2> QED
    BY <2>3, <2>4, <2>5, <2>6, <2>7, <2>8, <2>9 DEF Placed
<1>31. CASE Cancelled
  <2> DEFINE t == loop.turn
  <2>1. /\ t \in Turn /\ phase[t] = "aborted" /\ active[loop.th] = None
        /\ loop.at = "interrupted" /\ cancelled[t] = 0
    BY <1>31 DEF Cancelled, Placed, LoopTurn, Sent, Interrupted
  <2>2. /\ cancelled' = [cancelled EXCEPT ![t] = 1]
        /\ loop'.at \in {"read", "kill"}
        /\ UNCHANGED <<loaded, nextTurn, taskVars, askVars, finished>>
    BY <1>31, <2>1 DEF Cancelled, Reading, At, TypeOK
  <2>3. Numbered' /\ LoopTurn' /\ Slots'
    BY <2>2 DEF Placed, Numbered, LoopTurn, Slots, Live, taskVars
  <2>4. LiveTurns'
    BY <2>1, <2>2 DEF Placed, LiveTurns, Live, Joining, taskVars
  <2>5. Sent'
    BY <2>1, <2>2 DEF Placed, Sent, Interrupted, taskVars, TypeOK
  <2>6. Asked' /\ Engines'
    BY <2>2 DEF Asked, Engines, taskVars, askVars
  <2> QED
    BY <2>3, <2>4, <2>5, <2>6 DEF Placed
<1>32. CASE Exit
  <2>1. Placed' /\ Engines'
    <3>1. loop'.at = "exited" /\ loaded' = {} /\ loop.at = "drain"
          /\ UNCHANGED <<loaded, nextTurn, taskVars, finished, cancelled>>
      BY <1>32 DEF Exit, At, wireVars
    <3>2. Numbered' /\ LoopTurn' /\ Slots' /\ Engines'
      BY <3>1 DEF Placed, Numbered, LoopTurn, Slots, Live, Engines, taskVars
    <3>3. LiveTurns' /\ Sent'
      BY <3>1 DEF Placed, LiveTurns, Live, Joining, Sent, Interrupted, taskVars
    <3> QED
      BY <3>2, <3>3 DEF Placed
  <2>2. Asked'
    BY <1>32 DEF Exit, Asked
  <2> QED
    BY <2>1, <2>2
<1> QED
  BY <1>2, <1>3, <1>4, <1>5, <1>6, <1>7, <1>8, <1>9, <1>10, <1>11, <1>12, <1>13, <1>14,
     <1>15, <1>16, <1>17, <1>18, <1>19, <1>20, <1>21, <1>22, <1>24, <1>25, <1>26, <1>27,
     <1>28, <1>29, <1>30, <1>31, <1>32
  DEF Next, LoopStep, ClientStep, TaskStep, EngineStep

\* The process starts in the invariant.
LEMMA InvInit ==
  ASSUME Init
  PROVE  TurnInv
<1> USE BoundsAssumption DEF Init, Turn, Ask, None
<1>1. TypeOK
  <2>1. nextTurn \in 1..(MaxTurns + 1) /\ nextAsk \in 1..(MaxAsks + 1)
    OBVIOUS
  <2> QED
    BY <2>1, LoopTypes DEF TypeOK, Phase
<1>2. Placed
  BY DEF Placed, Numbered, LoopTurn, Slots, LiveTurns, Sent, Live, Interrupted, Reading, At
<1>3. Asked /\ Engines
  BY DEF Asked, Engines
<1> QED
  BY <1>1, <1>2, <1>3 DEF TurnInv

\* The code keeps every turn where TurnInv says: the inductive invariant of the
\* turn lifecycle, on which the theorems below rest.
THEOREM Invariance ==
  Spec => []TurnInv
<1>1. TurnInv /\ [Next]_vars => TurnInv'
  BY InvStep
<1> QED
  BY <1>1, InvInit, PTL DEF Spec

-----------------------------------------------------------------------------
(* What follows from the invariant.                                           *)

\* The variables keep their types.
THEOREM TypeCorrect ==
  Spec => []TypeOK
BY Invariance, PTL DEF TurnInv

\* No turn is ever sent two terminal events, whatever the interleaving of its own
\* end, cancel, close and shutdown.
THEOREM AtMostOneTerminal ==
  Spec => []OneTerminalEvent
<1>1. TurnInv => OneTerminalEvent
  <2> SUFFICES ASSUME TurnInv, NEW t \in Turn PROVE finished[t] + cancelled[t] <= 1
    BY DEF OneTerminalEvent
  <2>1. /\ finished[t] = IF phase[t] = "ended" THEN 1 ELSE 0
        /\ cancelled[t] = IF phase[t] = "aborted" /\ ~Interrupted(t) THEN 1 ELSE 0
    BY DEF TurnInv, Placed, Sent
  <2> QED
    BY <2>1
<1> QED
  BY <1>1, Invariance, PTL

\* A turn is open for the client exactly while its task lives or the loop is
\* about to send its turn.cancelled.
LEMMA TerminatedPhases ==
  ASSUME TurnInv, NEW t \in Turn
  PROVE  Terminated(t) <=> phase[t] = "ended" \/ (phase[t] = "aborted" /\ ~Interrupted(t))
<1>1. /\ finished[t] = IF phase[t] = "ended" THEN 1 ELSE 0
      /\ cancelled[t] = IF phase[t] = "aborted" /\ ~Interrupted(t) THEN 1 ELSE 0
  BY DEF TurnInv, Placed, Sent
<1> QED
  BY <1>1 DEF Terminated

\* An accepted turn the client still waits for is in its thread's slot, or is
\* the one the loop is stopping.
LEMMA OpenTurnPlace ==
  ASSUME TurnInv, NEW t \in OpenTurns
  PROVE  /\ t \in Turn /\ owner[t] \in Thread
         /\ \/ active[owner[t]] = t /\ Live(t)
            \/ Joining(t) /\ loop.th = owner[t] /\ active[owner[t]] = None
            \/ Interrupted(t) /\ phase[t] = "aborted"
<1>1. t \in Turn /\ owner[t] # NoThread /\ ~Terminated(t)
  BY DEF OpenTurns
<1>2. owner[t] \in Thread /\ phase[t] # "new"
  BY <1>1 DEF TurnInv, TypeOK, Placed, Numbered
<1>3. Live(t) \/ (phase[t] = "aborted" /\ Interrupted(t))
  BY <1>1, <1>2, TerminatedPhases DEF Live
<1>4. Live(t) => active[owner[t]] = t \/ (Joining(t) /\ loop.th = owner[t] /\ active[owner[t]] = None)
  BY <1>1 DEF TurnInv, Placed, LiveTurns, LoopTurn, Joining
<1> QED
  BY <1>1, <1>2, <1>3, <1>4

\* A thread never has two turns the client waits for, although the slot is
\* emptied before turn.cancelled is sent.
THEOREM AtMostOneOpenTurn ==
  Spec => []OneOpenTurn
<1>1. TurnInv => OneOpenTurn
  <2> SUFFICES ASSUME TurnInv, NEW t \in OpenTurns, NEW u \in OpenTurns, owner[t] = owner[u]
               PROVE  t = u
    BY DEF OneOpenTurn
  <2>1. CASE active[owner[t]] = t /\ Live(t)
    BY <2>1, OpenTurnPlace, TurnIsNotNone DEF TurnInv, Placed, LoopTurn, Interrupted, Joining
  <2>2. CASE Joining(t) /\ active[owner[t]] = None
    BY <2>2, OpenTurnPlace, TurnIsNotNone DEF Interrupted, Joining
  <2>3. CASE Interrupted(t)
    BY <2>3, OpenTurnPlace, TurnIsNotNone DEF TurnInv, Placed, LoopTurn, Interrupted, Joining
  <2> QED
    BY <2>1, <2>2, <2>3, OpenTurnPlace
<1> QED
  BY <1>1, Invariance, PTL

\* A client response the loop reads can only reach an active turn suspended on
\* that very interaction.
THEOREM RepliesReachTheirTurn ==
  Spec => []PendingIsAwaited
<1>1. TurnInv => PendingIsAwaited
  <2> SUFFICES ASSUME TurnInv, loop.at = "read", NEW id \in Ask, pending[id] # None
               PROVE  phase[pending[id]] = "asking" /\ active[owner[pending[id]]] = pending[id]
    BY DEF PendingIsAwaited
  <2>1. pending[id] \in Turn /\ phase[pending[id]] = "asking"
    BY DEF TurnInv, TypeOK, Asked
  <2>2. Live(pending[id]) /\ ~Joining(pending[id])
    BY <2>1 DEF Live, Joining
  <2> QED
    BY <2>1, <2>2, RunningHasItsSlot
<1> QED
  BY <1>1, Invariance, PTL

\* The engine of a thread is free whenever one of its turns comes to lock it.
THEOREM EngineIsFree ==
  Spec => []EngineUncontended
<1>1. TurnInv => EngineUncontended
  <2> SUFFICES ASSUME TurnInv, NEW t \in Turn, phase[t] \in {"spawned", "routing"},
                      engine[owner[t]] # None
               PROVE  FALSE
    BY DEF EngineUncontended
  <2> DEFINE u == engine[owner[t]]
  <2>1. Live(t) /\ owner[t] \in Thread
    BY DEF Live, TurnInv, TypeOK, Placed, Numbered
  <2>2. u \in Turn /\ owner[u] = owner[t] /\ phase[u] \in {"engine", "asking", "answered"}
    BY <2>1 DEF TurnInv, TypeOK, Engines
  <2>3. Live(u) /\ u # t
    BY <2>2 DEF Live
  <2>4. \A v \in {t, u} : active[owner[t]] = v \/ (Joining(v) /\ active[owner[t]] = None)
    BY <2>1, <2>2, <2>3 DEF TurnInv, Placed, LiveTurns, LoopTurn, Joining
  <2> QED
    BY <2>2, <2>3, <2>4, TurnIsNotNone DEF Joining
<1> QED
  BY <1>1, Invariance, PTL

\* When the process has shut down, every accepted turn has had its terminal
\* event, every interaction its answer, and every slot is empty.
THEOREM ShutdownIsComplete ==
  Spec => []NothingLeftBehind
<1>1. TurnInv => NothingLeftBehind
  <2> SUFFICES ASSUME TurnInv, loop.at = "exited"
               PROVE  /\ OpenTurns = {}
                      /\ \A id \in Ask : pending[id] = None
                      /\ \A th \in Thread : active[th] = None
    BY DEF NothingLeftBehind
  <2>1. \A th \in Thread : active[th] = None
    BY DEF TurnInv, Placed, LoopTurn, Slots
  <2>2. \A t \in Turn : ~Live(t)
    <3> SUFFICES ASSUME NEW t \in Turn, Live(t) PROVE FALSE
      OBVIOUS
    <3> QED
      BY <2>1, RunningHasItsSlot, TurnIsNotNone DEF Joining
  <2>3. OpenTurns = {}
    BY <2>2, OpenTurnPlace DEF Joining, Interrupted
  <2>4. \A id \in Ask : pending[id] = None
    BY <2>2 DEF TurnInv, TypeOK, Asked, Live
  <2> QED
    BY <2>1, <2>3, <2>4
<1> QED
  BY <1>1, Invariance, PTL

-----------------------------------------------------------------------------
(* The steps, and the refinement of TurnContract.                             *)

\* What a step may send: only a live turn, or the one being cancelled, is heard of.
LEMMA WireStep ==
  ASSUME TurnInv, [Next]_vars, NEW t \in Turn, Terminated(t)
  PROVE  UNCHANGED <<said[t], finished[t], cancelled[t]>>
<1> USE TerminatedPhases DEF TurnInv, TypeOK
<1>1. phase[t] = "ended" \/ (phase[t] = "aborted" /\ ~Interrupted(t))
  OBVIOUS
<1>2. CASE UNCHANGED wireVars
  BY <1>2 DEF wireVars
<1>3. ASSUME NEW u \in Turn, Begin(u) \/ Speak(u) \/ AskClient(u)
      PROVE  UNCHANGED <<said[t], finished[t], cancelled[t]>>
  BY <1>1, <1>3 DEF Begin, Speak, AskClient, Runs, Say
<1>4. ASSUME NEW u \in Turn, RouteFailed(u) \/ Finish(u)
      PROVE  UNCHANGED <<said[t], finished[t], cancelled[t]>>
  <2>1. u # t
    BY <1>1, <1>4 DEF RouteFailed, Finish, Runs
  <2> QED
    BY <1>4, <2>1 DEF RouteFailed, Finish, EmitTerminalOnce, Say
<1>5. CASE Cancelled
  <2>1. loop.turn # t
    BY <1>1, <1>5 DEF Cancelled, Interrupted, Placed, LoopTurn
  <2> QED
    BY <1>5, <2>1 DEF Cancelled, Say
<1>6. CASE Next /\ ~UNCHANGED wireVars
  <2>1. \/ \E u \in Turn : Begin(u) \/ Speak(u) \/ AskClient(u) \/ RouteFailed(u) \/ Finish(u)
        \/ Cancelled
    BY <1>6 DEF Next, LoopStep, ClientStep, TaskStep, EngineStep, wireVars, LoopOnly, TaskOnly, LoopWaits,
       OpenThread, SelectionRecorded, EmptySaved, FlushThread, DeleteThread, MaintenanceDone,
       TurnStart, UserSnapshotDone, UserBlobFailed, Accept, RouteReady, ClientReply, Resume,
       EngineReturns, SaveSnapshot, SaveBlob, Account, Accounted, CancelTurn, CloseThread,
       StopOnly, Drain, DrainThread, Joined, JoinedTail, JobsKilled, Exit, Block
  <2> QED
    BY <2>1, <1>3, <1>4, <1>5
<1> QED
  BY <1>2, <1>6 DEF vars

\* Nothing of a turn is sent after its terminal event.
THEOREM TerminalIsLast ==
  Spec => SilentAfterTerminal
<1>1. TurnInv /\ [Next]_vars =>
        [\A t \in Turn : Terminated(t) => UNCHANGED <<said[t], finished[t], cancelled[t]>>]_vars
  BY WireStep
<1> QED
  BY <1>1, Invariance, PTL DEF Spec, SilentAfterTerminal

ClosedTurns == {t \in Turn : Terminated(t)}

\* A step that sends nothing and accepts nothing changes nothing for the client.
LEMMA HiddenStep ==
  ASSUME UNCHANGED <<owner, wireVars>>
  PROVE  UNCHANGED Contract!vars
BY DEF Contract!vars, wireVars, Terminated

\* The slot and the serial loop make an acceptance one the contract allows.
LEMMA AcceptStep ==
  ASSUME TurnInv, Accept
  PROVE  Contract!Accept(loop.turn, loop.th)
<1>1. /\ loop.turn \in Turn /\ owner[loop.turn] = NoThread
      /\ loop.th \in Thread /\ active[loop.th] = None /\ loop.at = "userBlob"
  BY DEF Accept, TurnInv, Placed, LoopTurn, Numbered, TypeOK
<1>2. \A u \in OpenTurns : owner[u] # loop.th
  BY <1>1, OpenTurnPlace, TurnIsNotNone DEF Joining, Interrupted
<1>3. \A u \in Contract!Open : u \in OpenTurns
  BY DEF Contract!Open, OpenTurns
<1>4. ClosedTurns' = ClosedTurns
  BY DEF Accept, wireVars, ClosedTurns, Terminated
<1> QED
  BY <1>1, <1>2, <1>3, <1>4 DEF Contract!Accept, Accept, ClosedTurns, wireVars

\* An event or a request of a live turn is one of an open turn.
LEMMA SayStep ==
  ASSUME TurnInv, NEW t \in Turn, Live(t), Say(t), UNCHANGED <<owner, finished, cancelled>>
  PROVE  Contract!Say(t)
<1>1. t \in Contract!Open
  BY TerminatedPhases DEF Contract!Open, Live, TurnInv, Placed, Numbered
<1>2. ClosedTurns' = ClosedTurns
  BY DEF ClosedTurns, Terminated
<1> QED
  BY <1>1, <1>2 DEF Contract!Say, Say, ClosedTurns

\* A terminal event closes one open turn.
LEMMA CloseStep ==
  ASSUME TurnInv, TurnInv', NEW t \in Turn, owner[t] # NoThread, ~Terminated(t), Terminated(t)',
         UNCHANGED said \/ Say(t), UNCHANGED owner,
         \A u \in Turn : u # t => UNCHANGED <<finished[u], cancelled[u]>>
  PROVE  Contract!Close(t)
<1>1. t \in Contract!Open
  BY DEF Contract!Open
<1>2. \A u \in Turn : u # t => (Terminated(u)' <=> Terminated(u))
  BY DEF Terminated
<1>3. ClosedTurns' = ClosedTurns \cup {t}
  BY <1>2 DEF ClosedTurns
<1> QED
  BY <1>1, <1>3 DEF Contract!Close, Say, ClosedTurns

\* Every step of the server is one the contract allows, or one it cannot see.
LEMMA ContractStep ==
  ASSUME TurnInv, TurnInv', [Next]_vars
  PROVE  [Contract!Next]_(Contract!vars)
<1>1. CASE UNCHANGED <<owner, wireVars>>
  BY <1>1, HiddenStep
<1>2. CASE Accept
  <2>1. loop.turn \in Turn /\ loop.th \in Thread
    BY <1>2 DEF Accept, TurnInv, Placed, LoopTurn, TypeOK
  <2> QED
    BY <1>2, <2>1, AcceptStep DEF Contract!Next
<1>3. ASSUME NEW t \in Turn, Begin(t) \/ Speak(t) \/ AskClient(t)
      PROVE  Contract!Next
  <2>1. Live(t) /\ Say(t) /\ UNCHANGED <<owner, finished, cancelled>>
    BY <1>3 DEF Begin, Speak, AskClient, Runs, Live, taskVars
  <2> QED
    BY <2>1, SayStep DEF Contract!Next
<1>4. ASSUME NEW t \in Turn, RouteFailed(t) \/ Finish(t)
      PROVE  Contract!Next
  <2>1. /\ Live(t) /\ ~Joining(t) /\ phase' = [phase EXCEPT ![t] = "ended"]
        /\ UNCHANGED said \/ Say(t)
        /\ EmitTerminalOnce(t) /\ UNCHANGED <<owner, cancelled>>
    BY <1>4 DEF RouteFailed, Finish, EmitTerminalOnce, Goto, Runs, Aborted, Live, Joining
  <2>2. owner[t] # NoThread /\ ~Terminated(t)
    BY <2>1, TerminatedPhases DEF Live, TurnInv, Placed, Numbered
  <2>3. Terminated(t)'
    <3>1. phase'[t] = "ended" /\ finished'[t] = 1 /\ cancelled'[t] \in Nat
      BY <2>1 DEF TurnInv, TypeOK, Placed, Sent
    <3> QED
      BY <3>1 DEF Terminated
  <2>4. \A u \in Turn : u # t => UNCHANGED <<finished[u], cancelled[u]>>
    BY <2>1 DEF EmitTerminalOnce, TurnInv, TypeOK
  <2> QED
    BY <2>1, <2>2, <2>3, <2>4, CloseStep DEF Contract!Next
<1>5. CASE Cancelled
  <2>0. PICK t \in Turn : t = loop.turn
    BY <1>5 DEF Cancelled, TurnInv, Placed, LoopTurn
  <2>1. /\ t \in Turn /\ phase[t] = "aborted" /\ Interrupted(t)
        /\ cancelled' = [cancelled EXCEPT ![t] = @ + 1]
        /\ UNCHANGED said \/ Say(t)
        /\ UNCHANGED <<owner, finished>>
    BY <1>5, <2>0 DEF Cancelled, TurnInv, Placed, LoopTurn, Interrupted, taskVars
  <2>2. owner[t] # NoThread /\ ~Terminated(t)
    BY <2>1, TerminatedPhases DEF TurnInv, Placed, Numbered
  <2>3. Terminated(t)'
    <3>1. cancelled'[t] = cancelled[t] + 1 /\ finished'[t] \in Nat /\ cancelled[t] \in Nat
      BY <2>1 DEF TurnInv, TypeOK
    <3> QED
      BY <3>1 DEF Terminated
  <2>4. \A u \in Turn : u # t => UNCHANGED <<finished[u], cancelled[u]>>
    BY <2>1 DEF TurnInv, TypeOK
  <2> QED
    BY <2>1, <2>2, <2>3, <2>4, CloseStep DEF Contract!Next
<1>6. CASE Next /\ ~UNCHANGED <<owner, wireVars>>
  <2>1. \/ \E t \in Turn : Begin(t) \/ Speak(t) \/ AskClient(t) \/ RouteFailed(t) \/ Finish(t)
        \/ Cancelled \/ Accept
    BY <1>6 DEF Next, LoopStep, ClientStep, TaskStep, EngineStep, wireVars, taskVars, LoopOnly,
       TaskOnly, LoopWaits, OpenThread, SelectionRecorded, EmptySaved, FlushThread, DeleteThread,
       MaintenanceDone, TurnStart, UserSnapshotDone, UserBlobFailed, RouteReady, ClientReply,
       Resume, EngineReturns, SaveSnapshot, SaveBlob, Account, Accounted, CancelTurn, CloseThread,
       StopOnly, Drain, DrainThread, Joined, JoinedTail, JobsKilled, Exit, Block
  <2> QED
    BY <2>1, <1>2, <1>3, <1>4, <1>5
<1> QED
  BY <1>1, <1>6 DEF vars, taskVars

\* The server implements TurnContract: what a client sees of the turns is a
\* behaviour of the contract.
THEOREM ImplementsContract ==
  Spec => ContractSpec
<1>1. Init => Contract!Init
  BY DEF Init, Contract!Init, Terminated
<1>2. TurnInv /\ TurnInv' /\ [Next]_vars => [Contract!Next]_(Contract!vars)
  BY ContractStep
<1> QED
  BY <1>1, <1>2, Invariance, PTL DEF Spec, ContractSpec, Contract!Spec
=============================================================================
