---------------------------- MODULE TurnContract ----------------------------
(***************************************************************************)
(* What the App Server promises its client about turns, as the protocol     *)
(* document puts it: "a runtime thread allows one active turn" and "every   *)
(* accepted turn emits exactly one terminal event".  A thread's turns are   *)
(* therefore a strict sequence for the client: accepted, events, closed,    *)
(* and only then the next one.                                              *)
(***************************************************************************)
EXTENDS Naturals

CONSTANTS Thread, Turn, NoThread

VARIABLES
  thread,   \* thread[t]: the thread turn t was accepted on, or NoThread
  closed,   \* the turns whose terminal event the client has been sent
  said      \* said[t]: non-terminal messages sent for turn t

vars == <<thread, closed, said>>

Open == {t \in Turn : thread[t] # NoThread} \ closed

Init ==
  /\ thread = [t \in Turn |-> NoThread]
  /\ closed = {}
  /\ said = [t \in Turn |-> 0]

\* turn/start is acknowledged: no other turn of that thread is open.
Accept(t, th) ==
  /\ thread[t] = NoThread
  /\ \A u \in Open : thread[u] # th
  /\ thread' = [thread EXCEPT ![t] = th]
  /\ UNCHANGED <<closed, said>>

\* An event or a server request of an open turn.
Say(t) ==
  /\ t \in Open
  /\ said' = [said EXCEPT ![t] = @ + 1]
  /\ UNCHANGED <<thread, closed>>

\* The terminal event, which an error event may precede in the same step.
Close(t) ==
  /\ t \in Open
  /\ closed' = closed \cup {t}
  /\ said' \in {said, [said EXCEPT ![t] = @ + 1]}
  /\ UNCHANGED thread

Next == \E t \in Turn : (\E th \in Thread : Accept(t, th)) \/ Say(t) \/ Close(t)

Spec == Init /\ [][Next]_vars
=============================================================================
