------------------------------- MODULE Desktop -------------------------------
(***************************************************************************)
(* The desktop's native side: the sidecar with the cloud record relay of    *)
(* each runtime.  A runtime's reader feeds its relay with what the App      *)
(* Server prints, and empties the slot of a runtime that exited only when   *)
(* the relay has shut down.                                                 *)
(***************************************************************************)
EXTENDS Sidecar, CloudRelay

CONSTANT Limits   \* bounds: how many logins, floating stops and turns together

ASSUME LimitsAssumption == \A l \in Limits : l.floats \subseteq Float /\ l.turns \subseteq Turn

VARIABLES
  owner,   \* turn -> the generation it runs in, or None
  limit    \* which of Limits bounds this behaviour

vars == <<sidecarVars, relayVars, owner, limit>>

Init ==
  /\ SidecarInit /\ RelayInit /\ owner = [t \in Turn |-> None]
  /\ limit \in Limits

\* A line of stdout is read with the mutex held.
Reads(t, kind) ==
  /\ lock = Free /\ child.gen # None /\ proc[child.gen] = "alive"
  /\ owner[t] \in {None, child.gen} /\ owner' = [owner EXCEPT ![t] = child.gen]
  /\ Say(t, kind) /\ UNCHANGED sidecarVars

SpawnWithRelay(g) ==
  /\ Spawn(g) /\ Fresh /\ UNCHANGED <<turnVars, cloud, late, told, owner>>

ExitCancelsRelay(g) ==
  /\ SeesExit(g) /\ Cancel
  /\ UNCHANGED <<turnVars, localVars, cloud, late, told, owner>>

ClearsAfterRelay(g) ==
  /\ Clears(g) /\ worker.at = "done" /\ UNCHANGED <<relayVars, owner>>

NativeStep ==
  \/ \E n \in Gen : StartBegins(n) \/ Completes(n)
  \/ StartLoads \/ StartFails
  \/ \E s \in Stop : StopBegins(s) \/ Confirmed(s) \/ TimesOut(s) \/ Kills(s, TRUE) \/ Kills(s, FALSE)
  \/ \E f \in Float : Ignored(f)

PageStep ==
  \/ InvokeStart
  \/ \E f \in limit.floats : LogoutStopped(f) \/ ExpireStopped(f) \/ Expired(f, TRUE) \/ Expired(f, FALSE)
  \/ LoggedOut(TRUE) \/ LoggedOut(FALSE)

UserStep ==
  \/ client.id <= limit.logins /\ Login
  \/ TimePasses \/ Expire
  \/ \E f \in limit.floats : Logout(f) \/ ConnectFails(f)
  \/ \E g \in Gen : Exits(g)

Step ==
  \/ (NativeStep \/ PageStep \/ UserStep) /\ UNCHANGED <<relayVars, owner>>
  \/ (WorkerStep \/ AppliedLate) /\ UNCHANGED <<sidecarVars, owner>>
  \/ \E g \in Gen : SpawnWithRelay(g) \/ ExitCancelsRelay(g) \/ ClearsAfterRelay(g)
  \/ \E t \in limit.turns, kind \in {"started", "audit", "terminal"} : Reads(t, kind)

Next == Step /\ UNCHANGED limit

Spec == Init /\ [][Next]_vars
-----------------------------------------------------------------------------
TypeOK == SidecarTypeOK /\ RelayTypeOK /\ owner \in [Turn -> Gen \cup {None}]

\* A page that is signed out has left no runtime behind, nor a start that may
\* still spawn one, whatever of connecting, logout and expiry overlapped
\* (App.tsx: credentials are cleared only when the runtime has stopped).
SignedOutMeansStopped ==
  account = "signed_out" => Alive = {} /\ lock.at # "provision"

\* A stop that began after the process was seen to exit never kills by process
\* id, which may belong to another process by then (sidecar.rs:206-209).
NoLateKill == \A s \in Stop : stops[s].late => stops[s].at # "kill"

\* A run that was closed at the cloud keeps its status, though requests are
\* repeated, overtaken and flushed after a failure.
ClosedIsFinal == [][\A t \in Turn : cloud[t] \in Outcome => cloud'[t] = cloud[t]]_vars

Overlooked(t) == \E i \in DOMAIN queue : queue[i].turn = t

\* g is the last generation that was spawned: the relay is that of g.
Newest(g) == \A h \in Gen : h > g => proc[h] = "none"

\* When a stop has succeeded, the runtime it stopped is gone, and its turns are
\* closed at the cloud as they ended or were reported as not recorded; only
\* events still queued when the process exited are overlooked.  (The queue of a
\* relay is gone when the next runtime is spawned.)
StopLeavesNothing ==
  \A s \in Stop : stops[s].at = "ok" /\ stops[s].gen # None =>
    /\ proc[stops[s].gen] = "exited"
    /\ \A t \in Turn : owner[t] = stops[s].gen /\ Newest(stops[s].gen) =>
         \/ t \in told
         \/ Overlooked(t)
         \/ cloud[t] = (IF outcome[t] = "none" THEN "interrupted" ELSE outcome[t])
=============================================================================
