------------------------------- MODULE Sidecar -------------------------------
(***************************************************************************)
(* How the desktop starts and stops the App Server process                  *)
(* (src/desktop/src-tauri/src/sidecar.rs) on behalf of its page, which      *)
(* connects after a login and stops the runtime before it forgets the       *)
(* credentials, on logout and on expiry (src/desktop/src/App.tsx,           *)
(* bridge/appServer.ts, src-tauri/src/account.rs).                          *)
(*                                                                          *)
(* The commands of the page take the state's mutex in the order they were   *)
(* invoked, start keeps it until the runtime is spawned.  Timeouts are      *)
(* choices: a wait may end before or after what it waits for.  The relay of *)
(* a runtime is seen through relayDone only; module Desktop adds it.        *)
(***************************************************************************)
EXTENDS Naturals, Sequences

CONSTANTS
  Float,      \* stops whose result is ignored: bound on those in flight
  MaxLogins   \* bound: logins, each of which starts at most one runtime

ASSUME LoginsAssumption == MaxLogins \in Nat
ASSUME FloatAssumption == "logout" \notin Float /\ "expire" \notin Float

Stop == Float \cup {"logout", "expire"}
Gen == 1..MaxLogins
None == 0

VARIABLES
  account,    \* the page's accountState
  bundle,     \* the credential entry of the OS: "none", "valid" or "expired"
  client,     \* the page's AppServerClient, one per login
  logout,     \* logoutBailey: "idle", "stop", "revoke"
  expire,     \* expireSession: [at, cancelled]
  commands,   \* commands waiting for the mutex, in order
  lock,       \* the mutex: "free", or which client's start holds it for what
  child,      \* AppServerStateInner::child: [gen, stopping]
  proc,       \* generation -> its process: "none", "alive", "exited"
  reader,     \* generation -> its event task: "reading", "draining", "cleared", "done"
  stops       \* app_server_stop calls: [at, gen, late]; late: began after the exit was seen

pageVars == <<account, bundle, client, logout, expire>>
runtimeVars == <<commands, lock, child, proc, reader, stops>>
sidecarVars == <<pageVars, runtimeVars>>

NoChild == [gen |-> None, stopping |-> FALSE]
NoStop == [at |-> "idle", gen |-> None, late |-> FALSE]
NewStop == [at |-> "queued", gen |-> None, late |-> FALSE]
NewClient(n) == [id |-> n, at |-> "new", disposed |-> FALSE]
NoExpire == [at |-> "idle", cancelled |-> FALSE]
Free == [at |-> "free", by |-> None]

SidecarInit ==
  /\ account = "signed_out" /\ bundle = "none" /\ client = NewClient(1)
  /\ logout = "idle" /\ expire = NoExpire
  /\ commands = <<>> /\ lock = Free /\ child = NoChild
  /\ proc = [g \in Gen |-> "none"] /\ reader = [g \in Gen |-> "done"]
  /\ stops = [s \in Stop |-> NoStop]

Alive == {g \in Gen : proc[g] = "alive"}

-----------------------------------------------------------------------------
(* Commands.                                                                  *)

\* c's turn has come to take the mutex.
Takes(c) == lock = Free /\ commands # <<>> /\ Head(commands) = c /\ commands' = Tail(commands)

Queued(ss) == [s \in Stop |-> IF s \in ss THEN NewStop ELSE stops[s]]

\* client.dispose(): a stop whose result is ignored, after the commands first.
Dispose(f, first) ==
  /\ stops[f].at = "idle" /\ commands' = commands \o first \o <<<<"stop", f>> >>
  /\ client' = [client EXCEPT !.disposed = TRUE]

-----------------------------------------------------------------------------
(* The runtime.                                                               *)

\* What a start tells the client that invoked it, if the page still has it.
Tells(n, what) == client' = IF client.id = n THEN [client EXCEPT !.at = what] ELSE client

\* app_server_start
StartBegins(n) ==
  /\ Takes(<<"start", n>>)
  /\ IF child.gen = None
     THEN lock' = [at |-> "bundle", by |-> n] /\ UNCHANGED client
     ELSE Tells(n, IF child.stopping THEN "failed" ELSE "started") /\ UNCHANGED lock
  /\ UNCHANGED <<account, bundle, logout, expire, child, proc, reader, stops>>

\* runtime_bundle: an expired bundle is cleared and refused.
StartLoads ==
  /\ lock.at = "bundle"
  /\ bundle' = IF bundle = "expired" THEN "none" ELSE bundle
  /\ IF bundle = "valid"
     THEN lock' = [lock EXCEPT !.at = "provision"] /\ UNCHANGED client
     ELSE lock' = Free /\ Tells(lock.by, "failed")
  /\ UNCHANGED <<account, logout, expire, commands, child, proc, reader, stops>>

\* provision_aivo_provider fails; a process it may leave is not the runtime.
StartFails ==
  /\ lock.at = "provision" /\ lock' = Free /\ Tells(lock.by, "failed")
  /\ UNCHANGED <<account, bundle, logout, expire, commands, child, proc, reader, stops>>

Spawn(g) ==
  /\ lock.at = "provision" /\ lock' = Free /\ Tells(lock.by, "started")
  /\ proc[g] = "none" /\ \A h \in Gen : h < g => proc[h] # "none"
  /\ child' = [gen |-> g, stopping |-> FALSE]
  /\ proc' = [proc EXCEPT ![g] = "alive"] /\ reader' = [reader EXCEPT ![g] = "reading"]
  /\ UNCHANGED <<account, bundle, logout, expire, commands, stops>>

\* The process ends: by itself, or after a shutdown request.
Exits(g) ==
  /\ proc[g] = "alive" /\ proc' = [proc EXCEPT ![g] = "exited"]
  /\ UNCHANGED <<pageVars, commands, lock, child, reader, stops>>

\* The reader gets Terminated: it says so before it drains the relay.
SeesExit(g) ==
  /\ reader[g] = "reading" /\ proc[g] = "exited" /\ lock = Free
  /\ reader' = [reader EXCEPT ![g] = "draining"]
  /\ child' = IF child.gen = g THEN [child EXCEPT !.stopping = TRUE] ELSE child
  /\ UNCHANGED <<pageVars, commands, lock, proc, stops>>

\* The relay has shut down: the slot is emptied, then the completion is sent.
Clears(g) ==
  /\ reader[g] = "draining" /\ lock = Free
  /\ reader' = [reader EXCEPT ![g] = "cleared"]
  /\ child' = IF child.gen = g THEN NoChild ELSE child
  /\ UNCHANGED <<pageVars, commands, lock, proc, stops>>

Completes(g) ==
  /\ reader[g] = "cleared" /\ reader' = [reader EXCEPT ![g] = "done"]
  /\ UNCHANGED <<pageVars, commands, lock, child, proc, stops>>

-----------------------------------------------------------------------------
(* app_server_stop.                                                           *)

At(s, at) == stops' = [stops EXCEPT ![s].at = at]

\* Mutant: the exit is announced only when the relay is done.
TerminationObservedLate(g) == reader[g] \in {"cleared", "done"}

\* termination_observed and shutdown_completed
TerminationObserved(g) == reader[g] # "reading"
ShutdownCompleted(g) == reader[g] = "done"

\* The mutex is taken: nothing to stop, or the shutdown request is written,
\* unless another stop did or the exit was seen; writing may fail.
StopBegins(s) ==
  /\ Takes(<<"stop", s>>)
  /\ IF child.gen = None THEN At(s, "ok") /\ UNCHANGED child
     ELSE /\ child' = [child EXCEPT !.stopping = TRUE]
          /\ \E written \in {TRUE} \cup (IF child.stopping THEN {} ELSE {FALSE}) :
               stops' = [stops EXCEPT ![s] = [at |-> IF written THEN "graceful" ELSE "kill",
                                              gen |-> child.gen,
                                              late |-> reader[child.gen] # "reading"]]
  /\ UNCHANGED <<pageVars, lock, proc, reader>>

\* A wait ends: by the confirmation it waits for, or by its timeout.
Confirmed(s) ==
  LET g == stops[s].gen IN
  /\ \/ stops[s].at \in {"graceful", "confirm"} /\ TerminationObserved(g) /\ At(s, "relay")
     \/ stops[s].at = "relay" /\ ShutdownCompleted(g) /\ At(s, "ok")
  /\ UNCHANGED <<pageVars, commands, lock, child, proc, reader>>

TimesOut(s) ==
  LET g == stops[s].gen IN
  /\ \/ stops[s].at = "graceful" /\ ~TerminationObserved(g) /\ At(s, "kill")
     \/ stops[s].at = "confirm" /\ ~TerminationObserved(g) /\ At(s, "err")
     \/ stops[s].at = "relay" /\ ~ShutdownCompleted(g) /\ At(s, "err")
  /\ UNCHANGED <<pageVars, commands, lock, child, proc, reader>>

\* The kill by process id, which may fail.
Kills(s, works) ==
  /\ stops[s].at = "kill" /\ At(s, "confirm")
  /\ proc' = IF works /\ proc[stops[s].gen] = "alive" THEN [proc EXCEPT ![stops[s].gen] = "exited"]
             ELSE proc
  /\ UNCHANGED <<pageVars, commands, lock, child, reader>>

\* The result of a stop that nobody waits for.
Ignored(f) ==
  /\ stops[f].at \in {"ok", "err"} /\ stops' = [stops EXCEPT ![f] = NoStop]
  /\ UNCHANGED <<pageVars, commands, lock, child, proc, reader>>

-----------------------------------------------------------------------------
(* The page.                                                                  *)

\* submitBaileyAuth, then the effect that connects.
Login ==
  /\ account = "signed_out" /\ account' = "signed_in" /\ bundle' = "valid"
  /\ client.id \in Gen /\ client' = [client EXCEPT !.at = "listening"]
  /\ UNCHANGED <<logout, expire, runtimeVars>>

\* Mutant: a client disposed while it added its listeners starts anyway.
InvokeStartDisposed ==
  /\ client.at = "listening"
  /\ client' = [client EXCEPT !.at = "starting"]
  /\ commands' = Append(commands, <<"start", client.id>>)
  /\ UNCHANGED <<account, bundle, logout, expire, lock, child, proc, reader, stops>>

\* connect, once its listeners are added.
InvokeStart ==
  /\ client.at = "listening" /\ ~client.disposed
  /\ client' = [client EXCEPT !.at = "starting"]
  /\ commands' = Append(commands, <<"start", client.id>>)
  /\ UNCHANGED <<account, bundle, logout, expire, lock, child, proc, reader, stops>>

\* connect fails: the start did, or initialize does.
ConnectFails(f) ==
  /\ account = "signed_in" /\ client.at \in {"failed", "started"} /\ ~client.disposed
  /\ Dispose(f, <<>>) /\ stops' = Queued({f})
  /\ UNCHANGED <<account, bundle, logout, expire, lock, child, proc, reader>>

TimePasses ==
  /\ bundle = "valid" /\ bundle' = "expired"
  /\ UNCHANGED <<account, client, logout, expire, runtimeVars>>

\* logoutBailey, also to retry a sign-out that failed; leaving "signed_in"
\* disposes the client.
Logout(f) ==
  /\ logout = "idle" /\ account \in {"signed_in", "stopped"}
  /\ logout' = "stop" /\ account' = "stopped" /\ stops["logout"].at = "idle"
  /\ expire' = [expire EXCEPT !.cancelled = expire.at # "idle"]
  /\ IF account = "signed_in"
     THEN Dispose(f, <<<<"stop", "logout">> >>) /\ stops' = Queued({"logout", f})
     ELSE /\ commands' = Append(commands, <<"stop", "logout">>) /\ stops' = Queued({"logout"})
          /\ UNCHANGED client
  /\ UNCHANGED <<bundle, lock, child, proc, reader>>

LogoutStopped(f) ==
  /\ logout = "stop"
  /\ \/ /\ stops["logout"].at = "ok" /\ logout' = "revoke"
        /\ Dispose(f, <<>>) /\ stops' = [Queued({f}) EXCEPT !["logout"] = NoStop]
     \/ /\ stops["logout"].at = "err" /\ logout' = "idle"
        /\ stops' = [stops EXCEPT !["logout"] = NoStop] /\ UNCHANGED <<client, commands>>
  /\ UNCHANGED <<account, bundle, expire, lock, child, proc, reader>>

\* bailey_account_logout: the session is revoked, unless expired, then cleared.
LoggedOut(revoked) ==
  /\ logout = "revoke" /\ logout' = "idle"
  /\ IF revoked \/ bundle # "valid"
     THEN bundle' = "none" /\ account' = "signed_out" /\ client' = NewClient(client.id + 1)
     ELSE UNCHANGED <<bundle, account, client>>
  /\ UNCHANGED <<expire, runtimeVars>>

\* expireSession, by the timer of checkExpiry.
Expire ==
  /\ account = "signed_in" /\ bundle # "valid" /\ expire.at = "idle"
  /\ expire' = [at |-> "stop", cancelled |-> FALSE]
  /\ commands' = Append(commands, <<"stop", "expire">>) /\ stops' = Queued({"expire"})
  /\ UNCHANGED <<account, bundle, client, logout, lock, child, proc, reader>>

\* A cancelled expireSession goes on when the runtime stopped; the client it
\* knows is disposed already.
ExpireStopped(f) ==
  LET silent == stops["expire"].at = "err" /\ expire.cancelled IN
  /\ expire.at = "stop" /\ stops["expire"].at \in {"ok", "err"}
  /\ expire' = IF stops["expire"].at = "ok" THEN [expire EXCEPT !.at = "clear"] ELSE NoExpire
  /\ account' = IF stops["expire"].at = "err" /\ ~expire.cancelled THEN "stopped" ELSE account
  /\ IF silent THEN UNCHANGED <<client, commands>> /\ stops' = [stops EXCEPT !["expire"] = NoStop]
     ELSE /\ stops[f].at = "idle" /\ commands' = Append(commands, <<"stop", f>>)
          /\ client' = IF expire.cancelled THEN client ELSE [client EXCEPT !.disposed = TRUE]
          /\ stops' = [Queued({f}) EXCEPT !["expire"] = NoStop]
  /\ UNCHANGED <<bundle, logout, lock, child, proc, reader>>

\* bailey_account_clear_expired, which may fail; the page signs out anyway, and
\* disposes the client once more.
Expired(f, cleared) ==
  /\ expire.at = "clear" /\ expire' = NoExpire
  /\ bundle' = IF cleared /\ bundle = "expired" THEN "none" ELSE bundle
  /\ IF expire.cancelled THEN UNCHANGED <<account, client, commands, stops>>
     ELSE /\ account' = "signed_out" /\ client' = NewClient(client.id + 1)
          /\ stops[f].at = "idle" /\ commands' = Append(commands, <<"stop", f>>) /\ stops' = Queued({f})
  /\ UNCHANGED <<logout, lock, child, proc, reader>>
-----------------------------------------------------------------------------
SidecarTypeOK ==
  /\ account \in {"signed_out", "signed_in", "stopped"}
  /\ bundle \in {"none", "valid", "expired"}
  /\ client \in [id : Nat, at : {"new", "listening", "starting", "started", "failed"},
                 disposed : BOOLEAN]
  /\ logout \in {"idle", "stop", "revoke"}
  /\ expire \in [at : {"idle", "stop", "clear"}, cancelled : BOOLEAN]
  /\ commands \in Seq(({"stop"} \X Stop) \cup ({"start"} \X Gen))
  /\ lock \in [at : {"free", "bundle", "provision"}, by : Gen \cup {None}]
  /\ child \in [gen : Gen \cup {None}, stopping : BOOLEAN]
  /\ proc \in [Gen -> {"none", "alive", "exited"}]
  /\ reader \in [Gen -> {"reading", "draining", "cleared", "done"}]
  /\ stops \in [Stop -> [at : {"idle", "queued", "graceful", "kill", "confirm", "relay", "ok", "err"},
                         gen : Gen \cup {None}, late : BOOLEAN]]
=============================================================================
