---------------------------- MODULE RouteFallback ----------------------------
(***************************************************************************)
(* How a local router finds the protocol an upstream speaks for one model   *)
(* (src/src/services/route_cache.rs and protocol_fallback.rs), with the     *)
(* cascades of three routers over it: gemini_router, serve_router and       *)
(* anthropic_to_openai_router with its probe of the native endpoint.        *)
(*                                                                          *)
(* Requests run on one thread and are interleaved at their awaits, so what  *)
(* a router does with one answer is one step.  They share the slot of the   *)
(* model; the route it learned is stored with the key when the launched     *)
(* tool exits, or after each turn of Bailey's own agent, and seeds the next *)
(* launch.                                                                  *)
(***************************************************************************)
EXTENDS Integers, Sequences, SequencesExt

CONSTANTS
  Request,        \* connections, each serving one request at a time
  Tools,          \* the routers considered
  FallbackOrder,  \* the protocols, in the order they are tried
  Default,        \* the configured route of a model nothing was learned for
  Upstreams,      \* sets of routes an upstream may serve
  ResetAfter,     \* CONSECUTIVE_FAILURES_BEFORE_RESET
  ProbeLimit,     \* PROBE_UPSTREAM_ERROR_LIMIT
  MaxLaunches     \* bound: launches of the tool

ASSUME ResetAssumption == ResetAfter \in Nat \ {0} /\ ProbeLimit \in Nat \ {0}
Protocol == Range(FallbackOrder)
HasVariants(p) == p # "google"
Variant == {"default", "stripped"}
Route == {c \in Protocol \X Variant : c[2] = "default" \/ HasVariants(c[1])}
NoRoute == <<"none", "default">>

\* fallback_protocols always has OpenAI's, to which claude pins a route.
ASSUME OrderAssumption == FallbackOrder \in Seq(STRING) /\ "openai" \in Protocol
ASSUME RouteAssumption == Default \in Route /\ Upstreams \subseteq SUBSET Route
ASSUME ToolAssumption == Tools \subseteq {"gemini", "serve", "claude"}
ASSUME BoundsAssumption == MaxLaunches \in Nat \ {0}

VARIABLES
  tool,      \* whose router it is
  slot,      \* RouteSlot
  stored,    \* the route persisted for the model, or NoRoute
  probe,     \* ProbeState: what the native probe found, and its error streak
  strict,    \* learned_requires_reasoning
  req,       \* the requests
  served,    \* the routes the upstream serves
  calm,      \* the upstream serves its routes without failure, and no others
  launches,
  answered   \* history: an upstream answered authoritatively in this launch

vars == <<tool, slot, stored, probe, strict, req, served, calm, launches, answered>>

-----------------------------------------------------------------------------
(* Routes and slots.                                                          *)

Other(v) == IF v = "default" THEN "stripped" ELSE "default"
WithDefault(ps) == [i \in DOMAIN ps |-> <<ps[i], "default">>]
WithStripped(ps) == [i \in DOMAIN ps |-> <<ps[i], "stripped">>]

\* The filters: what is in S, in the order it has in s.
Only(s, S) ==
  LET kept[i \in 0..Len(s)] ==
        IF i = 0 THEN <<>> ELSE IF s[i] \in S THEN Append(kept[i - 1], s[i]) ELSE kept[i - 1]
  IN kept[Len(s)]

WithPaths == {q \in Protocol : HasVariants(q)}

\* Mutant: a slot on a stripped path does not try the default one.
CandidatesOneWay(route) ==
  LET p == route[1]
      others == Only(FallbackOrder, Protocol \ {p})
      own == IF HasVariants(p) /\ route[2] = "default" THEN <<route, <<p, "stripped">> >> ELSE <<route>>
  IN own \o WithDefault(others) \o WithStripped(Only(others, WithPaths))

\* protocol_candidates: the route, its other path, then every other protocol
\* by its default path, then by its stripped one.
Candidates(route) ==
  LET p == route[1]
      others == Only(FallbackOrder, Protocol \ {p})
      own == IF HasVariants(p) THEN <<route, <<p, Other(route[2])>> >> ELSE <<route>>
  IN own \o WithDefault(others) \o WithStripped(Only(others, WithPaths))

Plain == {c \in Route : c[2] = "default"}
OpenAiFamily == {c \in Route : c[1] \in {"openai", "responses"}}

\* What each router can send: serve one path per protocol and one protocol of
\* the OpenAI family; claude what is not the native endpoint, nor /responses
\* (the base is not OpenAI's own).
Cascade(route) ==
  LET all == Candidates(route)
      plain == Only(all, Plain)
      family == Only(plain, OpenAiFamily)
  IN CASE tool = "gemini" -> all
       [] tool = "serve" -> Only(plain, {c \in Route : c \notin OpenAiFamily \/ c = Head(family)})
       [] tool = "claude" -> Only(all, {c \in Route : c[1] \notin {"anthropic", "responses"}})

\* RouteCache::resolve of a model in a new process.
NewSlot(route) ==
  LET seed == IF route = NoRoute THEN Default ELSE route
  IN [route |-> seed, confirmed |-> route # NoRoute, failures |-> 0,
      seed |-> seed, persisted |-> route]

Confirm(s) == [s EXCEPT !.confirmed = TRUE]

\* commit_protocol_switch
Commit(s, route, attempt) == IF attempt > 0 THEN [s EXCEPT !.route = route] ELSE s

\* Mutant: the streak is one longer.
FailedOffByOne(s) ==
  IF s.failures >= ResetAfter THEN [s EXCEPT !.route = s.seed, !.failures = 0]
  ELSE [s EXCEPT !.failures = @ + 1]

\* record_request_outcome
Succeeded(s) == [s EXCEPT !.failures = 0]
Failed(s) ==
  IF s.failures + 1 >= ResetAfter THEN [s EXCEPT !.route = s.seed, !.failures = 0]
  ELSE [s EXCEPT !.failures = @ + 1]

\* Mutant: a route is worth storing as soon as it differs.
DirtyUnconfirmed(s) == s.persisted # s.route

\* needs_persist
Dirty(s) == s.confirmed /\ s.persisted # s.route

-----------------------------------------------------------------------------
(* Answers, by what classify_failed_attempt makes of them: "format" is any    *)
(* status with a body that says the format is unsupported, "missing" any      *)
(* other status from 400 on (404 or 501, and 402, 408, 413 or a 400 without   *)
(* an error envelope too), "lost" an error of the transport or of parsing.    *)

Semantic(a) == a \in {"semantic", "quirk"}
Terminal(a) == a \in {"auth", "error", "limited"}

Answer == {"ok", "semantic", "quirk", "auth", "error", "limited", "missing", "format", "lost"}

\* What the upstream may say of an attempt.  Until it is calm a route that it
\* serves may fail in every way; one that it does not serve fails too, but never
\* as if it had parsed the request.
Answers(route) ==
  IF calm THEN (IF route \in served THEN {"ok"} ELSE {"missing"})
  ELSE IF route \in served THEN Answer ELSE {a \in Answer : a # "ok" /\ ~Semantic(a)}

-----------------------------------------------------------------------------
(* The requests.                                                              *)

Idle == [at |-> "idle", cands |-> <<>>, attempt |-> 0, strict |-> FALSE,
         retried |-> FALSE, tries |-> 0, trusted |-> FALSE, heard |-> {}, end |-> "none",
         settled |-> FALSE]   \* history: the upstream was calm when the cascade began

Init ==
  /\ tool \in Tools /\ served \in Upstreams /\ stored = NoRoute
  /\ slot = NewSlot(NoRoute) /\ probe = [found |-> "unlearned", errors |-> 0]
  /\ strict = FALSE /\ req = [r \in Request |-> Idle] /\ answered = FALSE
  /\ calm = FALSE /\ launches = 1

environment == <<tool, stored, served, calm, launches>>

Current(r) == req[r].cands[req[r].attempt + 1]
Telling == {"format", "limited"}   \* the answers that NoFanOut asks about
End(r, how) == [req EXCEPT ![r].at = "idle", ![r].end = how, ![r].strict = FALSE]

\* The cascade starts from the route the slot has now.
StartOn(s) ==
  [Idle EXCEPT !.at = "send", !.cands = Cascade(s.route), !.strict = strict, !.trusted = s.confirmed,
               !.settled = calm]

Native == <<"anthropic", "default">>

PrePin(s) == IF s.route[1] = "anthropic" THEN [s EXCEPT !.route = <<"openai", "default">>] ELSE s

\* A request arrives.  claude on an Anthropic route tries /v1/messages first,
\* unless the probe has given up on it.
Begin(r) ==
  /\ req[r].at = "idle"
  /\ LET native == tool = "claude" /\ slot.route[1] = "anthropic"
         ask == native /\ probe.found # "failed"
         s == IF native /\ ~ask THEN PrePin(slot) ELSE slot
     IN /\ slot' = s
        /\ req' = [req EXCEPT ![r] = IF ask THEN [Idle EXCEPT !.at = "native", !.trusted = s.confirmed]
                                     ELSE StartOn(s)]
  /\ UNCHANGED <<environment, probe, strict, answered>>

\* try_native_anthropic answers, which goes by the status alone: a success ends
\* the request; a missing endpoint or an auth error moves the route to OpenAI
\* before the cascade.
NativeAnswers(r, a) ==
  /\ req[r].at = "native" /\ a \in Answers(Native)
  /\ CASE a = "ok" ->
            /\ slot' = Succeeded(Confirm(slot)) /\ req' = End(r, "ok")
            /\ probe' = [found |-> "works", errors |-> 0] /\ answered' = TRUE
       [] a = "lost" ->
            req' = End(r, "lost") /\ UNCHANGED <<slot, probe, answered>>
       [] a \in {"auth", "error", "limited"} ->
            /\ slot' = IF a = "auth" THEN PrePin(slot) ELSE slot
            /\ req' = [req EXCEPT ![r] = StartOn(slot')]
            /\ probe' = [probe EXCEPT !.errors = 0] /\ UNCHANGED answered
       [] a = "missing" ->
            /\ slot' = PrePin(slot) /\ probe' = [probe EXCEPT !.found = "failed"]
            /\ req' = [req EXCEPT ![r] = StartOn(slot')] /\ UNCHANGED answered
       [] OTHER ->   \* 400 or 422: the endpoint may exist
            /\ probe' = [found |-> IF probe.errors + 1 >= ProbeLimit THEN "failed" ELSE probe.found,
                         errors |-> IF probe.errors + 1 >= ProbeLimit THEN ProbeLimit ELSE probe.errors + 1]
            /\ req' = [req EXCEPT ![r] = StartOn(slot)] /\ UNCHANGED <<slot, answered>>
  /\ UNCHANGED <<environment, strict>>

\* An attempt is answered with 200.
AttemptSucceeds(r) ==
  /\ req[r].at = "send" /\ "ok" \in Answers(Current(r))
  /\ slot' = Succeeded(Confirm(Commit(slot, Current(r), req[r].attempt)))
  /\ req' = [End(r, "ok") EXCEPT ![r].tries = @ + 1] /\ answered' = TRUE
  /\ UNCHANGED <<environment, probe, strict>>

\* The transport fails: the request ends, and its outcome is not recorded.
AttemptLost(r) ==
  /\ req[r].at = "send" /\ "lost" \in Answers(Current(r))
  /\ req' = [End(r, "lost") EXCEPT ![r].tries = @ + 1]
  /\ UNCHANGED <<environment, slot, probe, strict, answered>>

\* mismatch_directive: what an attempt's failure does to the slot, and whether
\* to retry the candidate, bail, or try the next one.  serve has no quirk.
CanRetry(r, a) == a = "quirk" /\ tool # "serve" /\ ~req[r].retried /\ ~req[r].strict

SlotAfter(r, a) ==
  LET pinned == Commit(slot, Current(r), req[r].attempt)
  IN IF CanRetry(r, a) THEN Confirm(slot)
     ELSE IF Semantic(a) THEN Confirm(pinned)
     ELSE IF Terminal(a) /\ (req[r].attempt > 0 \/ a = "limited") THEN pinned
     ELSE slot

\* Mutant: a proven route is not trusted.
BailsUntrusting(r, a) ==
  \/ Semantic(a) \/ a = "limited"
  \/ Terminal(a) /\ req[r].attempt > 0

\* should_bail_on_mismatch, and the two cases before it.
Bails(r, a) ==
  \/ Semantic(a) \/ a = "limited"
  \/ Terminal(a) /\ req[r].attempt > 0
  \/ req[r].attempt = 0 /\ slot.confirmed /\ a # "format"

AttemptFails(r, a) ==
  LET last == req[r].attempt + 1 = Len(req[r].cands)
      heard == req[r].heard \cup ({a} \cap Telling)
      next == [req[r] EXCEPT !.heard = heard, !.tries = @ + 1]
  IN /\ req[r].at = "send"
     /\ a \in Answers(Current(r)) \ {"ok", "lost"}
     /\ strict' = (strict \/ (a = "quirk" /\ tool # "serve"))
     /\ answered' = (answered \/ Semantic(a))
     /\ IF CanRetry(r, a) THEN
          /\ req' = [req EXCEPT ![r] = [next EXCEPT !.strict = TRUE, !.retried = TRUE]]
          /\ slot' = SlotAfter(r, a)
        ELSE IF Bails(r, a) \/ last THEN
          /\ req' = [req EXCEPT ![r] = [next EXCEPT !.at = "idle", !.strict = FALSE,
                                          !.end = IF Bails(r, a) THEN "bailed" ELSE "exhausted"]]
          /\ slot' = Failed(SlotAfter(r, a))
        ELSE
          /\ req' = [req EXCEPT ![r] = [next EXCEPT !.attempt = @ + 1]]
          /\ slot' = SlotAfter(r, a)
     /\ UNCHANGED <<environment, probe>>

-----------------------------------------------------------------------------
(* Between requests.                                                          *)

Kept == IF Dirty(slot) THEN slot.route ELSE stored

\* persist_agent_route, at the end of a turn of the agent.
PersistAfterTurn ==
  /\ tool = "serve" /\ Dirty(slot) /\ stored # slot.route
  /\ stored' = slot.route
  /\ UNCHANGED <<tool, slot, probe, strict, req, served, calm, launches, answered>>

\* The tool exits and is launched again; unless it crashed, the routes learned
\* and the quirk are merged into the key first.
Relaunch(crash) ==
  /\ launches < MaxLaunches /\ launches' = launches + 1
  /\ stored' = IF crash \/ tool = "serve" THEN stored ELSE Kept
  /\ slot' = NewSlot(stored') /\ probe' = [found |-> "unlearned", errors |-> 0]
  /\ strict' = (strict /\ ~crash /\ tool # "serve")
  /\ req' = [r \in Request |-> Idle] /\ answered' = FALSE
  /\ UNCHANGED <<tool, served, calm>>

\* The upstream starts to serve other routes.
UpstreamMoves ==
  /\ ~calm /\ served' \in Upstreams \ {served}
  /\ UNCHANGED <<tool, slot, stored, probe, strict, req, calm, launches, answered>>

\* From now on it serves them without failure.
UpstreamSettles ==
  /\ ~calm /\ calm' = TRUE
  /\ UNCHANGED <<tool, slot, stored, probe, strict, req, served, launches, answered>>

Step(r) ==
  \/ Begin(r) \/ AttemptSucceeds(r) \/ AttemptLost(r)
  \/ \E a \in Answer : NativeAnswers(r, a) \/ AttemptFails(r, a)

Next ==
  \/ \E r \in Request : Step(r)
  \/ PersistAfterTurn \/ Relaunch(TRUE) \/ Relaunch(FALSE)
  \/ UpstreamMoves \/ UpstreamSettles

Spec == Init /\ [][Next]_vars

\* Clients go on asking, every attempt is answered or fails, and the upstream
\* settles.
FairSpec == Spec /\ WF_vars(UpstreamSettles) /\ \A r \in Request : WF_vars(Step(r))
-----------------------------------------------------------------------------
(* Properties.                                                                *)

TypeOK ==
  /\ tool \in Tools /\ served \in Upstreams /\ stored \in Route \cup {NoRoute}
  /\ slot \in [route : Route, confirmed : BOOLEAN, failures : 0..(ResetAfter - 1),
               seed : Route, persisted : Route \cup {NoRoute}]
  /\ probe \in [found : {"unlearned", "works", "failed"}, errors : 0..ProbeLimit]
  /\ strict \in BOOLEAN /\ calm \in BOOLEAN /\ answered \in BOOLEAN
  /\ launches \in 1..MaxLaunches
  /\ \A r \in Request :
       /\ req[r].at \in {"idle", "native", "send"}
       /\ req[r].end \in {"none", "ok", "lost", "bailed", "exhausted"}
       /\ req[r].at = "send" => req[r].attempt < Len(req[r].cands)

Candidate(r) == Range(req[r].cands)
Attempts(r) == req[r].tries - (IF req[r].retried THEN 1 ELSE 0)

TriesOnce(r) == req[r].tries <= Len(req[r].cands) + 1
StopsAtLimit(r) == "limited" \in req[r].heard => req[r].at = "idle"
KeepsProven(r) == (req[r].trusted /\ Attempts(r) > 1) => "format" \in req[r].heard

\* A cascade never multiplies the load on an upstream in trouble: it tries a
\* candidate once, and once more with the rebuilt body; it stops at a 429; and
\* one that started on a proven route leaves it only when the upstream said
\* that the format is unsupported, whatever other requests did to the slot.
\* Of claude's probe before the cascade it says nothing: a 429 of the native
\* endpoint is followed by the cascade.
NoFanOut == \A r \in Request : TriesOnce(r) /\ StopsAtLimit(r) /\ KeepsProven(r)

Sendable ==
  CASE tool = "gemini" -> Route
    [] tool = "claude" -> {c \in Route : c[1] \notin {"anthropic", "responses"}}
    [] tool = "serve" -> Plain \ OpenAiFamily

\* "No candidate worked" is never said too early: the request then tried every
\* route the router can send, wherever the slot stood and moved meanwhile, and
\* if the upstream was calm when its cascade began it serves none of them.
ExhaustedTriedAll ==
  \A r \in Request : req[r].end = "exhausted" =>
    /\ Sendable \subseteq Candidate(r) /\ Attempts(r) = Len(req[r].cands)
    /\ req[r].settled => served \cap Candidate(r) = {}

\* A model whose route is not known keeps none from a launch in which the
\* upstream only failed (a bad key, an outage), and a crash keeps what is stored.
FailuresTeachNothing ==
  [][(stored' # stored /\ slot.persisted = NoRoute) => answered]_vars

\* Whatever was learned before, once the upstream settles requests succeed
\* again (protocol_fallback.rs:60-64, the reset after a streak of failures).
Recovers == []<>(\E r \in Request : req[r].end = "ok")
=============================================================================
