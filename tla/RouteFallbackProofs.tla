------------------------ MODULE RouteFallbackProofs ------------------------
(***************************************************************************)
(* Theorems about RouteFallback, for every order of protocols, set of       *)
(* upstreams, limit and number of requests.                                 *)
(*                                                                          *)
(* A slot becomes confirmed only by an authoritative answer, and stays so   *)
(* as long as the process lives; what a request knows of its own cascade    *)
(* then follows from the answers it heard.  A cascade has every route its   *)
(* router can send, by what the filters keep, and one that began when the   *)
(* upstream was calm falls through only where nothing is served.            *)
(***************************************************************************)
EXTENDS RouteFallback, DataLemmas

\* Slots and requests are records; their routes and candidates may be anything.
IsSlot(s) ==
  s \in [route : {s.route}, confirmed : BOOLEAN, failures : {s.failures},
         seed : {s.seed}, persisted : {s.persisted}]

IsRequest(q) ==
  q \in [at : {q.at}, cands : {q.cands}, attempt : Nat, strict : {q.strict},
         retried : BOOLEAN, tries : Nat, trusted : BOOLEAN, heard : {q.heard}, end : {q.end},
         settled : {q.settled}]

\* A route is confirmed by the store or by an answer.
Proven == IsSlot(slot) /\ (slot.confirmed /\ slot.persisted = NoRoute => answered)

\* Where a request is in its cascade, while the slot is confirmed or not.
Cascading(q, confirmed) ==
  /\ q.at \in {"native", "send"} /\ q.trusted => confirmed
  /\ q.at = "native" => q.tries = 0 /\ q.attempt = 0 /\ ~q.retried
  /\ q.at = "send" => q.tries = q.attempt + (IF q.retried THEN 1 ELSE 0)
  /\ q.tries <= q.attempt + 1 + (IF q.retried THEN 1 ELSE 0)
  /\ q.trusted /\ q.attempt > 0 => "format" \in q.heard
  /\ "limited" \in q.heard => q.at = "idle"

Requests ==
  /\ req = [r \in Request |-> req[r]]
  /\ \A r \in Request : IsRequest(req[r]) /\ Cascading(req[r], slot.confirmed)

Inv == Proven /\ Requests

-----------------------------------------------------------------------------
(* What a router does to a slot.                                              *)

\* Nothing but a new process makes a proven route unproven.
LEMMA SlotSteps ==
  ASSUME NEW s, IsSlot(s), NEW route, NEW attempt
  PROVE  /\ IsSlot(Confirm(s)) /\ Confirm(s).confirmed
         /\ IsSlot(Commit(s, route, attempt)) /\ Commit(s, route, attempt).confirmed = s.confirmed
         /\ IsSlot(Succeeded(s)) /\ Succeeded(s).confirmed = s.confirmed
         /\ IsSlot(Failed(s)) /\ Failed(s).confirmed = s.confirmed
         /\ IsSlot(PrePin(s)) /\ PrePin(s).confirmed = s.confirmed
         /\ Confirm(s).persisted = s.persisted /\ Commit(s, route, attempt).persisted = s.persisted
         /\ Succeeded(s).persisted = s.persisted /\ Failed(s).persisted = s.persisted
         /\ PrePin(s).persisted = s.persisted
<1>1. IsSlot(Confirm(s)) /\ Confirm(s).confirmed /\ Confirm(s).persisted = s.persisted
  BY DEF IsSlot, Confirm
<1>2. /\ IsSlot(Commit(s, route, attempt)) /\ Commit(s, route, attempt).confirmed = s.confirmed
      /\ Commit(s, route, attempt).persisted = s.persisted
  BY DEF IsSlot, Commit
<1>3. IsSlot(Succeeded(s)) /\ Succeeded(s).confirmed = s.confirmed /\ Succeeded(s).persisted = s.persisted
  BY DEF IsSlot, Succeeded
<1>4. IsSlot(Failed(s)) /\ Failed(s).confirmed = s.confirmed /\ Failed(s).persisted = s.persisted
  BY DEF IsSlot, Failed
<1>5. IsSlot(PrePin(s)) /\ PrePin(s).confirmed = s.confirmed /\ PrePin(s).persisted = s.persisted
  BY DEF IsSlot, PrePin
<1> QED
  BY <1>1, <1>2, <1>3, <1>4, <1>5

LEMMA NewSlotIs ==
  ASSUME NEW route
  PROVE  IsSlot(NewSlot(route)) /\ NewSlot(route).persisted = route /\ NewSlot(route).confirmed = (route # NoRoute)
BY DEF NewSlot, IsSlot

LEMMA IdleIs == IsRequest(Idle) /\ Idle.at = "idle" /\ Idle.tries = 0 /\ Idle.attempt = 0
                /\ ~Idle.retried /\ ~Idle.trusted /\ Idle.heard = {}
BY DEF Idle, IsRequest

-----------------------------------------------------------------------------
(* The initial states and the steps.                                          *)

LEMMA InitInv == Init => Inv
<1> SUFFICES ASSUME Init PROVE Inv
  OBVIOUS
<1>1. Proven
  BY NewSlotIs DEF Init, Proven
<1>2. Requests
  BY IdleIs DEF Init, Requests, Cascading
<1> QED
  BY <1>1, <1>2 DEF Inv

\* A step of one request disturbs no other.
LEMMA OneRequest ==
  ASSUME Inv, NEW r \in Request, NEW q, req' = [req EXCEPT ![r] = q],
         IsRequest(q), Cascading(q, slot'.confirmed),
         IsSlot(slot'), slot.confirmed => slot'.confirmed,
         slot'.persisted = slot.persisted,
         slot'.confirmed => slot.confirmed \/ answered', answered => answered'
  PROVE  Inv'
<1>1. Proven'
  BY DEF Inv, Proven
<1>2. req' = [k \in Request |-> IF k = r THEN q ELSE req[k]]
  BY DEF Inv, Requests
<1>3. ASSUME NEW k \in Request PROVE IsRequest(req'[k]) /\ Cascading(req'[k], slot'.confirmed)
  <2>1. CASE k = r
    BY <1>2, <2>1
  <2>2. CASE k # r
    <3>1. req'[k] = req[k] /\ IsRequest(req[k]) /\ Cascading(req[k], slot.confirmed)
      BY <1>2, <2>2 DEF Inv, Requests
    <3>2. Cascading(req[k], slot'.confirmed)
      BY <3>1 DEF Cascading
    <3> QED
      BY <3>1, <3>2
  <2> QED
    BY <2>1, <2>2
<1>4. req' = [k \in Request |-> req'[k]]
  BY <1>2
<1>5. Requests'
  BY <1>3, <1>4 DEF Requests
<1> QED
  BY <1>1, <1>5 DEF Inv

\* The start of a cascade on the slot that the step leaves.
LEMMA StartOnIs ==
  ASSUME NEW s, IsSlot(s)
  PROVE  /\ IsRequest(StartOn(s)) /\ StartOn(s).at = "send" /\ StartOn(s).trusted = s.confirmed
         /\ StartOn(s).tries = 0 /\ StartOn(s).attempt = 0 /\ ~StartOn(s).retried /\ StartOn(s).heard = {}
<1>1. s.confirmed \in BOOLEAN
  BY DEF IsSlot
<1> QED
  BY <1>1 DEF StartOn, Idle, IsRequest

LEMMA BeginInv == ASSUME Inv, NEW r \in Request, Begin(r) PROVE Inv'
<1> DEFINE native == tool = "claude" /\ slot.route[1] = "anthropic"
           ask == native /\ probe.found # "failed"
           s == IF native /\ ~ask THEN PrePin(slot) ELSE slot
           q == IF ask THEN [Idle EXCEPT !.at = "native", !.trusted = s.confirmed] ELSE StartOn(s)
<1>1. slot' = s /\ req' = [req EXCEPT ![r] = q] /\ UNCHANGED answered
  BY DEF Begin
<1>2. IsSlot(s) /\ s.confirmed = slot.confirmed /\ s.persisted = slot.persisted
  BY SlotSteps DEF Inv, Proven
<1>3. s.confirmed \in BOOLEAN
  BY <1>2 DEF IsSlot
<1> HIDE DEF s
<1>4. /\ IsRequest(q) /\ q.at \in {"native", "send"} /\ q.trusted = s.confirmed
      /\ q.tries = 0 /\ q.attempt = 0 /\ ~q.retried /\ q.heard = {}
  <2>1. CASE ask
    BY <1>3, <2>1 DEF Idle, IsRequest
  <2>2. CASE ~ask
    BY <1>2, <2>2, StartOnIs
  <2> QED
    BY <2>1, <2>2
<1> HIDE DEF q
<1>5. Cascading(q, s.confirmed)
  BY <1>4 DEF Cascading
<1> QED
  BY <1>1, <1>2, <1>4, <1>5, OneRequest DEF Inv, Proven

\* A request that ends keeps what it heard and tried.
LEMMA EndIs ==
  ASSUME Inv, NEW r \in Request, NEW how
  PROVE  \E q : /\ End(r, how) = [req EXCEPT ![r] = q] /\ IsRequest(q) /\ q.at = "idle"
                /\ q.attempt = req[r].attempt /\ q.tries = req[r].tries /\ q.retried = req[r].retried
                /\ q.trusted = req[r].trusted /\ q.heard = req[r].heard
<1> DEFINE q == [req[r] EXCEPT !.at = "idle", !.end = how, !.strict = FALSE]
<1>1. req = [k \in Request |-> req[k]] /\ IsRequest(req[r])
  BY DEF Inv, Requests
<1>2. End(r, how) = [req EXCEPT ![r] = q]
  BY DEF End
<1>3. /\ IsRequest(q) /\ q.at = "idle" /\ q.attempt = req[r].attempt /\ q.tries = req[r].tries
      /\ q.retried = req[r].retried /\ q.trusted = req[r].trusted /\ q.heard = req[r].heard
  BY <1>1 DEF IsRequest
<1> HIDE DEF q
<1> QED
  BY <1>2, <1>3

\* A request that ends with one more attempt.
LEMMA EndAndTry ==
  ASSUME Inv, NEW r \in Request, NEW how
  PROVE  [End(r, how) EXCEPT ![r].tries = @ + 1]
           = [req EXCEPT ![r] = [req[r] EXCEPT !.at = "idle", !.end = how, !.strict = FALSE, !.tries = @ + 1]]
<1> DEFINE one == [req[r] EXCEPT !.at = "idle", !.end = how, !.strict = FALSE]
           two == [req[r] EXCEPT !.at = "idle", !.end = how, !.strict = FALSE, !.tries = @ + 1]
<1>1. req = [k \in Request |-> req[k]] /\ IsRequest(req[r])
  BY DEF Inv, Requests
<1>2. End(r, how) = [req EXCEPT ![r] = one]
  BY DEF End
<1>3. one.tries = req[r].tries /\ [one EXCEPT !.tries = req[r].tries + 1] = two
  BY <1>1 DEF IsRequest
<1> HIDE DEF one, two
<1>4. End(r, how) = [k \in Request |-> IF k = r THEN one ELSE req[k]]
  BY <1>1, <1>2
<1>5. [End(r, how) EXCEPT ![r].tries = @ + 1] = [k \in Request |-> IF k = r THEN two ELSE req[k]]
  BY <1>3, <1>4
<1>6. [req EXCEPT ![r] = two] = [k \in Request |-> IF k = r THEN two ELSE req[k]]
  BY <1>1
<1> QED BY <1>5, <1>6 DEF two

LEMMA NativeAnswersInv ==
  ASSUME Inv, NEW r \in Request, NEW a, NativeAnswers(r, a) PROVE Inv'
<1>1. IsRequest(req[r]) /\ Cascading(req[r], slot.confirmed) /\ IsSlot(slot) /\ req[r].at = "native"
  BY DEF Inv, Requests, Proven, NativeAnswers
<1>2. CASE a \in {"ok", "lost"}
  <2>1. PICK q : /\ req' = [req EXCEPT ![r] = q] /\ IsRequest(q) /\ q.at = "idle"
                 /\ q.attempt = req[r].attempt /\ q.tries = req[r].tries /\ q.retried = req[r].retried
                 /\ q.trusted = req[r].trusted /\ q.heard = req[r].heard
    BY <1>2, EndIs DEF NativeAnswers
  <2>2. Cascading(q, TRUE) /\ Cascading(q, slot.confirmed)
    BY <1>1, <2>1 DEF Cascading, IsRequest
  <2>3. \/ slot' = Succeeded(Confirm(slot)) /\ answered' = TRUE
        \/ UNCHANGED <<slot, answered>>
    BY <1>2 DEF NativeAnswers
  <2>4. CASE slot' = Succeeded(Confirm(slot)) /\ answered' = TRUE
    <3>1. IsSlot(slot') /\ slot'.confirmed /\ slot'.persisted = slot.persisted
      BY <1>1, <2>4, SlotSteps
    <3>2. Cascading(q, slot'.confirmed)
      BY <2>1, <2>2, <3>1 DEF Cascading
    <3> QED
      BY <2>1, <2>4, <3>1, <3>2, OneRequest
  <2>5. CASE UNCHANGED <<slot, answered>>
    BY <1>1, <2>1, <2>2, <2>5, OneRequest
  <2> QED
    BY <2>3, <2>4, <2>5
<1>3. CASE a \notin {"ok", "lost"}
  <2>1. slot' \in {slot, PrePin(slot)} /\ req' = [req EXCEPT ![r] = StartOn(slot')] /\ UNCHANGED answered
    BY <1>3 DEF NativeAnswers
  <2>2. IsSlot(slot') /\ slot'.confirmed = slot.confirmed /\ slot'.persisted = slot.persisted
    BY <1>1, <2>1, SlotSteps
  <2>3. Cascading(StartOn(slot'), slot'.confirmed) /\ IsRequest(StartOn(slot'))
    BY <2>2, StartOnIs DEF Cascading
  <2> QED
    BY <2>1, <2>2, <2>3, OneRequest
<1> QED
  BY <1>2, <1>3

LEMMA AttemptSucceedsInv == ASSUME Inv, NEW r \in Request, AttemptSucceeds(r) PROVE Inv'
<1>1. IsRequest(req[r]) /\ Cascading(req[r], slot.confirmed) /\ IsSlot(slot) /\ req[r].at = "send"
  BY DEF Inv, Requests, Proven, AttemptSucceeds
<1> DEFINE q == [req[r] EXCEPT !.at = "idle", !.end = "ok", !.strict = FALSE, !.tries = @ + 1]
<1>2. req' = [req EXCEPT ![r] = q] /\ answered' = TRUE
  BY EndAndTry DEF AttemptSucceeds
<1>3. /\ IsRequest(q) /\ q.at = "idle" /\ q.attempt = req[r].attempt /\ q.tries = req[r].tries + 1
      /\ q.retried = req[r].retried /\ q.trusted = req[r].trusted /\ q.heard = req[r].heard
  <2>1. req[r].tries + 1 \in Nat
    BY <1>1 DEF IsRequest
  <2> QED
    BY <1>1, <2>1, Zenon DEF IsRequest
<1>4. IsSlot(slot') /\ slot'.confirmed /\ slot'.persisted = slot.persisted
  BY <1>1, SlotSteps DEF AttemptSucceeds
<1> HIDE DEF q
<1>5. Cascading(q, slot'.confirmed)
  BY <1>1, <1>3, <1>4 DEF Cascading, IsRequest
<1> QED
  BY <1>2, <1>3, <1>4, <1>5, OneRequest

LEMMA AttemptLostInv == ASSUME Inv, NEW r \in Request, AttemptLost(r) PROVE Inv'
<1>1. IsRequest(req[r]) /\ Cascading(req[r], slot.confirmed) /\ IsSlot(slot) /\ req[r].at = "send"
  BY DEF Inv, Requests, Proven, AttemptLost
<1> DEFINE q == [req[r] EXCEPT !.at = "idle", !.end = "lost", !.strict = FALSE, !.tries = @ + 1]
<1>2. req' = [req EXCEPT ![r] = q] /\ UNCHANGED <<slot, answered>>
  BY EndAndTry DEF AttemptLost
<1>3. /\ IsRequest(q) /\ q.at = "idle" /\ q.attempt = req[r].attempt /\ q.tries = req[r].tries + 1
      /\ q.retried = req[r].retried /\ q.trusted = req[r].trusted /\ q.heard = req[r].heard
  <2>1. req[r].tries + 1 \in Nat
    BY <1>1 DEF IsRequest
  <2> QED
    BY <1>1, <2>1, Zenon DEF IsRequest
<1> HIDE DEF q
<1>5. Cascading(q, slot'.confirmed)
  BY <1>1, <1>2, <1>3 DEF Cascading, IsRequest
<1> QED
  BY <1>1, <1>2, <1>3, <1>5, OneRequest

\* What a failed attempt does to the slot.
LEMMA SlotAfterIs ==
  ASSUME Inv, NEW r \in Request, NEW a
  PROVE  /\ IsSlot(SlotAfter(r, a)) /\ SlotAfter(r, a).persisted = slot.persisted
         /\ slot.confirmed => SlotAfter(r, a).confirmed
         /\ SlotAfter(r, a).confirmed => slot.confirmed \/ Semantic(a)
<1> DEFINE pinned == Commit(slot, Current(r), req[r].attempt)
<1>1. IsSlot(slot) /\ IsSlot(pinned) /\ pinned.confirmed = slot.confirmed /\ pinned.persisted = slot.persisted
  BY SlotSteps DEF Inv, Proven
<1>2. (SlotAfter(r, a) \in {Confirm(slot), Confirm(pinned)} /\ Semantic(a)) \/ SlotAfter(r, a) \in {pinned, slot}
  BY DEF SlotAfter, CanRetry, Semantic
<1> HIDE DEF pinned
<1> QED
  BY <1>1, <1>2, SlotSteps

LEMMA AttemptFailsInv ==
  ASSUME Inv, NEW r \in Request, NEW a, AttemptFails(r, a) PROVE Inv'
<1> DEFINE last == req[r].attempt + 1 = Len(req[r].cands)
           heard == req[r].heard \cup ({a} \cap Telling)
           next == [req[r] EXCEPT !.heard = heard, !.tries = @ + 1]
<1>1. IsRequest(req[r]) /\ Cascading(req[r], slot.confirmed) /\ IsSlot(slot) /\ req[r].at = "send"
  BY DEF Inv, Requests, Proven, AttemptFails
<1>2. answered' = (answered \/ Semantic(a))
  BY DEF AttemptFails
<1>3. /\ IsSlot(SlotAfter(r, a)) /\ SlotAfter(r, a).persisted = slot.persisted
      /\ slot.confirmed => SlotAfter(r, a).confirmed
      /\ SlotAfter(r, a).confirmed => slot.confirmed \/ Semantic(a)
  BY SlotAfterIs
<1>4. CASE CanRetry(r, a)
  <2> DEFINE q == [next EXCEPT !.strict = TRUE, !.retried = TRUE]
  <2>1. req' = [req EXCEPT ![r] = q] /\ slot' = SlotAfter(r, a) /\ a = "quirk" /\ ~req[r].retried
    BY <1>4 DEF AttemptFails, CanRetry
  <2>2. /\ IsRequest(q) /\ q.at = "send" /\ q.attempt = req[r].attempt /\ q.tries = req[r].tries + 1
        /\ q.retried /\ q.trusted = req[r].trusted /\ q.heard = heard
    <3>1. req[r].tries + 1 \in Nat /\ req[r].attempt + 1 \in Nat
      BY <1>1 DEF IsRequest
    <3> QED
      BY <1>1, <3>1, Zenon DEF IsRequest
  <2>3. heard = req[r].heard
    BY <2>1 DEF Telling
  <2> HIDE DEF q, heard
  <2>4. Cascading(q, slot'.confirmed)
    BY <1>1, <1>3, <2>1, <2>2, <2>3 DEF Cascading, IsRequest
  <2> QED
    BY <1>2, <1>3, <2>1, <2>2, <2>4, OneRequest
<1>5. CASE ~CanRetry(r, a) /\ (Bails(r, a) \/ last)
  <2> DEFINE q == [next EXCEPT !.at = "idle", !.strict = FALSE, !.end = IF Bails(r, a) THEN "bailed" ELSE "exhausted"]
  <2>1. req' = [req EXCEPT ![r] = q] /\ slot' = Failed(SlotAfter(r, a))
    BY <1>5 DEF AttemptFails
  <2>2. /\ IsRequest(q) /\ q.at = "idle" /\ q.attempt = req[r].attempt /\ q.tries = req[r].tries + 1
        /\ q.retried = req[r].retried /\ q.trusted = req[r].trusted /\ q.heard = heard
    <3>1. req[r].tries + 1 \in Nat /\ req[r].attempt + 1 \in Nat
      BY <1>1 DEF IsRequest
    <3> QED
      BY <1>1, <3>1, Zenon DEF IsRequest
  <2>3. IsSlot(slot') /\ slot'.confirmed = SlotAfter(r, a).confirmed /\ slot'.persisted = slot.persisted
    BY <1>3, <2>1, SlotSteps
  <2>4. req[r].heard \subseteq heard
    OBVIOUS
  <2> HIDE DEF q, heard
  <2>5. Cascading(q, slot'.confirmed)
    BY <1>1, <2>2, <2>4 DEF Cascading, IsRequest
  <2> QED
    BY <1>2, <1>3, <2>1, <2>2, <2>3, <2>5, OneRequest
<1>6. CASE ~CanRetry(r, a) /\ ~(Bails(r, a) \/ last)
  <2> DEFINE q == [next EXCEPT !.attempt = @ + 1]
  <2>1. req' = [req EXCEPT ![r] = q] /\ slot' = SlotAfter(r, a)
    BY <1>6 DEF AttemptFails
  <2>2. /\ IsRequest(q) /\ q.at = "send" /\ q.attempt = req[r].attempt + 1 /\ q.tries = req[r].tries + 1
        /\ q.retried = req[r].retried /\ q.trusted = req[r].trusted /\ q.heard = heard
    <3>1. req[r].tries + 1 \in Nat /\ req[r].attempt + 1 \in Nat
      BY <1>1 DEF IsRequest
    <3> QED
      BY <1>1, <3>1, Zenon DEF IsRequest
  <2>3. a # "limited" /\ (req[r].attempt = 0 /\ slot.confirmed => a = "format")
    BY <1>6 DEF Bails
  <2>4. req[r].heard \subseteq heard /\ (a = "format" => "format" \in heard) /\ ("limited" \in heard => "limited" \in req[r].heard)
    BY <2>3 DEF Telling
  <2> HIDE DEF q, heard
  <2>5. Cascading(q, slot'.confirmed)
    BY <1>1, <1>3, <2>1, <2>2, <2>3, <2>4 DEF Cascading, IsRequest
  <2> QED
    BY <1>2, <1>3, <2>1, <2>2, <2>5, OneRequest
<1> QED
  BY <1>4, <1>5, <1>6

LEMMA RelaunchInv == ASSUME Inv, NEW crash, Relaunch(crash) PROVE Inv'
<1>1. Proven'
  BY NewSlotIs DEF Relaunch, Proven
<1>2. req' = [r \in Request |-> Idle]
  BY DEF Relaunch
<1>3. Requests'
  BY <1>2, IdleIs DEF Requests, Cascading
<1> QED
  BY <1>1, <1>3 DEF Inv

LEMMA StepInv == Inv /\ [Next]_vars => Inv'
<1> SUFFICES ASSUME Inv, [Next]_vars PROVE Inv'
  OBVIOUS
<1>1. CASE UNCHANGED <<slot, req, answered>>
  BY <1>1 DEF Inv, Proven, Requests
<1>2. CASE \E r \in Request : Step(r)
  BY <1>2, BeginInv, AttemptSucceedsInv, AttemptLostInv, NativeAnswersInv, AttemptFailsInv DEF Step
<1>3. CASE Relaunch(TRUE) \/ Relaunch(FALSE)
  BY <1>3, RelaunchInv
<1>4. CASE PersistAfterTurn \/ UpstreamMoves \/ UpstreamSettles \/ UNCHANGED vars
  BY <1>1, <1>4 DEF PersistAfterTurn, UpstreamMoves, UpstreamSettles, vars
<1> QED
  BY <1>2, <1>3, <1>4 DEF Next

-----------------------------------------------------------------------------
(* The routes a router can try.                                               *)

OnlyStep(f, s, S, n) ==
  IF n = 0 THEN <<>> ELSE IF s[n] \in S THEN Append(f[n - 1], s[n]) ELSE f[n - 1]

OnlyBy(s, S, k) == CHOOSE f : f = [n \in 0..k |-> OnlyStep(f, s, S, n)]

LEMMA OnlyExists ==
  ASSUME NEW s, NEW S, NEW k \in Nat
  PROVE  \E f : f = [n \in 0..k |-> OnlyStep(f, s, S, n)]
<1> DEFINE T == {j \in Nat : \E f : f = [n \in 0..j |-> OnlyStep(f, s, S, n)]}
<1>1. 0 \in T
  <2> DEFINE f == [n \in 0..0 |-> <<>>]
  <2>1. f = [n \in 0..0 |-> OnlyStep(f, s, S, n)]
    BY DEF OnlyStep
  <2> QED BY <2>1
<1>2. ASSUME NEW j \in Nat, j \in T
      PROVE  j + 1 \in T
  <2>1. PICK f : f = [n \in 0..j |-> OnlyStep(f, s, S, n)]
    BY <1>2
  <2> DEFINE g == [n \in 0..(j + 1) |-> IF n <= j THEN f[n] ELSE OnlyStep(f, s, S, n)]
  <2>2. ASSUME NEW n \in 0..(j + 1)
        PROVE  OnlyStep(g, s, S, n) = OnlyStep(f, s, S, n)
    <3>1. CASE n = 0
      BY <3>1 DEF OnlyStep
    <3>2. CASE n # 0
      <4>1. n - 1 \in 0..(j + 1) /\ n - 1 <= j
        BY <3>2
      <4>2. g[n - 1] = f[n - 1]
        BY <4>1
      <4> QED BY <3>2, <4>2 DEF OnlyStep
    <3> QED BY <3>1, <3>2
  <2>3. ASSUME NEW n \in 0..(j + 1)
        PROVE  g[n] = OnlyStep(f, s, S, n)
    <3>1. CASE n <= j
      BY <2>1, <3>1
    <3>2. CASE ~ (n <= j)
      BY <3>2
    <3> QED BY <3>1, <3>2
  <2>4. g = [n \in 0..(j + 1) |-> OnlyStep(g, s, S, n)]
    BY <2>2, <2>3
  <2> HIDE DEF g
  <2> QED BY <2>4
<1> HIDE DEF T
<1>3. Nat \subseteq T
  BY <1>1, <1>2, SetInduction
<1> QED BY <1>3 DEF T

\* A filter keeps exactly what is in the set.
LEMMA OnlyIs ==
  ASSUME NEW A, NEW s \in Seq(A), NEW S
  PROVE  Only(s, S) \in Seq(A \cap S) /\ Range(Only(s, S)) = Range(s) \cap S
<1> DEFINE len == Len(s)
           kept == OnlyBy(s, S, len)
           B == A \cap S
<1>1. len \in Nat
  BY LenProperties
<1>2. kept = [n \in 0..len |-> OnlyStep(kept, s, S, n)]
  BY <1>1, OnlyExists DEF OnlyBy
<1>3. Only(s, S) = kept[len]
  BY DEF Only, OnlyBy, OnlyStep
<1> HIDE DEF kept
<1> DEFINE Good(t, n) == t \in Seq(B) /\ ToSet(t) = {s[i] : i \in 1..n} \cap S
           T == {n \in Nat : n <= len => Good(kept[n], n)}
<1>4. 0 \in T
  <2>1. kept[0] = <<>>
    BY <1>1, <1>2 DEF OnlyStep
  <2>2. <<>> \in Seq(B) /\ ToSet(<<>>) = {}
    BY EmptySeq DEF ToSet
  <2>3. {s[i] : i \in 1..0} = {}
    OBVIOUS
  <2> QED BY <2>1, <2>2, <2>3
<1>5. ASSUME NEW n \in Nat, n \in T
      PROVE  n + 1 \in T
  <2> SUFFICES ASSUME n + 1 <= len
               PROVE  Good(kept[n + 1], n + 1)
    OBVIOUS
  <2> DEFINE t == kept[n]
             e == s[n + 1]
             U == {s[i] : i \in 1..n}
  <2>1. n <= len /\ n + 1 \in 1..len /\ n + 1 \in 0..len
    BY <1>1
  <2>2. t \in Seq(B) /\ ToSet(t) = U \cap S
    BY <1>5, <2>1
  <2>3. e \in A
    BY <2>1, ElementOfSeq
  <2>4. {s[i] : i \in 1..(n + 1)} = U \cup {e}
    OBVIOUS
  <2>5. kept[n + 1] = IF e \in S THEN Append(t, e) ELSE t
    <3>1. kept[n + 1] = OnlyStep(kept, s, S, n + 1)
      BY <1>2, <2>1
    <3>2. n + 1 # 0 /\ (n + 1) - 1 = n
      OBVIOUS
    <3> QED BY <3>1, <3>2 DEF OnlyStep
  <2> HIDE DEF t, e, U
  <2>6. CASE e \in S
    <3>1. e \in B
      BY <2>3, <2>6
    <3> HIDE DEF B
    <3>2. Append(t, e) \in Seq(B) /\ ToSet(Append(t, e)) = ToSet(t) \cup {e}
      BY <2>2, <3>1, AppendProperties, ToSetAppend
    <3> QED BY <2>2, <2>4, <2>5, <2>6, <3>2
  <2>7. CASE e \notin S
    BY <2>2, <2>4, <2>5, <2>7
  <2> QED BY <2>6, <2>7
<1> HIDE DEF T
<1>6. Nat \subseteq T
  BY <1>4, <1>5, SetInduction
<1>7. Good(kept[len], len)
  <2> HIDE DEF len, Good
  <2>1. len \in T
    BY <1>1, <1>6
  <2> QED BY <1>1, <2>1 DEF T
<1>8. ToSet(s) = {s[i] : i \in 1..len}
  BY ToSetSeq
<1> QED BY <1>3, <1>7, <1>8 DEF Range, ToSet

\* Protocols by their default path, and by the stripped one.
LEMMA WithPathIs ==
  ASSUME NEW ps \in Seq(Protocol)
  PROVE  /\ WithDefault(ps) \in Seq(Route) /\ Range(WithDefault(ps)) = {<<q, "default">> : q \in Range(ps)}
         /\ ps \in Seq(WithPaths) => /\ WithStripped(ps) \in Seq(Route)
                                     /\ Range(WithStripped(ps)) = {<<q, "stripped">> : q \in Range(ps)}
<1> DEFINE n == Len(ps)
<1>1. n \in Nat /\ DOMAIN ps = 1..n /\ \A i \in 1..n : ps[i] \in Protocol
  BY LenProperties, ElementOfSeq
<1> HIDE DEF n
<1>2. \A q \in Protocol : <<q, "default">> \in Route
  BY DEF Route, Variant
<1>3. WithDefault(ps) \in Seq(Route)
  <2>1. WithDefault(ps) = [i \in 1..n |-> <<ps[i], "default">>]
    BY <1>1 DEF WithDefault
  <2>2. \A i \in 1..n : <<ps[i], "default">> \in Route
    BY <1>1, <1>2
  <2> QED BY <1>1, <2>1, <2>2, IsASeq
<1>4. Range(WithDefault(ps)) = {<<q, "default">> : q \in Range(ps)}
  BY DEF Range, WithDefault
<1>5. ASSUME ps \in Seq(WithPaths)
      PROVE  /\ WithStripped(ps) \in Seq(Route)
             /\ Range(WithStripped(ps)) = {<<q, "stripped">> : q \in Range(ps)}
  <2>1. WithStripped(ps) = [i \in 1..n |-> <<ps[i], "stripped">>]
    BY <1>1 DEF WithStripped
  <2>2. \A i \in 1..n : ps[i] \in WithPaths
    BY <1>1, <1>5, ElementOfSeq DEF n
  <2>3. \A i \in 1..n : <<ps[i], "stripped">> \in Route
    BY <2>2 DEF Route, Variant, WithPaths
  <2>4. WithStripped(ps) \in Seq(Route)
    BY <1>1, <2>1, <2>3, IsASeq
  <2>5. Range(WithStripped(ps)) = {<<q, "stripped">> : q \in Range(ps)}
    BY DEF Range, WithStripped
  <2> QED BY <2>4, <2>5
<1> QED BY <1>3, <1>4, <1>5

\* The other protocols, as the cascade tries them.
LEMMA OthersIs ==
  ASSUME NEW p \in Protocol
  PROVE  LET others == Only(FallbackOrder, Protocol \ {p})
             first == WithDefault(others)
             second == WithStripped(Only(others, WithPaths))
         IN  /\ first \in Seq(Route) /\ second \in Seq(Route)
             /\ Range(first) \cup Range(second) = {c \in Route : c[1] # p}
<1> DEFINE others == Only(FallbackOrder, Protocol \ {p})
           paths == Only(others, WithPaths)
           byDefault == WithDefault(others)
           byStripped == WithStripped(paths)
<1>1. FallbackOrder \in Seq(Protocol) /\ Range(FallbackOrder) = Protocol
  BY OrderAssumption, SeqOfRange DEF Protocol
<1>2. others \in Seq(Protocol \cap (Protocol \ {p})) /\ Range(others) = Protocol \ {p}
  <2> DEFINE rest == Protocol \ {p}
  <2> HIDE DEF rest
  <2>1. Only(FallbackOrder, rest) \in Seq(Protocol \cap rest) /\ Range(Only(FallbackOrder, rest)) = Protocol \cap rest
    BY <1>1, OnlyIs
  <2> QED BY <2>1 DEF rest
<1>3. others \in Seq(Protocol)
  BY <1>2, SeqMonotonic
<1> HIDE DEF others
<1>4. paths \in Seq(Protocol \cap WithPaths) /\ Range(paths) = Range(others) \cap WithPaths
  BY <1>3, OnlyIs
<1>5. paths \in Seq(Protocol) /\ paths \in Seq(WithPaths)
  BY <1>4, SeqMonotonic
<1> HIDE DEF paths
<1>6. byDefault \in Seq(Route) /\ Range(byDefault) = {<<q, "default">> : q \in Protocol \ {p}}
  <2>1. byDefault \in Seq(Route) /\ Range(byDefault) = {<<q, "default">> : q \in Range(others)}
    BY <1>3, WithPathIs
  <2> QED BY <1>2, <2>1
<1>7. byStripped \in Seq(Route) /\ Range(byStripped) = {<<q, "stripped">> : q \in (Protocol \ {p}) \cap WithPaths}
  <2>1. byStripped \in Seq(Route) /\ Range(byStripped) = {<<q, "stripped">> : q \in Range(paths)}
    BY <1>5, WithPathIs
  <2> QED BY <1>2, <1>4, <2>1
<1> HIDE DEF byDefault, byStripped
<1>8. {<<q, "default">> : q \in Protocol \ {p}} \cup {<<q, "stripped">> : q \in (Protocol \ {p}) \cap WithPaths}
      = {c \in Route : c[1] # p}
  BY DEF Route, Variant, WithPaths
<1> QED BY <1>6, <1>7, <1>8 DEF others, paths, byDefault, byStripped

\* A cascade has every route, wherever it starts.
LEMMA CandidatesIs ==
  ASSUME NEW route \in Route
  PROVE  Candidates(route) \in Seq(Route) /\ Range(Candidates(route)) = Route
<1> DEFINE p == route[1]
           own == IF HasVariants(p) THEN <<route, <<p, Other(route[2])>> >> ELSE <<route>>
           others == Only(FallbackOrder, Protocol \ {p})
           first == WithDefault(others)
           second == WithStripped(Only(others, WithPaths))
<1>1. p \in Protocol /\ route = <<p, route[2]>> /\ route[2] \in Variant
  BY DEF Route
<1>2. Candidates(route) = (own \o first) \o second
  BY DEF Candidates
<1>3. own \in Seq(Route) /\ Range(own) = {c \in Route : c[1] = p}
  <2>1. CASE HasVariants(p)
    <3> DEFINE twin == <<p, Other(route[2])>>
    <3>1. twin \in Route /\ own = <<route, twin>>
      BY <1>1, <2>1 DEF Route, Variant, Other
    <3>2. {c \in Route : c[1] = p} = {route, twin}
      BY <1>1, <3>1 DEF Route, Variant, Other
    <3> HIDE DEF twin, own
    <3>3. own \in Seq(Route) /\ Range(own) = {route, twin}
      BY <3>1 DEF Range
    <3> QED BY <3>2, <3>3
  <2>2. CASE ~HasVariants(p)
    <3>1. own = <<route>>
      BY <2>2
    <3>2. {c \in Route : c[1] = p} = {route}
      BY <1>1, <2>2 DEF Route, Variant
    <3> HIDE DEF own
    <3>3. own \in Seq(Route) /\ Range(own) = {route}
      BY <3>1 DEF Range
    <3> QED BY <3>2, <3>3
  <2> QED BY <2>1, <2>2
<1>4. /\ first \in Seq(Route) /\ second \in Seq(Route)
      /\ Range(first) \cup Range(second) = {c \in Route : c[1] # p}
  BY <1>1, OthersIs
<1> HIDE DEF own, first, second
<1> DEFINE front == own \o first
<1>5. front \in Seq(Route) /\ Range(front) = Range(own) \cup Range(first)
  BY <1>3, <1>4, ConcatProperties, RangeConcatenation
<1>6. Candidates(route) = front \o second
  BY <1>2
<1> HIDE DEF front
<1>7. front \o second \in Seq(Route) /\ Range(front \o second) = Range(front) \cup Range(second)
  <2>1. front \o second \in Seq(Route)
    BY <1>4, <1>5, ConcatProperties
  <2>2. Range(front \o second) = Range(front) \cup Range(second)
    BY <1>4, <1>5, RangeConcatenation
  <2> QED BY <2>1, <2>2
<1> QED BY <1>3, <1>4, <1>5, <1>6, <1>7

LEMMA NotEmpty ==
  ASSUME NEW S, NEW s \in Seq(S), Range(s) # {}
  PROVE  Len(s) \in Nat \ {0}
<1>1. Range(s) = {s[i] : i \in 1..Len(s)} /\ Len(s) \in Nat
  BY RangeEquality, LenProperties
<1> QED BY <1>1

\* A router tries at least every route it can send, and has one to try.
LEMMA CascadeIs ==
  ASSUME NEW route \in Route, tool \in {"gemini", "serve", "claude"}
  PROVE  /\ Cascade(route) \in Seq(Route) /\ Len(Cascade(route)) \in Nat \ {0}
         /\ Sendable \subseteq Range(Cascade(route))
<1> DEFINE all == Candidates(route)
           plain == Only(all, Plain)
           family == Only(plain, OpenAiFamily)
           openai == <<"openai", "default">>
<1>1. all \in Seq(Route) /\ Range(all) = Route
  BY CandidatesIs
<1>2. openai \in Route
  BY OrderAssumption DEF Route, Variant
<1> HIDE DEF all
<1>3. CASE tool = "gemini"
  <2>1. Cascade(route) = all /\ Sendable = Route
    BY <1>3 DEF Cascade, Sendable, all
  <2> QED BY <1>1, <1>2, <2>1, NotEmpty
<1>4. CASE tool = "serve"
  <2>1. plain \in Seq(Route \cap Plain) /\ Range(plain) = Route \cap Plain
    BY <1>1, OnlyIs
  <2>2. plain \in Seq(Route) /\ Range(plain) = Plain
    BY <2>1, SeqMonotonic DEF Plain
  <2> HIDE DEF plain
  <2>3. family \in Seq(Route \cap OpenAiFamily) /\ Range(family) = Plain \cap OpenAiFamily
    BY <2>2, OnlyIs
  <2>4. openai \in Plain \cap OpenAiFamily
    BY <1>2 DEF Plain, OpenAiFamily
  <2> HIDE DEF family, openai
  <2>5. Len(family) \in Nat \ {0}
    BY <2>3, <2>4, NotEmpty
  <2>6. Head(family) \in Plain
    <3>1. Head(family) = family[1] /\ 1 \in 1..Len(family)
      BY <2>3, <2>5, HeadTailProperties
    <3>2. family[1] \in Range(family)
      BY <2>3, <3>1, RangeEquality
    <3> QED BY <2>3, <3>1, <3>2
  <2> DEFINE one == {c \in Route : c \notin OpenAiFamily \/ c = Head(family)}
             out == Only(plain, one)
  <2>7. Cascade(route) = out
    BY <1>4 DEF Cascade, plain, family, all
  <2>8. Head(family) \in one /\ Plain \ OpenAiFamily \subseteq one
    BY <2>6 DEF Plain
  <2> HIDE DEF one
  <2>9. out \in Seq(Route \cap one) /\ Range(out) = Plain \cap one
    BY <2>2, OnlyIs
  <2> HIDE DEF out
  <2>10. Len(out) \in Nat \ {0} /\ out \in Seq(Route)
    <3>1. Range(out) # {}
      BY <2>6, <2>8, <2>9
    <3>2. Len(out) \in Nat \ {0}
      BY <2>9, <3>1, NotEmpty
    <3> QED BY <2>9, <3>2, SeqMonotonic
  <2>11. Sendable = Plain \ OpenAiFamily
    BY <1>4 DEF Sendable
  <2> QED BY <2>7, <2>8, <2>9, <2>10, <2>11
<1>5. CASE tool = "claude"
  <2> DEFINE can == {c \in Route : c[1] \notin {"anthropic", "responses"}}
             out == Only(all, can)
  <2>1. Cascade(route) = out /\ Sendable = can
    BY <1>5 DEF Cascade, Sendable, all
  <2>2. openai \in can
    BY <1>2
  <2>3. can \subseteq Route
    OBVIOUS
  <2> HIDE DEF can
  <2>4. out \in Seq(Route \cap can) /\ Range(out) = Route \cap can
    BY <1>1, OnlyIs
  <2> HIDE DEF out, openai
  <2>5. Len(out) \in Nat \ {0}
    <3>1. Range(out) # {}
      BY <2>2, <2>3, <2>4
    <3> QED BY <2>4, <3>1, NotEmpty
  <2>6. out \in Seq(Route)
    BY <2>4, SeqMonotonic
  <2> QED BY <2>1, <2>3, <2>4, <2>5, <2>6
<1> QED BY <1>3, <1>4, <1>5

-----------------------------------------------------------------------------
(* The types.                                                                 *)

Slots == [route : Route, confirmed : BOOLEAN, failures : 0..(ResetAfter - 1),
          seed : Route, persisted : Route \cup {NoRoute}]

Probes == [found : {"unlearned", "works", "failed"}, errors : 0..ProbeLimit]

Typed ==
  /\ tool \in Tools /\ served \in Upstreams /\ stored \in Route \cup {NoRoute}
  /\ slot \in Slots /\ probe \in Probes
  /\ strict \in BOOLEAN /\ calm \in BOOLEAN /\ answered \in BOOLEAN
  /\ launches \in 1..MaxLaunches

\* What a router does to a slot leaves it a slot, with a streak below the limit.
LEMMA SlotTypes ==
  ASSUME NEW s \in Slots, NEW route \in Route, NEW attempt
  PROVE  /\ Confirm(s) \in Slots /\ Commit(s, route, attempt) \in Slots
         /\ Succeeded(s) \in Slots /\ Failed(s) \in Slots /\ PrePin(s) \in Slots
<1>1. ResetAfter \in Nat \ {0} /\ s.failures \in 0..(ResetAfter - 1)
  BY ResetAssumption DEF Slots
<1>2. 0 \in 0..(ResetAfter - 1)
  BY <1>1
<1>3. ~(s.failures + 1 >= ResetAfter) => s.failures + 1 \in 0..(ResetAfter - 1)
  BY <1>1
<1>4. <<"openai", "default">> \in Route
  BY OrderAssumption DEF Route, Variant
<1>5. s.seed \in Route
  BY DEF Slots
<1>6. Confirm(s) \in Slots /\ Commit(s, route, attempt) \in Slots
  BY Zenon DEF Confirm, Commit, Slots
<1>7. Succeeded(s) \in Slots
  BY <1>2, Zenon DEF Succeeded, Slots
<1>8. Failed(s) \in Slots
  <2> DEFINE next == s.failures + 1
  <2>1. CASE next >= ResetAfter
    BY <1>2, <1>5, <2>1, Zenon DEF Failed, Slots
  <2>2. CASE ~(next >= ResetAfter)
    BY <1>3, <2>2, Zenon DEF Failed, Slots
  <2> QED BY <2>1, <2>2
<1>9. PrePin(s) \in Slots
  BY <1>4, Zenon DEF PrePin, Slots
<1> QED BY <1>6, <1>7, <1>8, <1>9

LEMMA NewSlotTypes ==
  ASSUME NEW route \in Route \cup {NoRoute}
  PROVE  NewSlot(route) \in Slots
<1>1. 0 \in 0..(ResetAfter - 1)
  BY ResetAssumption
<1>2. (IF route = NoRoute THEN Default ELSE route) \in Route
  BY RouteAssumption
<1> QED BY <1>1, <1>2, Zenon DEF NewSlot, Slots

-----------------------------------------------------------------------------
(* How far a cascade has come.                                                *)

\* Of a request with candidates q.cands, while the upstream is calm or not and
\* serves up: which were tried, and what is known of those that fell through.
Tried(q, quiet, up) ==
  /\ q.cands \in Seq(Route) /\ q.at \in {"idle", "native", "send"}
  /\ q.end \in {"none", "ok", "lost", "bailed", "exhausted"}
  /\ q.at # "idle" => q.end = "none"
  /\ q.at = "send" \/ q.tries > 0 => q.attempt < Len(q.cands)
  /\ q.at = "send" \/ q.end = "exhausted" => Sendable \subseteq Range(q.cands)
  /\ q.settled => quiet
  /\ q.at = "send" /\ q.settled => \A i \in 1..q.attempt : q.cands[i] \notin up
  /\ q.end = "exhausted" =>
       /\ q.tries = Len(q.cands) + (IF q.retried THEN 1 ELSE 0)
       /\ q.settled => \A i \in 1..Len(q.cands) : q.cands[i] \notin up

Tries == \A r \in Request : Tried(req[r], calm, served)

RouteInv == Inv /\ Typed /\ Tries

\* What a request knows of a calm upstream stays so: it moves no more.
LEMMA TriedStays ==
  ASSUME NEW q, NEW quiet, NEW still, NEW up, NEW now, Tried(q, quiet, up),
         quiet => still /\ now = up
  PROVE  Tried(q, still, now)
BY DEF Tried

LEMMA IdleTried == ASSUME NEW quiet, NEW up PROVE Tried(Idle, quiet, up)
<1>1. Idle.cands = <<>> /\ Idle.at = "idle" /\ Idle.end = "none" /\ Idle.tries = 0 /\ ~Idle.settled
  BY DEF Idle
<1>2. <<>> \in Seq(Route)
  BY EmptySeq
<1> HIDE DEF Idle
<1> QED BY <1>1, <1>2 DEF Tried

\* The start of a cascade.
LEMMA StartTried ==
  ASSUME Typed, NEW s \in Slots
  PROVE  Tried(StartOn(s), calm, served)
<1> DEFINE q == StartOn(s)
<1>1. /\ q.cands = Cascade(s.route) /\ q.at = "send" /\ q.end = "none"
      /\ q.tries = 0 /\ q.attempt = 0 /\ q.settled = calm
  BY DEF StartOn, Idle
<1>2. s.route \in Route /\ tool \in {"gemini", "serve", "claude"}
  BY ToolAssumption DEF Slots, Typed
<1>3. /\ q.cands \in Seq(Route) /\ Len(q.cands) \in Nat \ {0}
      /\ Sendable \subseteq Range(q.cands)
  BY <1>1, <1>2, CascadeIs
<1> HIDE DEF q
<1>4. q.attempt < Len(q.cands) /\ \A i \in 1..q.attempt : q.cands[i] \notin served
  BY <1>1, <1>3
<1> QED BY <1>1, <1>3, <1>4 DEF Tried, q

\* A step of one request disturbs no other.
LEMMA OneRequestTries ==
  ASSUME RouteInv, NEW r \in Request, NEW q, req' = [req EXCEPT ![r] = q],
         Tried(q, calm, served), UNCHANGED <<tool, served, calm>>
  PROVE  Tries'
<1>1. Sendable' = Sendable
  BY DEF Sendable
<1>2. req' = [k \in Request |-> IF k = r THEN q ELSE req[k]]
  BY DEF RouteInv, Inv, Requests
<1>3. ASSUME NEW k \in Request PROVE Tried(req[k], calm, served)'
  <2>1. Tried(req'[k], calm, served)
    BY <1>2 DEF RouteInv, Tries
  <2> QED BY <1>1, <2>1 DEF Tried
<1> QED BY <1>3 DEF Tries

LEMMA InitTries == Init => Typed /\ Tries
<1> SUFFICES ASSUME Init PROVE Typed /\ Tries
  OBVIOUS
<1>1. NewSlot(NoRoute) \in Slots
  BY NewSlotTypes
<1>2. ProbeLimit \in Nat /\ 1 \in 1..MaxLaunches
  BY ResetAssumption, BoundsAssumption
<1>3. [found |-> "unlearned", errors |-> 0] \in Probes
  BY <1>2 DEF Probes
<1>4. Typed
  BY <1>1, <1>2, <1>3 DEF Init, Typed
<1>5. Tries
  BY IdleTried DEF Init, Tries
<1> QED BY <1>4, <1>5

LEMMA BeginTries == ASSUME RouteInv, NEW r \in Request, Begin(r) PROVE Typed' /\ Tries'
<1> DEFINE native == tool = "claude" /\ slot.route[1] = "anthropic"
           ask == native /\ probe.found # "failed"
           s == IF native /\ ~ask THEN PrePin(slot) ELSE slot
           asking == [Idle EXCEPT !.at = "native", !.trusted = s.confirmed]
           q == IF ask THEN asking ELSE StartOn(s)
<1>1. slot' = s /\ req' = [req EXCEPT ![r] = q] /\ UNCHANGED <<environment, probe, strict, answered>>
  BY DEF Begin
<1>2. s \in Slots
  <2>1. slot \in Slots /\ slot.route \in Route
    BY DEF RouteInv, Typed, Slots
  <2> QED BY <2>1, SlotTypes
<1> HIDE DEF s
<1>3. Tried(asking, calm, served)
  <2>1. /\ asking.cands = <<>> /\ asking.at = "native" /\ asking.end = "none" /\ asking.tries = 0
       /\ ~asking.settled
    BY DEF Idle
  <2>2. <<>> \in Seq(Route)
    BY EmptySeq
  <2> HIDE DEF asking
  <2> QED BY <2>1, <2>2 DEF Tried
<1>4. Tried(StartOn(s), calm, served)
  BY <1>2, StartTried DEF RouteInv
<1>5. Tried(q, calm, served)
  BY <1>3, <1>4
<1> HIDE DEF q
<1>6. Tries'
  BY <1>1, <1>5, OneRequestTries DEF environment
<1>7. Typed'
  BY <1>1, <1>2 DEF RouteInv, Typed, environment
<1> QED BY <1>6, <1>7

\* A request that ends without exhausting its cascade.
LEMMA EndTried ==
  ASSUME RouteInv, NEW r \in Request, req[r].at # "idle", NEW n \in Nat, NEW h,
         NEW how \in {"ok", "lost", "bailed"}, n = 0 \/ req[r].attempt < Len(req[r].cands)
  PROVE  LET q == [req[r] EXCEPT !.at = "idle", !.end = how, !.strict = FALSE, !.tries = n, !.heard = h]
         IN  Tried(q, calm, served)
<1> DEFINE q == [req[r] EXCEPT !.at = "idle", !.end = how, !.strict = FALSE, !.tries = n, !.heard = h]
<1>1. IsRequest(req[r]) /\ Tried(req[r], calm, served)
  BY DEF RouteInv, Inv, Requests, Tries
<1>2. q.at = "idle" /\ q.end = how /\ q.tries = n /\ q.cands = req[r].cands /\ q.attempt = req[r].attempt
      /\ q.settled = req[r].settled
  BY <1>1 DEF IsRequest
<1> HIDE DEF q
<1>3. /\ q.cands \in Seq(Route) /\ q.at = "idle" /\ q.end \in {"ok", "lost", "bailed"}
      /\ q.settled => calm
      /\ q.tries > 0 => q.attempt < Len(q.cands)
  BY <1>1, <1>2 DEF Tried
<1>4. Tried(q, calm, served)
  BY <1>3 DEF Tried
<1> QED BY <1>4 DEF q

LEMMA NativeAnswersTries ==
  ASSUME RouteInv, NEW r \in Request, NEW a, NativeAnswers(r, a) PROVE Typed' /\ Tries'
<1>1. slot \in Slots /\ probe \in Probes /\ slot.route \in Route
  BY DEF RouteInv, Typed, Slots
<1>2. IsRequest(req[r]) /\ Cascading(req[r], slot.confirmed) /\ req[r].at = "native"
  BY DEF NativeAnswers, RouteInv, Inv, Requests
<1>3. UNCHANGED <<environment, strict>>
  BY DEF NativeAnswers
<1>4. CASE a \in {"ok", "lost"}
  <2> DEFINE q == [req[r] EXCEPT !.at = "idle", !.end = a, !.strict = FALSE, !.tries = 0, !.heard = req[r].heard]
  <2>1. req[r].tries = 0
    BY <1>2 DEF Cascading
  <2>2. q = [req[r] EXCEPT !.at = "idle", !.end = a, !.strict = FALSE]
    BY <1>2, <2>1 DEF IsRequest
  <2> HIDE DEF q
  <2>3. req' = [req EXCEPT ![r] = q]
    <3>1. End(r, a) = [req EXCEPT ![r] = [req[r] EXCEPT !.at = "idle", !.end = a, !.strict = FALSE]]
      BY DEF End
    <3>2. req' = End(r, a)
      BY <1>4 DEF NativeAnswers
    <3> QED BY <2>2, <3>1, <3>2
  <2>4. Tried(q, calm, served)
    BY <1>2, <1>4, EndTried DEF q
  <2>5. slot' \in {slot, Succeeded(Confirm(slot))} /\ probe' \in {probe, [found |-> "works", errors |-> 0]}
        /\ answered' \in {answered, TRUE}
    BY <1>4 DEF NativeAnswers
  <2>6. slot' \in Slots
    BY <1>1, <2>5, SlotTypes
  <2>7. probe' \in Probes
    BY <1>1, <2>5, ResetAssumption DEF Probes
  <2> HIDE DEF q
  <2>8. Tries'
    BY <1>3, <2>3, <2>4, OneRequestTries DEF environment
  <2>9. Typed'
    BY <1>3, <2>5, <2>6, <2>7 DEF RouteInv, Typed, environment
  <2> QED BY <2>8, <2>9
<1>5. CASE a \notin {"ok", "lost"}
  <2>1. slot' \in {slot, PrePin(slot)} /\ req' = [req EXCEPT ![r] = StartOn(slot')] /\ UNCHANGED answered
    BY <1>5 DEF NativeAnswers
  <2>2. slot' \in Slots
    BY <1>1, <2>1, SlotTypes
  <2>3. Tried(StartOn(slot'), calm, served)
    BY <2>2, StartTried DEF RouteInv
  <2>4. Tries'
    BY <1>3, <2>1, <2>3, OneRequestTries DEF environment
  <2>5. probe' \in Probes
    <3> DEFINE e == IF probe.errors + 1 >= ProbeLimit THEN ProbeLimit ELSE probe.errors + 1
               f == IF probe.errors + 1 >= ProbeLimit THEN "failed" ELSE probe.found
    <3>1. probe.errors \in 0..ProbeLimit /\ probe.found \in {"unlearned", "works", "failed"} /\ ProbeLimit \in Nat
      BY <1>1, ResetAssumption DEF Probes
    <3>2. e \in 0..ProbeLimit /\ 0 \in 0..ProbeLimit /\ f \in {"unlearned", "works", "failed"}
      BY <3>1
    <3>3. probe' \in {[found |-> f, errors |-> e], [probe EXCEPT !.errors = 0], [probe EXCEPT !.found = "failed"]}
      BY <1>5 DEF NativeAnswers
    <3> HIDE DEF e, f
    <3>4. [found |-> f, errors |-> e] \in Probes
      BY <3>2 DEF Probes
    <3>5. [probe EXCEPT !.errors = 0] \in Probes /\ [probe EXCEPT !.found = "failed"] \in Probes
      BY <1>1, <3>2 DEF Probes
    <3> QED BY <3>3, <3>4, <3>5
  <2>6. Typed'
    BY <1>3, <2>1, <2>2, <2>5 DEF RouteInv, Typed, environment
  <2> QED BY <2>4, <2>6
<1> QED BY <1>4, <1>5

\* What is known where an attempt is answered.
LEMMA Sending ==
  ASSUME RouteInv, NEW r \in Request, req[r].at = "send"
  PROVE  /\ IsRequest(req[r]) /\ Tried(req[r], calm, served) /\ Cascading(req[r], slot.confirmed)
         /\ Len(req[r].cands) \in Nat /\ req[r].attempt \in Nat /\ req[r].tries \in Nat
         /\ req[r].attempt < Len(req[r].cands) /\ Current(r) \in Route
         /\ slot \in Slots
<1>1. /\ IsRequest(req[r]) /\ Tried(req[r], calm, served) /\ Cascading(req[r], slot.confirmed)
      /\ slot \in Slots
  BY DEF RouteInv, Inv, Requests, Tries, Typed
<1>2. req[r].cands \in Seq(Route) /\ req[r].attempt < Len(req[r].cands)
  BY <1>1 DEF Tried
<1>3. Len(req[r].cands) \in Nat
  BY <1>2, LenProperties
<1>4. req[r].attempt \in Nat /\ req[r].tries \in Nat
  BY <1>1 DEF IsRequest
<1>5. req[r].attempt + 1 \in 1..Len(req[r].cands)
  BY <1>2, <1>3, <1>4
<1>6. Current(r) \in Route
  BY <1>2, <1>5, ElementOfSeq DEF Current
<1> QED BY <1>1, <1>2, <1>3, <1>4, <1>6

LEMMA AttemptSucceedsTries ==
  ASSUME RouteInv, NEW r \in Request, AttemptSucceeds(r) PROVE Typed' /\ Tries'
<1> DEFINE n == req[r].tries + 1
           q == [req[r] EXCEPT !.at = "idle", !.end = "ok", !.strict = FALSE, !.tries = n, !.heard = req[r].heard]
<1>1. req[r].at = "send"
  BY DEF AttemptSucceeds
<1>2. /\ IsRequest(req[r]) /\ req[r].attempt < Len(req[r].cands) /\ Current(r) \in Route /\ slot \in Slots
      /\ req[r].tries \in Nat
  BY <1>1, Sending
<1>3. n \in Nat
  BY <1>2
<1>4. req' = [req EXCEPT ![r] = [req[r] EXCEPT !.at = "idle", !.end = "ok", !.strict = FALSE, !.tries = n]]
  BY EndAndTry DEF AttemptSucceeds, RouteInv
<1> HIDE DEF n
<1>5. q = [req[r] EXCEPT !.at = "idle", !.end = "ok", !.strict = FALSE, !.tries = n]
  BY <1>2 DEF IsRequest
<1>6. Tried(q, calm, served)
  BY <1>1, <1>2, <1>3, EndTried
<1> HIDE DEF q
<1>7. Tries'
  BY <1>4, <1>5, <1>6, OneRequestTries DEF AttemptSucceeds, environment
<1>8. slot' \in Slots
  BY <1>2, SlotTypes DEF AttemptSucceeds
<1>9. Typed'
  BY <1>8 DEF AttemptSucceeds, environment, RouteInv, Typed
<1> QED BY <1>7, <1>9

LEMMA AttemptLostTries ==
  ASSUME RouteInv, NEW r \in Request, AttemptLost(r) PROVE Typed' /\ Tries'
<1> DEFINE n == req[r].tries + 1
           q == [req[r] EXCEPT !.at = "idle", !.end = "lost", !.strict = FALSE, !.tries = n, !.heard = req[r].heard]
<1>1. req[r].at = "send"
  BY DEF AttemptLost
<1>2. IsRequest(req[r]) /\ req[r].attempt < Len(req[r].cands) /\ req[r].tries \in Nat
  BY <1>1, Sending
<1>3. n \in Nat
  BY <1>2
<1>4. req' = [req EXCEPT ![r] = [req[r] EXCEPT !.at = "idle", !.end = "lost", !.strict = FALSE, !.tries = n]]
  BY EndAndTry DEF AttemptLost, RouteInv
<1> HIDE DEF n
<1>5. q = [req[r] EXCEPT !.at = "idle", !.end = "lost", !.strict = FALSE, !.tries = n]
  BY <1>2 DEF IsRequest
<1>6. Tried(q, calm, served)
  BY <1>1, <1>2, <1>3, EndTried
<1> HIDE DEF q
<1>7. Tries'
  BY <1>4, <1>5, <1>6, OneRequestTries DEF AttemptLost, environment
<1>8. Typed'
  BY DEF AttemptLost, environment, RouteInv, Typed
<1> QED BY <1>7, <1>8

\* Of a calm upstream only a route that it does not serve fails.
LEMMA FellThrough ==
  ASSUME NEW r \in Request, NEW a, AttemptFails(r, a), calm
  PROVE  Current(r) \notin served
<1>1. a \in Answers(Current(r)) \ {"ok", "lost"}
  BY DEF AttemptFails
<1> QED BY <1>1 DEF Answers

LEMMA AttemptFailsTries ==
  ASSUME RouteInv, NEW r \in Request, NEW a, AttemptFails(r, a) PROVE Typed' /\ Tries'
<1> DEFINE cands == req[r].cands
           len == Len(cands)
           attempt == req[r].attempt
           n == req[r].tries + 1
           extra == IF req[r].retried THEN 1 ELSE 0
           last == attempt + 1 = len
           heard == req[r].heard \cup ({a} \cap Telling)
           next == [req[r] EXCEPT !.heard = heard, !.tries = @ + 1]
<1>1. req[r].at = "send" /\ UNCHANGED <<environment, probe>>
  BY DEF AttemptFails
<1>2. /\ IsRequest(req[r]) /\ Tried(req[r], calm, served) /\ Cascading(req[r], slot.confirmed)
      /\ len \in Nat /\ attempt \in Nat /\ req[r].tries \in Nat
      /\ attempt < len /\ Current(r) \in Route /\ slot \in Slots
  BY <1>1, Sending
<1>3. n \in Nat /\ req[r].tries = attempt + extra /\ extra \in Nat
  BY <1>1, <1>2 DEF Cascading
<1>4. /\ cands \in Seq(Route) /\ req[r].end = "none" /\ Sendable \subseteq Range(cands)
      /\ req[r].settled => calm /\ \A i \in 1..attempt : cands[i] \notin served
  BY <1>1, <1>2 DEF Tried
<1>5. SlotAfter(r, a) \in Slots
  <2> DEFINE pinned == Commit(slot, Current(r), attempt)
  <2>1. pinned \in Slots
    BY <1>2, SlotTypes
  <2>2. SlotAfter(r, a) \in {Confirm(slot), Confirm(pinned), pinned, slot}
    BY DEF SlotAfter
  <2> HIDE DEF pinned
  <2>3. Confirm(slot) \in Slots /\ Confirm(pinned) \in Slots
    BY <1>2, <2>1, SlotTypes
  <2> QED BY <1>2, <2>1, <2>2, <2>3
<1>6. slot' \in Slots
  <2>1. slot' \in {SlotAfter(r, a), Failed(SlotAfter(r, a))}
    BY DEF AttemptFails
  <2> QED BY <1>2, <1>5, <2>1, SlotTypes
<1>7. Typed'
  <2>1. strict' \in BOOLEAN /\ answered' \in BOOLEAN
    BY DEF AttemptFails, RouteInv, Typed
  <2> QED BY <1>1, <1>6, <2>1 DEF environment, RouteInv, Typed
<1>8. req[r].settled => \A i \in 1..(attempt + 1) : cands[i] \notin served
  <2> SUFFICES ASSUME req[r].settled, NEW i \in 1..(attempt + 1)
               PROVE  cands[i] \notin served
    OBVIOUS
  <2>1. CASE i = attempt + 1
    <3>1. cands[i] = Current(r)
      BY <2>1 DEF Current
    <3> QED BY <1>4, <3>1, FellThrough
  <2>2. CASE i # attempt + 1
    BY <1>2, <1>4, <2>2
  <2> QED BY <2>1, <2>2
<1>9. CASE CanRetry(r, a)
  <2> DEFINE q == [next EXCEPT !.strict = TRUE, !.retried = TRUE]
  <2>1. req' = [req EXCEPT ![r] = q]
    BY <1>9 DEF AttemptFails
  <2>2. /\ q.cands = cands /\ q.at = "send" /\ q.end = "none" /\ q.attempt = attempt
        /\ q.settled = req[r].settled
    BY <1>1, <1>2, <1>4 DEF IsRequest
  <2> HIDE DEF q
  <2>3. Tried(q, calm, served)
    BY <1>2, <1>4, <2>2 DEF Tried
  <2> QED BY <1>1, <1>7, <2>1, <2>3, OneRequestTries DEF environment
<1>10. CASE ~CanRetry(r, a) /\ Bails(r, a)
  <2> DEFINE q == [req[r] EXCEPT !.at = "idle", !.strict = FALSE, !.end = "bailed", !.tries = n, !.heard = heard]
  <2>1. req' = [req EXCEPT ![r] = [next EXCEPT !.at = "idle", !.strict = FALSE, !.end = "bailed"]]
    BY <1>10 DEF AttemptFails
  <2>2. q = [next EXCEPT !.at = "idle", !.strict = FALSE, !.end = "bailed"]
    BY <1>2 DEF IsRequest
  <2> HIDE DEF n, heard
  <2>3. Tried(q, calm, served)
    BY <1>1, <1>2, <1>3, EndTried
  <2> HIDE DEF q
  <2> QED BY <1>1, <1>7, <2>1, <2>2, <2>3, OneRequestTries DEF environment
<1>11. CASE ~CanRetry(r, a) /\ ~Bails(r, a) /\ last
  <2> DEFINE q == [next EXCEPT !.at = "idle", !.strict = FALSE, !.end = "exhausted"]
  <2>1. req' = [req EXCEPT ![r] = q]
    BY <1>11 DEF AttemptFails
  <2>2. /\ q.cands = cands /\ q.at = "idle" /\ q.end = "exhausted" /\ q.attempt = attempt
        /\ q.tries = n /\ q.retried = req[r].retried /\ q.settled = req[r].settled
    BY <1>2 DEF IsRequest
  <2>3. n = len + extra
    <3>1. attempt + 1 = len
      BY <1>11
    <3> HIDE DEF len, extra, attempt
    <3> QED BY <1>2, <1>3, <3>1
  <2>4. req[r].settled => \A i \in 1..len : cands[i] \notin served
    BY <1>8, <1>11
  <2> HIDE DEF q, n
  <2>5. Tried(q, calm, served)
    BY <1>2, <1>4, <2>2, <2>3, <2>4 DEF Tried
  <2> QED BY <1>1, <1>7, <2>1, <2>5, OneRequestTries DEF environment
<1>12. CASE ~CanRetry(r, a) /\ ~Bails(r, a) /\ ~last
  <2> DEFINE q == [next EXCEPT !.attempt = @ + 1]
  <2>1. req' = [req EXCEPT ![r] = q]
    BY <1>12 DEF AttemptFails
  <2>2. /\ q.cands = cands /\ q.at = "send" /\ q.end = "none" /\ q.attempt = attempt + 1
        /\ q.settled = req[r].settled
    BY <1>1, <1>2, <1>4 DEF IsRequest
  <2>3. attempt + 1 < len
    BY <1>2, <1>12
  <2>4. req[r].settled => \A i \in 1..(attempt + 1) : cands[i] \notin served
    BY <1>8, <1>12
  <2> HIDE DEF q
  <2>5. Tried(q, calm, served)
    BY <1>2, <1>4, <2>2, <2>3, <2>4 DEF Tried
  <2> QED BY <1>1, <1>7, <2>1, <2>5, OneRequestTries DEF environment
<1> QED BY <1>9, <1>10, <1>11, <1>12

LEMMA RelaunchTries == ASSUME RouteInv, NEW crash, Relaunch(crash) PROVE Typed' /\ Tries'
<1>1. stored' \in Route \cup {NoRoute}
  BY DEF Relaunch, Kept, RouteInv, Typed, Slots
<1>2. slot' \in Slots
  BY <1>1, NewSlotTypes DEF Relaunch
<1>3. launches' \in 1..MaxLaunches
  BY BoundsAssumption DEF Relaunch, RouteInv, Typed
<1>4. probe' \in Probes
  BY ResetAssumption DEF Relaunch, Probes
<1>5. strict' \in BOOLEAN /\ answered' \in BOOLEAN
  BY DEF Relaunch, RouteInv, Typed
<1>6. Typed'
  BY <1>1, <1>2, <1>3, <1>4, <1>5 DEF Relaunch, RouteInv, Typed
<1>7. \A r \in Request : req'[r] = Idle
  BY DEF Relaunch
<1>8. ASSUME NEW r \in Request PROVE Tried(req[r], calm, served)'
  <2>1. Tried(req'[r], calm', served')
    BY <1>7, IdleTried
  <2>2. Sendable' = Sendable
    BY DEF Relaunch, Sendable
  <2> QED BY <2>1, <2>2 DEF Tried
<1>9. Tries'
  BY <1>8 DEF Tries
<1> QED BY <1>6, <1>9

\* What the upstream does: it disturbs nothing that a request knows, since it
\* moves only until it is calm.
LEMMA UpstreamTries ==
  ASSUME RouteInv, PersistAfterTurn \/ UpstreamMoves \/ UpstreamSettles \/ UNCHANGED vars
  PROVE  Typed' /\ Tries'
<1>1. UNCHANGED <<tool, slot, probe, strict, req, launches, answered>>
  BY DEF PersistAfterTurn, UpstreamMoves, UpstreamSettles, vars
<1>2. /\ stored' \in {stored, slot.route} /\ calm' \in BOOLEAN /\ served' \in Upstreams
  BY DEF PersistAfterTurn, UpstreamMoves, UpstreamSettles, vars, RouteInv, Typed
<1>3. calm => calm' /\ served' = served
  BY DEF PersistAfterTurn, UpstreamMoves, UpstreamSettles, vars
<1>4. stored' \in Route \cup {NoRoute}
  BY <1>2 DEF RouteInv, Typed, Slots
<1>5. Typed'
  BY <1>1, <1>2, <1>4 DEF RouteInv, Typed
<1>6. ASSUME NEW r \in Request PROVE Tried(req[r], calm, served)'
  <2>1. Tried(req[r], calm', served')
    BY <1>3, TriedStays DEF RouteInv, Tries
  <2>2. Sendable' = Sendable
    BY <1>1 DEF Sendable
  <2> QED BY <1>1, <2>1, <2>2 DEF Tried
<1>7. Tries'
  BY <1>6 DEF Tries
<1> QED BY <1>5, <1>7

LEMMA RouteStep == RouteInv /\ [Next]_vars => RouteInv'
<1> SUFFICES ASSUME RouteInv, [Next]_vars PROVE RouteInv'
  OBVIOUS
<1>1. Inv'
  BY StepInv DEF RouteInv
<1>2. CASE \E r \in Request : Step(r)
  BY <1>1, <1>2, BeginTries, AttemptSucceedsTries, AttemptLostTries, NativeAnswersTries, AttemptFailsTries
     DEF Step, RouteInv
<1>3. CASE Relaunch(TRUE) \/ Relaunch(FALSE)
  BY <1>1, <1>3, RelaunchTries DEF RouteInv
<1>4. CASE PersistAfterTurn \/ UpstreamMoves \/ UpstreamSettles \/ UNCHANGED vars
  BY <1>1, <1>4, UpstreamTries DEF RouteInv
<1> QED BY <1>2, <1>3, <1>4 DEF Next

-----------------------------------------------------------------------------
(* The theorems.                                                              *)

\* A slot is confirmed only by the store or by an answer, and each request is
\* where its answers have led it.
THEOREM InvHolds == Spec => []Inv
<1> QED
  BY InitInv, StepInv, PTL DEF Spec

\* A launch in which the upstream only failed stores no route for a model that
\* had none, whatever the router, the order of the protocols and the requests.
THEOREM FailuresTeachNothingHolds == Spec => FailuresTeachNothing
<1>1. Inv /\ [Next]_vars => [(stored' # stored /\ slot.persisted = NoRoute) => answered]_vars
  <2> SUFFICES ASSUME Inv, Next, stored' # stored, slot.persisted = NoRoute PROVE answered
    OBVIOUS
  <2>1. Dirty(slot)
    <3>1. ASSUME NEW r \in Request, Step(r) PROVE FALSE
      BY <3>1 DEF Step, Begin, NativeAnswers, AttemptSucceeds, AttemptLost, AttemptFails, environment
    <3>2. CASE PersistAfterTurn
      BY <3>2 DEF PersistAfterTurn
    <3>3. CASE Relaunch(TRUE) \/ Relaunch(FALSE)
      BY <3>3 DEF Relaunch, Kept
    <3>4. CASE UpstreamMoves \/ UpstreamSettles
      BY <3>4 DEF UpstreamMoves, UpstreamSettles
    <3> QED
      BY <3>1, <3>2, <3>3, <3>4 DEF Next
  <2> QED
    BY <2>1 DEF Dirty, Inv, Proven
<1> QED
  BY InvHolds, <1>1, PTL DEF Spec, FailuresTeachNothing

\* Every state variable stays in its type, and where each request has come in
\* its cascade agrees with what it tried; one that began when the upstream was
\* calm has fallen through only where nothing is served.
THEOREM RouteInvHolds == Spec => []RouteInv
<1>1. Init => RouteInv
  BY InitInv, InitTries DEF RouteInv
<1> QED
  BY <1>1, RouteStep, PTL DEF Spec

\* The types: a streak stays below the limit that resets it, the probe's errors
\* below theirs, and a request that sends has a candidate to send to.
THEOREM TypesHold == Spec => []TypeOK
<1>1. RouteInv => TypeOK
  <2> SUFFICES ASSUME RouteInv PROVE TypeOK
    OBVIOUS
  <2>1. ASSUME NEW r \in Request
        PROVE  /\ req[r].at \in {"idle", "native", "send"}
               /\ req[r].end \in {"none", "ok", "lost", "bailed", "exhausted"}
               /\ req[r].at = "send" => req[r].attempt < Len(req[r].cands)
    BY DEF RouteInv, Tries, Tried
  <2>2. Typed
    BY DEF RouteInv
  <2> QED BY <2>1, <2>2 DEF TypeOK, Typed, Slots, Probes
<1> QED
  BY RouteInvHolds, <1>1, PTL

\* A cascade tries a candidate once, and one of them once more with the body
\* rebuilt; it stops at a 429; and one that starts on a proven route tries no
\* other unless it heard that the format is unsupported.
THEOREM NoFanOutHolds == Spec => []NoFanOut
<1>1. RouteInv => NoFanOut
  <2> SUFFICES ASSUME RouteInv, NEW r \in Request PROVE TriesOnce(r) /\ StopsAtLimit(r) /\ KeepsProven(r)
    BY DEF NoFanOut
  <2>1. /\ IsRequest(req[r]) /\ Cascading(req[r], slot.confirmed) /\ Tried(req[r], calm, served)
    BY DEF RouteInv, Inv, Requests, Tries
  <2>2. StopsAtLimit(r) /\ KeepsProven(r)
    BY <2>1 DEF StopsAtLimit, KeepsProven, Attempts, Cascading, IsRequest
  <2>3. req[r].tries \in Nat /\ req[r].attempt \in Nat /\ Len(req[r].cands) \in Nat
    BY <2>1, LenProperties DEF IsRequest, Tried
  <2>4. TriesOnce(r)
    <3>1. CASE req[r].tries = 0
      BY <2>3, <3>1 DEF TriesOnce
    <3>2. CASE req[r].tries > 0
      <4>1. req[r].attempt < Len(req[r].cands)
        BY <2>1, <3>2 DEF Tried
      <4>2. req[r].tries <= req[r].attempt + 2
        BY <2>1, <2>3 DEF Cascading
      <4> QED BY <2>3, <4>1, <4>2 DEF TriesOnce
    <3> QED BY <2>3, <3>1, <3>2
  <2> QED BY <2>2, <2>4
<1> QED
  BY RouteInvHolds, <1>1, PTL

\* "No candidate worked" is never said too early: the request tried every route
\* the router can send, and if its cascade began when the upstream was calm none
\* of them is served.
THEOREM ExhaustedTriedAllHolds == Spec => []ExhaustedTriedAll
<1>1. RouteInv => ExhaustedTriedAll
  <2> SUFFICES ASSUME RouteInv, NEW r \in Request, req[r].end = "exhausted"
               PROVE  /\ Sendable \subseteq Candidate(r) /\ Attempts(r) = Len(req[r].cands)
                      /\ req[r].settled => served \cap Candidate(r) = {}
    BY DEF ExhaustedTriedAll
  <2> DEFINE cands == req[r].cands
             len == Len(cands)
  <2>1. Tried(req[r], calm, served) /\ IsRequest(req[r])
    BY DEF RouteInv, Tries, Inv, Requests
  <2>2. /\ cands \in Seq(Route) /\ Sendable \subseteq Range(cands)
        /\ req[r].tries = len + (IF req[r].retried THEN 1 ELSE 0)
        /\ req[r].settled => \A i \in 1..len : cands[i] \notin served
    BY <2>1 DEF Tried
  <2>3. len \in Nat /\ Range(cands) = {cands[i] : i \in 1..len}
    BY <2>2, LenProperties, RangeEquality
  <2>4. Attempts(r) = len
    BY <2>2, <2>3 DEF Attempts
  <2> HIDE DEF len
  <2>5. ASSUME req[r].settled, NEW c \in served \cap Range(cands)
        PROVE  FALSE
    BY <2>2, <2>3, <2>5
  <2> QED BY <2>2, <2>4, <2>5 DEF Candidate, len
<1> QED
  BY RouteInvHolds, <1>1, PTL

=============================================================================
