-------------------------- MODULE EngineTranscript --------------------------
(***************************************************************************)
(* The transcript an AgentEngine sends with every model request, and the    *)
(* /rewind checkpoints that point into it (src/src/agent/engine.rs and      *)
(* compaction.rs).                                                          *)
(*                                                                          *)
(* msgs[i] is the engine's messages[i]: the system prompt is messages[0] and *)
(* never changes.  Token counts are not modelled: a request may be over      *)
(* budget at any time, and find_cut may choose any user message.  A turn's   *)
(* future may be dropped at every await.                                    *)
(***************************************************************************)
EXTENDS Naturals, SequencesExt, FiniteSetsExt

CONSTANTS
  Content,    \* kinds of prompt: "text", "parts" (text and images)
  MaxSteps,   \* max_steps of a turn
  MaxTurns,   \* bound: turns
  MaxCalls,   \* bound: tool calls in all
  MaxBatch    \* bound: tool calls of one reply

ASSUME ContentAssumption == Content \subseteq {"text", "parts"}
ASSUME BoundsAssumption ==
  MaxSteps \in Nat /\ MaxTurns \in Nat /\ MaxCalls \in Nat /\ MaxBatch \in Nat

VARIABLES
  msgs,       \* AgentEngine.messages, after the system prompt
  cps,        \* AgentEngine.checkpoints: the message each turn starts at
  at,         \* where the turn's future is suspended
  turn,       \* the current turn
  step,       \* model requests of this turn
  cut,        \* the cut of the compaction that awaits its summary
  nextCall,   \* tool call ids handed out
  ran         \* the calls whose tool has been executed

vars == <<msgs, cps, at, turn, step, cut, nextCall, ran>>

Turn == 1..MaxTurns
Call == 1..MaxCalls

\* `of`: the turns whose prompt a user message holds (none for what run_loop
\* asks in the user's name), the calls of an assistant message, the call a tool
\* message answers.
Msg(role, of, content) == [role |-> role, of |-> of, content |-> content]
User(turns, content) == Msg("user", turns, content)
Assistant(calls) == Msg("assistant", calls, "text")
Result(call) == Msg("tool", {call}, "text")
Interrupted(call) == Msg("tool", {call}, "interrupted")
Nudge == User({}, "text")

Users(ms) == {i \in DOMAIN ms : ms[i].role = "user"}
Callers(ms) == {i \in DOMAIN ms : ms[i].role = "assistant" /\ ms[i].of # {}}
IsRun(ms, i, n) == \A k \in (i + 1)..(i + n) : ms[k].role = "tool"

\* Where the run of tool messages that follows message i ends.
RunEnd(ms, i) == i + Max({n \in 0..(Len(ms) - i) : IsRun(ms, i, n)})

\* Tool calls in the order the model made them.
InOrder(calls) ==
  CHOOSE f \in [1..Cardinality(calls) -> calls] :
    \A j, k \in 1..Cardinality(calls) : j < k => f[j] < f[k]

Answered(ms, i) == UNION {ms[k].of : k \in (i + 1)..RunEnd(ms, i)}
Checkpoint(i, t) == [at |-> i, turn |-> t]

-----------------------------------------------------------------------------
(* Appending, repairing and compacting.                                      *)

\* Mutant: the tail is never looked at.
PushAppend(ms, m) == Append(ms, m)

\* push_user_content: a prompt joins a trailing user message, but push_text_turn
\* joins only text to text.
PushUser(ms, m) ==
  IF ms # <<>> /\ Last(ms).role = "user" /\ (m.content = "text" => Last(ms).content = "text")
  THEN Append(Front(ms), User(Last(ms).of \cup m.of, m.content))
  ELSE Append(ms, m)

\* Mutant: the interrupted tail is left as it is.
RepairNothing(ms) == ms

\* repair_interrupted_tail: every unanswered call of the last calling message
\* gets a result, and an assistant message follows the results.
RepairTail(ms) ==
  LET i == Max(Callers(ms))
      end == RunEnd(ms, i)
      missing == ms[i].of \ Answered(ms, i)
      results == [k \in 1..Cardinality(missing) |-> Interrupted(InOrder(missing)[k])]
      reply == IF end < Len(ms) /\ ms[end + 1].role = "assistant"
               THEN <<>> ELSE <<Assistant({})>>
  IN IF Callers(ms) = {} \/ missing = {}
     THEN ms
     ELSE SubSeq(ms, 1, end) \o results \o reply \o SubSeq(ms, end + 1, Len(ms))

\* Mutant: the cut may fall on any message.
CutsAnywhere(ms) == DOMAIN ms \ {1}

\* The cuts of maybe_compact and force_fit_budget that leave something to fold:
\* a user message other than the first, and failing that the last user message.
Cuts(ms) == Users(ms) \ {1}

\* apply_compaction: messages 1..c-1 become a summary in front of message c,
\* whose own content survives only if it is a string.
Fold(ms, c) ==
  <<IF ms[c].content = "text" THEN ms[c] ELSE Msg(ms[c].role, {}, "text")>>
    \o SubSeq(ms, c + 1, Len(ms))

\* Mutant: the checkpoints are shifted by the cut.
RebaseByCut(cs, c) ==
  LET kept == SelectSeq(cs, LAMBDA p : p.at >= c)
  IN [i \in DOMAIN kept |-> Checkpoint(kept[i].at - c, kept[i].turn)]

\* rebase_checkpoints: a checkpoint before the cut is dropped, one after it moves.
Rebase(cs, c) ==
  LET kept[i \in 0..Len(cs)] ==
        IF i = 0 THEN <<>>
        ELSE IF cs[i].at < c THEN kept[i - 1]
        ELSE Append(kept[i - 1], Checkpoint(cs[i].at - (c - 1), cs[i].turn))
  IN kept[Len(cs)]

\* enforce_budget: all that precedes the last user message may go too.
FoldAndTrim(c) ==
  LET ms == Fold(msgs, c)
      cs == Rebase(cps, c)
      last == Max(Users(ms))
  IN \/ msgs' = ms /\ cps' = cs
     \/ msgs' = SubSeq(ms, last, Len(ms)) /\ cps' = Rebase(cs, last)

-----------------------------------------------------------------------------
Init ==
  /\ msgs = <<>> /\ cps = <<>> /\ at = "idle" /\ turn = 0 /\ step = 0
  /\ cut = 0 /\ nextCall = 1 /\ ran = {}

\* begin_user_turn.
BeginTurn(content) ==
  /\ at = "idle" /\ turn < MaxTurns
  /\ turn' = turn + 1 /\ step' = 0
  /\ LET ms == RepairTail(msgs)
         start == IF ms # <<>> /\ Last(ms).role = "user" THEN Len(ms) ELSE Len(ms) + 1
     IN /\ msgs' = PushUser(ms, User({turn'}, content))
        /\ cps' = IF cps # <<>> /\ Last(cps).at = start
                  THEN cps ELSE Append(cps, Checkpoint(start, turn'))
  /\ at' = "head"
  /\ UNCHANGED <<cut, nextCall, ran>>

\* The loop stops: the step limit, or after tool results a guard (no progress,
\* repeated failures).
LoopStops ==
  /\ at = "head" /\ (step = MaxSteps \/ Last(msgs).role = "tool")
  /\ at' = "idle"
  /\ UNCHANGED <<msgs, cps, turn, step, cut, nextCall, ran>>

Request == at' = "model" /\ step' = step + 1

\* Mutant: no step limit.
SendUnlimited ==
  /\ at = "head"
  /\ Request
  /\ UNCHANGED <<msgs, cps, turn, cut, nextCall, ran>>

\* Within the budget, or brought within it by clearing old tool output.
SendRequest ==
  /\ at = "head" /\ step < MaxSteps
  /\ Request
  /\ UNCHANGED <<msgs, cps, turn, cut, nextCall, ran>>

\* maybe_compact awaits a summary of what precedes the cut.
Summarize ==
  /\ at = "head" /\ step < MaxSteps
  /\ cut' \in Cuts(msgs)
  /\ at' = "summary"
  /\ UNCHANGED <<msgs, cps, turn, step, nextCall, ran>>

Summarized ==
  /\ at = "summary"
  /\ FoldAndTrim(cut) /\ cut' = 0
  /\ Request
  /\ UNCHANGED <<turn, nextCall, ran>>

\* The model rejects the request as too long: force_fit_budget, and again.
ForceFit ==
  /\ at = "model"
  /\ \E c \in Cuts(msgs) : FoldAndTrim(c)
  /\ UNCHANGED <<at, turn, step, cut, nextCall, ran>>

\* A budget is spent or the reply is empty: nothing is recorded.
NoReply ==
  /\ at = "model"
  /\ at' = "idle"
  /\ UNCHANGED <<msgs, cps, turn, step, cut, nextCall, ran>>

\* A tool call leaked as text: recorded as text, and the model is asked again.
LeakedCall ==
  /\ at = "model"
  /\ msgs' = PushUser(Append(msgs, Assistant({})), Nudge)
  /\ at' = "head"
  /\ UNCHANGED <<cps, turn, step, cut, nextCall, ran>>

\* A text reply, or an error recorded as one; validator and hooks are awaited.
TextReply ==
  /\ at = "model"
  /\ msgs' = Append(msgs, Assistant({}))
  /\ at' = "checks"
  /\ UNCHANGED <<cps, turn, step, cut, nextCall, ran>>

\* Unfinished, failed verification, or refused by a Stop hook.
AskAgain ==
  /\ at = "checks"
  /\ msgs' = PushUser(msgs, Nudge)
  /\ at' = "head"
  /\ UNCHANGED <<cps, turn, step, cut, nextCall, ran>>

Converge ==
  /\ at = "checks"
  /\ at' = "idle"
  /\ UNCHANGED <<msgs, cps, turn, step, cut, nextCall, ran>>

ToolReply ==
  /\ at = "model"
  /\ \E n \in 1..MaxBatch :
       /\ nextCall + n <= MaxCalls + 1
       /\ msgs' = Append(msgs, Assistant(nextCall..(nextCall + n - 1)))
       /\ nextCall' = nextCall + n
  /\ at' = "tools"
  /\ UNCHANGED <<cps, turn, step, cut, ran>>

\* execute_tool_batch: one allowed call is executed.
RunTool ==
  /\ at = "tools"
  /\ \E c \in Last(msgs).of \ ran : ran' = ran \cup {c}
  /\ UNCHANGED <<msgs, cps, at, turn, step, cut, nextCall>>

\* The end of the batch: all results, denials among them, in one go.
ToolResults ==
  /\ at = "tools"
  /\ LET calls == Last(msgs).of
     IN msgs' = msgs \o [k \in 1..Cardinality(calls) |-> Result(InOrder(calls)[k])]
  /\ at' = "head"
  /\ UNCHANGED <<cps, turn, step, cut, nextCall, ran>>

\* The turn's future is dropped.
Cancel ==
  /\ at # "idle"
  /\ at' = "idle" /\ cut' = 0
  /\ UNCHANGED <<msgs, cps, turn, step, nextCall, ran>>

\* restore_conversation in a new process: the messages verbatim, no checkpoints.
Restore ==
  /\ at = "idle" /\ cps # <<>>
  /\ cps' = <<>>
  /\ UNCHANGED <<msgs, at, turn, step, cut, nextCall, ran>>

\* rewind_to.
Rewind ==
  /\ at = "idle"
  /\ \E k \in DOMAIN cps :
       /\ msgs' = SubSeq(msgs, 1, cps[k].at - 1)
       /\ cps' = SubSeq(cps, 1, k - 1)
  /\ UNCHANGED <<at, turn, step, cut, nextCall, ran>>

Next ==
  \/ \E content \in Content : BeginTurn(content)
  \/ LoopStops \/ SendRequest \/ Summarize \/ Summarized \/ ForceFit
  \/ NoReply \/ LeakedCall \/ TextReply \/ AskAgain \/ Converge
  \/ ToolReply \/ RunTool \/ ToolResults
  \/ Cancel \/ Restore \/ Rewind

Spec == Init /\ [][Next]_vars

-----------------------------------------------------------------------------
(* Properties.                                                               *)

Message ==
  [role : {"user"}, of : SUBSET Turn, content : {"text", "parts"}]
    \cup [role : {"assistant"}, of : SUBSET Call, content : {"text"}]
    \cup [role : {"tool"}, of : SUBSET Call, content : {"text", "interrupted"}]

TypeOK ==
  /\ msgs \in Seq(Message)
  /\ cps \in Seq([at : Nat \ {0}, turn : Turn])
  /\ at \in {"idle", "head", "model", "summary", "tools", "checks"}
  /\ turn \in 0..MaxTurns /\ step \in 0..MaxSteps
  /\ cut \in Nat /\ nextCall \in 1..(MaxCalls + 1) /\ ran \subseteq Call

\* Every request can be sent: each tool call in it is answered in the run of
\* tool messages right after it, once, and there is no other tool message.  A
\* dropped turn, a compaction, a rewind and a resume may have come before.
EveryCallAnswered ==
  at = "model" =>
    /\ \A i \in Callers(msgs) :
         /\ Answered(msgs, i) = msgs[i].of
         /\ RunEnd(msgs, i) - i = Cardinality(msgs[i].of)
    /\ \A k \in DOMAIN msgs : msgs[k].role = "tool" =>
         \E i \in Callers(msgs) : i < k /\ k <= RunEnd(msgs, i)

\* "Anthropic rejects assistant-first": what is sent opens with a user message.
OpensWithUser ==
  at = "model" => 1 \in Users(msgs)

\* "The engine must never hold two consecutive same-role messages".
NoTwoAlike ==
  \A i \in 1..(Len(msgs) - 1) :
    msgs[i].role = msgs[i + 1].role => msgs[i].role = "tool"

\* A checkpoint is at the message that opens its turn: a rewind to it leaves the
\* prompts of earlier turns and takes those of later ones, whatever was merged,
\* folded or trimmed since.
CheckpointsSplitTurns ==
  /\ \A i, j \in DOMAIN cps : i < j => cps[i].at < cps[j].at /\ cps[i].turn < cps[j].turn
  /\ \A i \in DOMAIN cps :
       /\ cps[i].at \in Users(msgs)
       /\ msgs[cps[i].at].content = "text" => cps[i].turn \in msgs[cps[i].at].of
       /\ \A k \in Users(msgs) : \A t \in msgs[k].of :
            (k < cps[i].at => t < cps[i].turn) /\ (k > cps[i].at => t > cps[i].turn)

\* convert_openai_chat_to_anthropic_request: a run of tool messages becomes one
\* user message.
BridgeRole(role) == IF role = "assistant" THEN "assistant" ELSE "user"
BridgeStart(i) == i > 1 /\ ~(msgs[i].role = "tool" /\ msgs[i - 1].role = "tool")

\* repair_interrupted_tail: "[tool_result, next user] becomes two consecutive
\* users (Anthropic 400 / brick). Insert an assistant turn after the results to
\* keep alternation".
BridgeAlternates ==
  at = "model" =>
    \A i \in DOMAIN msgs :
      BridgeStart(i) => BridgeRole(msgs[i - 1].role) # BridgeRole(msgs[i].role)

\* The protocol document: "completed tool results are not replayed after
\* resume": the model is not told that a tool which was executed was not.
CompletedToolsRemembered ==
  \A k \in DOMAIN msgs : msgs[k].content = "interrupted" => msgs[k].of \cap ran = {}
=============================================================================
