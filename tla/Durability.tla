----------------------------- MODULE Durability -----------------------------
(***************************************************************************)
(* What survives of one App Server thread: its conversation (the display    *)
(* history), the transcript in its AgentEngine, and the session file that   *)
(* keeps both.  session.rs decides what is saved when, atomic_write.rs how. *)
(*                                                                          *)
(* A save reads the file and writes it whole, so it is two steps: `job` is  *)
(* the file being written.  The process may crash at any step; it is then   *)
(* started again and the session resumed.  A cancel drops the future that   *)
(* awaits a write; here the write has then landed or never will.  The module *)
(* OrphanWrite drops that assumption.                                       *)
(***************************************************************************)
EXTENDS Naturals, SequencesExt, FiniteSetsExt

CONSTANTS
  Prompt,     \* the texts a client sends
  MaxTurns,   \* bound: turn/start requests
  MaxWork,    \* bound: messages of one turn after its prompt
  NoJob

Turn == 1..MaxTurns
Nobody == 0            \* the speaker of a user message that no turn sent
NudgeText == "nudge"   \* what it says

ASSUME PromptAssumption == Prompt # {} /\ NudgeText \notin Prompt
ASSUME BoundsAssumption == MaxTurns \in Nat /\ MaxWork \in Nat

VARIABLES
  at,       \* where the thread's runtime is suspended
  turn,     \* turn/start requests so far
  text,     \* text[t]: what turn t's prompt says
  acked,    \* the turns that were accepted
  conv,     \* DurableConversation.messages
  undo,     \* persist_user_turn's `previous`
  eng,      \* AgentEngine.messages, after the system prompt
  work,     \* messages the engine has added in this turn
  disk,     \* the session file: display history and transcript blob
  job,      \* the file being written, or NoJob
  told      \* the last outcome the client was told of, with its `persisted`

vars == <<at, turn, text, acked, conv, undo, eng, work, disk, job, told>>

TurnAt == {"routing", "running", "doneSnap", "doneBlob"}
At == TurnAt \cup {"idle", "userSnap", "userBlob", "userUndo", "cancelBlob",
                   "flushSnap", "flushBlob", "down"}

NoBlob == <<>>    \* an empty transcript is stored as none
User(ts) == [by |-> "user", of |-> ts]
Assistant(ts) == [by |-> "assistant", of |-> ts]
File(display, blob) == [display |-> display, blob |-> blob]
Outcome(event, persisted) == [event |-> event, persisted |-> persisted]
Nothing == Outcome("none", FALSE)

-----------------------------------------------------------------------------
(* The transcript.                                                            *)

\* Mutant: no merging.
PushAppend(msgs, m) == Append(msgs, m)

\* push_text_turn: two neighbours of one role become one message.
PushText(msgs, m) ==
  IF msgs # <<>> /\ Last(msgs).by = m.by
  THEN Append(Front(msgs), [m EXCEPT !.of = Last(msgs).of \o m.of])
  ELSE Append(msgs, m)

\* seed_history: the display history from its first user message on, message by
\* message.
SeedHistory(display) ==
  LET seed[n \in 0..Len(display)] ==
        IF n = 0 THEN <<>>
        ELSE IF seed[n - 1] = <<>> /\ display[n].by # "user" THEN <<>>
        ELSE PushText(seed[n - 1], display[n])
  IN seed[Len(display)]

\* resume: the blob if there is one, else the display history.
Restored(f) == IF f.blob # NoBlob THEN f.blob ELSE SeedHistory(f.display)

Says(m) == [i \in DOMAIN m.of |-> IF m.of[i] = Nobody THEN NudgeText ELSE text[m.of[i]]]

LastUser(msgs) ==
  LET users == {i \in DOMAIN msgs : msgs[i].by = "user"}
  IN IF users = {} THEN User(<<>>) ELSE msgs[Max(users)]

\* Mutant: whatever the engine holds is taken for the current conversation.
RecoverableAlways == eng

\* recoverable_engine_messages: the transcript, if the text of its last user
\* message is that of the last prompt.
Recoverable ==
  IF LastUser(conv) # User(<<>>) /\ Says(LastUser(eng)) = Says(LastUser(conv))
  THEN eng
  ELSE NoBlob

-----------------------------------------------------------------------------
(* Saves: SaveSnapshot replaces the display history and keeps the blob,       *)
(* SaveBlob the reverse.  Each can fail after the file is written: it is read *)
(* back, and a snapshot's index comes after it.                              *)

WriteSnapshot(f, display) == job' = File(display, f.blob)
WriteBlob(f, blob) == job' = File(f.display, blob)

Wrote == disk' = job
Failed == Wrote \/ UNCHANGED disk

Init ==
  /\ at = "idle" /\ turn = 0 /\ text = [t \in Turn |-> CHOOSE p \in Prompt : TRUE]
  /\ acked = {} /\ conv = <<>> /\ undo = <<>> /\ eng = <<>> /\ work = 0
  /\ disk = File(<<>>, NoBlob) /\ job = NoJob /\ told = Nothing

Settle(event, persisted) ==
  /\ at' = "idle" /\ job' = NoJob /\ told' = Outcome(event, persisted)

-----------------------------------------------------------------------------
(* turn/start: persist_user_turn.                                             *)

TurnStart(p) ==
  /\ at = "idle" /\ turn < MaxTurns
  /\ turn' = turn + 1
  /\ text' = [text EXCEPT ![turn'] = p]
  /\ undo' = conv
  /\ conv' = Append(conv, User(<<turn'>>))
  /\ WriteSnapshot(disk, conv')
  /\ at' = "userSnap" /\ told' = Nothing
  /\ UNCHANGED <<acked, eng, work, disk>>

\* Mutant: the exact transcript of the earlier turns is left in the file.
UserSnapshotKeepsBlob ==
  /\ at = "userSnap"
  /\ \/ /\ Wrote /\ WriteBlob(disk', disk.blob)
        /\ at' = "userBlob" /\ UNCHANGED <<conv, told>>
     \/ /\ Failed /\ conv' = undo
        /\ Settle("refused", FALSE)
  /\ UNCHANGED <<turn, text, acked, undo, eng, work>>

\* Mutant: a failed save of the prompt does not refuse the turn.
UserSnapshotIgnoresFailure ==
  /\ at = "userSnap"
  /\ Failed
  /\ WriteBlob(disk', NoBlob) /\ at' = "userBlob"
  /\ UNCHANGED <<turn, text, acked, conv, undo, eng, work, told>>

UserSnapshot ==
  /\ at = "userSnap"
  /\ \/ /\ Wrote /\ WriteBlob(disk', NoBlob)
        /\ at' = "userBlob" /\ UNCHANGED <<conv, told>>
     \/ /\ Failed /\ conv' = undo
        /\ Settle("refused", FALSE)
  /\ UNCHANGED <<turn, text, acked, undo, eng, work>>

UserBlob ==
  /\ at = "userBlob"
  /\ \/ /\ Wrote
        /\ acked' = acked \cup {turn} /\ at' = "routing" /\ job' = NoJob /\ work' = 0
        /\ UNCHANGED <<conv, told>>
     \/ /\ Failed
        /\ conv' = undo /\ WriteSnapshot(disk', undo) /\ at' = "userUndo"
        /\ UNCHANGED <<acked, work, told>>
  /\ UNCHANGED <<turn, text, undo, eng>>

UserUndo ==
  /\ at = "userUndo"
  /\ Failed
  /\ Settle("refused", FALSE)
  /\ UNCHANGED <<turn, text, acked, conv, undo, eng, work>>

-----------------------------------------------------------------------------
(* The turn: run_turn.                                                        *)

RouteFailed ==
  /\ at = "routing"
  /\ Settle("failed", FALSE)
  /\ UNCHANGED <<turn, text, acked, conv, undo, eng, work, disk>>

\* begin_user_turn, as soon as the route is up.
RouteReady ==
  /\ at = "routing"
  /\ eng' = PushText(eng, User(<<turn>>))
  /\ at' = "running"
  /\ UNCHANGED <<turn, text, acked, conv, undo, work, disk, job, told>>

\* Mutant: a turn has no step limit.
ReplyUnbounded ==
  /\ at = "running" /\ Last(eng).by = "user"
  /\ eng' = Append(eng, Assistant(<<turn>>)) /\ work' = work + 1
  /\ UNCHANGED <<at, turn, text, acked, conv, undo, disk, job, told>>

\* The model answers: text, or tool calls and their results.
Reply ==
  /\ at = "running" /\ work < MaxWork /\ Last(eng).by = "user"
  /\ eng' = Append(eng, Assistant(<<turn>>)) /\ work' = work + 1
  /\ UNCHANGED <<at, turn, text, acked, conv, undo, disk, job, told>>

\* run_loop asks again in the user's name (a leaked tool call, a stop hook, a
\* failed verification).
Nudge ==
  /\ at = "running" /\ work < MaxWork /\ Last(eng).by = "assistant"
  /\ eng' = Append(eng, User(<<Nobody>>)) /\ work' = work + 1
  /\ UNCHANGED <<at, turn, text, acked, conv, undo, disk, job, told>>

\* The turn is over, with or without text to show.
EngineReturns ==
  /\ at = "running"
  /\ conv' \in {conv, Append(conv, Assistant(<<turn>>))}
  /\ WriteSnapshot(disk, conv') /\ at' = "doneSnap"
  /\ UNCHANGED <<turn, text, acked, undo, eng, work, disk, told>>

DoneSnapshot ==
  /\ at = "doneSnap"
  /\ \/ Wrote /\ WriteBlob(disk', eng) /\ at' = "doneBlob" /\ UNCHANGED told
     \/ Failed /\ Settle("completed", FALSE)
  /\ UNCHANGED <<turn, text, acked, conv, undo, eng, work>>

\* Mutant: a failed save is reported as persisted.
DoneBlobHopeful ==
  /\ at = "doneBlob"
  /\ Failed /\ Settle("completed", TRUE)
  /\ UNCHANGED <<turn, text, acked, conv, undo, eng, work>>

DoneBlob ==
  /\ at = "doneBlob"
  /\ \/ Wrote /\ Settle("completed", TRUE)
     \/ Failed /\ Settle("completed", FALSE)
  /\ UNCHANGED <<turn, text, acked, conv, undo, eng, work>>

-----------------------------------------------------------------------------
(* turn/cancel: the task is aborted wherever it is, and the transcript saved. *)

\* The write the task was awaiting was not begun, or has landed.
AbortWrite == UNCHANGED disk \/ (job # NoJob /\ Wrote)

Cancel ==
  /\ at \in TurnAt
  /\ AbortWrite
  /\ WriteBlob(disk', Recoverable) /\ at' = "cancelBlob"
  /\ UNCHANGED <<turn, text, acked, conv, undo, eng, work, told>>

CancelBlob ==
  /\ at = "cancelBlob"
  /\ \/ Wrote /\ Settle("cancelled", TRUE)
     \/ Failed /\ Settle("cancelled", FALSE)
  /\ UNCHANGED <<turn, text, acked, conv, undo, eng, work>>

-----------------------------------------------------------------------------
(* thread/flush, thread/close and thread/resume, and the end of the process.  *)

Flush ==
  /\ at = "idle"
  /\ WriteSnapshot(disk, conv) /\ at' = "flushSnap" /\ told' = Nothing
  /\ UNCHANGED <<turn, text, acked, conv, undo, eng, work, disk>>

FlushSnapshot ==
  /\ at = "flushSnap"
  /\ \/ Wrote /\ WriteBlob(disk', Recoverable) /\ at' = "flushBlob" /\ UNCHANGED told
     \/ Failed /\ Settle("refused", FALSE)
  /\ UNCHANGED <<turn, text, acked, conv, undo, eng, work>>

FlushBlob ==
  /\ at = "flushBlob"
  /\ \/ Wrote /\ Settle("flushed", TRUE)
     \/ Failed /\ Settle("refused", FALSE)
  /\ UNCHANGED <<turn, text, acked, conv, undo, eng, work>>

\* Mutant: the display history is restored from the transcript too.
ResumeFromTranscript ==
  /\ at \in {"idle", "down"}
  /\ conv' = Restored(disk) /\ eng' = Restored(disk)
  /\ at' = "idle" /\ told' = Nothing
  /\ UNCHANGED <<turn, text, acked, undo, work, disk, job>>

\* thread/resume, by a new process or after thread/close.
Resume ==
  /\ at \in {"idle", "down"}
  /\ conv' = disk.display /\ eng' = Restored(disk)
  /\ at' = "idle" /\ told' = Nothing
  /\ UNCHANGED <<turn, text, acked, undo, work, disk, job>>

Crash ==
  /\ at # "down"
  /\ UNCHANGED disk \/ (job # NoJob /\ Wrote)
  /\ at' = "down" /\ job' = NoJob /\ told' = Nothing
  /\ conv' = <<>> /\ undo' = <<>> /\ eng' = <<>> /\ work' = 0
  /\ UNCHANGED <<turn, text, acked>>

Next ==
  \/ \E p \in Prompt : TurnStart(p)
  \/ UserSnapshot \/ UserBlob \/ UserUndo
  \/ RouteFailed \/ RouteReady \/ Reply \/ Nudge
  \/ EngineReturns \/ DoneSnapshot \/ DoneBlob
  \/ Cancel \/ CancelBlob
  \/ Flush \/ FlushSnapshot \/ FlushBlob
  \/ Resume \/ Crash

Spec == Init /\ [][Next]_vars

-----------------------------------------------------------------------------
(* Properties.                                                                *)

Message == [by : {"user", "assistant"}, of : Seq(Turn \cup {Nobody})]
Files == [display : Seq(Message), blob : Seq(Message)]

TypeOK ==
  /\ at \in At /\ turn \in 0..MaxTurns /\ text \in [Turn -> Prompt]
  /\ acked \subseteq Turn /\ work \in 0..MaxWork
  /\ conv \in Seq(Message) /\ undo \in Seq(Message) /\ eng \in Seq(Message)
  /\ disk \in Files /\ job \in Files \cup {NoJob}
  /\ told \in [event : {"none", "refused", "failed", "completed", "cancelled", "flushed"},
               persisted : BOOLEAN]

\* The turns a conversation holds messages of.
Spoken(msgs) == UNION {ToSet(m.of) : m \in {n \in ToSet(msgs) : n.by = "user"}}
Texts(msgs) == {text[t] : t \in Spoken(msgs) \ {Nobody}}

\* An accepted prompt is in the display history on disk from its acceptance on,
\* whatever fails, is cancelled or crashes afterwards.
PromptsOnDisk == acked \subseteq Spoken(disk.display)

\* "... so a crash or cancellation resumes from the full display history rather
\* than silently dropping the acknowledged prompt": what a resume would give the
\* engine says what the last accepted prompt says.
LatestPromptSurvives == acked # {} => text[Max(acked)] \in Texts(Restored(disk))

\* While an accepted turn has not returned from its engine, a crash resumes
\* from every accepted prompt, not just from the last.
CrashSeesEveryPrompt ==
  at \in {"routing", "running"} => acked \subseteq Spoken(Restored(disk))

\* A turn that ended with persisted: true left exactly what is in memory.
CompletedIsExact ==
  told = Outcome("completed", TRUE) => disk = File(conv, eng)

Kept(m) == m.by = "assistant" \/ ToSet(m.of) \subseteq acked

\* No save, failed save, cancel or crash takes an accepted prompt or an answer
\* out of the display history on disk, or moves it: what is on disk up to the
\* last of them is still there after the step.
HistoryKept ==
  [][\A i \in DOMAIN disk.display :
        Kept(disk.display[i]) => IsPrefix(SubSeq(disk.display, 1, i), disk'.display)]_vars

\* The engine never holds two neighbours of one role (push_text_turn).
Alternates ==
  \A i \in 1..(Len(eng) - 1) : eng[i].by # eng[i + 1].by
=============================================================================
