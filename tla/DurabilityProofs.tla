-------------------------- MODULE DurabilityProofs --------------------------
(***************************************************************************)
(* Proofs about Durability.  The transcript operators come first (what       *)
(* push_text_turn and seed_history keep of a conversation), then the         *)
(* inductive invariant, one lemma per conjunct and action, and the theorems. *)
(***************************************************************************)
EXTENDS Durability, DataLemmas

LEMMA Constants ==
  /\ MaxTurns \in Nat /\ MaxWork \in Nat
  /\ Turn \subseteq Nat /\ Nobody \notin Turn
BY BoundsAssumption DEF Turn, Nobody

-----------------------------------------------------------------------------
(* The transcript.                                                            *)

\* No two neighbours of one role.
Alternating(msgs) == \A i \in 1..(Len(msgs) - 1) : msgs[i].by # msgs[i + 1].by

\* What the first k messages say.
SpokenUpTo(msgs, k) ==
  UNION {ToSet(msgs[i].of) : i \in {j \in 1..k : msgs[j].by = "user"}}

LEMMA SpokenIs ==
  ASSUME NEW msgs \in Seq(Message)
  PROVE  Spoken(msgs) = SpokenUpTo(msgs, Len(msgs))
<1>1. ToSet(msgs) = {msgs[i] : i \in 1..Len(msgs)}
  BY ToSetSeq
<1> QED BY <1>1 DEF Spoken, SpokenUpTo

LEMMA MessageFields ==
  ASSUME NEW m \in Message
  PROVE  m.by \in {"user", "assistant"} /\ m.of \in Seq(Turn \cup {Nobody})
BY DEF Message

LEMMA NewMessages ==
  ASSUME NEW t \in Turn \cup {Nobody}
  PROVE  User(<<t>>) \in Message /\ Assistant(<<t>>) \in Message
BY DEF User, Assistant, Message

LEMMA AppendSpoken ==
  ASSUME NEW msgs \in Seq(Message), NEW m \in Message
  PROVE  /\ Append(msgs, m) \in Seq(Message)
         /\ Spoken(Append(msgs, m)) =
              Spoken(msgs) \cup (IF m.by = "user" THEN ToSet(m.of) ELSE {})
<1>1. Append(msgs, m) \in Seq(Message)
  BY AppendProperties
<1>2. ToSet(Append(msgs, m)) = ToSet(msgs) \cup {m}
  BY ToSetAppend
<1> QED BY <1>1, <1>2 DEF Spoken

\* push_text_turn: a conversation that alternates still does; what the new
\* message says is added to what is said, and nothing is lost.
LEMMA PushTextKeeps ==
  ASSUME NEW msgs \in Seq(Message), NEW m \in Message
  PROVE  /\ PushText(msgs, m) \in Seq(Message) /\ PushText(msgs, m) # <<>>
         /\ Alternating(msgs) => Alternating(PushText(msgs, m))
         /\ Spoken(PushText(msgs, m)) =
              Spoken(msgs) \cup (IF m.by = "user" THEN ToSet(m.of) ELSE {})
<1> DEFINE out == PushText(msgs, m)
<1>0. PICK l \in Nat : l = Len(msgs)
  BY LenProperties
<1>1. CASE msgs # <<>> /\ Last(msgs).by = m.by
  <2> DEFINE merged == [m EXCEPT !.of = Last(msgs).of \o m.of]
  <2>1. out = Append(Front(msgs), merged)
    BY <1>1 DEF PushText
  <2>2. /\ l >= 1 /\ Front(msgs) \in Seq(Message) /\ Len(Front(msgs)) = l - 1
        /\ \A i \in 1..(l - 1) : Front(msgs)[i] = msgs[i]
        /\ Last(msgs) = msgs[l] /\ Last(msgs) \in Message
    BY <1>0, <1>1, FrontLast
  <2>3. Last(msgs).of \o m.of \in Seq(Turn \cup {Nobody})
    BY <2>2, MessageFields, ConcatProperties
  <2>4. /\ merged \in Message /\ merged.by = m.by
        /\ merged.of = Last(msgs).of \o m.of
    BY <2>3 DEF Message
  <2>5. /\ out \in Seq(Message) /\ out # <<>> /\ Len(out) = l
        /\ \A i \in 1..(l - 1) : out[i] = msgs[i]
        /\ out[l] = merged
    <3> HIDE DEF merged
    <3>1. /\ Append(Front(msgs), merged) \in Seq(Message)
          /\ Append(Front(msgs), merged) # <<>>
          /\ Len(Append(Front(msgs), merged)) = l - 1 + 1
          /\ \A i \in 1..(l - 1) : Append(Front(msgs), merged)[i] = Front(msgs)[i]
          /\ Append(Front(msgs), merged)[l - 1 + 1] = merged
      BY <2>2, <2>4, AppendProperties
    <3> HIDE DEF out
    <3> QED BY <2>1, <2>2, <3>1
  <2>6. Alternating(msgs) => Alternating(out)
    <3> HIDE DEF merged, out
    <3> SUFFICES ASSUME Alternating(msgs), NEW i \in 1..(l - 1)
                 PROVE  out[i].by # out[i + 1].by
      BY <2>5 DEF Alternating
    <3>1. out[i].by = msgs[i].by /\ msgs[i].by # msgs[i + 1].by
      BY <1>0, <2>5 DEF Alternating
    <3>2. out[i + 1].by = msgs[i + 1].by
      BY <1>1, <2>2, <2>4, <2>5
    <3> QED BY <3>1, <3>2
  <2>7. Spoken(out) = Spoken(msgs) \cup (IF m.by = "user" THEN ToSet(m.of) ELSE {})
    <3>1. ToSet(merged.of) = ToSet(msgs[l].of) \cup ToSet(m.of)
      BY <2>2, <2>4, MessageFields, ToSetConcat
    <3>2. msgs[l].by = m.by
      BY <1>1, <2>2
    <3> HIDE DEF merged, out
    <3>3. SpokenUpTo(out, l) =
            SpokenUpTo(msgs, l) \cup (IF m.by = "user" THEN ToSet(m.of) ELSE {})
      <4>1. ASSUME NEW i \in 1..l
            PROVE  /\ out[i].by = msgs[i].by
                   /\ ToSet(out[i].of) = IF i = l THEN ToSet(msgs[l].of) \cup ToSet(m.of)
                                         ELSE ToSet(msgs[i].of)
        <5>1. CASE i = l
          BY <2>4, <2>5, <3>1, <3>2, <5>1
        <5>2. CASE i # l
          <6>1. i \in 1..(l - 1)
            BY <5>2
          <6> QED BY <2>5, <5>2, <6>1
        <5> QED BY <5>1, <5>2
      <4>2. l \in 1..l
        BY <2>2
      <4> QED BY <3>2, <4>1, <4>2 DEF SpokenUpTo
    <3> QED BY <1>0, <2>5, <3>3, SpokenIs
  <2> QED BY <2>5, <2>6, <2>7
<1>2. CASE ~ (msgs # <<>> /\ Last(msgs).by = m.by)
  <2>1. out = Append(msgs, m)
    BY <1>2 DEF PushText
  <2>2. /\ out \in Seq(Message) /\ out # <<>> /\ Len(out) = l + 1
        /\ \A i \in 1..l : out[i] = msgs[i]
        /\ out[l + 1] = m
    BY <1>0, <2>1, AppendProperties
  <2>3. Alternating(msgs) => Alternating(out)
    <3> SUFFICES ASSUME Alternating(msgs), NEW i \in 1..l
                 PROVE  out[i].by # out[i + 1].by
      BY <2>2 DEF Alternating
    <3>1. CASE i = l
      <4>1. msgs # <<>>
        BY <1>0, <3>1, EmptySeq
      <4>2. Last(msgs) = msgs[l]
        BY <1>0, <4>1, FrontLast
      <4> QED BY <1>2, <2>2, <3>1, <4>1, <4>2
    <3>2. CASE i # l
      <4>1. i \in 1..(l - 1) /\ i + 1 \in 1..l
        BY <3>2
      <4> QED BY <1>0, <2>2, <4>1 DEF Alternating
    <3> QED BY <3>1, <3>2
  <2> QED BY <2>1, <2>2, <2>3, AppendSpoken
<1> QED BY <1>1, <1>2

\* The recursion of seed_history.
SeedStep(f, display, n) ==
  IF n = 0 THEN <<>>
  ELSE IF f[n - 1] = <<>> /\ display[n].by # "user" THEN <<>>
  ELSE PushText(f[n - 1], display[n])

Seed(display, k) == CHOOSE f : f = [n \in 0..k |-> SeedStep(f, display, n)]

LEMMA SeedExists ==
  ASSUME NEW display, NEW k \in Nat
  PROVE  \E f : f = [n \in 0..k |-> SeedStep(f, display, n)]
<1> DEFINE T == {j \in Nat : \E f : f = [n \in 0..j |-> SeedStep(f, display, n)]}
<1>1. 0 \in T
  <2> DEFINE f == [n \in 0..0 |-> <<>>]
  <2>1. f = [n \in 0..0 |-> SeedStep(f, display, n)]
    BY DEF SeedStep
  <2> QED BY <2>1
<1>2. ASSUME NEW j \in Nat, j \in T
      PROVE  j + 1 \in T
  <2>1. PICK f : f = [n \in 0..j |-> SeedStep(f, display, n)]
    BY <1>2
  <2> DEFINE g == [n \in 0..(j + 1) |-> IF n <= j THEN f[n] ELSE SeedStep(f, display, n)]
  <2>2. ASSUME NEW n \in 0..(j + 1)
        PROVE  SeedStep(g, display, n) = SeedStep(f, display, n)
    <3>1. CASE n = 0
      BY <3>1 DEF SeedStep
    <3>2. CASE n # 0
      <4>1. n - 1 \in 0..(j + 1) /\ n - 1 <= j
        BY <3>2
      <4>2. g[n - 1] = f[n - 1]
        BY <4>1
      <4> QED BY <3>2, <4>2 DEF SeedStep
    <3> QED BY <3>1, <3>2
  <2>3. ASSUME NEW n \in 0..(j + 1)
        PROVE  g[n] = SeedStep(f, display, n)
    <3>1. CASE n <= j
      BY <2>1, <3>1
    <3>2. CASE ~ (n <= j)
      BY <3>2
    <3> QED BY <3>1, <3>2
  <2>4. g = [n \in 0..(j + 1) |-> SeedStep(g, display, n)]
    BY <2>2, <2>3
  <2> HIDE DEF g
  <2> QED BY <2>4
<1> HIDE DEF T
<1>3. Nat \subseteq T
  BY <1>1, <1>2, SetInduction
<1> QED BY <1>3 DEF T

\* seed_history: its transcript alternates, opens with a user message and says
\* what the display history says, no more and no less.
LEMMA SeedKeeps ==
  ASSUME NEW display \in Seq(Message)
  PROVE  /\ SeedHistory(display) \in Seq(Message)
         /\ Alternating(SeedHistory(display))
         /\ Spoken(SeedHistory(display)) = Spoken(display)
<1> DEFINE len == Len(display)
           seed == Seed(display, len)
<1>1. len \in Nat
  BY LenProperties
<1>2. seed = [n \in 0..len |-> SeedStep(seed, display, n)]
  BY <1>1, SeedExists DEF Seed
<1>3. SeedHistory(display) = seed[len]
  BY DEF SeedHistory, Seed, SeedStep
<1> HIDE DEF len, seed
<1> DEFINE Good(s, n) == /\ s \in Seq(Message) /\ Alternating(s)
                         /\ Spoken(s) = SpokenUpTo(display, n)
           T == {n \in Nat : n <= len => Good(seed[n], n)}
<1>4. 0 \in T
  <2>1. seed[0] = <<>>
    BY <1>1, <1>2 DEF SeedStep
  <2>2. <<>> \in Seq(Message) /\ Alternating(<<>>)
    BY EmptySeq DEF Alternating
  <2>3. Spoken(<<>>) = {} /\ SpokenUpTo(display, 0) = {}
    BY DEF Spoken, SpokenUpTo, ToSet
  <2> QED BY <2>1, <2>2, <2>3
<1>5. ASSUME NEW n \in Nat, n \in T
      PROVE  n + 1 \in T
  <2> SUFFICES ASSUME n + 1 <= len
               PROVE  Good(seed[n + 1], n + 1)
    OBVIOUS
  <2> DEFINE m == display[n + 1]
  <2>1. Good(seed[n], n)
    BY <1>1, <1>5
  <2>2. seed[n + 1] = SeedStep(seed, display, n + 1)
    BY <1>1, <1>2
  <2>3. seed[n + 1] = IF seed[n] = <<>> /\ m.by # "user" THEN <<>> ELSE PushText(seed[n], m)
    BY <2>2 DEF SeedStep
  <2>4. m \in Message
    BY <1>1, ElementOfSeq DEF len
  <2>5. SpokenUpTo(display, n + 1) =
          SpokenUpTo(display, n) \cup (IF m.by = "user" THEN ToSet(m.of) ELSE {})
    BY DEF SpokenUpTo
  <2>6. CASE seed[n] = <<>> /\ m.by # "user"
    BY <2>1, <2>3, <2>5, <2>6
  <2>7. CASE ~ (seed[n] = <<>> /\ m.by # "user")
    <3>1. seed[n + 1] = PushText(seed[n], m)
      BY <2>3, <2>7
    <3> QED BY <2>1, <2>4, <2>5, <3>1, PushTextKeeps
  <2> QED BY <2>6, <2>7
<1> HIDE DEF T
<1>6. Nat \subseteq T
  BY <1>4, <1>5, SetInduction
<1>7. Good(seed[len], len)
  BY <1>1, <1>6 DEF T
<1> QED BY <1>3, <1>7, SpokenIs DEF len

\* The last user message: one that is appended, or the one before.
LEMMA LastUserAppend ==
  ASSUME NEW msgs \in Seq(Message), NEW m \in Message
  PROVE  LastUser(Append(msgs, m)) = IF m.by = "user" THEN m ELSE LastUser(msgs)
<1> DEFINE out == Append(msgs, m)
           users == {i \in DOMAIN msgs : msgs[i].by = "user"}
           usersOut == {i \in DOMAIN out : out[i].by = "user"}
<1>1. PICK l \in Nat : l = Len(msgs)
  BY LenProperties
<1>2. /\ out \in Seq(Message) /\ Len(out) = l + 1
      /\ \A i \in 1..l : out[i] = msgs[i]
      /\ out[l + 1] = m
  BY <1>1, AppendProperties
<1>3. DOMAIN msgs = 1..l /\ DOMAIN out = 1..(l + 1)
  BY <1>1, <1>2, LenProperties
<1>4. /\ LastUser(msgs) = IF users = {} THEN User(<<>>) ELSE msgs[Max(users)]
      /\ LastUser(out) = IF usersOut = {} THEN User(<<>>) ELSE out[Max(usersOut)]
  BY DEF LastUser
<1>5. CASE m.by = "user"
  <2>1. l + 1 \in usersOut /\ usersOut \subseteq Nat /\ \A i \in usersOut : i <= l + 1
    BY <1>2, <1>3, <1>5
  <2> HIDE DEF usersOut
  <2>2. Max(usersOut) = l + 1
    BY <2>1, MaxIs
  <2> QED BY <1>2, <1>4, <1>5, <2>1, <2>2
<1>6. CASE m.by # "user"
  <2>1. usersOut = users
    BY <1>2, <1>3, <1>6
  <2>2. users \subseteq 1..l /\ users \subseteq Nat /\ \A i \in users : i <= l
    BY <1>3
  <2> HIDE DEF users, usersOut, out
  <2>3. ASSUME users # {}
        PROVE  out[Max(users)] = msgs[Max(users)]
    <3>1. Max(users) \in users
      BY <2>2, <2>3, MaxOfBounded
    <3> QED BY <1>2, <2>2, <3>1
  <2>4. LastUser(out) = LastUser(msgs)
    BY <1>4, <2>1, <2>3
  <2> QED BY <1>6, <2>4 DEF out
<1> QED BY <1>5, <1>6

LEMMA LastUserSpoken ==
  ASSUME NEW msgs \in Seq(Message), LastUser(msgs) # User(<<>>)
  PROVE  /\ LastUser(msgs).of \in Seq(Turn \cup {Nobody})
         /\ ToSet(LastUser(msgs).of) \subseteq Spoken(msgs)
<1> DEFINE users == {i \in DOMAIN msgs : msgs[i].by = "user"}
<1>1. PICK l \in Nat : l = Len(msgs) /\ DOMAIN msgs = 1..l
  BY LenProperties
<1>2. users # {} /\ LastUser(msgs) = msgs[Max(users)]
  BY DEF LastUser
<1>3. Max(users) \in users
  <2>1. users \subseteq Nat /\ \A i \in users : i <= l
    BY <1>1
  <2> HIDE DEF users
  <2> QED BY <1>2, <2>1, MaxOfBounded
<1>4. LastUser(msgs) \in Message
  BY <1>1, <1>2, <1>3, ElementOfSeq
<1>5. ToSet(LastUser(msgs).of) \subseteq SpokenUpTo(msgs, l)
  BY <1>1, <1>2, <1>3 DEF SpokenUpTo
<1> QED BY <1>1, <1>4, <1>5, SpokenIs, MessageFields

-----------------------------------------------------------------------------
(* The inductive invariant.                                                   *)

Starting == {"userSnap", "userBlob", "userUndo"}
Saving == At \ {"idle", "routing", "running", "down"}

\* The conversation without the prompt that is not accepted yet.
Settled == IF at \in Starting THEN undo ELSE conv

\* Nothing speaks for a turn that has not been sent.
Sent(msgs) == Spoken(msgs) \subseteq {Nobody} \cup 1..turn

\* It says the text of the last accepted prompt.
SaysLatest(msgs) == acked # {} => text[Max(acked)] \in Texts(msgs)

\* A file that a crash may leave: it has every accepted prompt in its display
\* history, and the transcript a resume would take from it says the last one.
Safe(f) ==
  /\ f \in Files /\ Sent(f.display) /\ Sent(f.blob)
  /\ acked \subseteq Spoken(f.display)
  /\ f.blob # NoBlob => SaysLatest(f.blob)
  /\ Alternating(f.blob)

\* It holds an initial part of a conversation, or all of it and a prompt that is
\* not accepted.
Behind(f, msgs) ==
  \/ IsPrefix(f.display, msgs)
  \/ \E t \in Turn \ acked : f.display = Append(msgs, User(<<t>>))

FilesInv ==
  /\ Safe(disk)
  /\ at # "down" => Behind(disk, Settled)
  /\ IF at \in Saving THEN Safe(job) /\ Behind(job, Settled) ELSE job = NoJob

\* The file being written and the file on disk, from where the runtime is
\* suspended.
JobInv ==
  /\ at \in {"userSnap", "userUndo", "doneSnap", "flushSnap"} =>
       job = File(conv, disk.blob)
  /\ at \in {"userBlob", "doneBlob", "cancelBlob", "flushBlob"} =>
       job.display = disk.display
  /\ at \in {"userBlob", "routing", "running", "doneBlob", "flushBlob"} =>
       disk.display = conv
  /\ at = "userBlob" => job.blob = NoBlob
  /\ at = "doneBlob" => job.blob = eng
  /\ at \in {"routing", "running"} => disk.blob = NoBlob

\* When which turns are accepted.
AcceptedInv ==
  /\ acked \subseteq 1..turn
  /\ at \in Starting => turn \in Turn \ acked
  /\ at \in TurnAt => turn \in acked
  /\ at # "idle" => told = Nothing

ConversationInv ==
  /\ Sent(conv) /\ Sent(undo)
  /\ at # "down" => acked \subseteq Spoken(Settled)
  /\ at \in {"userSnap", "userBlob"} => conv = Append(undo, User(<<turn>>))
  /\ at = "userUndo" => conv = undo
  /\ at \in TurnAt => LastUser(conv) = User(<<turn>>)

\* The engine says the last accepted prompt, unless its conversation ends with
\* that prompt: recoverable_engine_messages then compares the two.
EngineInv ==
  /\ Sent(eng) /\ Alternating(eng)
  /\ at # "down" => SaysLatest(eng) \/ LastUser(Settled) = User(<<Max(acked)>>)
  /\ at \in TurnAt \ {"routing"} => turn \in Spoken(eng)

IInv ==
  /\ TypeOK /\ FilesInv /\ JobInv /\ AcceptedInv /\ ConversationInv /\ EngineInv
  /\ CompletedIsExact

\* What TypeOK and FilesInv say of the data.
LEMMA Typed ==
  ASSUME IInv
  PROVE  /\ turn \in Nat /\ turn \in 0..MaxTurns /\ 1..turn \subseteq Turn
         /\ conv \in Seq(Message) /\ undo \in Seq(Message) /\ eng \in Seq(Message)
         /\ Settled \in Seq(Message)
         /\ disk \in Files /\ disk.display \in Seq(Message) /\ disk.blob \in Seq(Message)
         /\ at \in Saving => /\ job \in Files
                             /\ job.display \in Seq(Message) /\ job.blob \in Seq(Message)
         /\ acked \subseteq Turn /\ acked \subseteq Nat
BY Constants DEF IInv, TypeOK, FilesInv, Safe, Files, Turn, Settled

LEMMA FileFields ==
  ASSUME NEW display, NEW blob
  PROVE  /\ File(display, blob).display = display /\ File(display, blob).blob = blob
         /\ display \in Seq(Message) /\ blob \in Seq(Message) => File(display, blob) \in Files
BY DEF File, Files

\* The last accepted turn is an accepted turn; while one runs, it is that one.
LEMMA LatestTurn ==
  ASSUME IInv
  PROVE  /\ acked # {} => Max(acked) \in acked
         /\ turn \in acked => Max(acked) = turn
<1>1. acked \subseteq Nat /\ turn \in Nat /\ \A t \in acked : t <= turn
  BY Typed DEF IInv, AcceptedInv
<1> QED BY <1>1, MaxOfBounded, MaxIs

\* Who says what the last accepted turn says, says its text.
LEMMA SaysIt ==
  ASSUME IInv, NEW msgs, acked \subseteq Spoken(msgs)
  PROVE  SaysLatest(msgs)
BY Typed, LatestTurn, Constants DEF SaysLatest, Texts

\* What a resume would hand to the engine.
LEMMA RestoredKeeps ==
  ASSUME IInv
  PROVE  /\ Restored(disk) \in Seq(Message) /\ Alternating(Restored(disk))
         /\ SaysLatest(Restored(disk))
         /\ Sent(Restored(disk))
<1>1. CASE disk.blob # NoBlob
  BY <1>1, Typed DEF IInv, FilesInv, Safe, Restored
<1>2. CASE disk.blob = NoBlob
  <2>1. Restored(disk) = SeedHistory(disk.display)
    BY <1>2 DEF Restored
  <2>2. /\ SeedHistory(disk.display) \in Seq(Message)
        /\ Alternating(SeedHistory(disk.display))
        /\ Spoken(SeedHistory(disk.display)) = Spoken(disk.display)
    BY Typed, SeedKeeps
  <2>3. acked \subseteq Spoken(SeedHistory(disk.display))
    BY <2>2 DEF IInv, FilesInv, Safe
  <2> QED BY <2>1, <2>2, <2>3, SaysIt DEF IInv, FilesInv, Safe, Sent
<1> QED BY <1>1, <1>2

\* recoverable_engine_messages hands over a transcript only when it says the
\* last accepted prompt.
LEMMA RecoverableSays ==
  ASSUME IInv, at # "down", at \notin Starting
  PROVE  /\ Recoverable \in Seq(Message) /\ Alternating(Recoverable) /\ Sent(Recoverable)
         /\ Recoverable # NoBlob => SaysLatest(Recoverable)
<1>1. NoBlob \in Seq(Message) /\ Alternating(NoBlob) /\ Sent(NoBlob)
  BY EmptySeq DEF NoBlob, Alternating, Sent, Spoken, ToSet
<1>2. eng \in Seq(Message) /\ Alternating(eng) /\ Sent(eng)
  BY Typed DEF IInv, EngineInv
<1>3. ASSUME Says(LastUser(eng)) = Says(LastUser(conv)), ~ SaysLatest(eng)
      PROVE  FALSE
  <2> DEFINE last == Max(acked)
             of == LastUser(eng).of
  <2>1. acked # {} /\ last \in acked /\ last \in Turn /\ last # Nobody
    BY <1>3, LatestTurn, Typed, Constants DEF SaysLatest
  <2>2. LastUser(conv) = User(<<last>>)
    BY <1>3 DEF IInv, EngineInv, Settled
  <2> HIDE DEF last
  <2>3. Says(LastUser(conv)) = [i \in 1..1 |-> text[last]]
    BY <2>1, <2>2 DEF Says, User
  <2>4. DOMAIN of = 1..1 /\ (IF of[1] = Nobody THEN NudgeText ELSE text[of[1]]) = text[last]
    <3>1. Says(LastUser(eng)) =
            [i \in DOMAIN of |-> IF of[i] = Nobody THEN NudgeText ELSE text[of[i]]]
      BY DEF Says
    <3> QED BY <1>3, <2>3, <3>1
  <2>5. LastUser(eng) # User(<<>>)
    BY <2>4 DEF User
  <2>6. of \in Seq(Turn \cup {Nobody}) /\ ToSet(of) \subseteq Spoken(eng)
    BY <2>5, Typed, LastUserSpoken
  <2>7. of[1] \in ToSet(of) /\ of[1] \in Turn \cup {Nobody}
    BY <2>4, <2>6, LenProperties, ElementOfSeq DEF ToSet
  <2>8. text[last] \in Prompt
    BY <2>1 DEF IInv, TypeOK
  <2>9. of[1] # Nobody /\ text[of[1]] = text[last]
    BY <2>4, <2>8, PromptAssumption
  <2>10. text[last] \in Texts(eng)
    BY <2>6, <2>7, <2>9 DEF Texts
  <2> QED BY <1>3, <2>10 DEF SaysLatest, last
<1> QED BY <1>1, <1>2, <1>3 DEF Recoverable

-----------------------------------------------------------------------------
(* Every action keeps the invariant.                                          *)

LEMMA InitInv == Init => IInv
<1> SUFFICES ASSUME Init PROVE IInv
  OBVIOUS
<1>1. /\ <<>> \in Seq(Message) /\ Spoken(<<>>) = {} /\ Alternating(<<>>)
      /\ IsPrefix(<<>>, <<>>)
  <2>1. <<>> \in Seq(Message) /\ Alternating(<<>>)
    BY EmptySeq DEF Alternating
  <2>2. Spoken(<<>>) = {}
    BY DEF Spoken, ToSet
  <2>3. IsPrefix(<<>>, <<>>)
    BY <2>1, PrefixOfItself
  <2> QED BY <2>1, <2>2, <2>3
<1>2. disk = File(<<>>, <<>>) /\ disk.display = <<>> /\ disk.blob = <<>> /\ disk \in Files
  BY <1>1, FileFields DEF Init, NoBlob
<1>3. TypeOK
  <2>1. text \in [Turn -> Prompt]
    BY PromptAssumption DEF Init
  <2> QED BY <1>1, <1>2, <2>1, Constants DEF Init, TypeOK, At, TurnAt, Nothing, Outcome
<1>4. FilesInv
  <2>1. Safe(disk) /\ Behind(disk, <<>>)
    BY <1>1, <1>2 DEF Init, Safe, Sent, Behind, NoBlob
  <2> QED BY <2>1 DEF Init, FilesInv, Settled, Starting, Saving, At, TurnAt
<1>5. JobInv /\ AcceptedInv /\ CompletedIsExact
  BY <1>1, <1>2 DEF Init, AcceptedInv, JobInv, CompletedIsExact, Starting, TurnAt, Nothing,
                    Outcome
<1>6. ConversationInv /\ EngineInv
  BY <1>1 DEF Init, ConversationInv, EngineInv, Sent, SaysLatest, Settled, Starting, TurnAt
<1> QED BY <1>3, <1>4, <1>5, <1>6 DEF IInv

LEMMA TurnStartInv ==
  ASSUME IInv, NEW p \in Prompt, TurnStart(p)
  PROVE  IInv'
<1> DEFINE prompt == User(<<turn'>>)
<1>1. /\ turn' = turn + 1 /\ turn' \in Turn /\ turn' \notin acked /\ turn \in Nat
      /\ 1..turn \subseteq 1..turn'
  BY Typed, Constants DEF TurnStart, IInv, TypeOK, AcceptedInv, Turn
<1>2. prompt \in Message /\ prompt.by = "user" /\ ToSet(prompt.of) = {turn'}
  <2>1. ToSet(<<turn'>>) = {turn'}
    BY DEF ToSet
  <2> QED BY <1>1, <2>1, NewMessages DEF User
<1>3. /\ conv \in Seq(Message) /\ conv' \in Seq(Message)
      /\ Spoken(conv') = Spoken(conv) \cup {turn'}
  BY <1>2, Typed, AppendSpoken DEF TurnStart
<1>4. /\ job' = File(conv', disk.blob) /\ job' \in Files
      /\ job'.display = conv' /\ job'.blob = disk.blob
  BY <1>3, Typed, FileFields DEF TurnStart, WriteSnapshot
<1>5. TypeOK'
  <2>1. text' \in [Turn -> Prompt] /\ turn' \in 0..MaxTurns
    BY <1>1, Constants DEF TurnStart, IInv, TypeOK, Turn
  <2>2. undo' \in Seq(Message) /\ job' \in Files \cup {NoJob}
    BY <1>3, <1>4 DEF TurnStart
  <2> QED BY <1>3, <2>1, <2>2 DEF TurnStart, IInv, TypeOK, At, TurnAt, Nothing, Outcome
<1>6. ASSUME NEW msgs, Sent(msgs)
      PROVE  Sent(msgs)' /\ (SaysLatest(msgs) => SaysLatest(msgs)')
  <2>1. \A t \in 1..turn : text'[t] = text[t]
    BY <1>1, Typed DEF TurnStart, IInv, TypeOK
  <2>2. acked # {} => Max(acked) \in 1..turn
    BY LatestTurn DEF IInv, AcceptedInv
  <2>3. Sent(msgs)'
    BY <1>1, <1>6 DEF Sent
  <2> QED BY <1>6, <2>1, <2>2, <2>3 DEF SaysLatest, Texts, Sent, TurnStart
<1>7. FilesInv'
  <2>1. Safe(disk)'
    BY <1>6 DEF TurnStart, IInv, FilesInv, Safe
  <2>2. Behind(disk, Settled)'
    BY DEF TurnStart, IInv, FilesInv, Behind, Settled, Starting
  <2>3. acked \subseteq Spoken(conv') /\ Spoken(conv') \subseteq {Nobody} \cup 1..turn'
    BY <1>1, <1>3 DEF TurnStart, IInv, ConversationInv, Sent, Settled, Starting
  <2>4. Safe(job)'
    BY <1>4, <2>1, <2>3 DEF Safe, Sent, TurnStart
  <2>5. Behind(job, Settled)'
    BY <1>1, <1>4 DEF TurnStart, Behind, Settled, Starting
  <2> QED BY <2>1, <2>2, <2>4, <2>5 DEF FilesInv, TurnStart, Saving, At
<1>8. JobInv' /\ AcceptedInv' /\ CompletedIsExact'
  BY <1>1, <1>4 DEF TurnStart, IInv, AcceptedInv, JobInv, CompletedIsExact, Starting, TurnAt,
                    Nothing, Outcome
<1>9. ConversationInv' /\ EngineInv'
  BY <1>1, <1>3, <1>6 DEF TurnStart, IInv, ConversationInv, EngineInv, Sent, Settled,
                          Starting, TurnAt
<1> QED BY <1>5, <1>7, <1>8, <1>9 DEF IInv

\* A file is as safe after a step that sends and accepts nothing.
LEMMA StaysSafe ==
  ASSUME NEW f, UNCHANGED <<turn, text, acked>>
  PROVE  /\ Safe(f) => Safe(f)'
         /\ Sent(f) => Sent(f)'
         /\ SaysLatest(f) => SaysLatest(f)'
BY DEF Safe, Sent, SaysLatest, Texts

\* Whatever a request comes to, a runtime that falls idle with the settled
\* conversation and a safe file is in order.
LEMMA SettleInv ==
  ASSUME IInv, at \in Saving \cup {"routing"},
         NEW event \in {"refused", "failed", "completed", "cancelled", "flushed"},
         NEW persisted \in BOOLEAN, Settle(event, persisted),
         conv' = Settled, disk' = disk \/ (at \in Saving /\ disk' = job),
         event = "completed" /\ persisted => disk' = File(conv, eng) /\ conv' = conv,
         UNCHANGED <<turn, text, acked, undo, eng, work>>
  PROVE  IInv'
<1>1. at' = "idle" /\ job' = NoJob /\ told' = Outcome(event, persisted) /\ Settled' = conv'
  BY DEF Settle, Settled, Starting
<1>2. Safe(disk)' /\ Behind(disk, Settled)'
  <2>1. at # "down"
    BY DEF Saving
  <2>2. CASE disk' = disk
    BY <1>1, <2>1, <2>2, StaysSafe DEF IInv, FilesInv, Behind
  <2>3. CASE at \in Saving /\ disk' = job
    <3>1. Safe(job) /\ Behind(job, Settled)
      BY <2>3 DEF IInv, FilesInv
    <3> QED BY <1>1, <2>3, <3>1 DEF Safe, Behind, Sent, SaysLatest, Texts
  <2> QED BY <2>2, <2>3
<1>3. FilesInv'
  BY <1>1, <1>2 DEF FilesInv, Saving
<1>4. TypeOK'
  BY <1>1, <1>2, Typed DEF IInv, TypeOK, Safe, Outcome, At
<1>5. JobInv' /\ AcceptedInv' /\ CompletedIsExact'
  BY <1>1 DEF IInv, JobInv, AcceptedInv, CompletedIsExact, Starting, TurnAt, Outcome
<1>6. ConversationInv'
  BY <1>1 DEF IInv, ConversationInv, Sent, Starting, TurnAt, Settled, Saving
<1>7. EngineInv'
  BY <1>1 DEF IInv, EngineInv, Sent, SaysLatest, Texts, TurnAt, Saving
<1> QED BY <1>3, <1>4, <1>5, <1>6, <1>7 DEF IInv

LEMMA UserSnapshotInv ==
  ASSUME IInv, UserSnapshot
  PROVE  IInv'
<1>1. CASE Failed /\ conv' = undo /\ Settle("refused", FALSE)
  BY <1>1, SettleInv DEF UserSnapshot, Wrote, Failed, Settled, Starting,
                         Saving, At
<1>2. CASE Wrote /\ WriteBlob(disk', NoBlob) /\ at' = "userBlob" /\ UNCHANGED <<conv, told>>
  <2>1. at = "userSnap" /\ Safe(disk) /\ Safe(job) /\ Behind(job, undo) /\ Settled = undo
    BY DEF UserSnapshot, IInv, FilesInv, Saving, Starting, Settled, At
  <2>2. /\ disk' = job /\ job' = File(disk'.display, NoBlob)
        /\ job'.display = disk'.display /\ job'.blob = NoBlob /\ job' \in Files
    BY <1>2, <2>1, FileFields, EmptySeq DEF Wrote, WriteBlob, NoBlob, Safe, Files
  <2>3. Safe(disk)' /\ Safe(job)'
    <3>1. Sent(NoBlob)' /\ Alternating(NoBlob)
      BY EmptySeq DEF Sent, NoBlob, Spoken, ToSet, Alternating
    <3> QED BY <2>1, <2>2, <3>1 DEF UserSnapshot, Safe, Sent, SaysLatest, Texts
  <2>4. Settled' = undo /\ Behind(disk, undo)' /\ Behind(job, undo)'
    BY <1>2, <2>1, <2>2 DEF UserSnapshot, Behind, Settled, Starting
  <2>5. FilesInv'
    BY <1>2, <2>3, <2>4 DEF UserSnapshot, FilesInv, Behind, Saving, At
  <2>6. TypeOK'
    BY <1>2, <2>2, <2>3, Typed DEF UserSnapshot, IInv, TypeOK, Safe, At
  <2>7. JobInv' /\ AcceptedInv' /\ CompletedIsExact'
    <3>1. job.display = conv
      BY <2>1, FileFields DEF IInv, JobInv
    <3> QED BY <1>2, <2>1, <2>2, <3>1 DEF UserSnapshot, IInv, JobInv, AcceptedInv,
            CompletedIsExact, Starting, TurnAt, Nothing, Outcome
  <2>8. ConversationInv' /\ EngineInv'
    BY <1>2, <2>1, <2>4 DEF UserSnapshot, IInv, ConversationInv, EngineInv, Sent, SaysLatest,
            Texts, Settled, Starting, TurnAt
  <2> QED BY <2>5, <2>6, <2>7, <2>8 DEF IInv
<1> QED BY <1>1, <1>2 DEF UserSnapshot

LEMMA UserBlobInv ==
  ASSUME IInv, UserBlob
  PROVE  IInv'
<1>0. /\ at = "userBlob" /\ Safe(disk) /\ Safe(job) /\ Settled = undo
      /\ job.display = disk.display /\ disk.display = conv /\ job.blob = NoBlob
      /\ conv = Append(undo, User(<<turn>>)) /\ turn \in Turn /\ acked \subseteq 1..turn
      /\ told = Nothing
  BY DEF UserBlob, IInv, FilesInv, JobInv, ConversationInv, AcceptedInv, Saving, Starting,
         Settled, At
<1>1. CASE /\ Wrote /\ acked' = acked \cup {turn} /\ at' = "routing" /\ job' = NoJob
           /\ work' = 0 /\ UNCHANGED <<conv, told>>
  <2>1. disk' = job /\ disk'.display = conv /\ disk'.blob = NoBlob
    BY <1>0, <1>1 DEF Wrote
  <2>2. User(<<turn>>) \in Message /\ ToSet(User(<<turn>>).of) = {turn}
    BY <1>0, NewMessages DEF User, ToSet
  <2>3. Spoken(conv) = Spoken(undo) \cup {turn} /\ LastUser(conv) = User(<<turn>>)
    <3> DEFINE prompt == User(<<turn>>)
    <3>1. prompt.by = "user" /\ prompt \in Message /\ ToSet(prompt.of) = {turn}
      BY <2>2 DEF User
    <3>2. conv = Append(undo, prompt) /\ undo \in Seq(Message)
      BY <1>0, Typed
    <3> HIDE DEF prompt
    <3>3. Spoken(conv) = Spoken(undo) \cup {turn} /\ LastUser(conv) = prompt
      BY <3>1, <3>2, AppendSpoken, LastUserAppend
    <3> QED BY <3>3 DEF prompt
  <2>4. acked' \subseteq Spoken(conv) /\ Settled' = conv /\ acked' \subseteq 1..turn
    BY <1>0, <1>1, <2>3, Typed DEF UserBlob, IInv, ConversationInv, Settled, Starting, Turn
  <2>5. Max(acked') = turn
    <3>1. acked' \subseteq Nat /\ turn \in acked' /\ \A t \in acked' : t <= turn
      BY <1>1, <2>4, Typed
    <3> QED BY <3>1, MaxIs
  <2>6. FilesInv'
    <3>1. Safe(disk)'
      BY <1>0, <2>1, <2>4 DEF UserBlob, Safe, Sent
    <3>2. Behind(disk, Settled)'
      BY <2>1, <2>4, Typed, PrefixOfItself DEF Behind
    <3> QED BY <1>1, <3>1, <3>2 DEF FilesInv, Saving
  <2>7. TypeOK'
    BY <1>0, <1>1, <2>1, <2>4, Typed, Constants DEF UserBlob, IInv, TypeOK, Safe, At, TurnAt
  <2>8. JobInv' /\ AcceptedInv' /\ CompletedIsExact'
    BY <1>0, <1>1, <2>1, <2>4 DEF UserBlob, JobInv, AcceptedInv, CompletedIsExact, Starting,
                                  TurnAt, Nothing, Outcome
  <2>9. ConversationInv' /\ EngineInv'
    BY <1>1, <2>3, <2>4, <2>5 DEF UserBlob, IInv, ConversationInv, EngineInv, Sent, Starting,
                                  TurnAt
  <2> QED BY <2>6, <2>7, <2>8, <2>9 DEF IInv
<1>2. CASE /\ Failed /\ conv' = undo /\ WriteSnapshot(disk', undo) /\ at' = "userUndo"
           /\ UNCHANGED <<acked, work, told>>
  <2>0. /\ disk' \in {disk, job} /\ disk' \in Files /\ disk'.display = disk.display
        /\ Sent(disk'.blob) /\ Alternating(disk'.blob) /\ disk'.blob \in Seq(Message)
        /\ disk'.blob # NoBlob => disk'.blob = disk.blob
    BY <1>0, <1>2, Typed DEF Failed, Wrote, Safe, Files
  <2>1. /\ job' = File(undo, disk'.blob)
        /\ job'.display = undo /\ job'.blob = disk'.blob /\ job' \in Files
    BY <1>2, <2>0, Typed, FileFields DEF WriteSnapshot
  <2>2. Settled' = undo /\ UNCHANGED <<turn, text, acked>>
    BY <1>2 DEF UserBlob, Settled, Starting
  <2>3. FilesInv'
    <3>1. Safe(disk)'
      <4>1. CASE disk' = disk
        BY <1>0, <2>2, <4>1 DEF Safe, Sent, SaysLatest, Texts
      <4>2. CASE disk' = job
        BY <1>0, <2>2, <4>2 DEF Safe, Sent, SaysLatest, Texts
      <4> QED BY <2>0, <4>1, <4>2
    <3>2. Safe(job)'
      <4>1. Sent(undo) /\ acked \subseteq Spoken(undo)
        BY <1>0 DEF IInv, ConversationInv
      <4> QED BY <2>1, <2>2, <3>1, <4>1 DEF Safe, Sent
    <3>3. Behind(disk, undo) /\ IsPrefix(undo, undo)
      BY <1>0, Typed, PrefixOfItself DEF IInv, FilesInv
    <3>4. Behind(disk, Settled)'
      BY <2>0, <2>2, <3>3 DEF Behind
    <3>5. Behind(job, Settled)'
      BY <2>1, <2>2, <3>3 DEF Behind
    <3> QED BY <1>2, <3>1, <3>2, <3>4, <3>5 DEF FilesInv, Saving, At
  <2>4. TypeOK'
    BY <1>2, <2>0, <2>1, Typed DEF UserBlob, IInv, TypeOK, At
  <2>5. JobInv' /\ AcceptedInv' /\ CompletedIsExact'
    BY <1>0, <1>2, <2>1 DEF UserBlob, IInv, JobInv, AcceptedInv, CompletedIsExact, Starting,
                            TurnAt, Nothing, Outcome
  <2>6. ConversationInv' /\ EngineInv'
    BY <1>0, <1>2, <2>2 DEF UserBlob, IInv, ConversationInv, EngineInv, Sent, SaysLatest,
                            Texts, Starting, TurnAt
  <2> QED BY <2>3, <2>4, <2>5, <2>6 DEF IInv
<1> QED BY <1>1, <1>2 DEF UserBlob

LEMMA UserUndoInv ==
  ASSUME IInv, UserUndo
  PROVE  IInv'
<1>1. at = "userUndo" /\ at \in Saving /\ conv' = Settled
  BY DEF UserUndo, IInv, ConversationInv, Settled, Starting, Saving, At
<1> QED BY <1>1, SettleInv DEF UserUndo, Wrote, Failed

LEMMA RouteFailedInv ==
  ASSUME IInv, RouteFailed
  PROVE  IInv'
<1>1. at = "routing" /\ conv' = Settled /\ disk' = disk
  BY DEF RouteFailed, Settled, Starting
<1> QED BY <1>1, SettleInv DEF RouteFailed

\* The engine's transcript grows while a turn runs.
LEMMA EngineGrowsInv ==
  ASSUME IInv, at \in {"routing", "running"}, at' = "running",
         UNCHANGED <<turn, text, acked, conv, undo, disk, job, told>>,
         work' \in 0..MaxWork, eng' \in Seq(Message), Alternating(eng'),
         Spoken(eng) \subseteq Spoken(eng'), turn \in Spoken(eng'),
         Spoken(eng') \subseteq Spoken(eng) \cup {turn, Nobody}
  PROVE  IInv'
<1>1. turn \in acked /\ told = Nothing /\ Settled = conv /\ Settled' = conv /\ turn \in 1..turn
  BY Typed DEF IInv, AcceptedInv, TurnAt, Settled, Starting, TypeOK
<1>2. TypeOK'
  BY DEF IInv, TypeOK, At, TurnAt
<1>3. FilesInv'
  BY <1>1 DEF IInv, FilesInv, Safe, Behind, Sent, SaysLatest, Texts, Saving
<1>4. JobInv' /\ AcceptedInv' /\ CompletedIsExact'
  BY <1>1 DEF IInv, JobInv, AcceptedInv, CompletedIsExact, Starting, TurnAt, Nothing, Outcome
<1>5. ConversationInv'
  BY <1>1 DEF IInv, ConversationInv, Sent, TurnAt
<1>6. EngineInv'
  BY <1>1 DEF IInv, EngineInv, Sent, SaysLatest, Texts, TurnAt
<1> QED BY <1>2, <1>3, <1>4, <1>5, <1>6 DEF IInv

LEMMA RouteReadyInv ==
  ASSUME IInv, RouteReady
  PROVE  IInv'
<1> DEFINE prompt == User(<<turn>>)
<1>1. at = "routing" /\ turn \in Turn
  BY Typed DEF RouteReady, IInv, AcceptedInv, TurnAt
<1>2. prompt \in Message /\ prompt.by = "user" /\ ToSet(prompt.of) = {turn}
  BY <1>1, NewMessages DEF User, ToSet
<1>3. eng' = PushText(eng, prompt) /\ eng \in Seq(Message) /\ Alternating(eng)
  BY Typed DEF RouteReady, IInv, EngineInv
<1> HIDE DEF prompt
<1>4. /\ eng' \in Seq(Message) /\ Alternating(eng')
      /\ Spoken(eng') = Spoken(eng) \cup {turn}
  BY <1>2, <1>3, PushTextKeeps
<1>5. work' \in 0..MaxWork
  BY DEF RouteReady, IInv, TypeOK
<1> QED BY <1>1, <1>4, <1>5, EngineGrowsInv DEF RouteReady

LEMMA AlternatingAppend ==
  ASSUME NEW msgs \in Seq(Message), NEW m \in Message, Alternating(msgs),
         Last(msgs).by # m.by
  PROVE  Alternating(Append(msgs, m))
<1>1. PushText(msgs, m) = Append(msgs, m)
  BY DEF PushText
<1> QED BY <1>1, PushTextKeeps

LEMMA ReplyInv ==
  ASSUME IInv, Reply
  PROVE  IInv'
<1> DEFINE m == Assistant(<<turn>>)
<1>1. /\ at = "running" /\ turn \in Turn /\ turn \in Spoken(eng) /\ Last(eng).by = "user"
      /\ work < MaxWork
  BY Typed DEF Reply, IInv, AcceptedInv, EngineInv, TurnAt
<1>2. m \in Message /\ m.by = "assistant"
  BY <1>1, NewMessages DEF Assistant
<1>3. eng' = Append(eng, m) /\ eng \in Seq(Message) /\ Alternating(eng)
  BY Typed DEF Reply, IInv, EngineInv
<1> HIDE DEF m
<1>4. eng' \in Seq(Message) /\ Alternating(eng') /\ Spoken(eng') = Spoken(eng)
  BY <1>1, <1>2, <1>3, AppendSpoken, AlternatingAppend
<1>5. work' \in 0..MaxWork
  BY <1>1, Constants DEF Reply, IInv, TypeOK
<1> QED BY <1>1, <1>4, <1>5, EngineGrowsInv DEF Reply

LEMMA NudgeInv ==
  ASSUME IInv, Nudge
  PROVE  IInv'
<1> DEFINE m == User(<<Nobody>>)
<1>1. /\ at = "running" /\ turn \in Spoken(eng) /\ Last(eng).by = "assistant"
      /\ work < MaxWork
  BY Typed DEF Nudge, IInv, EngineInv, TurnAt
<1>2. m \in Message /\ m.by = "user" /\ ToSet(m.of) = {Nobody}
  BY NewMessages DEF User, ToSet
<1>3. eng' = Append(eng, m) /\ eng \in Seq(Message) /\ Alternating(eng)
  BY Typed DEF Nudge, IInv, EngineInv
<1> HIDE DEF m
<1>4. eng' \in Seq(Message) /\ Alternating(eng') /\ Spoken(eng') = Spoken(eng) \cup {Nobody}
  BY <1>1, <1>2, <1>3, AppendSpoken, AlternatingAppend
<1>5. work' \in 0..MaxWork
  BY <1>1, Constants DEF Nudge, IInv, TypeOK
<1> QED BY <1>1, <1>4, <1>5, EngineGrowsInv DEF Nudge

LEMMA EngineReturnsInv ==
  ASSUME IInv, EngineReturns
  PROVE  IInv'
<1>1. /\ at = "running" /\ at' = "doneSnap" /\ turn \in Turn /\ Settled = conv /\ Settled' = conv'
      /\ Safe(disk) /\ disk.display = conv /\ told = Nothing
  BY Typed DEF EngineReturns, IInv, AcceptedInv, FilesInv, JobInv, TurnAt, Settled, Starting
<1>2. /\ conv' \in Seq(Message) /\ Spoken(conv') = Spoken(conv)
      /\ LastUser(conv') = LastUser(conv) /\ IsPrefix(conv, conv')
  <2> DEFINE m == Assistant(<<turn>>)
  <2>1. m \in Message /\ m.by = "assistant"
    BY <1>1, NewMessages DEF Assistant
  <2>2. conv' \in {conv, Append(conv, m)} /\ conv \in Seq(Message)
    BY Typed DEF EngineReturns
  <2> HIDE DEF m
  <2>3. CASE conv' = conv
    BY <2>2, <2>3, PrefixOfItself
  <2>4. CASE conv' = Append(conv, m)
    BY <2>1, <2>2, <2>4, AppendSpoken, LastUserAppend, PrefixOfAppend
  <2> QED BY <2>2, <2>3, <2>4
<1>3. /\ job' = File(conv', disk.blob) /\ job' \in Files
      /\ job'.display = conv' /\ job'.blob = disk.blob
  BY <1>2, Typed, FileFields DEF EngineReturns, WriteSnapshot
<1>4. FilesInv'
  <2>1. Safe(disk)' /\ Safe(job)'
    BY <1>1, <1>2, <1>3 DEF EngineReturns, Safe, Sent, SaysLatest, Texts
  <2>2. Behind(disk, Settled)' /\ Behind(job, Settled)'
    BY <1>1, <1>2, <1>3, PrefixOfItself DEF EngineReturns, Behind
  <2> QED BY <1>1, <2>1, <2>2 DEF FilesInv, Saving, At, TurnAt
<1>5. TypeOK'
  BY <1>1, <1>2, <1>3 DEF EngineReturns, IInv, TypeOK, At, TurnAt
<1>6. JobInv' /\ AcceptedInv' /\ CompletedIsExact'
  BY <1>1, <1>3 DEF EngineReturns, IInv, JobInv, AcceptedInv, CompletedIsExact, Starting,
                    TurnAt, Nothing, Outcome
<1>7. ConversationInv' /\ EngineInv'
  BY <1>1, <1>2 DEF EngineReturns, IInv, ConversationInv, EngineInv, Sent, SaysLatest, Texts,
                    Starting, TurnAt
<1> QED BY <1>4, <1>5, <1>6, <1>7 DEF IInv

\* A transcript that is safe to resume from is about to be written: the second
\* save of a turn's end, of a flush and of a cancel.
LEMMA BlobWriteInv ==
  ASSUME IInv, at \in TurnAt \cup {"flushSnap"},
         (at' = "doneBlob" /\ at = "doneSnap") \/ at' \in {"cancelBlob", "flushBlob"},
         disk' = disk \/ (at \in Saving /\ disk' = job),
         at' \in {"doneBlob", "flushBlob"} => disk'.display = conv,
         NEW blob \in Seq(Message), Alternating(blob), Sent(blob),
         blob # NoBlob => SaysLatest(blob),
         at' = "doneBlob" => blob = eng,
         job' = File(disk'.display, blob),
         UNCHANGED <<turn, text, acked, conv, undo, eng, work, told>>
  PROVE  IInv'
<1>1. at # "down" /\ at # "idle" /\ Settled = conv /\ Settled' = conv /\ told = Nothing
  BY DEF IInv, AcceptedInv, Settled, Starting, TurnAt
<1>2. /\ disk' \in Files /\ Sent(disk'.display) /\ Sent(disk'.blob)
      /\ acked \subseteq Spoken(disk'.display) /\ Alternating(disk'.blob)
      /\ disk'.blob # NoBlob => SaysLatest(disk'.blob)
      /\ Behind(disk', conv)
  BY <1>1 DEF IInv, FilesInv, Safe
<1>3. job' \in Files /\ job'.display = disk'.display /\ job'.blob = blob
  BY <1>2, FileFields DEF Files
<1>4. FilesInv'
  <2>1. Safe(disk)' /\ Safe(job)'
    BY <1>2, <1>3 DEF Safe, Sent, SaysLatest, Texts
  <2>2. Behind(disk, Settled)' /\ Behind(job, Settled)'
    BY <1>1, <1>2, <1>3 DEF Behind
  <2> QED BY <1>1, <2>1, <2>2 DEF FilesInv, Saving, At, TurnAt
<1>5. TypeOK'
  BY <1>2, <1>3 DEF IInv, TypeOK, At, TurnAt
<1>6. JobInv' /\ AcceptedInv' /\ CompletedIsExact'
  BY <1>1, <1>3 DEF IInv, JobInv, AcceptedInv, CompletedIsExact, Starting, TurnAt, Nothing,
                    Outcome
<1>7. ConversationInv' /\ EngineInv'
  BY <1>1 DEF IInv, ConversationInv, EngineInv, Sent, SaysLatest, Texts, Starting, TurnAt
<1> QED BY <1>4, <1>5, <1>6, <1>7 DEF IInv

LEMMA DoneSnapshotInv ==
  ASSUME IInv, DoneSnapshot
  PROVE  IInv'
<1>1. at = "doneSnap" /\ at \in Saving /\ at \in TurnAt /\ Settled = conv
      /\ job.display = conv /\ turn \in acked /\ turn \in Spoken(eng) /\ turn # Nobody
  BY FileFields, Typed, Constants DEF DoneSnapshot, IInv, JobInv, AcceptedInv, EngineInv, Saving,
                           Settled, Starting, At, TurnAt
<1>2. CASE Failed /\ Settle("completed", FALSE)
  BY <1>1, <1>2, SettleInv DEF DoneSnapshot, Wrote, Failed
<1>3. CASE Wrote /\ WriteBlob(disk', eng) /\ at' = "doneBlob" /\ UNCHANGED told
  <2>1. eng \in Seq(Message) /\ Alternating(eng) /\ Sent(eng)
    BY Typed DEF IInv, EngineInv
  <2>2. SaysLatest(eng)
    BY <1>1, LatestTurn DEF SaysLatest, Texts
  <2> QED BY <1>1, <1>3, <2>1, <2>2, BlobWriteInv DEF DoneSnapshot, Wrote, WriteBlob
<1> QED BY <1>2, <1>3 DEF DoneSnapshot

LEMMA DoneBlobInv ==
  ASSUME IInv, DoneBlob
  PROVE  IInv'
<1>1. at = "doneBlob" /\ at \in Saving /\ conv' = Settled /\ conv' = conv
  BY DEF DoneBlob, Saving, Settled, Starting, At, TurnAt
<1>2. job = File(conv, eng)
  <2>1. job \in Files /\ job.display = conv /\ job.blob = eng
    BY <1>1, Typed DEF IInv, JobInv
  <2> QED BY <2>1 DEF Files, File
<1> QED BY <1>1, <1>2, SettleInv DEF DoneBlob, Wrote, Failed

LEMMA CancelInv ==
  ASSUME IInv, Cancel
  PROVE  IInv'
<1>1. /\ at \in TurnAt /\ at # "down" /\ at \notin Starting
      /\ disk' = disk \/ (at \in Saving /\ disk' = job)
  BY DEF Cancel, AbortWrite, Wrote, IInv, FilesInv, Starting, TurnAt
<1>2. /\ Recoverable \in Seq(Message) /\ Alternating(Recoverable) /\ Sent(Recoverable)
      /\ Recoverable # NoBlob => SaysLatest(Recoverable)
  BY <1>1, RecoverableSays
<1>3. at' = "cancelBlob" /\ job' = File(disk'.display, Recoverable)
  BY DEF Cancel, WriteBlob
<1> QED BY <1>1, <1>2, <1>3, BlobWriteInv DEF Cancel

LEMMA CancelBlobInv ==
  ASSUME IInv, CancelBlob
  PROVE  IInv'
<1>1. at = "cancelBlob" /\ at \in Saving /\ conv' = Settled
  BY DEF CancelBlob, Saving, Settled, Starting, At
<1> QED BY <1>1, SettleInv DEF CancelBlob, Wrote, Failed

LEMMA FlushInv ==
  ASSUME IInv, Flush
  PROVE  IInv'
<1>1. at = "idle" /\ at' = "flushSnap" /\ Settled = conv /\ Settled' = conv /\ Safe(disk)
      /\ conv \in Seq(Message)
  BY Typed DEF Flush, IInv, FilesInv, Settled, Starting
<1>2. /\ job' = File(conv, disk.blob) /\ job' \in Files
      /\ job'.display = conv /\ job'.blob = disk.blob
  BY <1>1, Typed, FileFields DEF Flush, WriteSnapshot
<1>3. FilesInv'
  <2>1. Safe(disk)' /\ Safe(job)'
    BY <1>1, <1>2 DEF Flush, IInv, ConversationInv, Safe, Sent, SaysLatest, Texts
  <2>2. Behind(disk, Settled)' /\ Behind(job, Settled)'
    BY <1>1, <1>2, PrefixOfItself DEF Flush, IInv, FilesInv, Behind
  <2> QED BY <1>1, <2>1, <2>2 DEF FilesInv, Saving, At
<1>4. TypeOK'
  BY <1>1, <1>2 DEF Flush, IInv, TypeOK, At, Nothing, Outcome
<1>5. JobInv' /\ AcceptedInv' /\ CompletedIsExact'
  BY <1>1, <1>2 DEF Flush, IInv, JobInv, AcceptedInv, CompletedIsExact, Starting, TurnAt,
                    Nothing, Outcome
<1>6. ConversationInv' /\ EngineInv'
  BY <1>1 DEF Flush, IInv, ConversationInv, EngineInv, Sent, SaysLatest, Texts, Starting, TurnAt
<1> QED BY <1>3, <1>4, <1>5, <1>6 DEF IInv

LEMMA FlushSnapshotInv ==
  ASSUME IInv, FlushSnapshot
  PROVE  IInv'
<1>1. at = "flushSnap" /\ at \in Saving /\ at \notin Starting /\ Settled = conv
      /\ job.display = conv
  BY FileFields DEF FlushSnapshot, IInv, JobInv, Saving, Settled, Starting, At
<1>2. CASE Failed /\ Settle("refused", FALSE)
  BY <1>1, <1>2, SettleInv DEF FlushSnapshot, Wrote, Failed
<1>3. CASE Wrote /\ WriteBlob(disk', Recoverable) /\ at' = "flushBlob" /\ UNCHANGED told
  <2>1. /\ Recoverable \in Seq(Message) /\ Alternating(Recoverable) /\ Sent(Recoverable)
        /\ Recoverable # NoBlob => SaysLatest(Recoverable)
    BY <1>1, RecoverableSays
  <2>2. disk' = job /\ job' = File(disk'.display, Recoverable)
    BY <1>3 DEF Wrote, WriteBlob
  <2> QED BY <1>1, <1>3, <2>1, <2>2, BlobWriteInv DEF FlushSnapshot
<1> QED BY <1>2, <1>3 DEF FlushSnapshot

LEMMA FlushBlobInv ==
  ASSUME IInv, FlushBlob
  PROVE  IInv'
<1>1. at = "flushBlob" /\ at \in Saving /\ conv' = Settled
  BY DEF FlushBlob, Saving, Settled, Starting, At
<1> QED BY <1>1, SettleInv DEF FlushBlob, Wrote, Failed

LEMMA ResumeInv ==
  ASSUME IInv, Resume
  PROVE  IInv'
<1>1. /\ at \in {"idle", "down"} /\ at' = "idle" /\ conv' = disk.display /\ Settled' = conv'
      /\ eng' = Restored(disk) /\ job = NoJob /\ Safe(disk) /\ disk.display \in Seq(Message)
  BY Typed DEF Resume, IInv, FilesInv, Settled, Starting, Saving
<1>2. /\ eng' \in Seq(Message) /\ Alternating(eng') /\ Sent(eng') /\ SaysLatest(eng')
  BY <1>1, RestoredKeeps
<1>3. FilesInv'
  BY <1>1, PrefixOfItself DEF Resume, FilesInv, Safe, Behind, Sent, SaysLatest, Texts, Saving
<1>4. TypeOK'
  BY <1>1, <1>2 DEF Resume, IInv, TypeOK, At, Nothing, Outcome
<1>5. JobInv' /\ AcceptedInv' /\ CompletedIsExact'
  BY <1>1 DEF Resume, IInv, JobInv, AcceptedInv, CompletedIsExact, Starting, TurnAt, Nothing,
              Outcome
<1>6. ConversationInv' /\ EngineInv'
  BY <1>1, <1>2 DEF Resume, IInv, Safe, ConversationInv, EngineInv, Sent, SaysLatest, Texts,
                    Starting, TurnAt
<1> QED BY <1>3, <1>4, <1>5, <1>6 DEF IInv

LEMMA CrashInv ==
  ASSUME IInv, Crash
  PROVE  IInv'
<1>1. at' = "down" /\ (disk' = disk \/ (at \in Saving /\ disk' = job))
  BY DEF Crash, Wrote, IInv, FilesInv
<1>2. FilesInv'
  BY <1>1 DEF Crash, IInv, FilesInv, Safe, Sent, SaysLatest, Texts, Saving
<1>3. <<>> \in Seq(Message) /\ Spoken(<<>>) = {} /\ Alternating(<<>>)
  BY EmptySeq DEF Alternating, Spoken, ToSet
<1>4. TypeOK'
  <2>1. disk' \in Files
    BY <1>2 DEF FilesInv, Safe
  <2> QED BY <1>1, <1>3, <2>1, Constants DEF Crash, IInv, TypeOK, At, Nothing, Outcome
<1>5. JobInv' /\ AcceptedInv' /\ CompletedIsExact'
  BY <1>1 DEF Crash, IInv, JobInv, AcceptedInv, CompletedIsExact, Starting, TurnAt, Nothing,
              Outcome
<1>6. ConversationInv' /\ EngineInv'
  BY <1>1, <1>3 DEF Crash, ConversationInv, EngineInv, Sent, TurnAt
<1> QED BY <1>2, <1>4, <1>5, <1>6 DEF IInv

LEMMA StutterInv ==
  ASSUME IInv, UNCHANGED vars
  PROVE  IInv'
<1>1. TypeOK' /\ CompletedIsExact'
  BY DEF vars, IInv, TypeOK, CompletedIsExact
<1>2. JobInv' /\ AcceptedInv'
  BY DEF vars, IInv, JobInv, AcceptedInv
<1>3. FilesInv'
  BY DEF vars, IInv, FilesInv, Safe, Behind, Sent, SaysLatest, Texts, Settled
<1>4. ConversationInv' /\ EngineInv'
  BY DEF vars, IInv, ConversationInv, EngineInv, Sent, SaysLatest, Texts, Settled
<1> QED BY <1>1, <1>2, <1>3, <1>4 DEF IInv

LEMMA StepInv == IInv /\ [Next]_vars => IInv'
<1> SUFFICES ASSUME IInv, [Next]_vars
             PROVE  IInv'
  OBVIOUS
<1>1. CASE UNCHANGED vars
  BY <1>1, StutterInv
<1>2. CASE \E p \in Prompt : TurnStart(p)
  BY <1>2, TurnStartInv
<1>3. CASE UserSnapshot \/ UserBlob \/ UserUndo
  BY <1>3, UserSnapshotInv, UserBlobInv, UserUndoInv
<1>4. CASE RouteFailed \/ RouteReady \/ Reply \/ Nudge
  BY <1>4, RouteFailedInv, RouteReadyInv, ReplyInv, NudgeInv
<1>5. CASE EngineReturns \/ DoneSnapshot \/ DoneBlob
  BY <1>5, EngineReturnsInv, DoneSnapshotInv, DoneBlobInv
<1>6. CASE Cancel \/ CancelBlob
  BY <1>6, CancelInv, CancelBlobInv
<1>7. CASE Flush \/ FlushSnapshot \/ FlushBlob
  BY <1>7, FlushInv, FlushSnapshotInv, FlushBlobInv
<1>8. CASE Resume \/ Crash
  BY <1>8, ResumeInv, CrashInv
<1> QED
  BY <1>1, <1>2, <1>3, <1>4, <1>5, <1>6, <1>7, <1>8 DEF Next

-----------------------------------------------------------------------------
(* The theorems.                                                              *)

\* The runtime, its files and its engine are where the saves, failures, cancels
\* and crashes so far have led them.
THEOREM InvHolds == Spec => []IInv
<1> QED
  BY InitInv, StepInv, PTL DEF Spec

\* For every number of turns, every variable has the type the code gives it.
THEOREM TypesHold == Spec => []TypeOK
<1>1. IInv => TypeOK
  BY DEF IInv
<1> QED
  BY InvHolds, <1>1, PTL

\* Whatever fails, is cancelled or crashes, an accepted prompt is in the display
\* history on disk.
THEOREM PromptsOnDiskHolds == Spec => []PromptsOnDisk
<1>1. IInv => PromptsOnDisk
  BY DEF IInv, FilesInv, Safe, PromptsOnDisk
<1> QED
  BY InvHolds, <1>1, PTL

\* At every moment a resume would give the engine a transcript that says the last
\* accepted prompt.
THEOREM LatestPromptHolds == Spec => []LatestPromptSurvives
<1>1. IInv => LatestPromptSurvives
  BY RestoredKeeps DEF SaysLatest, LatestPromptSurvives
<1> QED
  BY InvHolds, <1>1, PTL

\* A crash before an accepted turn has returned resumes from every accepted
\* prompt.
THEOREM CrashSeesEveryPromptHolds == Spec => []CrashSeesEveryPrompt
<1>1. ASSUME IInv, at \in {"routing", "running"}
      PROVE  acked \subseteq Spoken(Restored(disk))
  <2>1. Restored(disk) = SeedHistory(disk.display)
    BY <1>1 DEF IInv, JobInv, Restored
  <2>2. Spoken(SeedHistory(disk.display)) = Spoken(disk.display)
    BY <1>1, Typed, SeedKeeps
  <2> QED BY <1>1, <2>1, <2>2 DEF IInv, FilesInv, Safe
<1>2. IInv => CrashSeesEveryPrompt
  BY <1>1 DEF CrashSeesEveryPrompt
<1> QED
  BY InvHolds, <1>2, PTL

\* A turn that was reported as completed and persisted left on disk exactly what
\* the runtime has in memory.
THEOREM CompletedIsExactHolds == Spec => []CompletedIsExact
<1>1. IInv => CompletedIsExact
  BY DEF IInv
<1> QED
  BY InvHolds, <1>1, PTL

\* The engine's transcript alternates, also when it was seeded from a display
\* history whose turns failed.
THEOREM AlternatesHolds == Spec => []Alternates
<1>1. IInv => Alternates
  BY DEF IInv, EngineInv, Alternating, Alternates
<1> QED
  BY InvHolds, <1>1, PTL

\* The file that replaces the one on disk starts as that one does, up to the last
\* message of it that is to be kept.
LEMMA ReplacementKeeps ==
  ASSUME IInv, at \in Saving, NEW i \in DOMAIN disk.display, Kept(disk.display[i])
  PROVE  IsPrefix(SubSeq(disk.display, 1, i), job.display)
<1>1. /\ disk.display \in Seq(Message) /\ job.display \in Seq(Message)
      /\ conv \in Seq(Message) /\ undo \in Seq(Message)
  BY Typed
<1>2. PICK l \in Nat : l = Len(disk.display) /\ DOMAIN disk.display = 1..l
  BY <1>1, LenProperties
<1>3. ASSUME NEW msgs \in Seq(Message), i <= Len(msgs),
             \A j \in 1..i : disk.display[j] = msgs[j]
      PROVE  IsPrefix(SubSeq(disk.display, 1, i), msgs)
  <2> DEFINE kept == SubSeq(disk.display, 1, i)
  <2>1. \A j \in 1..i : disk.display[j] \in Message
    BY <1>1, <1>2, ElementOfSeq
  <2>2. /\ kept \in Seq(Message) /\ Len(kept) = i
        /\ \A j \in 1..i : kept[j] = disk.display[j]
    BY <1>2, <2>1, SubSeqProperties
  <2> HIDE DEF kept
  <2>3. IsPrefix(kept, msgs)
    BY <1>3, <2>2, PrefixIs
  <2> QED BY <2>3 DEF kept
<1>4. ASSUME NEW msgs \in Seq(Message), Behind(disk, msgs)
      PROVE  i <= Len(msgs) /\ \A j \in 1..i : disk.display[j] = msgs[j]
  <2>1. CASE IsPrefix(disk.display, msgs)
    <3>1. l <= Len(msgs) /\ \A j \in 1..l : disk.display[j] = msgs[j]
      BY <1>1, <1>2, <2>1, PrefixIs
    <3>2. Len(msgs) \in Nat
      BY LenProperties
    <3> QED BY <1>2, <3>1, <3>2
  <2>2. ASSUME NEW t \in Turn \ acked, disk.display = Append(msgs, User(<<t>>))
        PROVE  i <= Len(msgs) /\ \A j \in 1..i : disk.display[j] = msgs[j]
    <3> DEFINE prompt == User(<<t>>)
    <3>1. prompt \in Message /\ ~ Kept(prompt)
      <4>1. prompt.by = "user" /\ ToSet(prompt.of) = {t}
        BY DEF User, ToSet
      <4> QED BY <4>1, NewMessages DEF Kept
    <3> HIDE DEF prompt
    <3>2. PICK k \in Nat : k = Len(msgs)
      BY LenProperties
    <3>3. l = k + 1 /\ disk.display[k + 1] = prompt /\ \A j \in 1..k : disk.display[j] = msgs[j]
      BY <1>2, <2>2, <3>1, <3>2, AppendProperties DEF prompt
    <3>4. i # k + 1
      BY <3>1, <3>3
    <3>5. i <= k
      BY <1>2, <3>3, <3>4
    <3> QED BY <1>2, <3>2, <3>3, <3>5
  <2> QED BY <1>4, <2>1, <2>2 DEF Behind
<1>5. CASE job.display = disk.display
  BY <1>1, <1>2, <1>3, <1>5
<1>6. CASE at = "userSnap"
  <2>1. Behind(disk, undo) /\ job.display = Append(undo, User(<<turn>>)) /\ turn \in Turn
    BY <1>6, FileFields DEF IInv, FilesInv, JobInv, ConversationInv, AcceptedInv, Settled,
                            Starting
  <2>2. IsPrefix(undo, job.display)
    BY <1>1, <2>1, NewMessages, PrefixOfAppend
  <2>3. i <= Len(undo) /\ \A j \in 1..i : disk.display[j] = undo[j]
    BY <1>1, <1>4, <2>1
  <2>4. Len(undo) <= Len(job.display) /\ \A j \in 1..Len(undo) : undo[j] = job.display[j]
    BY <1>1, <2>2, PrefixIs
  <2>5. Len(undo) \in Nat /\ Len(job.display) \in Nat
    BY <1>1, LenProperties
  <2>6. i <= Len(job.display) /\ \A j \in 1..i : disk.display[j] = job.display[j]
    BY <1>2, <2>3, <2>4, <2>5
  <2> QED BY <1>1, <1>3, <2>6
<1>7. CASE at \in {"userUndo", "doneSnap", "flushSnap"}
  <2>1. Behind(disk, conv) /\ job.display = conv
    BY <1>7, FileFields DEF IInv, FilesInv, JobInv, ConversationInv, Settled, Starting
  <2> QED BY <1>1, <1>3, <1>4, <2>1
<1> QED BY <1>5, <1>6, <1>7 DEF IInv, JobInv, Saving, At, TurnAt

\* No save, failed save, cancel, crash or resume takes an accepted prompt or an
\* answer out of the display history on disk, or moves it.
THEOREM HistoryIsKept == Spec => HistoryKept
<1>1. ASSUME IInv, [Next]_vars
      PROVE  disk' = disk \/ (at \in Saving /\ disk' = job)
  BY <1>1 DEF Next, vars, IInv, FilesInv, TurnStart, UserSnapshot, UserBlob, UserUndo,
       RouteFailed, RouteReady, Reply, Nudge, EngineReturns, DoneSnapshot, DoneBlob, Cancel,
       CancelBlob, Flush, FlushSnapshot, FlushBlob, Resume, Crash, AbortWrite,
       Wrote, Failed, Saving, At, TurnAt
<1>2. ASSUME IInv, [Next]_vars, NEW i \in DOMAIN disk.display, Kept(disk.display[i])
      PROVE  IsPrefix(SubSeq(disk.display, 1, i), disk'.display)
  <2>1. CASE disk' = disk
    <3>1. disk.display \in Seq(Message)
      BY <1>2, Typed
    <3>2. PICK l \in Nat : l = Len(disk.display) /\ DOMAIN disk.display = 1..l
      BY <3>1, LenProperties
    <3>3. /\ SubSeq(disk.display, 1, i) \in Seq(Message)
          /\ Len(SubSeq(disk.display, 1, i)) = i
          /\ \A j \in 1..i : SubSeq(disk.display, 1, i)[j] = disk.display[j]
      <4>1. \A j \in 1..i : disk.display[j] \in Message
        BY <3>1, <3>2, ElementOfSeq
      <4> QED BY <3>2, <4>1, SubSeqProperties
    <3>4. i <= Len(disk.display)
      BY <3>2
    <3>5. IsPrefix(SubSeq(disk.display, 1, i), disk.display)
      BY <3>1, <3>3, <3>4, PrefixIs
    <3> QED BY <2>1, <3>5
  <2>2. CASE at \in Saving /\ disk' = job
    BY <1>2, <2>2, ReplacementKeeps
  <2> QED BY <1>1, <1>2, <2>1, <2>2
<1>3. IInv /\ [Next]_vars =>
        [\A i \in DOMAIN disk.display :
           Kept(disk.display[i]) => IsPrefix(SubSeq(disk.display, 1, i), disk'.display)]_vars
  BY <1>2
<1> QED
  BY InvHolds, <1>3, PTL DEF Spec, HistoryKept
=============================================================================
