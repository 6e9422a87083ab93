----------------------- MODULE EngineTranscriptProofs -----------------------
(***************************************************************************)
(* Proofs about EngineTranscript.  The helpers on transcripts come first     *)
(* (appending, answering, cutting the front off, cutting the tail off), then *)
(* the inductive invariant, one lemma per action, and the theorems.          *)
(***************************************************************************)
EXTENDS EngineTranscript, DataLemmas

LEMMA Constants ==
  /\ MaxSteps \in Nat /\ MaxTurns \in Nat /\ MaxCalls \in Nat /\ MaxBatch \in Nat
  /\ Turn \subseteq Nat /\ Call \subseteq Nat
BY BoundsAssumption DEF Turn, Call

\* No prompt has images: push_text_turn then merges every two prompts that meet.
TextOnly == Content \subseteq {"text"}

-----------------------------------------------------------------------------
(* What is invariant of a transcript, and of the checkpoints into it.         *)

\* Message i and the results it calls for.
Complete(ms, i) ==
  LET n == Cardinality(ms[i].of)
  IN /\ i + n <= Len(ms)
     /\ \A k \in (i + 1)..(i + n) : ms[k].role = "tool"
     /\ UNION {ms[k].of : k \in (i + 1)..(i + n)} = ms[i].of
     /\ i + n < Len(ms) => ms[i + n + 1].role # "tool"

\* Only the last message may call for results that are not there, and no result
\* is there that no message calls for.
Paired(ms) ==
  /\ \A i \in Callers(ms) : i < Len(ms) => Complete(ms, i)
  /\ \A k \in 1..Len(ms) : ms[k].role = "tool" =>
       \E i \in Callers(ms) : i < k /\ k <= i + Cardinality(ms[i].of)

Well(ms) ==
  /\ ms \in Seq(Message) /\ Paired(ms)
  /\ ms # <<>> => ms[1].role = "user"

\* The last message calls for results.
Open(ms) == ms # <<>> /\ Last(ms).role = "assistant" /\ Last(ms).of # {}

Distinct(ms) ==
  \A i \in 1..(Len(ms) - 1) : ms[i].role = ms[i + 1].role => ms[i].role = "tool"

AllText(ms) == \A k \in Users(ms) : ms[k].content = "text"

\* No prompt is of a turn after t.
Until(ms, t) == \A k \in Users(ms) : \A u \in ms[k].of : u <= t

\* Checkpoints are at user messages, in the order of their turns.
Marks(ms, cs, t) ==
  /\ cs \in Seq([at : Nat \ {0}, turn : Turn])
  /\ \A i \in 1..Len(cs) : cs[i].at \in Users(ms) /\ cs[i].turn <= t
  /\ \A i, j \in 1..Len(cs) : i < j => cs[i].at < cs[j].at /\ cs[i].turn < cs[j].turn

\* They are where their turns begin.
Splits(ms, cs) ==
  \A i \in 1..Len(cs) :
    /\ cs[i].turn \in ms[cs[i].at].of
    /\ \A k \in Users(ms) : \A t \in ms[k].of :
         (k < cs[i].at => t < cs[i].turn) /\ (k > cs[i].at => t > cs[i].turn)

Clean(ms, cs) == Distinct(ms) /\ AllText(ms) /\ Splits(ms, cs)

\* All of it, in turn t.
Good(ms, cs, t) ==
  /\ Well(ms) /\ Until(ms, t) /\ Marks(ms, cs, t)
  /\ TextOnly => Clean(ms, cs)

-----------------------------------------------------------------------------
(* The inductive invariant.                                                   *)

\* Where the future is suspended says how the transcript ends.
TailInv ==
  /\ at \in {"head", "summary", "model"} =>
       msgs # <<>> /\ Last(msgs).role \in {"user", "tool"}
  /\ at = "checks" => msgs # <<>> /\ Last(msgs).role = "assistant" /\ Last(msgs).of = {}
  /\ at = "tools" => Open(msgs)
  /\ at = "summary" => cut \in Cuts(msgs) /\ step < MaxSteps

ScalarsOK ==
  /\ at \in {"idle", "head", "model", "summary", "tools", "checks"}
  /\ turn \in 0..MaxTurns /\ step \in 0..MaxSteps
  /\ cut \in Nat /\ nextCall \in 1..(MaxCalls + 1) /\ ran \subseteq Call

IInv == ScalarsOK /\ TailInv /\ Good(msgs, cps, turn)

-----------------------------------------------------------------------------
(* Messages.                                                                  *)

LEMMA MessageIs ==
  ASSUME NEW m \in Message
  PROVE  /\ m.role \in {"user", "assistant", "tool"}
         /\ m.role = "user" => m.of \subseteq Turn /\ m.content \in {"text", "parts"}
         /\ m.role # "user" => m.of \subseteq Call
BY DEF Message

LEMMA Made ==
  /\ \A ts \in SUBSET Turn, c \in {"text", "parts"} :
       /\ User(ts, c) \in Message
       /\ User(ts, c).role = "user" /\ User(ts, c).of = ts /\ User(ts, c).content = c
  /\ \A cs \in SUBSET Call :
       /\ Assistant(cs) \in Message
       /\ Assistant(cs).role = "assistant" /\ Assistant(cs).of = cs
  /\ \A c \in Call :
       /\ Result(c) \in Message /\ Interrupted(c) \in Message
       /\ Result(c).role = "tool" /\ Interrupted(c).role = "tool"
       /\ Result(c).of = {c} /\ Interrupted(c).of = {c}
BY DEF Message, User, Assistant, Result, Interrupted, Msg

\* A set of calls is finite.
LEMMA CallsAreFinite ==
  ASSUME NEW calls \in SUBSET Call
  PROVE  IsFiniteSet(calls) /\ Cardinality(calls) \in Nat
<1>1. IsFiniteSet(Call)
  BY Constants, FS_Interval DEF Call
<1> QED BY <1>1, FS_Subset, FS_CardinalityType

LEMMA CallersIn ==
  ASSUME NEW ms \in Seq(Message), NEW i \in Callers(ms)
  PROVE  /\ i \in 1..Len(ms) /\ ms[i] \in Message /\ ms[i].role = "assistant"
         /\ ms[i].of \in SUBSET Call /\ ms[i].of # {} /\ Cardinality(ms[i].of) \in Nat
<1>1. i \in 1..Len(ms) /\ ms[i].role = "assistant" /\ ms[i].of # {}
  BY LenProperties DEF Callers
<1>2. ms[i] \in Message
  BY <1>1, ElementOfSeq
<1> QED BY <1>1, <1>2, MessageIs, CallsAreFinite

\* Every set of calls can be put into order.
LEMMA OrderExists ==
  ASSUME NEW n \in Nat
  PROVE  \A calls \in SUBSET Call : Cardinality(calls) = n =>
           \E f \in [1..n -> calls] : \A j, k \in 1..n : j < k => f[j] < f[k]
<1> DEFINE Ordered(f, m) == \A j, k \in 1..m : j < k => f[j] < f[k]
           T == {m \in Nat : \A calls \in SUBSET Call : Cardinality(calls) = m =>
                   \E f \in [1..m -> calls] : Ordered(f, m)}
<1>1. 0 \in T
  <2> SUFFICES ASSUME NEW calls \in SUBSET Call, Cardinality(calls) = 0
               PROVE  \E f \in [1..0 -> calls] : Ordered(f, 0)
    OBVIOUS
  <2>1. calls = {}
    BY CallsAreFinite, FS_EmptySet
  <2> DEFINE f == [k \in 1..0 |-> k]
  <2>2. f \in [1..0 -> calls] /\ Ordered(f, 0)
    BY <2>1
  <2> QED BY <2>2
<1>2. ASSUME NEW m \in Nat, m \in T
      PROVE  m + 1 \in T
  <2> SUFFICES ASSUME NEW calls \in SUBSET Call, Cardinality(calls) = m + 1
               PROVE  \E f \in [1..(m + 1) -> calls] : Ordered(f, m + 1)
    OBVIOUS
  <2> DEFINE top == Max(calls)
             rest == calls \ {top}
  <2>1. calls # {}
    BY FS_EmptySet
  <2>2. top \in calls /\ \A c \in calls : c <= top
    <3>1. calls \subseteq Nat /\ \A c \in calls : c <= MaxCalls
      BY Constants DEF Call
    <3> QED BY <2>1, <3>1, Constants, MaxOfBounded
  <2> HIDE DEF top
  <2>3. Cardinality(rest) = m
    <3>1. IsFiniteSet(calls)
      BY CallsAreFinite
    <3>2. Cardinality(calls \ {top}) = Cardinality(calls) - 1
      BY <2>2, <3>1, FS_RemoveElement
    <3> QED BY <3>2
  <2>4. PICK f \in [1..m -> rest] : Ordered(f, m)
    BY <1>2, <2>3
  <2> DEFINE g == [k \in 1..(m + 1) |-> IF k = m + 1 THEN top ELSE f[k]]
  <2>5. g \in [1..(m + 1) -> calls]
    BY <2>2
  <2>6. ASSUME NEW j \in 1..(m + 1), NEW k \in 1..(m + 1), j < k
        PROVE  g[j] < g[k]
    <3>1. j \in 1..m /\ g[j] = f[j] /\ f[j] \in rest
      BY <2>6
    <3>2. CASE k = m + 1
      <4>1. g[k] = top
        BY <3>2
      <4>2. f[j] # top /\ f[j] <= top /\ f[j] \in Nat /\ top \in Nat
        BY <2>2, <3>1, Constants
      <4> QED BY <3>1, <4>1, <4>2
    <3>3. CASE k # m + 1
      BY <2>4, <2>6, <3>1, <3>3
    <3> QED BY <3>2, <3>3
  <2> HIDE DEF g
  <2> QED BY <2>5, <2>6
<1> HIDE DEF T
<1>3. Nat \subseteq T
  BY <1>1, <1>2, SetInduction
<1> QED BY <1>3 DEF T

LEMMA InOrderIs ==
  ASSUME NEW calls \in SUBSET Call
  PROVE  /\ InOrder(calls) \in [1..Cardinality(calls) -> calls]
         /\ \A c \in calls : \E k \in 1..Cardinality(calls) : InOrder(calls)[k] = c
<1> DEFINE n == Cardinality(calls)
           Increasing(f) == \A j, k \in 1..n : j < k => f[j] < f[k]
           order == InOrder(calls)
<1>1. n \in Nat /\ IsFiniteSet(calls)
  BY CallsAreFinite
<1>2. \E f \in [1..n -> calls] : Increasing(f)
  BY <1>1, OrderExists
<1>3. order \in [1..n -> calls] /\ Increasing(order)
  BY <1>2 DEF InOrder
<1>4. IsFiniteSet(1..n) /\ Cardinality(1..n) = Cardinality(calls)
  BY <1>1, FS_Interval
<1> HIDE DEF order
<1>5. order \in Injection(1..n, calls)
  <2>1. ASSUME NEW j \in 1..n, NEW k \in 1..n, order[j] = order[k]
        PROVE  j = k
    <3>1. order[j] \in Nat /\ order[k] \in Nat
      BY <1>3, Constants
    <3> QED BY <1>1, <1>3, <2>1, <3>1
  <2> QED BY <1>3, <2>1 DEF Injection, IsInjective
<1>6. \A c \in calls : \E k \in 1..n : order[k] = c
  BY <1>1, <1>4, <1>5, FS_Injection DEF Surjection
<1> QED BY <1>3, <1>6 DEF order

-----------------------------------------------------------------------------
(* Runs of results.                                                           *)

\* A transcript whose messages are at the places n and l - n of another.
LEMMA CompleteMoves ==
  ASSUME NEW ms \in Seq(Message), NEW i \in 1..Len(ms), Complete(ms, i),
         NEW out \in Seq(Message), NEW j \in 1..Len(out),
         out[j].of = ms[i].of, Cardinality(ms[i].of) \in Nat,
         j + Cardinality(ms[i].of) <= Len(out),
         \A k \in 1..Cardinality(ms[i].of) : out[j + k] = ms[i + k],
         j + Cardinality(ms[i].of) < Len(out) =>
           out[j + Cardinality(ms[i].of) + 1].role # "tool"
  PROVE  Complete(out, j)
<1> DEFINE n == Cardinality(ms[i].of)
<1>1. i \in Nat /\ j \in Nat /\ n \in Nat
  <2>1. Len(ms) \in Nat /\ Len(out) \in Nat
    BY LenProperties
  <2> QED BY <2>1
<1>2. \A k \in (j + 1)..(j + n) : k - j \in 1..n /\ k = j + (k - j)
  BY <1>1
<1>3. \A k \in (i + 1)..(i + n) : k - i \in 1..n /\ k = i + (k - i)
  BY <1>1
<1>4. ASSUME NEW k \in 1..n
      PROVE  i + k \in (i + 1)..(i + n) /\ j + k \in (j + 1)..(j + n)
  <2>1. k \in Nat /\ 1 <= k /\ k <= n
    BY <1>1
  <2> HIDE DEF n
  <2> QED BY <1>1, <2>1
<1>5. {out[k].of : k \in (j + 1)..(j + n)} = {ms[k].of : k \in (i + 1)..(i + n)}
  <2>1. ASSUME NEW k \in (j + 1)..(j + n)
        PROVE  out[k].of \in {ms[q].of : q \in (i + 1)..(i + n)}
    <3>1. out[k] = ms[i + (k - j)]
      BY <1>2
    <3>2. i + (k - j) \in (i + 1)..(i + n)
      BY <1>2, <1>4
    <3> QED BY <3>1, <3>2
  <2>2. ASSUME NEW k \in (i + 1)..(i + n)
        PROVE  ms[k].of \in {out[q].of : q \in (j + 1)..(j + n)}
    <3>1. out[j + (k - i)] = ms[k]
      BY <1>3
    <3>2. j + (k - i) \in (j + 1)..(j + n)
      BY <1>3, <1>4
    <3> QED BY <3>1, <3>2
  <2> QED BY <2>1, <2>2
<1>6. \A k \in (j + 1)..(j + n) : out[k].role = "tool"
  <2> SUFFICES ASSUME NEW k \in (j + 1)..(j + n)
               PROVE  out[k].role = "tool"
    OBVIOUS
  <2>1. out[k] = ms[i + (k - j)] /\ i + (k - j) \in (i + 1)..(i + n)
    BY <1>2, <1>4
  <2> QED BY <2>1 DEF Complete
<1> QED BY <1>5, <1>6 DEF Complete

\* No message of a complete run is from the user or the model.
LEMMA NotInRun ==
  ASSUME NEW ms \in Seq(Message), Paired(ms),
         NEW i \in Callers(ms), NEW c \in 1..Len(ms), i < c, ms[c].role # "tool"
  PROVE  Complete(ms, i) /\ i + Cardinality(ms[i].of) < c
<1>1. i \in 1..Len(ms) /\ Cardinality(ms[i].of) \in Nat /\ Len(ms) \in Nat
  BY CallersIn, LenProperties
<1>2. i < Len(ms)
  BY <1>1
<1>3. Complete(ms, i)
  BY <1>2 DEF Paired
<1>4. ASSUME c <= i + Cardinality(ms[i].of)
      PROVE  FALSE
  <2>1. c \in (i + 1)..(i + Cardinality(ms[i].of))
    BY <1>1, <1>4
  <2> QED BY <1>3, <2>1 DEF Complete
<1> QED BY <1>1, <1>3, <1>4

\* RunEnd finds the end of a complete run.
LEMMA CompleteRun ==
  ASSUME NEW ms \in Seq(Message), NEW i \in Callers(ms), Complete(ms, i)
  PROVE  /\ RunEnd(ms, i) = i + Cardinality(ms[i].of)
         /\ Answered(ms, i) = ms[i].of
<1> DEFINE n == Cardinality(ms[i].of)
           R == {q \in 0..(Len(ms) - i) : IsRun(ms, i, q)}
<1>1. i \in Nat /\ n \in Nat /\ Len(ms) \in Nat /\ i + n <= Len(ms)
  BY CallersIn, LenProperties DEF Complete
<1>2. n \in R
  BY <1>1 DEF Complete, IsRun
<1>3. ASSUME NEW q \in R, q > n
      PROVE  FALSE
  <2>1. q \in Nat /\ i + q <= Len(ms) /\ IsRun(ms, i, q)
    BY <1>1
  <2>2. i + n + 1 \in (i + 1)..(i + q) /\ i + n < Len(ms)
    BY <1>1, <1>3, <2>1
  <2> QED BY <2>1, <2>2 DEF IsRun, Complete
<1>4. R \subseteq Nat /\ \A q \in R : q <= n
  BY <1>1, <1>3
<1> HIDE DEF R
<1>5. Max(R) = n
  BY <1>2, <1>4, MaxIs
<1>6. RunEnd(ms, i) = i + n
  BY <1>5 DEF RunEnd, R
<1> QED BY <1>6 DEF Answered, Complete

\* No results follow the last message.
LEMMA OpenRun ==
  ASSUME NEW ms \in Seq(Message), NEW l \in 1..Len(ms), l = Len(ms)
  PROVE  RunEnd(ms, l) = l /\ Answered(ms, l) = {}
<1>1. l \in Nat /\ (l + 1)..l = {}
  BY LenProperties
<1> DEFINE R == {q \in 0..(Len(ms) - l) : IsRun(ms, l, q)}
<1>2. 0 \in R /\ R \subseteq Nat /\ \A q \in R : q <= 0
  BY <1>1 DEF IsRun
<1> HIDE DEF R
<1>3. Max(R) = 0
  BY <1>2, MaxIs
<1>4. RunEnd(ms, l) = l
  BY <1>1, <1>3 DEF RunEnd, R
<1> QED BY <1>1, <1>4 DEF Answered
-----------------------------------------------------------------------------
(* Appending, answering, cutting.                                             *)

\* A transcript that ends in a call.
LEMMA OpenIs ==
  ASSUME NEW ms \in Seq(Message), Open(ms)
  PROVE  /\ ms # <<>> /\ Last(ms) = ms[Len(ms)] /\ Len(ms) \in Callers(ms)
         /\ Len(ms) \in Nat /\ Len(ms) >= 1
         /\ Last(ms).of \in SUBSET Call /\ Last(ms).of # {} /\ Last(ms).role = "assistant"
<1>1. ms # <<>> /\ Last(ms).of # {} /\ Last(ms).role = "assistant"
  BY DEF Open
<1>2. Len(ms) \in Nat /\ Len(ms) >= 1 /\ Last(ms) = ms[Len(ms)]
  BY <1>1, FrontLast
<1>3. Len(ms) \in Callers(ms)
  BY <1>1, <1>2, LenProperties DEF Callers
<1>4. ms[Len(ms)].of \in SUBSET Call
  BY <1>3, CallersIn
<1> QED BY <1>1, <1>2, <1>3, <1>4

\* A transcript that does not end in a call is Paired all over.
LEMMA Closed ==
  ASSUME NEW ms \in Seq(Message), Paired(ms), ~Open(ms)
  PROVE  \A i \in Callers(ms) : i < Len(ms) /\ Complete(ms, i)
<1> SUFFICES ASSUME NEW i \in Callers(ms)
             PROVE  i < Len(ms)
  BY DEF Paired
<1>1. i \in 1..Len(ms) /\ Len(ms) \in Nat /\ ms[i].role = "assistant" /\ ms[i].of # {}
  BY CallersIn, LenProperties
<1>2. ms # <<>>
  BY <1>1, EmptySeq
<1>3. Last(ms) = ms[Len(ms)]
  BY <1>2, FrontLast
<1>4. i # Len(ms)
  BY <1>1, <1>2, <1>3 DEF Open
<1> QED BY <1>1, <1>4

\* A message of the user or the model after a closed transcript.
LEMMA AppendKeeps ==
  ASSUME NEW ms, Well(ms), ~Open(ms), NEW m \in Message, m.role # "tool",
         ms = <<>> => m.role = "user"
  PROVE  Well(Append(ms, m))
<1> DEFINE out == Append(ms, m)
           l == Len(ms)
<1>1. /\ ms \in Seq(Message) /\ out \in Seq(Message) /\ l \in Nat /\ Len(out) = l + 1
      /\ \A i \in 1..l : out[i] = ms[i]
      /\ out[l + 1] = m
  BY AppendProperties, LenProperties DEF Well
<1> HIDE DEF out
<1>2. \A i \in Callers(out) : i < l + 1 => i \in Callers(ms)
  BY <1>1, CallersIn DEF Callers
<1>3. ASSUME NEW i \in Callers(out), i < Len(out)
      PROVE  Complete(out, i)
  <2> DEFINE n == Cardinality(ms[i].of)
  <2>1. i \in Callers(ms)
    BY <1>1, <1>2, <1>3
  <2>2. i < l /\ Complete(ms, i)
    BY <1>1, <2>1, Closed DEF Well
  <2>3. i \in 1..l /\ n \in Nat /\ i + n <= l
    BY <1>1, <2>1, <2>2, CallersIn DEF Complete
  <2> HIDE DEF n
  <2>4. \A k \in 1..n : out[i + k] = ms[i + k]
    BY <1>1, <2>3
  <2>5. i \in 1..Len(out) /\ out[i].of = ms[i].of /\ i + n <= Len(out)
    BY <1>1, <2>3
  <2>6. i + n < Len(out) => out[i + n + 1].role # "tool"
    <3>1. CASE i + n = l
      BY <1>1, <3>1
    <3>2. CASE i + n < l
      <4>1. i + n + 1 \in 1..l /\ out[i + n + 1] = ms[i + n + 1]
        BY <1>1, <2>3, <3>2
      <4> QED BY <2>2, <3>2, <4>1 DEF Complete, n
    <3> QED BY <2>3, <3>1, <3>2
  <2> QED BY <1>1, <2>2, <2>3, <2>4, <2>5, <2>6, CompleteMoves DEF n
<1>4. ASSUME NEW k \in 1..Len(out), out[k].role = "tool"
      PROVE  \E i \in Callers(out) : i < k /\ k <= i + Cardinality(out[i].of)
  <2>1. k \in 1..l /\ ms[k].role = "tool"
    BY <1>1, <1>4
  <2>2. PICK i \in Callers(ms) : i < k /\ k <= i + Cardinality(ms[i].of)
    BY <2>1 DEF Well, Paired
  <2>3. i \in 1..l /\ out[i] = ms[i] /\ i \in Callers(out)
    BY <1>1, <2>2, CallersIn DEF Callers
  <2> QED BY <2>2, <2>3
<1>5. out[1].role = "user"
  <2>1. CASE ms = <<>>
    <3>1. l = 0
      BY <2>1, EmptySeq
    <3> QED BY <1>1, <2>1, <3>1
  <2>2. CASE ms # <<>>
    <3>1. 1 \in 1..l
      BY <1>1, <2>2, EmptySeq, FrontLast
    <3> QED BY <1>1, <2>2, <3>1 DEF Well
  <2> QED BY <2>1, <2>2
<1> QED BY <1>1, <1>3, <1>4, <1>5 DEF Well, Paired, out

\* Only user messages have changed, and they still are the user's.
SameShape(ms, out) ==
  /\ out \in Seq(Message) /\ Len(out) = Len(ms)
  /\ \A i \in 1..Len(ms) : out[i].role = ms[i].role
  /\ \A i \in 1..Len(ms) : ms[i].role # "user" => out[i] = ms[i]

LEMMA SameShapeKeeps ==
  ASSUME NEW ms, Well(ms), NEW out, SameShape(ms, out)
  PROVE  Well(out) /\ Users(out) = Users(ms)
<1>1. /\ ms \in Seq(Message) /\ out \in Seq(Message)
      /\ Len(ms) \in Nat /\ Len(out) = Len(ms)
      /\ \A i \in 1..Len(ms) : out[i].role = ms[i].role
      /\ \A i \in 1..Len(ms) : ms[i].role # "user" => out[i] = ms[i]
  BY LenProperties DEF Well, SameShape
<1>2. Callers(out) = Callers(ms) /\ Users(out) = Users(ms)
  BY <1>1, LenProperties DEF Callers, Users
<1>3. ASSUME NEW i \in Callers(out), i < Len(out)
      PROVE  Complete(out, i)
  <2> DEFINE n == Cardinality(ms[i].of)
  <2>1. i \in Callers(ms) /\ Complete(ms, i)
    BY <1>1, <1>2, <1>3 DEF Well, Paired
  <2>2. i \in 1..Len(ms) /\ n \in Nat /\ i + n <= Len(ms) /\ out[i] = ms[i]
    BY <1>1, <2>1, CallersIn DEF Complete
  <2>3. \A k \in 1..n : out[i + k] = ms[i + k]
    <3> SUFFICES ASSUME NEW k \in 1..n
                 PROVE  out[i + k] = ms[i + k]
      OBVIOUS
    <3>1. k \in Nat /\ 1 <= k /\ k <= n
      BY <2>2
    <3> HIDE DEF n
    <3>2. i + k \in (i + 1)..(i + n) /\ i + k \in 1..Len(ms)
      BY <1>1, <2>2, <3>1
    <3>3. ms[i + k].role = "tool"
      BY <2>1, <3>2 DEF Complete, n
    <3> QED BY <1>1, <3>2, <3>3
  <2> HIDE DEF n
  <2>4. i + n < Len(out) => out[i + n + 1].role # "tool"
    <3>1. i + n < Len(ms) => out[i + n + 1].role = ms[i + n + 1].role
      BY <1>1, <2>2
    <3> QED BY <1>1, <2>1, <3>1 DEF Complete, n
  <2> QED BY <1>1, <2>1, <2>2, <2>3, <2>4, CompleteMoves DEF n
<1>4. ASSUME NEW k \in 1..Len(out), out[k].role = "tool"
      PROVE  \E i \in Callers(out) : i < k /\ k <= i + Cardinality(out[i].of)
  <2>1. PICK i \in Callers(ms) : i < k /\ k <= i + Cardinality(ms[i].of)
    BY <1>1, <1>4 DEF Well, Paired
  <2>2. out[i] = ms[i]
    BY <1>1, <2>1, CallersIn
  <2> QED BY <1>2, <2>1, <2>2
<1>5. out # <<>> => out[1].role = "user"
  <2> HAVE out # <<>>
  <2>1. 1 \in 1..Len(ms) /\ ms # <<>>
    BY <1>1, FrontLast, EmptySeq
  <2> QED BY <1>1, <2>1 DEF Well
<1> QED BY <1>1, <1>2, <1>3, <1>4, <1>5 DEF Well, Paired

\* out is what follows message c, with a user message in its place.
FrontCut(ms, c, out) ==
  /\ out \in Seq(Message) /\ Len(out) = Len(ms) - (c - 1)
  /\ out[1].role = "user"
  /\ \A j \in 2..Len(out) : out[j] = ms[j + (c - 1)]

\* The front of a transcript is cut off at a user message.
LEMMA SuffixKeeps ==
  ASSUME NEW ms, Well(ms), NEW c \in Users(ms), NEW out, FrontCut(ms, c, out)
  PROVE  /\ Well(out) /\ out # <<>> /\ 1 \in Users(out)
         /\ Last(out).role = Last(ms).role
         /\ \A j \in 1..Len(out) :
              j + (c - 1) \in 1..Len(ms) /\ out[j].role = ms[j + (c - 1)].role
<1> DEFINE d == c - 1
           l == Len(ms)
<1>1. /\ ms \in Seq(Message) /\ out \in Seq(Message) /\ l \in Nat
      /\ c \in 1..l /\ d \in Nat /\ ms[c].role = "user"
      /\ Len(out) = l - d /\ Len(out) \in Nat /\ Len(out) >= 1 /\ c = d + 1
      /\ out[1].role = "user"
      /\ \A j \in 2..Len(out) : out[j] = ms[j + d]
  BY LenProperties DEF Well, Users, FrontCut
<1> HIDE DEF d, l
<1>2. ASSUME NEW j \in 1..Len(out)
      PROVE  j + d \in 1..l /\ out[j].role = ms[j + d].role
  <2>1. j \in Nat /\ j + d \in 1..l
    BY <1>1
  <2>2. CASE j = 1
    BY <1>1, <2>2
  <2>3. CASE j # 1
    <3>1. j \in 2..Len(out)
      BY <1>1, <2>1, <2>3
    <3> QED BY <1>1, <2>1, <3>1
  <2> QED BY <2>1, <2>2, <2>3
<1>3. ASSUME NEW j \in Callers(out)
      PROVE  j \in 2..Len(out) /\ j + d \in Callers(ms) /\ out[j] = ms[j + d]
  <2>1. j \in 1..Len(out) /\ out[j].role = "assistant" /\ out[j].of # {}
    BY <1>1, CallersIn
  <2>2. j \in 2..Len(out)
    BY <1>1, <2>1
  <2>3. out[j] = ms[j + d] /\ j + d \in 1..Len(ms)
    BY <1>1, <1>2, <2>1, <2>2 DEF l
  <2> QED BY <1>1, <2>1, <2>2, <2>3, LenProperties DEF Callers
<1>4. ASSUME NEW j \in Callers(out), j < Len(out)
      PROVE  Complete(out, j)
  <2> DEFINE i == j + d
             n == Cardinality(ms[i].of)
  <2>1. i \in Callers(ms) /\ i < l /\ j \in 2..Len(out) /\ out[j] = ms[i]
    BY <1>1, <1>3, <1>4
  <2>2. Complete(ms, i)
    BY <1>1, <2>1 DEF Well, Paired, l
  <2>3. i \in 1..l /\ n \in Nat /\ i + n <= l
    BY <1>1, <2>1, <2>2, CallersIn DEF Complete, l
  <2> HIDE DEF n
  <2>7. /\ l \in Nat /\ d \in Nat /\ n \in Nat /\ j \in Nat /\ j >= 2
        /\ i = j + d /\ i + n <= l /\ Len(out) = l - d
    BY <1>1, <2>1, <2>3
  <2>4. ASSUME NEW k \in 1..n
        PROVE  out[j + k] = ms[i + k]
    <3>1. k \in Nat /\ k >= 1 /\ k <= n
      BY <2>3
    <3>4. j + k \in 2..Len(out) /\ (j + k) + d = i + k
      BY <2>7, <3>1
    <3>2. out[j + k] = ms[(j + k) + d]
      BY <1>1, <3>4
    <3> QED BY <3>4, <3>2
  <2>5. j \in 1..Len(out) /\ j + n <= Len(out)
    BY <1>1, <2>1, <2>3
  <2>6. j + n < Len(out) => out[j + n + 1].role # "tool"
    <3> HAVE j + n < Len(out)
    <3>1. j + n + 1 \in 2..Len(out) /\ (j + n + 1) + d = i + n + 1 /\ i + n < l
      BY <2>7
    <3>2. out[j + n + 1] = ms[(j + n + 1) + d]
      BY <1>1, <3>1
    <3>3. ms[i + n + 1].role # "tool"
      BY <2>2, <3>1 DEF Complete, n, l
    <3> QED BY <3>1, <3>2, <3>3
  <2> HIDE DEF i
  <2> QED BY <1>1, <2>1, <2>2, <2>3, <2>4, <2>5, <2>6, CompleteMoves DEF n, l
<1>5. ASSUME NEW k \in 1..Len(out), out[k].role = "tool"
      PROVE  \E j \in Callers(out) : j < k /\ k <= j + Cardinality(out[j].of)
  <2>1. k + d \in 1..l /\ ms[k + d].role = "tool"
    BY <1>2, <1>5
  <2>2. PICK i \in Callers(ms) : i < k + d /\ k + d <= i + Cardinality(ms[i].of)
    BY <1>1, <2>1 DEF Well, Paired, l
  <2>3. i \in 1..l /\ Cardinality(ms[i].of) \in Nat /\ ms[i].role = "assistant" /\ ms[i].of # {}
    BY <1>1, CallersIn DEF l
  <2>4. ~(i < c)
    <3> SUFFICES ASSUME i < c
                 PROVE  FALSE
      OBVIOUS
    <3>1. k + d >= c /\ k + d \in Nat
      BY <1>1
    <3>2. Paired(ms) /\ c \in 1..Len(ms) /\ ms[c].role # "tool"
      BY <1>1 DEF Well, l
    <3>3. i + Cardinality(ms[i].of) < c
      BY <1>1, <2>2, <3>2, NotInRun
    <3> QED BY <1>1, <2>2, <2>3, <3>1, <3>3
  <2>5. i # c
    BY <1>1, <2>3
  <2> DEFINE j == i - d
  <2>6. j \in 2..Len(out) /\ j + d = i /\ j < k /\ k <= j + Cardinality(ms[i].of)
    BY <1>1, <2>2, <2>3, <2>4, <2>5
  <2> HIDE DEF j
  <2>7. out[j] = ms[i]
    BY <1>1, <2>6
  <2>8. j \in Callers(out)
    BY <1>1, <2>3, <2>6, <2>7, LenProperties DEF Callers
  <2> QED BY <2>6, <2>7, <2>8
<1>6. out # <<>> /\ ms # <<>>
  <2>1. Len(out) # 0 /\ Len(ms) # 0
    BY <1>1 DEF l
  <2> QED BY <2>1, EmptySeq
<1>7. Last(out).role = Last(ms).role
  <2>1. Last(out) = out[Len(out)] /\ Last(ms) = ms[l]
    BY <1>1, <1>6, FrontLast DEF l
  <2>2. Len(out) \in 1..Len(out) /\ Len(out) + d = l
    BY <1>1
  <2> QED BY <1>2, <2>1, <2>2
<1>8. 1 \in Users(out)
  BY <1>1, LenProperties DEF Users
<1> QED BY <1>1, <1>2, <1>4, <1>5, <1>6, <1>7, <1>8 DEF Well, Paired, d, l

\* The tail of a transcript is cut off at a user message.
LEMMA PrefixKeeps ==
  ASSUME NEW ms, Well(ms), NEW c \in Users(ms),
         NEW out \in Seq(Message), Len(out) = c - 1,
         \A j \in 1..(c - 1) : out[j] = ms[j]
  PROVE  Well(out)
<1> DEFINE d == c - 1
           l == Len(ms)
<1>1. /\ ms \in Seq(Message) /\ l \in Nat /\ d \in Nat /\ d + 1 = c
      /\ c \in 1..l /\ Len(out) = d /\ ms[c].role = "user" /\ d < l
      /\ \A j \in 1..d : out[j] = ms[j]
  BY LenProperties DEF Well, Users
<1> HIDE DEF d, l
<1>2. ASSUME NEW j \in Callers(out)
      PROVE  /\ j \in 1..d /\ j \in Callers(ms) /\ out[j] = ms[j]
             /\ Complete(ms, j) /\ j + Cardinality(ms[j].of) <= d
             /\ Cardinality(ms[j].of) \in Nat
  <2>1. j \in 1..d /\ out[j].role = "assistant" /\ out[j].of # {}
    BY <1>1, CallersIn
  <2>2. j \in Callers(ms) /\ out[j] = ms[j]
    BY <1>1, <2>1, LenProperties DEF Callers, l
  <2>3. Complete(ms, j) /\ j + Cardinality(ms[j].of) < c
    BY <1>1, <2>1, <2>2, NotInRun DEF Well, l
  <2>4. Cardinality(ms[j].of) \in Nat
    BY <1>1, <2>2, CallersIn
  <2> QED BY <1>1, <2>1, <2>2, <2>3, <2>4
<1>3. ASSUME NEW j \in Callers(out), j < Len(out)
      PROVE  Complete(out, j)
  <2> DEFINE n == Cardinality(ms[j].of)
  <2>1. j \in 1..d /\ out[j] = ms[j] /\ Complete(ms, j) /\ j + n <= d /\ n \in Nat
    BY <1>2, <1>3
  <2> HIDE DEF n
  <2>2. \A k \in 1..n : out[j + k] = ms[j + k]
    BY <1>1, <2>1
  <2>3. j + n < Len(out) => out[j + n + 1].role # "tool"
    <3>1. j + n < Len(out) => out[j + n + 1] = ms[j + n + 1] /\ j + n < l
      BY <1>1, <2>1
    <3> QED BY <2>1, <3>1 DEF Complete, n, l
  <2>4. j \in 1..l /\ j \in 1..Len(out)
    BY <1>1, <2>1
  <2> QED BY <1>1, <2>1, <2>2, <2>3, <2>4, CompleteMoves DEF n, l
<1>4. ASSUME NEW k \in 1..Len(out), out[k].role = "tool"
      PROVE  \E j \in Callers(out) : j < k /\ k <= j + Cardinality(out[j].of)
  <2>1. k \in 1..l /\ k \in 1..d /\ ms[k].role = "tool"
    BY <1>1, <1>4
  <2>2. PICK j \in Callers(ms) : j < k /\ k <= j + Cardinality(ms[j].of)
    BY <1>1, <2>1 DEF Well, Paired, l
  <2>3. j \in 1..l /\ ms[j].role = "assistant" /\ ms[j].of # {}
    BY <1>1, <2>2, CallersIn DEF l
  <2>4. j \in 1..d /\ out[j] = ms[j]
    BY <1>1, <2>1, <2>2, <2>3
  <2>5. j \in Callers(out)
    BY <1>1, <2>3, <2>4, LenProperties DEF Callers
  <2> QED BY <2>2, <2>4, <2>5
<1>5. out # <<>> => out[1].role = "user"
  <2> HAVE out # <<>>
  <2>1. 1 \in 1..d /\ ms # <<>>
    BY <1>1, FrontLast, EmptySeq DEF l
  <2> QED BY <1>1, <2>1 DEF Well
<1> QED BY <1>3, <1>4, <1>5 DEF Well, Paired

\* The results the last message calls for.
AreResults(calls, rs) ==
  /\ rs \in Seq(Message) /\ Len(rs) = Cardinality(calls)
  /\ \A k \in 1..Len(rs) : rs[k].role = "tool" /\ rs[k].of \subseteq calls
  /\ \A c \in calls : \E k \in 1..Len(rs) : c \in rs[k].of

LEMMA AnswerKeeps ==
  ASSUME NEW ms, Well(ms), Open(ms), NEW rs, AreResults(Last(ms).of, rs)
  PROVE  /\ Well(ms \o rs) /\ ~Open(ms \o rs)
         /\ ms \o rs # <<>> /\ Last(ms \o rs).role = "tool"
<1> DEFINE out == ms \o rs
           l == Len(ms)
           r == Len(rs)
           calls == Last(ms).of
<1>0. ms \in Seq(Message) /\ rs \in Seq(Message)
  BY DEF Well, AreResults
<1>1. /\ out \in Seq(Message)
      /\ l \in Nat /\ r \in Nat /\ Len(out) = l + r
      /\ \A i \in 1..l : out[i] = ms[i]
      /\ \A i \in 1..r : out[l + i] = rs[i]
  <2> HIDE DEF out
  <2> QED BY <1>0, ConcatParts DEF out
<1>2. /\ ms # <<>> /\ l >= 1 /\ ms[l].role = "assistant" /\ ms[l].of = calls /\ calls # {}
      /\ l \in Callers(ms) /\ calls \in SUBSET Call
      /\ r = Cardinality(calls) /\ r # 0 /\ r >= 1
  <2>1. ms # <<>> /\ l >= 1 /\ ms[l].role = "assistant" /\ ms[l].of = calls /\ calls # {}
    BY <1>0, <1>1, FrontLast DEF Open
  <2>2. l \in Callers(ms)
    BY <1>0, <1>1, <2>1, LenProperties DEF Callers
  <2>3. calls \in SUBSET Call
    BY <1>0, <1>1, <2>1, <2>2, CallersIn
  <2>4. r = Cardinality(calls) /\ r # 0
    BY <1>0, <1>1, <2>1, <2>3, CallsAreFinite, FS_EmptySet DEF AreResults
  <2> QED BY <1>0, <1>1, <2>1, <2>2, <2>3, <2>4
<1>3. \A i \in 1..r : out[l + i].role = "tool" /\ out[l + i].of \subseteq calls
  BY <1>0, <1>1 DEF AreResults
<1>4. \A c \in calls : \E i \in 1..r : c \in out[l + i].of
  BY <1>0, <1>1 DEF AreResults
<1> HIDE DEF out, l, r, calls
<1>5. \A k \in (l + 1)..(l + r) : k - l \in 1..r /\ k = l + (k - l)
  BY <1>0, <1>1
<1>6. Complete(out, l)
  <2>1. out[l].of = calls /\ l + r = Len(out)
    BY <1>0, <1>1, <1>2
  <2>2. \A k \in (l + 1)..(l + r) : out[k].role = "tool" /\ out[k].of \subseteq calls
    BY <1>3, <1>5
  <2>3. \A i \in 1..r : l + i \in (l + 1)..(l + r)
    BY <1>0, <1>1
  <2>4. \A c \in calls : \E k \in (l + 1)..(l + r) : c \in out[k].of
    BY <1>4, <2>3
  <2>5. UNION {out[k].of : k \in (l + 1)..(l + r)} = calls
    BY <2>2, <2>4
  <2> QED BY <1>0, <1>1, <1>2, <2>1, <2>2, <2>5 DEF Complete
<1>7. ASSUME NEW i \in Callers(out)
      PROVE  i \in 1..l /\ i \in Callers(ms) /\ out[i] = ms[i]
  <2>1. i \in 1..(l + r) /\ out[i].role = "assistant" /\ out[i].of # {}
    BY <1>0, <1>1, CallersIn
  <2>2. i \in 1..l
    <3>1. i \notin (l + 1)..(l + r)
      BY <1>3, <1>5, <2>1
    <3> QED BY <1>0, <1>1, <2>1, <3>1
  <2> QED BY <1>0, <1>1, <2>1, <2>2, LenProperties DEF Callers, l
<1>8. ASSUME NEW i \in Callers(out)
      PROVE  Complete(out, i)
  <2>1. CASE i = l
    BY <1>6, <2>1
  <2>2. CASE i # l
    <3> DEFINE n == Cardinality(ms[i].of)
    <3>1. i \in 1..l /\ i \in Callers(ms) /\ out[i] = ms[i] /\ i < l /\ l \in 1..l
      BY <1>0, <1>1, <1>2, <1>7, <2>2
    <3>2. Complete(ms, i) /\ i + n < l /\ n \in Nat
      BY <1>0, <1>1, <1>2, <3>1, CallersIn, NotInRun DEF Well, l
    <3> HIDE DEF n
    <3>3. \A k \in 1..n : out[i + k] = ms[i + k]
      BY <1>0, <1>1, <3>1, <3>2
    <3>4. out[i + n + 1].role # "tool"
      <4>1. i + n + 1 \in 1..l
        BY <1>0, <1>1, <3>1, <3>2
      <4>2. out[i + n + 1] = ms[i + n + 1]
        BY <1>0, <1>1, <4>1
      <4> QED BY <3>2, <4>2 DEF Complete, n, l
    <3>5. i \in 1..Len(out) /\ i + n <= Len(out)
      BY <1>0, <1>1, <3>1, <3>2
    <3> QED BY <1>0, <1>1, <3>1, <3>2, <3>3, <3>4, <3>5, CompleteMoves DEF n, l
  <2> QED BY <2>1, <2>2
<1>9. ASSUME NEW k \in 1..Len(out), out[k].role = "tool"
      PROVE  \E i \in Callers(out) : i < k /\ k <= i + Cardinality(out[i].of)
  <2>1. CASE k \in 1..l
    <3>1. PICK i \in Callers(ms) : i < k /\ k <= i + Cardinality(ms[i].of)
      BY <1>0, <1>1, <1>9, <2>1 DEF Well, Paired, l
    <3>2. i \in 1..l /\ out[i] = ms[i] /\ i \in Callers(out)
      <4>1. i \in 1..l /\ ms[i].role = "assistant" /\ ms[i].of # {}
        BY <1>0, <1>1, <3>1, CallersIn DEF l
      <4>2. i \in 1..Len(out) /\ out[i] = ms[i]
        BY <1>0, <1>1, <4>1
      <4> QED BY <1>0, <1>1, <4>1, <4>2, LenProperties DEF Callers
    <3> QED BY <3>1, <3>2
  <2>2. CASE k \notin 1..l
    <3>1. l < k /\ k <= l + r
      BY <1>0, <1>1, <2>2
    <3>2. out[l] = ms[l] /\ l \in 1..Len(out)
      BY <1>0, <1>1, <1>2
    <3>3. l \in Callers(out) /\ Cardinality(out[l].of) = r
      BY <1>0, <1>1, <1>2, <3>2, LenProperties DEF Callers
    <3> QED BY <3>1, <3>3
  <2> QED BY <2>1, <2>2
<1>10. out # <<>> /\ out[1].role = "user"
  <2>1. 1 \in 1..l /\ Len(out) # 0
    BY <1>0, <1>1, <1>2
  <2> QED BY <1>0, <1>1, <1>2, <2>1, EmptySeq DEF Well
<1>11. Last(out).role = "tool"
  <2>1. Last(out) = out[l + r]
    BY <1>0, <1>1, <1>10, FrontLast
  <2>2. r \in 1..r
    BY <1>0, <1>1, <1>2
  <2> QED BY <1>3, <2>1, <2>2
<1> QED BY <1>0, <1>1, <1>8, <1>9, <1>10, <1>11 DEF Well, Paired, Open, out

-----------------------------------------------------------------------------
(* Prompts and checkpoints.                                                   *)

\* out has the user messages of ms, where ms has them.
SameUsers(ms, out) ==
  Users(out) = Users(ms) /\ \A k \in Users(ms) : out[k] = ms[k]

LEMMA SameUsersKeep ==
  ASSUME NEW ms, NEW out, SameUsers(ms, out), NEW cs, NEW t
  PROVE  /\ Until(ms, t) => Until(out, t)
         /\ Marks(ms, cs, t) => Marks(out, cs, t)
         /\ AllText(ms) => AllText(out)
         /\ Marks(ms, cs, t) /\ Splits(ms, cs) => Splits(out, cs)
<1>1. Users(out) = Users(ms) /\ \A k \in Users(ms) : out[k] = ms[k]
  BY DEF SameUsers
<1>2. Until(ms, t) => Until(out, t)
  BY <1>1 DEF Until
<1>3. Marks(ms, cs, t) => Marks(out, cs, t)
  BY <1>1 DEF Marks
<1>4. AllText(ms) => AllText(out)
  BY <1>1 DEF AllText
<1>5. ASSUME Marks(ms, cs, t), Splits(ms, cs)
      PROVE  Splits(out, cs)
  <2> SUFFICES ASSUME NEW i \in 1..Len(cs)
               PROVE  /\ cs[i].turn \in out[cs[i].at].of
                      /\ \A k \in Users(out) : \A u \in out[k].of :
                           /\ k < cs[i].at => u < cs[i].turn
                           /\ k > cs[i].at => u > cs[i].turn
    BY DEF Splits
  <2>1. cs[i].at \in Users(ms)
    BY <1>5 DEF Marks
  <2> QED BY <1>1, <1>5, <2>1 DEF Splits
<1> QED BY <1>2, <1>3, <1>4, <1>5

\* A message that is not the user's at the end.
LEMMA AppendSameUsers ==
  ASSUME NEW ms \in Seq(Message), NEW m \in Message, m.role # "user"
  PROVE  SameUsers(ms, Append(ms, m))
<1> DEFINE out == Append(ms, m)
<1>1. /\ out \in Seq(Message) /\ Len(ms) \in Nat /\ Len(out) = Len(ms) + 1
      /\ \A i \in 1..Len(ms) : out[i] = ms[i]
      /\ out[Len(ms) + 1] = m
  BY AppendProperties, LenProperties
<1> HIDE DEF out
<1>2. DOMAIN out = 1..(Len(ms) + 1) /\ DOMAIN ms = 1..Len(ms)
  BY <1>1, LenProperties
<1> QED BY <1>1, <1>2 DEF SameUsers, Users, out

LEMMA ResultsSameUsers ==
  ASSUME NEW ms \in Seq(Message), NEW rs \in Seq(Message),
         \A k \in 1..Len(rs) : rs[k].role # "user"
  PROVE  SameUsers(ms, ms \o rs)
<1> DEFINE out == ms \o rs
<1>1. /\ out \in Seq(Message) /\ Len(ms) \in Nat /\ Len(rs) \in Nat
      /\ Len(out) = Len(ms) + Len(rs)
      /\ \A i \in 1..Len(ms) : out[i] = ms[i]
      /\ \A i \in 1..Len(rs) : out[Len(ms) + i] = rs[i]
  BY ConcatParts
<1> HIDE DEF out
<1>2. DOMAIN out = 1..(Len(ms) + Len(rs)) /\ DOMAIN ms = 1..Len(ms)
  BY <1>1, LenProperties
<1>3. \A k \in 1..(Len(ms) + Len(rs)) : k \in 1..Len(ms) \/ out[k].role # "user"
  <2> SUFFICES ASSUME NEW k \in 1..(Len(ms) + Len(rs)), k \notin 1..Len(ms)
               PROVE  out[k].role # "user"
    OBVIOUS
  <2>1. k - Len(ms) \in 1..Len(rs) /\ k = Len(ms) + (k - Len(ms))
    BY <1>1
  <2> QED BY <1>1, <2>1
<1>4. 1..Len(ms) \subseteq 1..(Len(ms) + Len(rs))
  BY <1>1
<1> QED BY <1>1, <1>2, <1>3, <1>4 DEF SameUsers, Users, out

\* Two messages that meet at the end of a transcript.
LEMMA AppendDistinct ==
  ASSUME NEW ms \in Seq(Message), Distinct(ms), NEW m \in Message,
         ms # <<>> => Last(ms).role # m.role
  PROVE  Distinct(Append(ms, m))
<1> DEFINE out == Append(ms, m)
<1>1. /\ Len(ms) \in Nat /\ Len(out) = Len(ms) + 1
      /\ \A i \in 1..Len(ms) : out[i] = ms[i]
      /\ out[Len(ms) + 1] = m
  BY AppendProperties, LenProperties
<1> HIDE DEF out
<1> SUFFICES ASSUME NEW i \in 1..Len(ms), out[i].role = out[i + 1].role
             PROVE  out[i].role = "tool"
  BY <1>1 DEF Distinct, out
<1>2. CASE i = Len(ms)
  <2>1. ms # <<>>
    BY <1>1, EmptySeq
  <2>2. Last(ms) = ms[Len(ms)]
    BY <2>1, FrontLast
  <2> QED BY <1>1, <1>2, <2>1, <2>2
<1>3. CASE i # Len(ms)
  <2>1. i \in 1..(Len(ms) - 1) /\ i + 1 \in 1..Len(ms)
    BY <1>1, <1>3
  <2> QED BY <1>1, <2>1 DEF Distinct
<1> QED BY <1>2, <1>3

\* Results after a calling message.
LEMMA ResultsDistinct ==
  ASSUME NEW ms \in Seq(Message), Distinct(ms), ms # <<>>, Last(ms).role = "assistant",
         NEW rs \in Seq(Message), \A k \in 1..Len(rs) : rs[k].role = "tool"
  PROVE  Distinct(ms \o rs)
<1> DEFINE out == ms \o rs
           l == Len(ms)
           r == Len(rs)
<1>1. /\ l \in Nat /\ r \in Nat /\ Len(out) = l + r
      /\ \A i \in 1..l : out[i] = ms[i]
      /\ \A i \in 1..r : out[l + i] = rs[i]
  BY ConcatParts
<1>2. l >= 1 /\ ms[l].role = "assistant"
  BY FrontLast
<1>3. \A k \in 1..r : out[l + k].role = "tool"
  BY <1>1
<1> HIDE DEF out, l, r
<1> SUFFICES ASSUME NEW i \in 1..(l + r - 1), out[i].role = out[i + 1].role
             PROVE  out[i].role = "tool"
  BY <1>1 DEF Distinct, out
<1>4. CASE i < l
  <2>1. i \in 1..(l - 1) /\ out[i] = ms[i] /\ out[i + 1] = ms[i + 1]
    BY <1>1, <1>4
  <2> QED BY <2>1 DEF Distinct, l
<1>5. CASE i = l
  <2>1. 1 \in 1..r /\ l \in 1..l
    BY <1>1, <1>2, <1>5
  <2> QED BY <1>1, <1>2, <1>3, <1>5, <2>1
<1>6. CASE i > l
  <2>1. i - l \in 1..r /\ i = l + (i - l)
    BY <1>1, <1>6
  <2> QED BY <1>3, <2>1
<1> QED BY <1>1, <1>4, <1>5, <1>6

-----------------------------------------------------------------------------
(* repair_interrupted_tail and the results of a batch.                        *)

\* The results that execute_tool_batch and repair_interrupted_tail append.
LEMMA ResultsInOrder ==
  ASSUME NEW calls \in SUBSET Call, NEW rs \in [1..Cardinality(calls) -> Message],
         \A k \in 1..Cardinality(calls) :
           rs[k].role = "tool" /\ rs[k].of = {InOrder(calls)[k]}
  PROVE  AreResults(calls, rs)
<1> DEFINE n == Cardinality(calls)
<1>1. n \in Nat
  BY CallsAreFinite
<1>2. /\ \A k \in 1..n : InOrder(calls)[k] \in calls
      /\ \A c \in calls : \E k \in 1..n : InOrder(calls)[k] = c
  BY InOrderIs
<1> HIDE DEF n
<1>3. rs \in Seq(Message) /\ Len(rs) = n
  BY <1>1 DEF n
<1> QED BY <1>2, <1>3 DEF AreResults, n

\* A calling message at the end gets results and a closing message; any other
\* transcript is left alone.
Repaired(ms, out) ==
  \/ ~Open(ms) /\ out = ms
  \/ /\ Open(ms)
     /\ \E rs : AreResults(Last(ms).of, rs) /\ out = Append(ms \o rs, Assistant({}))

LEMMA RepairTailIs ==
  ASSUME NEW ms, Well(ms)
  PROVE  Repaired(ms, RepairTail(ms))
<1> DEFINE i == Max(Callers(ms))
           l == Len(ms)
<1>1. ms \in Seq(Message) /\ l \in Nat /\ Paired(ms)
  BY LenProperties DEF Well
<1>2. CASE Callers(ms) = {}
  <2>1. ~Open(ms)
    BY <1>1, <1>2, OpenIs
  <2> QED BY <1>2, <2>1 DEF RepairTail, Repaired
<1>3. CASE Callers(ms) # {}
  <2>1. i \in Callers(ms) /\ \A j \in Callers(ms) : j <= i
    <3>1. Callers(ms) \subseteq Nat /\ \A j \in Callers(ms) : j <= l
      BY <1>1, CallersIn
    <3> QED BY <1>1, <1>3, <3>1, MaxOfBounded
  <2>2. i \in 1..l /\ ms[i].of \in SUBSET Call /\ ms[i].of # {} /\ ms[i].role = "assistant"
    BY <1>1, <2>1, CallersIn
  <2>3. ASSUME ~Open(ms)
        PROVE  RepairTail(ms) = ms
    <3>1. Answered(ms, i) = ms[i].of
      BY <1>1, <2>1, <2>3, Closed, CompleteRun
    <3> QED BY <3>1 DEF RepairTail
  <2>4. ASSUME Open(ms)
        PROVE  \E rs : /\ AreResults(Last(ms).of, rs)
                       /\ RepairTail(ms) = Append(ms \o rs, Assistant({}))
    <3>1. ms # <<>> /\ Last(ms) = ms[l] /\ l \in Callers(ms)
      BY <1>1, <2>4, OpenIs
    <3>2. i = l
      BY <1>1, <2>1, <2>2, <3>1
    <3>3. RunEnd(ms, i) = l /\ Answered(ms, i) = {}
      BY <1>1, <2>2, <3>2, OpenRun
    <3> DEFINE calls == Last(ms).of
               rs == [k \in 1..Cardinality(calls) |-> Interrupted(InOrder(calls)[k])]
    <3>4. ms[i].of \ Answered(ms, i) = calls /\ calls # {} /\ calls \in SUBSET Call
      BY <2>2, <3>1, <3>2, <3>3
    <3>5. \A k \in 1..Cardinality(calls) :
            rs[k] \in Message /\ rs[k].role = "tool" /\ rs[k].of = {InOrder(calls)[k]}
      <4> SUFFICES ASSUME NEW k \in 1..Cardinality(calls)
                   PROVE  /\ Interrupted(InOrder(calls)[k]) \in Message
                          /\ Interrupted(InOrder(calls)[k]).role = "tool"
                          /\ Interrupted(InOrder(calls)[k]).of = {InOrder(calls)[k]}
        OBVIOUS
      <4>1. InOrder(calls)[k] \in Call
        <5> HIDE DEF calls
        <5>1. InOrder(calls) \in [1..Cardinality(calls) -> calls]
          BY <3>4, InOrderIs
        <5> QED BY <3>4, <5>1
      <4> QED BY <4>1, Made
    <3>6. AreResults(calls, rs)
      BY <3>4, <3>5, ResultsInOrder
    <3>7. RepairTail(ms) =
            ((SubSeq(ms, 1, l) \o rs) \o <<Assistant({})>>) \o SubSeq(ms, l + 1, l)
      <4> DEFINE Out(end, missing) ==
                   ((SubSeq(ms, 1, end)
                       \o [k \in 1..Cardinality(missing) |-> Interrupted(InOrder(missing)[k])])
                       \o (IF end < Len(ms) /\ ms[end + 1].role = "assistant"
                           THEN <<>> ELSE <<Assistant({})>>))
                     \o SubSeq(ms, end + 1, Len(ms))
      <4>1. RepairTail(ms) = Out(RunEnd(ms, i), ms[i].of \ Answered(ms, i))
        BY <1>3, <3>4 DEF RepairTail
      <4>2. Out(l, calls) =
              ((SubSeq(ms, 1, l) \o rs) \o <<Assistant({})>>) \o SubSeq(ms, l + 1, l)
        <5>1. ~(l < l)
          BY <1>1
        <5>2. (IF l < l /\ ms[l + 1].role = "assistant"
               THEN <<>> ELSE <<Assistant({})>>) = <<Assistant({})>>
          BY <5>1
        <5> QED BY <5>2
      <4> HIDE DEF Out
      <4> QED BY <3>3, <3>4, <4>1, <4>2
    <3>8. SubSeq(ms, 1, l) = ms /\ SubSeq(ms, l + 1, l) = <<>>
      BY <1>1, SubSeqFull, SubSeqEmpty
    <3> HIDE DEF rs
    <3>9. /\ ms \o rs \in Seq(Message) /\ Assistant({}) \in Message
          /\ Append(ms \o rs, Assistant({})) \in Seq(Message)
      BY <1>1, <3>6, Made, ConcatParts, AppendProperties DEF AreResults
    <3>10. Append(ms \o rs, Assistant({})) = (ms \o rs) \o <<Assistant({})>>
      BY <3>9, AppendIsConcat
    <3>11. Append(ms \o rs, Assistant({})) \o <<>> = Append(ms \o rs, Assistant({}))
      BY <3>9, ConcatEmptySeq
    <3>12. RepairTail(ms) = Append(ms \o rs, Assistant({}))
      BY <3>7, <3>8, <3>10, <3>11
    <3> QED BY <3>6, <3>12
  <2> QED BY <2>3, <2>4 DEF Repaired
<1> QED BY <1>2, <1>3

\* What repair_interrupted_tail keeps and establishes.
LEMMA RepairKeeps ==
  ASSUME NEW ms, Well(ms)
  PROVE  /\ Well(RepairTail(ms)) /\ ~Open(RepairTail(ms))
         /\ SameUsers(ms, RepairTail(ms))
         /\ Distinct(ms) => Distinct(RepairTail(ms))
<1> DEFINE out == RepairTail(ms)
<1>1. ms \in Seq(Message) /\ Repaired(ms, out)
  BY RepairTailIs DEF Well
<1> HIDE DEF out
<1>2. CASE ~Open(ms)
  <2>1. out = ms
    BY <1>1, <1>2 DEF Repaired
  <2> QED BY <1>2, <2>1 DEF SameUsers, out
<1>3. CASE Open(ms)
  <2>1. PICK rs : AreResults(Last(ms).of, rs) /\ out = Append(ms \o rs, Assistant({}))
    BY <1>1, <1>3 DEF Repaired
  <2> DEFINE mid == ms \o rs
             m == Assistant({})
  <2>2. Well(mid) /\ ~Open(mid) /\ mid # <<>> /\ Last(mid).role = "tool"
    BY <1>3, <2>1, AnswerKeeps
  <2>3. m \in Message /\ m.role = "assistant" /\ m.of = {}
    BY Made
  <2>4. rs \in Seq(Message) /\ \A k \in 1..Len(rs) : rs[k].role = "tool"
    BY <2>1 DEF AreResults
  <2>5. SameUsers(ms, mid)
    BY <1>1, <2>4, ResultsSameUsers
  <2>6. Distinct(ms) => Distinct(mid)
    BY <1>1, <1>3, <2>4, ResultsDistinct DEF Open
  <2>7. mid \in Seq(Message)
    BY <2>2 DEF Well
  <2> HIDE DEF mid, m
  <2>8. Well(out) /\ SameUsers(mid, out) /\ (Distinct(mid) => Distinct(out))
    BY <2>1, <2>2, <2>3, <2>7, AppendKeeps, AppendSameUsers, AppendDistinct DEF mid, m
  <2>9. ~Open(out)
    <3>1. out = Append(mid, m)
      BY <2>1 DEF mid, m
    <3>2. out \in Seq(Message) /\ out # <<>> /\ out[Len(out)] = m
      BY <2>3, <2>7, <3>1, AppendProperties
    <3>3. Last(out) = m
      BY <3>2, FrontLast
    <3> QED BY <2>3, <3>3 DEF Open
  <2>10. SameUsers(ms, out)
    BY <2>5, <2>8 DEF SameUsers
  <2> QED BY <2>6, <2>8, <2>9, <2>10 DEF out
<1> QED BY <1>2, <1>3
-----------------------------------------------------------------------------
(* push_user_content and the checkpoint of a new turn.                        *)

\* The prompts of ms are in out where they were, and the last message holds turns.
Grows(ms, out, turns) ==
  /\ Users(ms) \subseteq Users(out) /\ Len(out) \in Nat
  /\ \A k \in Users(out) : k \in Nat /\ k <= Len(out)
  /\ \A k \in Users(ms) : ms[k].of \subseteq out[k].of
  /\ \A k \in Users(out) : \A u \in out[k].of :
       \/ k \in Users(ms) /\ u \in ms[k].of
       \/ k = Len(out) /\ u \in turns

LEMMA GrowsKeeps ==
  ASSUME NEW ms, NEW out, NEW turns, Grows(ms, out, turns),
         NEW t \in Nat, Until(ms, t), NEW cs, Marks(ms, cs, t)
  PROVE  /\ Marks(out, cs, t)
         /\ Splits(ms, cs) /\ (\A u \in turns : u \in Nat /\ u > t) => Splits(out, cs)
         /\ \A n \in Nat : t <= n /\ (\A u \in turns : u <= n) /\ (\A k \in Users(ms) : ms[k].of \subseteq Nat)
              => Until(out, n)
<1>1. Marks(out, cs, t)
  BY DEF Marks, Grows
<1>2. ASSUME Splits(ms, cs), \A u \in turns : u \in Nat /\ u > t
      PROVE  Splits(out, cs)
  <2> SUFFICES ASSUME NEW i \in 1..Len(cs)
               PROVE  /\ cs[i].turn \in out[cs[i].at].of
                      /\ \A k \in Users(out) : \A u \in out[k].of :
                           /\ k < cs[i].at => u < cs[i].turn
                           /\ k > cs[i].at => u > cs[i].turn
    BY DEF Splits
  <2>1. cs[i].at \in Users(ms) /\ cs[i].turn <= t /\ cs[i].turn \in Nat
    <3>1. cs[i] \in [at : Nat \ {0}, turn : Turn]
      BY ElementOfSeq DEF Marks
    <3> QED BY <3>1, Constants DEF Marks
  <2>2. cs[i].turn \in out[cs[i].at].of
    BY <1>2, <2>1 DEF Splits, Grows
  <2>3. ASSUME NEW k \in Users(out), NEW u \in out[k].of
        PROVE  (k < cs[i].at => u < cs[i].turn) /\ (k > cs[i].at => u > cs[i].turn)
    <3>1. CASE k \in Users(ms) /\ u \in ms[k].of
      BY <1>2, <3>1 DEF Splits
    <3>2. CASE k = Len(out) /\ u \in turns
      <4>1. cs[i].at \in Nat /\ cs[i].at <= Len(out) /\ Len(out) \in Nat
        BY <2>1 DEF Grows
      <4>2. u \in Nat /\ u > t
        BY <1>2, <3>2
      <4> QED BY <2>1, <3>2, <4>1, <4>2
    <3> QED BY <3>1, <3>2 DEF Grows
  <2> QED BY <2>2, <2>3
<1>3. ASSUME NEW n \in Nat, t <= n, \A u \in turns : u <= n,
             \A k \in Users(ms) : ms[k].of \subseteq Nat
      PROVE  Until(out, n)
  <2> SUFFICES ASSUME NEW k \in Users(out), NEW u \in out[k].of
               PROVE  u <= n
    BY DEF Until
  <2>1. CASE k \in Users(ms) /\ u \in ms[k].of
    <3>1. u <= t /\ u \in Nat
      BY <1>3, <2>1 DEF Until
    <3> QED BY <1>3, <3>1
  <2>2. CASE k = Len(out) /\ u \in turns
    BY <1>3, <2>2
  <2> QED BY <2>1, <2>2 DEF Grows
<1> QED BY <1>1, <1>2, <1>3

\* The prompts of a well-formed transcript are of turns.
LEMMA PromptsAreTurns ==
  ASSUME NEW ms \in Seq(Message), NEW k \in Users(ms)
  PROVE  /\ k \in 1..Len(ms) /\ Len(ms) \in Nat /\ ms[k] \in Message /\ ms[k].role = "user"
         /\ ms[k].of \subseteq Turn /\ ms[k].of \subseteq Nat
         /\ ms[k].content \in {"text", "parts"}
<1>1. k \in 1..Len(ms) /\ Len(ms) \in Nat /\ ms[k].role = "user"
  BY LenProperties DEF Users
<1>2. ms[k] \in Message
  BY <1>1, ElementOfSeq
<1> QED BY <1>1, <1>2, MessageIs, Constants

\* Where begin_user_turn puts the checkpoint.
Start(ms) == IF ms # <<>> /\ Last(ms).role = "user" THEN Len(ms) ELSE Len(ms) + 1

LEMMA PushUserKeeps ==
  ASSUME NEW ms, Well(ms), ~Open(ms),
         NEW turns \in SUBSET Turn, NEW content \in {"text", "parts"},
         NEW out, out = PushUser(ms, User(turns, content))
  PROVE  /\ Well(out) /\ out # <<>> /\ Last(out).role = "user"
         /\ Grows(ms, out, turns) /\ turns \subseteq out[Len(out)].of
         /\ Start(ms) \in Users(out)
         /\ content = "text" /\ AllText(ms) =>
              AllText(out) /\ Start(ms) = Len(out) /\ (Distinct(ms) => Distinct(out))
<1> DEFINE l == Len(ms)
           m == User(turns, content)
<1>1. /\ ms \in Seq(Message) /\ l \in Nat
      /\ m \in Message /\ m.role = "user" /\ m.of = turns /\ m.content = content
  BY Made, LenProperties DEF Well
<1>2. CASE ms # <<>> /\ Last(ms).role = "user"
           /\ (m.content = "text" => Last(ms).content = "text")
  <2> DEFINE u == User(Last(ms).of \cup m.of, m.content)
  <2>1. out = Append(Front(ms), u)
    BY <1>2 DEF PushUser
  <2>2. /\ l >= 1 /\ Last(ms) = ms[l] /\ l \in 1..l /\ l \in Users(ms)
        /\ Front(ms) \in Seq(Message) /\ Len(Front(ms)) = l - 1
        /\ \A i \in 1..(l - 1) : Front(ms)[i] = ms[i]
    <3>1. /\ l >= 1 /\ Last(ms) = ms[l]
          /\ Front(ms) \in Seq(Message) /\ Len(Front(ms)) = l - 1
          /\ \A i \in 1..(l - 1) : Front(ms)[i] = ms[i]
      BY <1>1, <1>2, FrontLast
    <3>2. l \in Users(ms)
      BY <1>1, <1>2, <3>1, LenProperties DEF Users
    <3> QED BY <1>1, <3>1, <3>2
  <2>3. u \in Message /\ u.role = "user" /\ u.of = ms[l].of \cup turns /\ u.content = content
    <3>1. ms[l].of \subseteq Turn
      BY <1>1, <2>2, PromptsAreTurns
    <3> QED BY <1>1, <2>2, <3>1, Made
  <2> HIDE DEF u, m, l
  <2>4. /\ out \in Seq(Message) /\ out # <<>> /\ Len(out) = (l - 1) + 1 /\ out[(l - 1) + 1] = u
        /\ \A i \in 1..(l - 1) : out[i] = Front(ms)[i]
    BY <2>1, <2>2, <2>3, AppendProperties
  <2>5. Len(out) = l /\ out[l] = u /\ \A i \in 1..(l - 1) : out[i] = ms[i]
    BY <1>1, <2>2, <2>4
  <2>6. ASSUME NEW i \in 1..l
        PROVE  /\ out[i].role = ms[i].role
               /\ ms[i].role # "user" => out[i] = ms[i]
    <3>1. ms[l].role = "user"
      BY <1>2, <2>2
    <3>2. i = l \/ i \in 1..(l - 1)
      BY <1>1
    <3> QED BY <2>3, <2>5, <3>1, <3>2
  <2>7. SameShape(ms, out)
    BY <2>4, <2>5, <2>6 DEF SameShape, l
  <2>8. Well(out) /\ Users(out) = Users(ms)
    BY <2>7, SameShapeKeeps
  <2>9. Last(out).role = "user"
    <3>1. Last(out) = out[Len(out)]
      BY <2>4, FrontLast
    <3> QED BY <2>3, <2>5, <3>1
  <2>10. \A k \in Users(ms) : k \in 1..l /\ (k = l \/ k \in 1..(l - 1))
    BY <1>1, PromptsAreTurns DEF l
  <2>11. Grows(ms, out, turns)
    <3>1. \A k \in Users(out) : k \in Nat /\ k <= Len(out)
      BY <1>1, <2>5, <2>8, <2>10
    <3>2. \A k \in Users(ms) : ms[k].of \subseteq out[k].of
      BY <2>3, <2>5, <2>10
    <3>3. \A k \in Users(out) : \A v \in out[k].of :
            (k \in Users(ms) /\ v \in ms[k].of) \/ (k = Len(out) /\ v \in turns)
      BY <2>3, <2>5, <2>8, <2>10
    <3> QED BY <1>1, <2>5, <2>8, <3>1, <3>2, <3>3 DEF Grows
  <2>12. Start(ms) = l
    BY <1>2 DEF Start, l
  <2>13. ASSUME content = "text", AllText(ms)
         PROVE  AllText(out) /\ (Distinct(ms) => Distinct(out))
    <3>1. AllText(out)
      BY <2>3, <2>5, <2>8, <2>10, <2>13 DEF AllText
    <3>2. Distinct(ms) => Distinct(out)
      <4>1. \A i \in 1..(l - 1) : i \in 1..l /\ i + 1 \in 1..l
        BY <1>1
      <4> QED BY <2>5, <2>6, <4>1 DEF Distinct, l
    <3> QED BY <3>1, <3>2
  <2> QED BY <2>2, <2>3, <2>4, <2>5, <2>8, <2>9, <2>11, <2>12, <2>13
<1>3. CASE ~(ms # <<>> /\ Last(ms).role = "user"
             /\ (m.content = "text" => Last(ms).content = "text"))
  <2>1. out = Append(ms, m)
    BY <1>3 DEF PushUser
  <2>2. Well(out)
    BY <1>1, <2>1, AppendKeeps
  <2> HIDE DEF m
  <2>3. /\ out \in Seq(Message) /\ out # <<>> /\ Len(out) = l + 1 /\ out[l + 1] = m
        /\ \A i \in 1..l : out[i] = ms[i]
    BY <1>1, <2>1, AppendProperties
  <2> HIDE DEF l
  <2>4. Last(out) = m
    BY <2>3, FrontLast
  <2>5. DOMAIN out = 1..(l + 1) /\ DOMAIN ms = 1..l
    BY <1>1, <2>3, LenProperties DEF l
  <2>6. Users(out) = Users(ms) \cup {l + 1}
    <3>1. \A k \in 1..(l + 1) : k \in 1..l \/ k = l + 1
      BY <1>1
    <3>2. 1..l \subseteq 1..(l + 1) /\ l + 1 \in 1..(l + 1)
      BY <1>1
    <3> QED BY <1>1, <2>3, <2>5, <3>1, <3>2 DEF Users
  <2>7. \A k \in Users(ms) : k \in 1..l
    BY <1>1, PromptsAreTurns DEF l
  <2>8. Grows(ms, out, turns)
    <3>1. \A k \in Users(out) : k \in Nat /\ k <= Len(out)
      BY <1>1, <2>3, <2>6, <2>7
    <3>2. \A k \in Users(ms) : out[k] = ms[k]
      BY <2>3, <2>7
    <3> QED BY <1>1, <2>3, <2>6, <3>1, <3>2 DEF Grows
  <2>9. Start(ms) \in Users(out)
    <3>1. CASE ms # <<>> /\ Last(ms).role = "user"
      <4>1. l \in 1..l /\ ms[l].role = "user"
        <5>1. l >= 1 /\ ms[l] = Last(ms)
          BY <1>1, <3>1, FrontLast DEF l
        <5> QED BY <1>1, <3>1, <5>1
      <4>2. l \in Users(ms)
        BY <2>5, <4>1 DEF Users
      <4> QED BY <2>6, <3>1, <4>2 DEF Start, l
    <3>2. CASE ~(ms # <<>> /\ Last(ms).role = "user")
      BY <2>6, <3>2 DEF Start, l
    <3> QED BY <3>1, <3>2
  <2>10. ASSUME content = "text", AllText(ms)
         PROVE  /\ AllText(out) /\ Start(ms) = Len(out)
                /\ Distinct(ms) => Distinct(out)
    <3>1. ~(ms # <<>> /\ Last(ms).role = "user")
      <4> SUFFICES ASSUME ms # <<>>, Last(ms).role = "user"
                   PROVE  FALSE
        OBVIOUS
      <4>1. l >= 1 /\ ms[l] = Last(ms)
        BY <1>1, FrontLast DEF l
      <4>2. l \in Users(ms)
        BY <1>1, <2>5, <4>1 DEF Users
      <4>3. Last(ms).content = "text"
        BY <2>10, <4>1, <4>2 DEF AllText
      <4> QED BY <1>3, <4>3
    <3>2. AllText(out)
      BY <1>1, <2>3, <2>6, <2>7, <2>10 DEF AllText
    <3>3. Distinct(ms) => Distinct(out)
      BY <1>1, <2>1, <3>1, AppendDistinct
    <3>4. Start(ms) = Len(out)
      BY <2>3, <3>1 DEF Start, l
    <3> QED BY <3>2, <3>3, <3>4
  <2> QED BY <1>1, <2>2, <2>3, <2>4, <2>8, <2>9, <2>10
<1> QED BY <1>2, <1>3

-----------------------------------------------------------------------------
(* rebase_checkpoints.                                                        *)

Mark == [at : Nat \ {0}, turn : Turn]

KeepStep(f, cs, c, n) ==
  IF n = 0 THEN <<>>
  ELSE IF cs[n].at < c THEN f[n - 1]
  ELSE Append(f[n - 1], Checkpoint(cs[n].at - (c - 1), cs[n].turn))

KeptBy(cs, c, k) == CHOOSE f : f = [n \in 0..k |-> KeepStep(f, cs, c, n)]

LEMMA KeptIs ==
  ASSUME NEW cs, NEW c, NEW k \in Nat
  PROVE  KeptBy(cs, c, k) = [n \in 0..k |-> KeepStep(KeptBy(cs, c, k), cs, c, n)]
<1> DEFINE T == {j \in Nat : \E f : f = [n \in 0..j |-> KeepStep(f, cs, c, n)]}
<1>1. 0 \in T
  <2> DEFINE f == [n \in 0..0 |-> <<>>]
  <2>1. f = [n \in 0..0 |-> KeepStep(f, cs, c, n)]
    BY DEF KeepStep
  <2> QED BY <2>1
<1>2. ASSUME NEW j \in Nat, j \in T
      PROVE  j + 1 \in T
  <2>1. PICK f : f = [n \in 0..j |-> KeepStep(f, cs, c, n)]
    BY <1>2
  <2> DEFINE g == [n \in 0..(j + 1) |-> IF n <= j THEN f[n] ELSE KeepStep(f, cs, c, n)]
  <2>2. ASSUME NEW n \in 0..(j + 1)
        PROVE  KeepStep(g, cs, c, n) = KeepStep(f, cs, c, n)
    <3>1. CASE n = 0
      BY <3>1 DEF KeepStep
    <3>2. CASE n # 0
      <4>1. n - 1 \in 0..(j + 1) /\ n - 1 <= j
        BY <3>2
      <4>2. g[n - 1] = f[n - 1]
        BY <4>1
      <4> QED BY <3>2, <4>2 DEF KeepStep
    <3> QED BY <3>1, <3>2
  <2>3. ASSUME NEW n \in 0..(j + 1)
        PROVE  g[n] = KeepStep(f, cs, c, n)
    <3>1. CASE n <= j
      BY <2>1, <3>1
    <3>2. CASE ~ (n <= j)
      BY <3>2
    <3> QED BY <3>1, <3>2
  <2>4. g = [n \in 0..(j + 1) |-> KeepStep(g, cs, c, n)]
    BY <2>2, <2>3
  <2> HIDE DEF g
  <2> QED BY <2>4
<1> HIDE DEF T
<1>3. Nat \subseteq T
  BY <1>1, <1>2, SetInduction
<1>4. \E f : f = [n \in 0..k |-> KeepStep(f, cs, c, n)]
  BY <1>3 DEF T
<1> QED BY <1>4 DEF KeptBy

\* Mark p of a rebased list comes from mark q of the list.
Moved(p, q, c) == q.at >= c /\ p.at = q.at - (c - 1) /\ p.turn = q.turn

InTurnOrder(cs) ==
  \A i, j \in 1..Len(cs) : i < j => cs[i].at < cs[j].at /\ cs[i].turn < cs[j].turn

\* rebase_checkpoints keeps the checkpoints from the cut on, in order.
LEMMA RebaseIs ==
  ASSUME NEW cs \in Seq(Mark), InTurnOrder(cs), NEW c \in Nat \ {0}
  PROVE  /\ Rebase(cs, c) \in Seq(Mark) /\ InTurnOrder(Rebase(cs, c))
         /\ \A j \in 1..Len(Rebase(cs, c)) :
              \E i \in 1..Len(cs) : Moved(Rebase(cs, c)[j], cs[i], c)
<1> DEFINE len == Len(cs)
           kept == KeptBy(cs, c, len)
<1>1. len \in Nat
  BY LenProperties
<1>2. kept = [n \in 0..len |-> KeepStep(kept, cs, c, n)]
  BY <1>1, KeptIs
<1>3. Rebase(cs, c) = kept[len]
  BY DEF Rebase, KeptBy, KeepStep
<1> HIDE DEF kept
<1> DEFINE Rebased(r, n) == /\ r \in Seq(Mark) /\ InTurnOrder(r)
                            /\ \A j \in 1..Len(r) : \E i \in 1..n : Moved(r[j], cs[i], c)
           T == {n \in Nat : n <= len => Rebased(kept[n], n)}
<1>4. 0 \in T
  <2>1. kept[0] = <<>>
    BY <1>1, <1>2 DEF KeepStep
  <2>2. Rebased(<<>>, 0)
    BY EmptySeq DEF InTurnOrder
  <2> QED BY <2>1, <2>2
<1>5. ASSUME NEW n \in Nat, n \in T
      PROVE  n + 1 \in T
  <2> SUFFICES ASSUME n + 1 <= len
               PROVE  Rebased(kept[n + 1], n + 1)
    OBVIOUS
  <2> DEFINE q == cs[n + 1]
             r == kept[n]
  <2>1. n <= len /\ n + 1 \in 1..len /\ n + 1 \in 0..len
    BY <1>1
  <2>2. Rebased(r, n)
    BY <1>5, <2>1
  <2>3. q \in Mark /\ q.at \in Nat /\ q.turn \in Turn /\ q.turn \in Nat
    <3>1. q \in Mark
      BY <2>1, ElementOfSeq
    <3> HIDE DEF q
    <3> QED BY <3>1, Constants DEF Mark
  <2>4. kept[n + 1] = IF q.at < c THEN r ELSE Append(r, Checkpoint(q.at - (c - 1), q.turn))
    <3>1. kept[n + 1] = KeepStep(kept, cs, c, n + 1)
      BY <1>2, <2>1
    <3>2. n + 1 # 0 /\ (n + 1) - 1 = n
      OBVIOUS
    <3> QED BY <3>1, <3>2 DEF KeepStep
  <2> HIDE DEF q, r
  <2>5. CASE q.at < c
    BY <2>2, <2>4, <2>5
  <2>6. CASE ~(q.at < c)
    <3> DEFINE p == Checkpoint(q.at - (c - 1), q.turn)
               out == Append(r, p)
    <3>1. p \in Mark /\ Moved(p, q, c)
      BY <2>3, <2>6 DEF Checkpoint, Mark, Moved
    <3> HIDE DEF p
    <3>2. /\ out \in Seq(Mark) /\ Len(r) \in Nat /\ Len(out) = Len(r) + 1
          /\ out[Len(r) + 1] = p /\ \A j \in 1..Len(r) : out[j] = r[j]
      BY <2>2, <3>1, AppendProperties, LenProperties
    <3> HIDE DEF out
    <3>3. ASSUME NEW j \in 1..Len(r)
          PROVE  r[j].at < p.at /\ r[j].turn < p.turn
      <4>1. PICK i \in 1..n : Moved(r[j], cs[i], c)
        BY <2>2
      <4>2. i \in 1..len /\ i < n + 1
        BY <2>1
      <4>3. cs[i].at < q.at /\ cs[i].turn < q.turn
        BY <2>1, <4>2 DEF InTurnOrder, q
      <4>4. cs[i] \in Mark
        BY <4>2, ElementOfSeq
      <4>5. cs[i].at \in Nat /\ cs[i].turn \in Nat
        BY <4>4, Constants DEF Mark
      <4> QED BY <2>3, <3>1, <4>1, <4>3, <4>5 DEF Moved
    <3>4. \A j \in 1..Len(out) : j = Len(r) + 1 \/ j \in 1..Len(r)
      BY <3>2
    <3>5. InTurnOrder(out)
      <4> SUFFICES ASSUME NEW i \in 1..Len(out), NEW j \in 1..Len(out), i < j
                   PROVE  out[i].at < out[j].at /\ out[i].turn < out[j].turn
        BY DEF InTurnOrder
      <4>1. i \in 1..Len(r) /\ out[i] = r[i]
        BY <3>2
      <4>2. CASE j = Len(r) + 1
        BY <3>2, <3>3, <4>1, <4>2
      <4>3. CASE j \in 1..Len(r)
        BY <2>2, <3>2, <4>1, <4>3 DEF InTurnOrder
      <4> QED BY <3>4, <4>2, <4>3
    <3>6. ASSUME NEW j \in 1..Len(out)
          PROVE  \E i \in 1..(n + 1) : Moved(out[j], cs[i], c)
      <4>1. CASE j = Len(r) + 1
        <5>1. Moved(out[j], cs[n + 1], c) /\ n + 1 \in 1..(n + 1)
          BY <3>1, <3>2, <4>1 DEF q
        <5> QED BY <5>1
      <4>2. CASE j \in 1..Len(r)
        <5>1. PICK i \in 1..n : Moved(r[j], cs[i], c)
          BY <2>2, <4>2
        <5>2. i \in 1..(n + 1)
          OBVIOUS
        <5> QED BY <3>2, <4>2, <5>1, <5>2
      <4> QED BY <3>4, <4>1, <4>2
    <3>7. kept[n + 1] = out
      BY <2>4, <2>6 DEF out, p
    <3> QED BY <3>2, <3>5, <3>6, <3>7
  <2> QED BY <2>5, <2>6
<1> HIDE DEF T
<1>6. Nat \subseteq T
  BY <1>4, <1>5, SetInduction
<1>7. Rebased(kept[len], len)
  BY <1>1, <1>6 DEF T
<1> QED BY <1>3, <1>7

-----------------------------------------------------------------------------
(* apply_compaction and enforce_budget.                                       *)

\* The front is cut off at c and the checkpoints are rebased.
LEMMA CutMarks ==
  ASSUME NEW ms, Well(ms), NEW c \in Users(ms), NEW out, FrontCut(ms, c, out),
         out[1].of \subseteq ms[c].of,
         NEW t \in Nat, Until(ms, t), NEW cs, Marks(ms, cs, t)
  PROVE  /\ Until(out, t) /\ Marks(out, Rebase(cs, c), t)
         /\ Distinct(ms) => Distinct(out)
         /\ out[1] = ms[c] /\ AllText(ms) => AllText(out)
         /\ out[1] = ms[c] /\ Splits(ms, cs) => Splits(out, Rebase(cs, c))
<1> DEFINE d == c - 1
           l == Len(ms)
           rs == Rebase(cs, c)
<1>1. /\ ms \in Seq(Message) /\ out \in Seq(Message) /\ l \in Nat
      /\ c \in 1..l /\ d \in Nat /\ c = d + 1
      /\ Len(out) = l - d /\ Len(out) \in Nat
      /\ \A j \in 2..Len(out) : out[j] = ms[j + d]
  BY PromptsAreTurns DEF Well, FrontCut
<1>2. /\ Well(out)
      /\ \A j \in 1..Len(out) : j + d \in 1..l /\ out[j].role = ms[j + d].role
  BY SuffixKeeps
<1>3. /\ rs \in Seq(Mark) /\ InTurnOrder(rs)
      /\ \A j \in 1..Len(rs) : \E i \in 1..Len(cs) : Moved(rs[j], cs[i], c)
  <2>1. cs \in Seq(Mark) /\ InTurnOrder(cs) /\ c \in Nat \ {0}
    BY <1>1 DEF Marks, Mark, InTurnOrder
  <2> QED BY <2>1, RebaseIs
<1>4. DOMAIN out = 1..Len(out) /\ DOMAIN ms = 1..l
  BY <1>1, LenProperties
<1> HIDE DEF d, l, rs
<1>5. ASSUME NEW j \in Users(out)
      PROVE  /\ j \in 1..Len(out) /\ j + d \in Users(ms) /\ out[j].of \subseteq ms[j + d].of
             /\ out[1] = ms[c] => out[j] = ms[j + d]
  <2>1. j \in 1..Len(out) /\ j + d \in 1..l /\ ms[j + d].role = "user"
    BY <1>2, <1>4 DEF Users
  <2>2. j + d \in Users(ms)
    BY <1>4, <2>1 DEF Users
  <2>3. CASE j = 1
    <3>1. j + d = c
      BY <1>1, <2>3
    <3> QED BY <2>1, <2>2, <2>3, <3>1
  <2>4. CASE j # 1
    <3>1. j \in 2..Len(out)
      BY <1>1, <2>1, <2>4
    <3> QED BY <1>1, <2>1, <2>2, <3>1
  <2> QED BY <2>3, <2>4
<1>6. \A i \in Users(ms) : i \in 1..l /\ (i >= c => i - d \in Users(out))
  <2> SUFFICES ASSUME NEW i \in Users(ms)
               PROVE  i \in 1..l /\ (i >= c => i - d \in Users(out))
    OBVIOUS
  <2>1. i \in 1..l /\ ms[i].role = "user"
    BY <1>4 DEF Users
  <2>2. i >= c => i - d \in 1..Len(out) /\ (i - d) + d = i
    BY <1>1, <2>1
  <2> QED BY <1>2, <1>4, <2>1, <2>2 DEF Users
<1>7. ASSUME NEW j \in 1..Len(rs)
      PROVE  \E i \in 1..Len(cs) :
               /\ cs[i].at \in Users(ms) /\ cs[i].at >= c /\ rs[j].at = cs[i].at - d
               /\ rs[j].turn = cs[i].turn /\ cs[i].turn <= t
               /\ cs[i].at \in Nat /\ rs[j].at \in Users(out)
  <2>1. PICK i \in 1..Len(cs) : Moved(rs[j], cs[i], c)
    BY <1>3
  <2>2. cs[i].at \in Users(ms) /\ cs[i].turn <= t
    BY DEF Marks
  <2>3. cs[i].at >= c /\ rs[j].at = cs[i].at - d /\ rs[j].turn = cs[i].turn
    BY <2>1 DEF Moved, d
  <2> QED BY <1>6, <2>2, <2>3
<1>8. Until(out, t)
  BY <1>5 DEF Until
<1>9. Marks(out, rs, t)
  BY <1>3, <1>7 DEF Marks, Mark, InTurnOrder
<1>10. Distinct(ms) => Distinct(out)
  <2> SUFFICES ASSUME Distinct(ms), NEW j \in 1..(Len(out) - 1),
                      out[j].role = out[j + 1].role
               PROVE  out[j].role = "tool"
    BY DEF Distinct
  <2>1. /\ j \in 1..Len(out) /\ j + 1 \in 1..Len(out)
        /\ j + d \in 1..(l - 1) /\ (j + 1) + d = (j + d) + 1
    BY <1>1
  <2>2. ms[j + d].role = ms[(j + d) + 1].role
    BY <1>2, <2>1
  <2>3. ms[j + d].role = "tool"
    BY <2>1, <2>2 DEF Distinct, l
  <2> QED BY <1>2, <2>1, <2>3
<1>11. ASSUME out[1] = ms[c], AllText(ms)
       PROVE  AllText(out)
  BY <1>5, <1>11 DEF AllText
<1>12. ASSUME out[1] = ms[c], Splits(ms, cs)
       PROVE  Splits(out, rs)
  <2> SUFFICES ASSUME NEW j \in 1..Len(rs)
               PROVE  /\ rs[j].turn \in out[rs[j].at].of
                      /\ \A k \in Users(out) : \A u \in out[k].of :
                           /\ k < rs[j].at => u < rs[j].turn
                           /\ k > rs[j].at => u > rs[j].turn
    BY DEF Splits
  <2>1. PICK i \in 1..Len(cs) :
               /\ cs[i].at \in Users(ms) /\ cs[i].at >= c /\ rs[j].at = cs[i].at - d
               /\ rs[j].turn = cs[i].turn /\ cs[i].at \in Nat /\ rs[j].at \in Users(out)
    BY <1>7
  <2>2. rs[j].at + d = cs[i].at
    BY <1>1, <2>1
  <2>3. rs[j].turn \in out[rs[j].at].of
    <3>1. out[rs[j].at] = ms[cs[i].at]
      BY <1>5, <1>12, <2>1, <2>2
    <3> QED BY <1>12, <2>1, <3>1 DEF Splits
  <2>4. ASSUME NEW k \in Users(out), NEW u \in out[k].of
        PROVE  /\ k < rs[j].at => u < rs[j].turn
               /\ k > rs[j].at => u > rs[j].turn
    <3>1. k + d \in Users(ms) /\ u \in ms[k + d].of /\ k \in Nat
      BY <1>5
    <3>2. /\ k + d < cs[i].at => u < cs[i].turn
          /\ k + d > cs[i].at => u > cs[i].turn
      BY <1>12, <3>1 DEF Splits
    <3>3. /\ k < rs[j].at => k + d < cs[i].at
          /\ k > rs[j].at => k + d > cs[i].at
      <4>1. PICK a \in Nat : a = rs[j].at
        BY <1>5, <2>1
      <4>2. PICK b \in Nat : b = cs[i].at
        BY <2>1
      <4>3. a + d = b /\ d \in Nat /\ k \in Nat
        BY <1>1, <2>2, <3>1, <4>1, <4>2
      <4>4. (k < a => k + d < b) /\ (k > a => k + d > b)
        BY <4>3
      <4> QED BY <4>1, <4>2, <4>4
    <3> QED BY <2>1, <3>2, <3>3
  <2> QED BY <2>3, <2>4
<1> QED BY <1>8, <1>9, <1>10, <1>11, <1>12 DEF rs

\* Fold puts a user message in front of what follows the cut.
LEMMA FoldIs ==
  ASSUME NEW ms, Well(ms), NEW c \in Users(ms)
  PROVE  /\ FrontCut(ms, c, Fold(ms, c))
         /\ Fold(ms, c)[1].of \subseteq ms[c].of
         /\ AllText(ms) => Fold(ms, c)[1] = ms[c]
<1> DEFINE l == Len(ms)
           first == IF ms[c].content = "text" THEN ms[c] ELSE Msg(ms[c].role, {}, "text")
           rest == SubSeq(ms, c + 1, l)
           out == Fold(ms, c)
<1>1. /\ ms \in Seq(Message) /\ l \in Nat /\ c \in 1..l
      /\ ms[c] \in Message /\ ms[c].role = "user"
  BY PromptsAreTurns DEF Well
<1>2. /\ first \in Message /\ first.role = "user" /\ first.of \subseteq ms[c].of
      /\ AllText(ms) => first = ms[c]
  <2>1. Msg("user", {}, "text") \in Message /\ Msg("user", {}, "text").role = "user"
        /\ Msg("user", {}, "text").of = {}
    BY DEF Msg, Message
  <2>2. AllText(ms) => ms[c].content = "text"
    BY DEF AllText
  <2> QED BY <1>1, <2>1, <2>2
<1> HIDE DEF first
<1>3. /\ rest \in Seq(Message) /\ Len(rest) = l - c
      /\ \A k \in 1..(l - c) : rest[k] = ms[c + k]
  <2>1. CASE c = l
    <3>1. rest = <<>>
      BY <1>1, <2>1, SubSeqEmpty
    <3> QED BY <1>1, <2>1, <3>1, EmptySeq
  <2>2. CASE c # l
    <3>1. c + 1 \in 1..(l + 1) /\ l \in c..l /\ c + 1 <= l
      BY <1>1, <2>2
    <3>2. /\ rest \in Seq(Message) /\ Len(rest) = l - (c + 1) + 1
          /\ \A k \in 1..(l - (c + 1) + 1) : rest[k] = ms[(c + 1) + k - 1]
      BY <1>1, <3>1, SubSeqProperties
    <3>3. l - (c + 1) + 1 = l - c /\ \A k \in 1..(l - c) : (c + 1) + k - 1 = c + k
      BY <1>1
    <3> QED BY <3>2, <3>3
  <2> QED BY <2>1, <2>2
<1>4. out = <<first>> \o rest
  BY DEF Fold, first
<1> HIDE DEF rest, l, out
<1>5. <<first>> \in Seq(Message) /\ Len(<<first>>) = 1 /\ <<first>>[1] = first
  BY <1>2
<1>6. /\ out \in Seq(Message) /\ Len(out) = 1 + (l - c)
      /\ out[1] = first
      /\ \A k \in 1..(l - c) : out[1 + k] = rest[k]
  BY <1>3, <1>4, <1>5, ConcatParts
<1>7. ASSUME NEW j \in 2..Len(out)
      PROVE  out[j] = ms[j + (c - 1)]
  <2>1. j - 1 \in 1..(l - c) /\ j = 1 + (j - 1) /\ c + (j - 1) = j + (c - 1)
    BY <1>1, <1>6
  <2> QED BY <1>3, <1>6, <2>1
<1>8. Len(out) = l - (c - 1)
  BY <1>1, <1>6
<1> QED BY <1>2, <1>6, <1>7, <1>8 DEF FrontCut, out, l

-----------------------------------------------------------------------------
(* What each handler does to a good transcript.                               *)

\* An assistant message.
LEMMA ReplyGood ==
  ASSUME NEW ms, NEW cs, NEW t, Good(ms, cs, t),
         ms # <<>>, Last(ms).role \in {"user", "tool"},
         NEW m \in Message, m.role = "assistant"
  PROVE  /\ Good(Append(ms, m), cs, t)
         /\ Append(ms, m) # <<>> /\ Last(Append(ms, m)) = m
<1> DEFINE out == Append(ms, m)
<1>1. ms \in Seq(Message) /\ Well(ms) /\ ~Open(ms)
  BY DEF Good, Well, Open
<1>2. out \in Seq(Message) /\ out # <<>> /\ out[Len(out)] = m
  BY <1>1, AppendProperties
<1>3. Well(out)
  BY <1>1, AppendKeeps
<1>4. SameUsers(ms, out)
  BY <1>1, AppendSameUsers
<1>5. Distinct(ms) => Distinct(out)
  BY <1>1, AppendDistinct
<1>6. Last(out) = m
  BY <1>2, FrontLast
<1> HIDE DEF out
<1> QED BY <1>2, <1>3, <1>4, <1>5, <1>6, SameUsersKeep DEF Good, Clean, out

\* What run_loop asks in the user's name.
LEMMA NudgeGood ==
  ASSUME NEW ms, NEW cs, NEW t \in Nat, Good(ms, cs, t), ~Open(ms)
  PROVE  /\ Good(PushUser(ms, Nudge), cs, t)
         /\ PushUser(ms, Nudge) # <<>> /\ Last(PushUser(ms, Nudge)).role = "user"
<1> DEFINE out == PushUser(ms, Nudge)
<1>1. Well(ms) /\ Until(ms, t) /\ Marks(ms, cs, t) /\ (TextOnly => Clean(ms, cs))
  BY DEF Good
<1>2. out = PushUser(ms, User({}, "text")) /\ {} \in SUBSET Turn
  BY DEF Nudge
<1> HIDE DEF out
<1>3. /\ Well(out) /\ out # <<>> /\ Last(out).role = "user" /\ Grows(ms, out, {})
      /\ AllText(ms) => AllText(out) /\ (Distinct(ms) => Distinct(out))
  BY <1>1, <1>2, PushUserKeeps
<1>4. /\ Marks(out, cs, t)
      /\ Splits(ms, cs) => Splits(out, cs)
      /\ (\A k \in Users(ms) : ms[k].of \subseteq Nat) => Until(out, t)
  BY <1>1, <1>3, GrowsKeeps
<1>5. \A k \in Users(ms) : ms[k].of \subseteq Nat
  BY <1>1, PromptsAreTurns DEF Well
<1> QED BY <1>1, <1>3, <1>4, <1>5 DEF Good, Clean, out

\* The results of a batch.
LEMMA ResultsGood ==
  ASSUME NEW ms, NEW cs, NEW t, Good(ms, cs, t), Open(ms),
         NEW rs, AreResults(Last(ms).of, rs)
  PROVE  /\ Good(ms \o rs, cs, t)
         /\ ms \o rs # <<>> /\ Last(ms \o rs).role = "tool"
<1>1. Well(ms) /\ ms \in Seq(Message) /\ ms # <<>> /\ Last(ms).role = "assistant"
  BY DEF Good, Well, Open
<1>2. rs \in Seq(Message) /\ \A k \in 1..Len(rs) : rs[k].role = "tool"
  BY DEF AreResults
<1>3. Well(ms \o rs) /\ ms \o rs # <<>> /\ Last(ms \o rs).role = "tool"
  BY <1>1, AnswerKeeps
<1>4. SameUsers(ms, ms \o rs)
  BY <1>1, <1>2, ResultsSameUsers
<1>5. Distinct(ms) => Distinct(ms \o rs)
  BY <1>1, <1>2, ResultsDistinct
<1> QED BY <1>3, <1>4, <1>5, SameUsersKeep DEF Good, Clean

LEMMA RepairGood ==
  ASSUME NEW ms, NEW cs, NEW t, Good(ms, cs, t)
  PROVE  Good(RepairTail(ms), cs, t) /\ ~Open(RepairTail(ms))
<1>1. Well(ms)
  BY DEF Good
<1> DEFINE out == RepairTail(ms)
<1>2. Well(out) /\ ~Open(out) /\ SameUsers(ms, out) /\ (Distinct(ms) => Distinct(out))
  BY <1>1, RepairKeeps
<1> HIDE DEF out
<1> QED BY <1>2, SameUsersKeep DEF Good, Clean, out

\* The prompt of a turn, and its checkpoint.
LEMMA PromptGood ==
  ASSUME NEW ms, NEW cs, NEW t \in Nat, Good(ms, cs, t), ~Open(ms),
         NEW content \in Content, t + 1 \in Turn,
         NEW out, out = PushUser(ms, User({t + 1}, content)),
         NEW new, new = IF cs # <<>> /\ Last(cs).at = Start(ms)
                        THEN cs ELSE Append(cs, Checkpoint(Start(ms), t + 1))
  PROVE  Good(out, new, t + 1) /\ out # <<>> /\ Last(out).role = "user"
<1> DEFINE start == Start(ms)
           turns == {t + 1}
<1>1. /\ Well(ms) /\ Until(ms, t) /\ Marks(ms, cs, t) /\ (TextOnly => Clean(ms, cs))
      /\ ms \in Seq(Message) /\ cs \in Seq(Mark)
  BY DEF Good, Well, Marks, Mark
<1>2. content \in {"text", "parts"} /\ (TextOnly => content = "text") /\ turns \in SUBSET Turn
  BY ContentAssumption DEF TextOnly
<1>3. /\ Well(out) /\ out # <<>> /\ Last(out).role = "user"
      /\ Grows(ms, out, turns) /\ turns \subseteq out[Len(out)].of
      /\ start \in Users(out)
      /\ content = "text" /\ AllText(ms) =>
           AllText(out) /\ start = Len(out) /\ (Distinct(ms) => Distinct(out))
  BY <1>1, <1>2, PushUserKeeps
<1>4. \A k \in Users(ms) : k \in 1..Len(ms) /\ Len(ms) \in Nat /\ ms[k].of \subseteq Nat
  BY <1>1, PromptsAreTurns
<1>5. \A u \in turns : u \in Nat /\ u > t /\ u <= t + 1
  OBVIOUS
<1>6. /\ Marks(out, cs, t) /\ Until(out, t + 1)
      /\ Splits(ms, cs) => Splits(out, cs)
  <2>1. t <= t + 1 /\ t + 1 \in Nat
    OBVIOUS
  <2> QED BY <1>1, <1>3, <1>4, <1>5, <2>1, GrowsKeeps
<1>7. \A i \in 1..Len(cs) : /\ cs[i] \in Mark /\ cs[i].at \in Users(ms) /\ cs[i].turn <= t
                            /\ cs[i].turn \in Nat /\ cs[i].at \in Nat
  <2> SUFFICES ASSUME NEW i \in 1..Len(cs)
               PROVE  /\ cs[i] \in Mark /\ cs[i].at \in Users(ms) /\ cs[i].turn <= t
                      /\ cs[i].turn \in Nat /\ cs[i].at \in Nat
    OBVIOUS
  <2>1. cs[i] \in Mark
    BY <1>1, ElementOfSeq
  <2> QED BY <1>1, <2>1, Constants DEF Marks, Mark
<1>8. start \in Nat \ {0} /\ Len(ms) <= start /\ start <= Len(out)
  <2>1. Len(ms) \in Nat
    BY <1>1, LenProperties
  <2>2. ms # <<>> => Len(ms) # 0
    BY <1>1, EmptySeq
  <2>3. start \in Nat \ {0} /\ Len(ms) <= start
    BY <2>1, <2>2 DEF Start
  <2> QED BY <1>3, <2>3 DEF Grows
<1> HIDE DEF start, turns
<1>9. CASE cs # <<>> /\ Last(cs).at = start
  <2>1. new = cs
    BY <1>9 DEF start
  <2>2. Marks(out, new, t + 1)
    <3>1. \A i \in 1..Len(cs) : cs[i].turn <= t + 1
      BY <1>7
    <3> QED BY <1>6, <2>1, <3>1 DEF Marks
  <2> QED BY <1>1, <1>2, <1>3, <1>6, <2>1, <2>2 DEF Good, Clean
<1>10. CASE ~(cs # <<>> /\ Last(cs).at = start)
  <2> DEFINE p == Checkpoint(start, t + 1)
             n == Len(cs)
  <2>1. p \in Mark /\ p.at = start /\ p.turn = t + 1
    BY <1>8 DEF Checkpoint, Mark
  <2>2. new = Append(cs, p)
    BY <1>10 DEF start
  <2> HIDE DEF p
  <2>3. /\ new \in Seq(Mark) /\ n \in Nat /\ Len(new) = n + 1
        /\ new[n + 1] = p /\ \A i \in 1..n : new[i] = cs[i]
    BY <1>1, <2>1, <2>2, AppendProperties, LenProperties
  <2>4. ASSUME NEW i \in 1..n
        PROVE  cs[i].at < start
    <3>1. cs[i].at <= start /\ cs[i].at \in Nat
      BY <1>4, <1>7, <1>8
    <3>2. cs # <<>> /\ Last(cs) = cs[n] /\ n \in 1..n
      <4>1. cs # <<>>
        BY <2>3, EmptySeq
      <4>2. Last(cs) = cs[Len(cs)]
        BY <1>1, <4>1, FrontLast
      <4> QED BY <2>3, <4>1, <4>2
    <3>3. cs[n].at # start
      BY <1>10, <3>2
    <3>4. CASE i = n
      BY <1>8, <3>1, <3>3, <3>4
    <3>5. CASE i # n
      <4>1. i < n
        BY <2>3, <3>5
      <4>2. cs[i].at < cs[n].at
        BY <1>1, <3>2, <4>1 DEF Marks
      <4>3. cs[n].at <= start /\ cs[n].at \in Nat
        BY <1>4, <1>7, <1>8, <3>2
      <4> QED BY <1>8, <3>1, <4>2, <4>3
    <3> QED BY <3>4, <3>5
  <2> HIDE DEF n
  <2>5. \A i \in 1..(n + 1) : i \in 1..n \/ i = n + 1
    BY <2>3
  <2>6. Marks(out, new, t + 1)
    <3>1. ASSUME NEW i \in 1..Len(new)
          PROVE  new[i].at \in Users(out) /\ new[i].turn <= t + 1
      <4>1. CASE i = n + 1
        BY <1>3, <2>1, <2>3, <4>1
      <4>2. CASE i \in 1..n
        <5>1. new[i] = cs[i] /\ cs[i].at \in Users(ms) /\ cs[i].turn <= t /\ cs[i].turn \in Nat
          BY <1>7, <2>3, <4>2 DEF n
        <5>2. new[i].at \in Users(out)
          BY <1>3, <5>1 DEF Grows
        <5> QED BY <5>1, <5>2
      <4> QED BY <2>3, <2>5, <4>1, <4>2
    <3>2. ASSUME NEW i \in 1..Len(new), NEW j \in 1..Len(new), i < j
          PROVE  new[i].at < new[j].at /\ new[i].turn < new[j].turn
      <4>1. i \in 1..n /\ new[i] = cs[i]
        BY <2>3, <3>2
      <4>2. CASE j = n + 1
        <5>1. new[j] = p /\ cs[i].turn <= t /\ cs[i].turn \in Nat
          BY <1>7, <2>3, <4>1, <4>2 DEF n
        <5>2. cs[i].at < start
          BY <2>4, <4>1
        <5>3. cs[i].turn < t + 1
          BY <5>1
        <5> QED BY <2>1, <4>1, <5>1, <5>2, <5>3
      <4>3. CASE j \in 1..n
        <5>1. new[j] = cs[j]
          BY <2>3, <4>3
        <5>2. cs[i].at < cs[j].at /\ cs[i].turn < cs[j].turn
          BY <1>1, <3>2, <4>1, <4>3 DEF Marks, n
        <5> QED BY <4>1, <5>1, <5>2
      <4> QED BY <2>3, <2>5, <4>2, <4>3
    <3> QED BY <2>3, <3>1, <3>2 DEF Marks, Mark
  <2>7. ASSUME TextOnly
        PROVE  Clean(out, new)
    <3>1. AllText(out) /\ Distinct(out) /\ start = Len(out) /\ Splits(out, cs)
      BY <1>1, <1>2, <1>3, <1>6, <2>7 DEF Clean
    <3>2. Splits(out, new)
      <4> SUFFICES ASSUME NEW i \in 1..Len(new)
                   PROVE  /\ new[i].turn \in out[new[i].at].of
                          /\ \A k \in Users(out) : \A u \in out[k].of :
                               /\ k < new[i].at => u < new[i].turn
                               /\ k > new[i].at => u > new[i].turn
        BY DEF Splits
      <4>1. CASE i = n + 1
        <5>1. new[i].at = Len(out) /\ new[i].turn = t + 1
          BY <2>1, <2>3, <3>1, <4>1
        <5>2. t + 1 \in out[Len(out)].of
          BY <1>3 DEF turns
        <5>3. ASSUME NEW k \in Users(out), NEW u \in out[k].of
              PROVE  /\ k < Len(out) => u < t + 1
                     /\ ~(k > Len(out))
          <6>1. k \in Nat /\ k <= Len(out) /\ Len(out) \in Nat
            BY <1>3 DEF Grows
          <6>2. (k \in Users(ms) /\ u \in ms[k].of) \/ k = Len(out)
            BY <1>3 DEF Grows
          <6>3. k \in Users(ms) /\ u \in ms[k].of => u <= t /\ u \in Nat
            BY <1>1, <1>4 DEF Until
          <6> QED BY <6>1, <6>2, <6>3
        <5> QED BY <5>1, <5>2, <5>3
      <4>2. CASE i \in 1..n
        BY <2>3, <3>1, <4>2 DEF Splits, n
      <4> QED BY <2>3, <2>5, <4>1, <4>2
    <3> QED BY <3>1, <3>2 DEF Clean
  <2> QED BY <1>3, <1>6, <2>6, <2>7 DEF Good
<1> QED BY <1>9, <1>10

\* apply_compaction with the cut c: the summary replaces what precedes it.
LEMMA FoldGood ==
  ASSUME NEW ms, NEW cs, NEW t \in Nat, Good(ms, cs, t), NEW c \in Users(ms)
  PROVE  /\ Good(Fold(ms, c), Rebase(cs, c), t)
         /\ Fold(ms, c) # <<>> /\ Last(Fold(ms, c)).role = Last(ms).role
<1> DEFINE out == Fold(ms, c)
<1>1. Well(ms) /\ Until(ms, t) /\ Marks(ms, cs, t) /\ (TextOnly => Clean(ms, cs))
  BY DEF Good
<1>2. /\ FrontCut(ms, c, out) /\ out[1].of \subseteq ms[c].of
      /\ AllText(ms) => out[1] = ms[c]
  BY <1>1, FoldIs
<1> HIDE DEF out
<1>3. Well(out) /\ out # <<>> /\ Last(out).role = Last(ms).role
  BY <1>1, <1>2, SuffixKeeps
<1> QED BY <1>1, <1>2, <1>3, CutMarks DEF Good, Clean, out

\* enforce_budget with the cut c: what precedes message c goes.
LEMMA TrimGood ==
  ASSUME NEW ms, NEW cs, NEW t \in Nat, Good(ms, cs, t), NEW c \in Users(ms),
         NEW out, out = SubSeq(ms, c, Len(ms))
  PROVE  /\ Good(out, Rebase(cs, c), t)
         /\ out # <<>> /\ Last(out).role = Last(ms).role
<1> DEFINE l == Len(ms)
<1>1. Well(ms) /\ Until(ms, t) /\ Marks(ms, cs, t) /\ (TextOnly => Clean(ms, cs))
  BY DEF Good
<1>2. ms \in Seq(Message) /\ l \in Nat /\ c \in 1..l /\ ms[c].role = "user"
  BY <1>1, PromptsAreTurns DEF Well
<1>3. c \in 1..(l + 1) /\ l \in (c - 1)..l /\ c <= l
  BY <1>2
<1> HIDE DEF l
<1>4. /\ out \in Seq(Message) /\ Len(out) = l - c + 1
      /\ \A k \in 1..(l - c + 1) : out[k] = ms[c + k - 1]
  BY <1>2, <1>3, SubSeqProperties DEF l
<1>5. out[1] = ms[c]
  <2>1. 1 \in 1..(l - c + 1) /\ c + 1 - 1 = c
    BY <1>2
  <2> QED BY <1>4, <2>1
<1>6. FrontCut(ms, c, out)
  <2>1. l - c + 1 = l - (c - 1)
    BY <1>2
  <2>2. \A j \in 2..(l - c + 1) : j \in 1..(l - c + 1) /\ c + j - 1 = j + (c - 1)
    BY <1>2
  <2> QED BY <1>2, <1>4, <1>5, <2>1, <2>2 DEF FrontCut, l
<1>7. Well(out) /\ out # <<>> /\ Last(out).role = Last(ms).role
  BY <1>1, <1>6, SuffixKeeps
<1> QED BY <1>1, <1>5, <1>6, <1>7, CutMarks DEF Good, Clean

\* The last user message is one.
LEMMA LastPrompt ==
  ASSUME NEW ms \in Seq(Message), Users(ms) # {}
  PROVE  Max(Users(ms)) \in Users(ms)
<1>1. /\ Users(ms) \subseteq Nat /\ Len(ms) \in Nat
      /\ \A k \in Users(ms) : k <= Len(ms)
  BY LenProperties DEF Users
<1> QED BY <1>1, MaxOfBounded

LEMMA FoldAndTrimGood ==
  ASSUME NEW c \in Cuts(msgs), turn \in Nat, Good(msgs, cps, turn), FoldAndTrim(c)
  PROVE  /\ Good(msgs', cps', turn)
         /\ msgs' # <<>> /\ Last(msgs').role = Last(msgs).role
<1> DEFINE ms == Fold(msgs, c)
           cs == Rebase(cps, c)
           last == Max(Users(ms))
<1>1. c \in Users(msgs)
  BY DEF Cuts
<1>2. Good(ms, cs, turn) /\ ms # <<>> /\ Last(ms).role = Last(msgs).role
  BY <1>1, FoldGood
<1>3. \/ msgs' = ms /\ cps' = cs
      \/ msgs' = SubSeq(ms, last, Len(ms)) /\ cps' = Rebase(cs, last)
  BY DEF FoldAndTrim
<1>4. last \in Users(ms)
  <2>1. Well(msgs)
    BY DEF Good
  <2>2. FrontCut(msgs, c, ms)
    BY <1>1, <2>1, FoldIs
  <2>3. 1 \in Users(ms)
    BY <1>1, <2>1, <2>2, SuffixKeeps
  <2>4. ms \in Seq(Message)
    BY <1>2 DEF Good, Well
  <2> HIDE DEF ms
  <2> QED BY <2>3, <2>4, LastPrompt
<1> HIDE DEF ms, cs, last
<1>5. CASE msgs' = ms /\ cps' = cs
  BY <1>2, <1>5
<1>6. CASE msgs' = SubSeq(ms, last, Len(ms)) /\ cps' = Rebase(cs, last)
  BY <1>2, <1>4, <1>6, TrimGood
<1> QED BY <1>3, <1>5, <1>6

\* rewind_to checkpoint k.
LEMMA RewindGood ==
  ASSUME NEW ms, NEW cs, NEW t, Good(ms, cs, t), NEW k \in 1..Len(cs)
  PROVE  Good(SubSeq(ms, 1, cs[k].at - 1), SubSeq(cs, 1, k - 1), t)
<1> DEFINE c == cs[k].at
           l == Len(ms)
           out == SubSeq(ms, 1, c - 1)
           new == SubSeq(cs, 1, k - 1)
<1>1. /\ Well(ms) /\ Until(ms, t) /\ Marks(ms, cs, t) /\ (TextOnly => Clean(ms, cs))
      /\ ms \in Seq(Message) /\ cs \in Seq(Mark)
  BY DEF Good, Well, Marks, Mark
<1>2. c \in Users(ms) /\ c \in 1..l /\ l \in Nat
  <2>1. c \in Users(ms)
    BY <1>1 DEF Marks
  <2> QED BY <1>1, <2>1, PromptsAreTurns
<1>3. Len(cs) \in Nat
  BY <1>1, LenProperties
<1> HIDE DEF c, l
<1>4. /\ out \in Seq(Message) /\ Len(out) = c - 1
      /\ \A j \in 1..(c - 1) : out[j] = ms[j]
  <2>1. CASE c = 1
    <3>1. out = <<>>
      BY <2>1, SubSeqEmpty
    <3> QED BY <2>1, <3>1, EmptySeq
  <2>2. CASE c # 1
    <3>1. c - 1 \in 0..l /\ 1 <= c - 1 /\ 1 \in 1..(l + 1)
      BY <1>2, <2>2
    <3>2. /\ out \in Seq(Message) /\ Len(out) = (c - 1) - 1 + 1
          /\ \A j \in 1..((c - 1) - 1 + 1) : out[j] = ms[1 + j - 1]
      BY <1>1, <1>2, <3>1, SubSeqProperties DEF l
    <3>3. (c - 1) - 1 + 1 = c - 1 /\ \A j \in 1..(c - 1) : 1 + j - 1 = j
      BY <1>2
    <3> QED BY <3>2, <3>3
  <2> QED BY <2>1, <2>2
<1>5. /\ new \in Seq(Mark) /\ Len(new) = k - 1
      /\ \A j \in 1..(k - 1) : new[j] = cs[j] /\ j \in 1..Len(cs) /\ j < k
  <2>1. CASE k = 1
    <3>1. new = <<>>
      BY <2>1, SubSeqEmpty
    <3> QED BY <2>1, <3>1, EmptySeq
  <2>2. CASE k # 1
    <3>1. k - 1 \in 0..Len(cs) /\ 1 <= k - 1 /\ 1 \in 1..(Len(cs) + 1)
      BY <1>3, <2>2
    <3>2. /\ new \in Seq(Mark) /\ Len(new) = (k - 1) - 1 + 1
          /\ \A j \in 1..((k - 1) - 1 + 1) : new[j] = cs[1 + j - 1]
      BY <1>1, <1>3, <3>1, SubSeqProperties
    <3>3. (k - 1) - 1 + 1 = k - 1
          /\ \A j \in 1..(k - 1) : 1 + j - 1 = j /\ j \in 1..Len(cs) /\ j < k
      BY <1>3
    <3> QED BY <3>2, <3>3
  <2> QED BY <2>1, <2>2
<1>6. Well(out)
  BY <1>1, <1>2, <1>4, PrefixKeeps
<1> HIDE DEF out, new
<1>7. DOMAIN out = 1..(c - 1) /\ DOMAIN ms = 1..l
  BY <1>1, <1>4, LenProperties DEF l
<1>8. \A i \in Users(out) : i \in Users(ms) /\ out[i] = ms[i]
  <2>1. \A i \in 1..(c - 1) : i \in 1..l
    BY <1>2
  <2> QED BY <1>4, <1>7, <2>1 DEF Users
<1>9. \A i \in Users(ms) : i < c => i \in Users(out)
  <2> SUFFICES ASSUME NEW i \in Users(ms), i < c
               PROVE  i \in Users(out)
    OBVIOUS
  <2>1. i \in 1..l /\ ms[i].role = "user"
    BY <1>7 DEF Users
  <2>2. i \in 1..(c - 1)
    BY <1>2, <2>1
  <2> QED BY <1>4, <1>7, <2>1, <2>2 DEF Users
<1>10. \A j \in 1..(k - 1) : cs[j].at \in Users(ms) /\ cs[j].at < c /\ cs[j].turn <= t
  BY <1>1, <1>5 DEF Marks, c
<1>11. Until(out, t)
  BY <1>1, <1>8 DEF Until
<1>12. Marks(out, new, t)
  <2>1. \A j \in 1..Len(new) : new[j].at \in Users(out) /\ new[j].turn <= t
    BY <1>5, <1>9, <1>10
  <2>2. ASSUME NEW i \in 1..Len(new), NEW j \in 1..Len(new), i < j
        PROVE  new[i].at < new[j].at /\ new[i].turn < new[j].turn
    <3>1. new[i] = cs[i] /\ new[j] = cs[j] /\ i \in 1..Len(cs) /\ j \in 1..Len(cs)
      BY <1>5
    <3> QED BY <1>1, <2>2, <3>1 DEF Marks
  <2> QED BY <1>5, <2>1, <2>2 DEF Marks, Mark
<1>13. ASSUME TextOnly
       PROVE  Clean(out, new)
  <2>1. Distinct(ms) /\ AllText(ms) /\ Splits(ms, cs)
    BY <1>1, <1>13 DEF Clean
  <2>2. Distinct(out)
    <3>1. \A i \in 1..((c - 1) - 1) : i \in 1..(c - 1) /\ i + 1 \in 1..(c - 1) /\ i \in 1..(l - 1)
      BY <1>2
    <3> QED BY <1>4, <2>1, <3>1 DEF Distinct, l
  <2>3. AllText(out)
    BY <1>8, <2>1 DEF AllText
  <2>4. Splits(out, new)
    <3> SUFFICES ASSUME NEW i \in 1..(k - 1)
                 PROVE  /\ cs[i].turn \in out[cs[i].at].of
                        /\ \A q \in Users(out) : \A u \in out[q].of :
                             /\ q < cs[i].at => u < cs[i].turn
                             /\ q > cs[i].at => u > cs[i].turn
      BY <1>5 DEF Splits
    <3>1. cs[i].at \in Users(out) /\ out[cs[i].at] = ms[cs[i].at] /\ i \in 1..Len(cs)
      BY <1>5, <1>8, <1>9, <1>10
    <3> QED BY <1>8, <2>1, <3>1 DEF Splits
  <2> QED BY <2>2, <2>3, <2>4 DEF Clean
<1> QED BY <1>6, <1>11, <1>12, <1>13 DEF Good, out, new, c

-----------------------------------------------------------------------------
(* The invariant is inductive.                                                *)

LEMMA InitInv ==
  ASSUME Init
  PROVE  IInv
<1>1. ScalarsOK
  BY Constants DEF Init, ScalarsOK
<1>2. TailInv
  BY DEF Init, TailInv
<1>3. Callers(<<>>) = {} /\ Users(<<>>) = {} /\ Len(<<>>) = 0
  BY EmptySeq DEF Callers, Users
<1>4. Well(<<>>)
  BY <1>3, EmptySeq DEF Well, Paired
<1>5. Until(<<>>, 0) /\ Marks(<<>>, <<>>, 0) /\ Clean(<<>>, <<>>)
  BY <1>3, EmptySeq DEF Until, Marks, Clean, Distinct, AllText, Splits
<1> QED BY <1>1, <1>2, <1>4, <1>5 DEF Init, IInv, Good

\* What an action may use of the invariant.
LEMMA Facts ==
  ASSUME IInv
  PROVE  /\ Good(msgs, cps, turn) /\ msgs \in Seq(Message) /\ cps \in Seq(Mark)
         /\ turn \in Nat /\ turn <= MaxTurns /\ step \in 0..MaxSteps /\ step \in Nat
         /\ nextCall \in Nat /\ nextCall >= 1 /\ nextCall <= MaxCalls + 1
         /\ at \in {"head", "summary", "model"} => Last(msgs).role \in {"user", "tool"} /\ msgs # <<>>
         /\ ~Open(msgs) \/ at \notin {"head", "summary", "model", "checks"}
BY Constants DEF IInv, ScalarsOK, TailInv, Good, Well, Marks, Mark, Open

LEMMA StutterInv ==
  ASSUME IInv, UNCHANGED vars
  PROVE  IInv'
<1>1. ScalarsOK'
  BY DEF IInv, ScalarsOK, vars
<1>2. TailInv'
  BY DEF IInv, TailInv, Open, Cuts, Users, vars
<1>3. Good(msgs', cps', turn')
  BY DEF IInv, vars
<1> QED BY <1>1, <1>2, <1>3 DEF IInv

\* begin_user_turn.
LEMMA BeginTurnInv ==
  ASSUME IInv, NEW content \in Content, BeginTurn(content)
  PROVE  IInv'
<1> DEFINE ms == RepairTail(msgs)
<1>1. Good(msgs, cps, turn) /\ turn \in Nat /\ turn < MaxTurns /\ turn' = turn + 1
  BY Facts DEF BeginTurn
<1>2. Good(ms, cps, turn) /\ ~Open(ms)
  BY <1>1, RepairGood
<1>3. /\ msgs' = PushUser(ms, User({turn + 1}, content))
      /\ cps' = IF cps # <<>> /\ Last(cps).at = Start(ms)
                THEN cps ELSE Append(cps, Checkpoint(Start(ms), turn + 1))
  BY DEF BeginTurn, Start
<1>4. turn + 1 \in Turn
  BY <1>1, Constants DEF Turn
<1> HIDE DEF ms
<1>5. Good(msgs', cps', turn + 1) /\ msgs' # <<>> /\ Last(msgs').role = "user"
  BY <1>1, <1>2, <1>3, <1>4, PromptGood
<1>6. ScalarsOK'
  BY <1>1, <1>4, Constants DEF IInv, BeginTurn, ScalarsOK, Turn
<1>7. at' = "head"
  BY DEF BeginTurn
<1>8. TailInv'
  BY <1>5, <1>7 DEF TailInv
<1> QED BY <1>1, <1>5, <1>6, <1>8 DEF IInv

\* The actions that leave the transcript alone.
LEMMA QuietInv ==
  ASSUME IInv,
         LoopStops \/ SendRequest \/ Summarize \/ NoReply \/ Converge \/ RunTool \/ Cancel
  PROVE  IInv'
<1>1. UNCHANGED <<msgs, cps, turn>>
  BY DEF LoopStops, SendRequest, Summarize, NoReply, Converge, RunTool, Cancel
<1>2. Good(msgs', cps', turn')
  BY <1>1 DEF IInv
<1>3. ScalarsOK' /\ TailInv'
  <2>1. CASE LoopStops \/ NoReply \/ Converge
    <3>1. at' = "idle" /\ UNCHANGED <<turn, step, cut, nextCall, ran>>
      BY <2>1 DEF LoopStops, NoReply, Converge
    <3>2. ScalarsOK'
      BY <3>1 DEF IInv, ScalarsOK
    <3> QED BY <3>1, <3>2 DEF TailInv
  <2>2. CASE SendRequest
    <3>1. /\ at = "head" /\ at' = "model" /\ step' = step + 1 /\ step < MaxSteps
          /\ UNCHANGED <<turn, cut, nextCall, ran>>
      BY <2>2 DEF SendRequest, Request
    <3>2. ScalarsOK'
      BY <3>1, Constants DEF IInv, ScalarsOK
    <3> QED BY <1>1, <3>1, <3>2 DEF IInv, TailInv
  <2>3. CASE Summarize
    <3>1. /\ at = "head" /\ at' = "summary" /\ step < MaxSteps /\ cut' \in Cuts(msgs)
          /\ UNCHANGED <<turn, step, nextCall, ran>>
      BY <2>3 DEF Summarize
    <3>2. cut' \in Nat
      BY <3>1, Facts, PromptsAreTurns DEF Cuts
    <3>3. ScalarsOK'
      BY <3>1, <3>2 DEF IInv, ScalarsOK
    <3> QED BY <1>1, <3>1, <3>3 DEF IInv, TailInv
  <2>4. CASE RunTool
    <3>1. PICK c \in Last(msgs).of : ran' = ran \cup {c}
      BY <2>4 DEF RunTool
    <3>2. at = "tools" /\ UNCHANGED <<msgs, at, turn, step, cut, nextCall>>
      BY <2>4 DEF RunTool
    <3>3. c \in Call
      <4>1. Open(msgs) /\ msgs \in Seq(Message)
        BY <3>2, Facts DEF IInv, TailInv
      <4> QED BY <4>1, OpenIs
    <3>4. ScalarsOK'
      BY <3>1, <3>2, <3>3 DEF IInv, ScalarsOK
    <3>5. TailInv'
      BY <3>2 DEF IInv, TailInv
    <3> QED BY <3>4, <3>5
  <2>5. CASE Cancel
    <3>1. at' = "idle" /\ cut' = 0 /\ UNCHANGED <<turn, step, nextCall, ran>>
      BY <2>5 DEF Cancel
    <3>2. ScalarsOK'
      BY <3>1 DEF IInv, ScalarsOK
    <3> QED BY <3>1, <3>2 DEF TailInv
  <2> QED BY <2>1, <2>2, <2>3, <2>4, <2>5
<1> QED BY <1>2, <1>3 DEF IInv

\* Compaction: the summary is there, or the model has refused the request.
LEMMA CompactionInv ==
  ASSUME IInv, Summarized \/ ForceFit
  PROVE  IInv'
<1>1. Good(msgs, cps, turn) /\ turn \in Nat /\ Last(msgs).role \in {"user", "tool"}
  BY Facts DEF Summarized, ForceFit
<1>2. \E c \in Cuts(msgs) : FoldAndTrim(c)
  BY DEF Summarized, ForceFit, IInv, TailInv
<1>3. turn' = turn /\ at' = "model" /\ UNCHANGED <<nextCall, ran>>
  BY DEF Summarized, ForceFit, Request
<1>4. Good(msgs', cps', turn) /\ msgs' # <<>> /\ Last(msgs').role \in {"user", "tool"}
  BY <1>1, <1>2, FoldAndTrimGood
<1>5. step' \in 0..MaxSteps /\ cut' \in Nat
  <2>1. CASE Summarized
    <3>1. step < MaxSteps /\ step' = step + 1 /\ cut' = 0
      BY <2>1 DEF IInv, TailInv, Summarized, Request
    <3> QED BY <3>1, Facts, Constants
  <2>2. CASE ForceFit
    BY <2>2 DEF ForceFit, IInv, ScalarsOK
  <2> QED BY <2>1, <2>2
<1>6. ScalarsOK'
  BY <1>3, <1>5 DEF IInv, ScalarsOK
<1>7. TailInv'
  BY <1>3, <1>4 DEF TailInv
<1> QED BY <1>3, <1>4, <1>6, <1>7 DEF IInv

\* A reply without tool calls, and what follows it.
LEMMA TextInv ==
  ASSUME IInv, LeakedCall \/ TextReply \/ AskAgain
  PROVE  IInv'
<1> DEFINE m == Assistant({})
           mid == Append(msgs, m)
<1>1. Good(msgs, cps, turn) /\ turn \in Nat
  BY Facts
<1>2. UNCHANGED <<cps, turn, step, cut, nextCall, ran>> /\ at' \in {"head", "checks"}
  BY DEF LeakedCall, TextReply, AskAgain
<1>3. m \in Message /\ m.role = "assistant" /\ m.of = {}
  BY Made
<1>4. ASSUME at = "model"
      PROVE  /\ Good(mid, cps, turn) /\ mid # <<>> /\ Last(mid).role = "assistant"
             /\ Last(mid).of = {} /\ ~Open(mid)
  <2>1. Good(mid, cps, turn) /\ mid # <<>> /\ Last(mid) = m
    BY <1>1, <1>3, <1>4, Facts, ReplyGood
  <2> QED BY <1>3, <2>1 DEF Open
<1> HIDE DEF mid, m
<1>5. ScalarsOK'
  BY <1>2 DEF IInv, ScalarsOK
<1>6. CASE LeakedCall
  <2>1. at = "model" /\ at' = "head" /\ msgs' = PushUser(mid, Nudge)
    BY <1>6 DEF LeakedCall, mid, m
  <2>2. Good(msgs', cps, turn) /\ msgs' # <<>> /\ Last(msgs').role = "user"
    BY <1>1, <1>4, <2>1, NudgeGood
  <2>3. TailInv'
    BY <2>1, <2>2 DEF TailInv
  <2> QED BY <1>2, <1>5, <2>2, <2>3 DEF IInv
<1>7. CASE TextReply
  <2>1. at = "model" /\ at' = "checks" /\ msgs' = mid
    BY <1>7 DEF TextReply, mid, m
  <2>2. TailInv'
    BY <1>4, <2>1 DEF TailInv
  <2> QED BY <1>2, <1>4, <1>5, <2>1, <2>2 DEF IInv
<1>8. CASE AskAgain
  <2>1. at = "checks" /\ at' = "head" /\ msgs' = PushUser(msgs, Nudge)
    BY <1>8 DEF AskAgain
  <2>2. ~Open(msgs)
    BY <2>1 DEF IInv, TailInv, Open
  <2>3. Good(msgs', cps, turn) /\ msgs' # <<>> /\ Last(msgs').role = "user"
    BY <1>1, <2>1, <2>2, NudgeGood
  <2>4. TailInv'
    BY <2>1, <2>3 DEF TailInv
  <2> QED BY <1>2, <1>5, <2>3, <2>4 DEF IInv
<1> QED BY <1>6, <1>7, <1>8

\* A reply that calls for tools.
LEMMA ToolReplyInv ==
  ASSUME IInv, ToolReply
  PROVE  IInv'
<1>1. PICK n \in 1..MaxBatch :
         /\ nextCall + n <= MaxCalls + 1
         /\ msgs' = Append(msgs, Assistant(nextCall..(nextCall + n - 1)))
         /\ nextCall' = nextCall + n
  BY DEF ToolReply
<1> DEFINE calls == nextCall..(nextCall + n - 1)
<1>2. at = "model" /\ at' = "tools" /\ UNCHANGED <<cps, turn, step, cut, ran>>
  BY DEF ToolReply
<1>3. nextCall \in Nat /\ nextCall >= 1 /\ n \in Nat /\ n >= 1
  BY Facts, Constants
<1>4. calls \in SUBSET Call /\ calls # {}
  <2>1. nextCall \in calls
    BY <1>3
  <2>2. calls \subseteq Call
    BY <1>1, <1>3, Constants DEF Call
  <2> QED BY <2>1, <2>2
<1> HIDE DEF calls
<1>5. /\ Assistant(calls) \in Message /\ Assistant(calls).role = "assistant"
      /\ Assistant(calls).of = calls
  BY <1>4, Made
<1>6. Good(msgs', cps, turn) /\ msgs' # <<>> /\ Last(msgs') = Assistant(calls)
  <2>1. Good(msgs, cps, turn) /\ msgs # <<>> /\ Last(msgs).role \in {"user", "tool"}
    BY <1>2, Facts
  <2> QED BY <1>1, <1>5, <2>1, ReplyGood DEF calls
<1>7. ScalarsOK'
  <2>1. nextCall' \in 1..(MaxCalls + 1)
    BY <1>1, <1>3, Constants
  <2> QED BY <1>2, <2>1 DEF IInv, ScalarsOK
<1>8. TailInv'
  BY <1>2, <1>4, <1>5, <1>6 DEF TailInv, Open
<1> QED BY <1>2, <1>6, <1>7, <1>8 DEF IInv

\* The results of its calls.
LEMMA ToolResultsInv ==
  ASSUME IInv, ToolResults
  PROVE  IInv'
<1> DEFINE calls == Last(msgs).of
           rs == [k \in 1..Cardinality(calls) |-> Result(InOrder(calls)[k])]
<1>1. /\ at = "tools" /\ at' = "head" /\ msgs' = msgs \o rs
      /\ UNCHANGED <<cps, turn, step, cut, nextCall, ran>>
  BY DEF ToolResults
<1>2. Open(msgs) /\ Good(msgs, cps, turn) /\ msgs \in Seq(Message)
  BY <1>1, Facts DEF IInv, TailInv
<1>3. calls \in SUBSET Call
  BY <1>2, OpenIs
<1>4. ASSUME NEW k \in 1..Cardinality(calls)
      PROVE  /\ Result(InOrder(calls)[k]) \in Message
             /\ Result(InOrder(calls)[k]).role = "tool"
             /\ Result(InOrder(calls)[k]).of = {InOrder(calls)[k]}
  <2>1. InOrder(calls)[k] \in Call
    <3> HIDE DEF calls
    <3>1. InOrder(calls) \in [1..Cardinality(calls) -> calls]
      BY <1>3, InOrderIs
    <3> QED BY <1>3, <3>1
  <2> QED BY <2>1, Made
<1>5. /\ rs \in [1..Cardinality(calls) -> Message]
      /\ \A k \in 1..Cardinality(calls) :
           rs[k].role = "tool" /\ rs[k].of = {InOrder(calls)[k]}
  BY <1>4
<1> HIDE DEF rs
<1>6. AreResults(calls, rs)
  BY <1>3, <1>5, ResultsInOrder
<1>7. Good(msgs', cps, turn) /\ msgs' # <<>> /\ Last(msgs').role = "tool"
  BY <1>1, <1>2, <1>6, ResultsGood
<1>8. ScalarsOK'
  BY <1>1 DEF IInv, ScalarsOK
<1>9. TailInv'
  BY <1>1, <1>7 DEF TailInv
<1> QED BY <1>1, <1>7, <1>8, <1>9 DEF IInv

\* A resume and a rewind.
LEMMA RestoreInv ==
  ASSUME IInv, Restore
  PROVE  IInv'
<1>1. at = "idle" /\ cps' = <<>> /\ UNCHANGED <<msgs, at, turn, step, cut, nextCall, ran>>
  BY DEF Restore
<1>2. Marks(msgs, <<>>, turn) /\ Splits(msgs, <<>>)
  BY EmptySeq DEF Marks, Splits
<1>3. Good(msgs', cps', turn')
  BY <1>1, <1>2 DEF IInv, Good, Clean
<1>4. ScalarsOK'
  BY <1>1 DEF IInv, ScalarsOK
<1>5. TailInv'
  BY <1>1 DEF TailInv
<1> QED BY <1>3, <1>4, <1>5 DEF IInv

LEMMA RewindInv ==
  ASSUME IInv, Rewind
  PROVE  IInv'
<1>1. at = "idle" /\ UNCHANGED <<at, turn, step, cut, nextCall, ran>>
  BY DEF Rewind
<1>2. PICK k \in DOMAIN cps : /\ msgs' = SubSeq(msgs, 1, cps[k].at - 1)
                              /\ cps' = SubSeq(cps, 1, k - 1)
  BY DEF Rewind
<1>3. k \in 1..Len(cps) /\ Good(msgs, cps, turn)
  BY Facts, LenProperties
<1>4. Good(msgs', cps', turn')
  BY <1>1, <1>2, <1>3, RewindGood
<1>5. ScalarsOK'
  BY <1>1 DEF IInv, ScalarsOK
<1>6. TailInv'
  BY <1>1 DEF TailInv
<1> QED BY <1>4, <1>5, <1>6 DEF IInv

LEMMA StepInv ==
  ASSUME IInv, [Next]_vars
  PROVE  IInv'
<1>1. CASE \E content \in Content : BeginTurn(content)
  BY <1>1, BeginTurnInv
<1>2. CASE LoopStops \/ SendRequest \/ Summarize \/ NoReply \/ Converge \/ RunTool \/ Cancel
  BY <1>2, QuietInv
<1>3. CASE Summarized \/ ForceFit
  BY <1>3, CompactionInv
<1>4. CASE LeakedCall \/ TextReply \/ AskAgain
  BY <1>4, TextInv
<1>5. CASE ToolReply
  BY <1>5, ToolReplyInv
<1>6. CASE ToolResults
  BY <1>6, ToolResultsInv
<1>7. CASE Restore
  BY <1>7, RestoreInv
<1>8. CASE Rewind
  BY <1>8, RewindInv
<1>9. CASE UNCHANGED vars
  BY <1>9, StutterInv
<1> QED BY <1>1, <1>2, <1>3, <1>4, <1>5, <1>6, <1>7, <1>8, <1>9 DEF Next

\* The invariant holds of every behaviour of the engine.
THEOREM InvHolds == Spec => []IInv
<1>1. Init => IInv
  BY InitInv
<1>2. IInv /\ [Next]_vars => IInv'
  BY StepInv
<1> QED BY <1>1, <1>2, PTL DEF Spec

-----------------------------------------------------------------------------
(* What it says of the engine.                                                *)

\* Messages, checkpoints and counters have their types, for every number of
\* steps, turns, calls and calls of a reply.
THEOREM TypesHold == Spec => []TypeOK
<1>1. IInv => TypeOK
  BY DEF IInv, ScalarsOK, Good, Well, Marks, TypeOK
<1> QED BY <1>1, InvHolds, PTL

\* Every request can be sent: whatever was dropped, repaired, compacted, rewound
\* or restored before it, each tool call in it is answered right after it.
THEOREM EveryCallIsAnswered == Spec => []EveryCallAnswered
<1>1. ASSUME IInv
      PROVE  EveryCallAnswered
  <2> SUFFICES ASSUME at = "model"
               PROVE  /\ \A i \in Callers(msgs) :
                           /\ Answered(msgs, i) = msgs[i].of
                           /\ RunEnd(msgs, i) - i = Cardinality(msgs[i].of)
                      /\ \A k \in DOMAIN msgs : msgs[k].role = "tool" =>
                           \E i \in Callers(msgs) : i < k /\ k <= RunEnd(msgs, i)
    BY DEF EveryCallAnswered
  <2>1. msgs \in Seq(Message) /\ Paired(msgs) /\ ~Open(msgs)
    BY <1>1, Facts DEF IInv, Good, Well
  <2>2. \A i \in Callers(msgs) :
          /\ i \in Nat /\ Cardinality(msgs[i].of) \in Nat
          /\ RunEnd(msgs, i) = i + Cardinality(msgs[i].of)
          /\ Answered(msgs, i) = msgs[i].of
    BY <2>1, Closed, CompleteRun, CallersIn
  <2>3. \A i \in Callers(msgs) : RunEnd(msgs, i) - i = Cardinality(msgs[i].of)
    BY <2>2
  <2>4. ASSUME NEW k \in DOMAIN msgs, msgs[k].role = "tool"
        PROVE  \E i \in Callers(msgs) : i < k /\ k <= RunEnd(msgs, i)
    <3>1. k \in 1..Len(msgs)
      BY <2>1, LenProperties
    <3>2. PICK i \in Callers(msgs) : i < k /\ k <= i + Cardinality(msgs[i].of)
      BY <2>1, <2>4, <3>1 DEF Paired
    <3> QED BY <2>2, <3>2
  <2> QED BY <2>2, <2>3, <2>4
<1> QED BY <1>1, InvHolds, PTL

\* Every request opens with a user message, after any compaction and rewind.
THEOREM RequestsOpenWithUser == Spec => []OpensWithUser
<1>1. ASSUME IInv
      PROVE  OpensWithUser
  <2> SUFFICES ASSUME at = "model"
               PROVE  1 \in Users(msgs)
    BY DEF OpensWithUser
  <2>1. msgs \in Seq(Message) /\ msgs # <<>> /\ msgs[1].role = "user"
    BY <1>1, Facts DEF IInv, Good, Well
  <2>2. Len(msgs) \in Nat \ {0}
    BY <2>1, EmptySeq
  <2> QED BY <2>1, <2>2, LenProperties DEF Users
<1> QED BY <1>1, InvHolds, PTL

\* "The engine must never hold two consecutive same-role messages": true as long
\* as no prompt has images.
THEOREM NoTwoAlikeHolds == TextOnly => (Spec => []NoTwoAlike)
<1> SUFFICES ASSUME TextOnly
             PROVE  Spec => []NoTwoAlike
  OBVIOUS
<1>1. IInv => NoTwoAlike
  BY DEF IInv, Good, Clean, Distinct, NoTwoAlike
<1> QED BY <1>1, InvHolds, PTL

\* As long as no prompt has images, a checkpoint stays at the message that opens
\* its turn, through every merge, compaction, trim and rewind.
THEOREM CheckpointsSplit == TextOnly => (Spec => []CheckpointsSplitTurns)
<1> SUFFICES ASSUME TextOnly
             PROVE  Spec => []CheckpointsSplitTurns
  OBVIOUS
<1>1. ASSUME IInv
      PROVE  CheckpointsSplitTurns
  <2>1. Marks(msgs, cps, turn) /\ Splits(msgs, cps) /\ DOMAIN cps = 1..Len(cps)
    BY <1>1, Facts, LenProperties DEF IInv, Good, Clean
  <2> QED BY <2>1 DEF Marks, Splits, CheckpointsSplitTurns
<1> QED BY <1>1, InvHolds, PTL

=============================================================================
