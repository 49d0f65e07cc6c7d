--------------------------- MODULE AgentRun_proofs ---------------------------
(***************************************************************************)
(* Conversations and their traces, for every limit on turns, depth,        *)
(* retries and calls, and every set of faults.                             *)
(***************************************************************************)
EXTENDS AgentRun, FiniteSetTheorems, SequenceTheorems, TLAPS

Messages == [role : {"system", "user", "assistant", "tool"}, of : 0 .. MaxCalls]
TraceRows == [role : {"assistant", "tool", "gap"}, of : 0 .. MaxCalls]

\* The first n messages are complete: their calls are answered among them.
Answered(messages, n) ==
  /\ \A k \in 1 .. n : messages[k].role = "assistant" =>
       LET last == k + messages[k].of
       IN  /\ last <= n
           /\ \A c \in 1 .. messages[k].of : messages[k + c] = Message("tool", c)
           /\ last < Len(messages) => messages[last + 1].role # "tool"
  /\ \A k \in DOMAIN messages : messages[k].role = "tool" =>
       k > 1 /\ messages[k - 1].role \in {"assistant", "tool"}

\* All that was said is in messages 3 to n, and there is a row for each.
Tracked(rows, messages, n) ==
  /\ Len(rows) = n - 2
  /\ Spoken(messages) = 3 .. n
  /\ \A k \in 1 .. n - 2 : rows[k] \in {messages[k + 2], Gap}

\* The assistant message at a makes more calls than are answered so far.
AnswersFrom(messages, calls, a) ==
  /\ Answered(messages, a - 1)
  /\ messages[a] = Message("assistant", Len(messages) - a + Len(calls))
  /\ \A c \in 1 .. Len(messages) - a : messages[a + c] = Message("tool", c)

\* A run that acts, or waits for the child that does.
Waiting(run) ==
  /\ run.at = "act" /\ run.calls # <<>> /\ run.turns < MaxTurns
  /\ Tracked(run.rows, run.messages, Len(run.messages))
  /\ \E a \in 3 .. Len(run.messages) : AnswersFrom(run.messages, run.calls, a)

\* A run that asks the LLM.
Ready(run) ==
  /\ run.calls = <<>> /\ WellFormed(run.messages)
  /\ \/ /\ run.at = "think" /\ run.turns < MaxTurns
        /\ Tracked(run.rows, run.messages, Len(run.messages))
     \/ /\ run.at = "summary" /\ run.turns = MaxTurns
        /\ Tracked(run.rows, run.messages, Len(run.messages) - 1)

\* The run on top asks or acts, and every run below waits.
Nested(s) ==
  /\ s \in Seq(Runs) /\ Len(s) <= MaxDepth + 1
  /\ \A k \in 1 .. Len(s) : Waiting(s[k]) \/ (k = Len(s) /\ Ready(s[k]))

\* The run that returned just now.
Returned ==
  /\ finished # NoRun =>
       /\ finished.end \in {"ok"} \cup Causes
       /\ finished.run \in Runs
       /\ finished.run.turns < MaxTurns =>
            Traces(finished.run.rows, finished.run.messages \o finished.said)
  /\ FailsByItsOwnRequest

IInv ==
  /\ Nested(stack)
  /\ Returned
  /\ attempt \in 0 .. MaxRetries
  /\ outcome \in {"none", "ok"} \cup Causes

-----------------------------------------------------------------------------
(* Sequences.                                                              *)

\* A bounded sequence is a sequence, and short.
LEMMA Bounded ==
  ASSUME NEW S, NEW n \in Nat, NEW s
  PROVE  s \in BoundedSeq(S, n) <=> s \in Seq(S) /\ Len(s) <= n
<1>1. ASSUME s \in BoundedSeq(S, n) PROVE s \in Seq(S) /\ Len(s) <= n
  <2>1. PICK m \in 0 .. n : s \in [1 .. m -> S]
    BY <1>1 DEF BoundedSeq, SeqOf
  <2> QED
    BY <2>1
<1>2. ASSUME s \in Seq(S), Len(s) <= n PROVE s \in BoundedSeq(S, n)
  <2>1. s \in [1 .. Len(s) -> S] /\ Len(s) \in 0 .. n
    BY <1>2
  <2> QED
    BY <2>1 DEF BoundedSeq, SeqOf
<1> QED
  BY <1>1, <1>2

LEMMA FrontOf ==
  ASSUME NEW S, NEW s \in Seq(S), s # <<>>
  PROVE  /\ Front(s) \in Seq(S) /\ Len(Front(s)) = Len(s) - 1
         /\ \A k \in 1 .. Len(s) - 1 : Front(s)[k] = s[k]
<1>1. Len(s) \in Nat \ {0} /\ \A k \in 1 .. Len(s) - 1 : s[k] \in S
  OBVIOUS
<1>2. /\ SubSeq(s, 1, Len(s) - 1) \in Seq(S)
      /\ Len(SubSeq(s, 1, Len(s) - 1)) = IF 1 <= Len(s) - 1 THEN Len(s) - 1 - 1 + 1 ELSE 0
      /\ \A k \in 1 .. Len(s) - 1 - 1 + 1 : SubSeq(s, 1, Len(s) - 1)[k] = s[1 + k - 1]
  BY <1>1, SubSeqProperties
<1>3. Front(s) = SubSeq(s, 1, Len(s) - 1)
  BY DEF Front
<1> DEFINE n == Len(s) - 1
<1>4. n \in Nat
  BY <1>1
<1> HIDE DEF n
<1>5. /\ \A k \in 1 .. n : 1 + k - 1 = k /\ k \in 1 .. n - 1 + 1
      /\ (IF 1 <= n THEN n - 1 + 1 ELSE 0) = n
  BY <1>4
<1> QED
  BY <1>2, <1>3, <1>5 DEF n

\* What is below the top stays; a new top takes its place.
LEMMA Replaced ==
  ASSUME NEW S, NEW s \in Seq(S), s # <<>>, NEW x \in S
  PROVE  LET t == Append(Front(s), x)
         IN  /\ t \in Seq(S) /\ Len(t) = Len(s) /\ t[Len(s)] = x
             /\ \A k \in 1 .. Len(s) - 1 : t[k] = s[k]
<1>1. Len(s) \in Nat \ {0}
  OBVIOUS
<1>2. /\ Front(s) \in Seq(S) /\ Len(Front(s)) = Len(s) - 1
      /\ \A k \in 1 .. Len(s) - 1 : Front(s)[k] = s[k]
  BY FrontOf
<1> QED
  BY <1>1, <1>2

LEMMA Pair ==
  ASSUME NEW S, NEW x \in S, NEW y \in S
  PROVE  Append(<<x>>, y) = <<x, y>>
<1> DEFINE s == Append(<<x>>, y)
           t == <<x, y>>
<1>1. s \in Seq(S) /\ Len(s) = 2 /\ s[1] = x /\ s[2] = y
  OBVIOUS
<1>2. t \in Seq(S) /\ Len(t) = 2 /\ t[1] = x /\ t[2] = y
  OBVIOUS
<1> HIDE DEF s, t
<1>3. \A k \in 1 .. Len(s) : s[k] = t[k]
  BY <1>1, <1>2
<1>4. s = t
  BY <1>1, <1>2, <1>3, SeqEqual
<1> QED
  BY <1>4 DEF s, t

-----------------------------------------------------------------------------
(* One run.                                                                *)

LEMMA RunFields ==
  ASSUME NEW run \in Runs
  PROVE  /\ run.at \in {"think", "act", "summary"} /\ run.turns \in 0 .. MaxTurns
         /\ run.calls \in Seq(CallKinds) /\ Len(run.calls) <= MaxCalls
         /\ run.messages \in Seq(Messages) /\ run.rows \in Seq(TraceRows)
<1>1. run.calls \in BoundedSeq(CallKinds, MaxCalls)
  BY DEF Runs
<1>2. run.calls \in Seq(CallKinds) /\ Len(run.calls) <= MaxCalls
  BY <1>1, Bounded, BoundsAssumption
<1> QED
  BY <1>2 DEF Runs, Messages, TraceRows

\* The last assistant message is the one whose calls are under way.
LEMMA AskedAt ==
  ASSUME NEW run \in Runs, NEW a \in 3 .. Len(run.messages),
         AnswersFrom(run.messages, run.calls, a)
  PROVE  Asked(run) = a /\ NextCall(run) = Len(run.messages) - a + 1
<1> DEFINE messages == run.messages
           At == {i \in 1 .. Len(messages) : messages[i].role = "assistant"}
<1>0. messages \in Seq(Messages) /\ Len(messages) \in Nat /\ Len(run.calls) \in Nat
  BY RunFields
<1>1. a \in At
  BY <1>0 DEF AnswersFrom, Message
<1>2. ASSUME NEW i \in At PROVE a >= i
  <2> SUFFICES ASSUME i > a PROVE FALSE
    BY <1>0
  <2>1. i - a \in 1 .. Len(messages) - a /\ i = a + (i - a)
    BY <1>0
  <2>2. messages[i] = Message("tool", i - a)
    BY <2>1 DEF AnswersFrom
  <2> QED
    BY <2>2 DEF Message
<1>3. Max(At) = a
  <2>1. \A i \in At : i \in Nat
    BY <1>0
  <2>2. \A b \in At : (\A i \in At : b >= i) => b = a
    BY <1>0, <1>1, <1>2, <2>1
  <2> HIDE DEF At
  <2> QED
    BY <1>1, <1>2, <2>2 DEF Max
<1>4. Asked(run) = IF At # {} THEN Max(At) ELSE 0
  BY DEF Asked, SelectLastInSeq
<1> HIDE DEF At
<1>5. Asked(run) = a
  BY <1>1, <1>3, <1>4
<1>6. messages[a].of = Len(messages) - a + Len(run.calls)
  BY DEF AnswersFrom, Message
<1>7. NextCall(run) = messages[Asked(run)].of - Len(run.calls) + 1
  BY DEF NextCall
<1> HIDE DEF messages
<1>8. NextCall(run) = Len(messages) - a + Len(run.calls) - Len(run.calls) + 1
  BY <1>5, <1>6, <1>7
<1>9. Len(messages) - a + Len(run.calls) - Len(run.calls) + 1 = Len(messages) - a + 1
  BY <1>0
<1> QED
  BY <1>5, <1>8, <1>9 DEF messages

\* Adding one message to a conversation.
LEMMA Added ==
  ASSUME NEW messages \in Seq(Messages), NEW m \in Messages
  PROVE  LET t == Append(messages, m)
         IN  /\ t \in Seq(Messages) /\ Len(messages) \in Nat
             /\ Len(t) = Len(messages) + 1 /\ DOMAIN t = 1 .. Len(messages) + 1
             /\ t[Len(messages) + 1] = m
             /\ \A k \in 1 .. Len(messages) : t[k] = messages[k]
             /\ \A k \in 1 .. Len(messages) + 1 : t[k].of \in Nat /\ t[k] \in Messages
             /\ \A k \in 1 .. Len(messages) : messages[k].of \in Nat
             /\ Spoken(t) = Spoken(messages) \cup
                  (IF m.role \in {"assistant", "tool"} THEN {Len(messages) + 1} ELSE {})
<1> DEFINE t == Append(messages, m)
           n == Len(messages)
<1>1. /\ t \in Seq(Messages) /\ n \in Nat /\ Len(t) = n + 1 /\ DOMAIN t = 1 .. n + 1
      /\ t[n + 1] = m /\ \A k \in 1 .. n : t[k] = messages[k]
  OBVIOUS
<1>2. \A k \in 1 .. n : messages[k] \in Messages
  OBVIOUS
<1>3. \A x \in Messages : x.of \in Nat
  BY BoundsAssumption DEF Messages
<1>4. DOMAIN messages = 1 .. n
  OBVIOUS
<1> HIDE DEF t, n
<1>5. \A k \in 1 .. n + 1 : t[k] \in Messages /\ t[k].of \in Nat
  BY <1>1, <1>2, <1>3
<1>6. \A k \in 1 .. n : messages[k].of \in Nat
  BY <1>2, <1>3
<1>7. \A k : k \in 1 .. n + 1 <=> k \in 1 .. n \/ k = n + 1
  BY <1>1
<1>8. Spoken(t) = Spoken(messages) \cup
                  (IF m.role \in {"assistant", "tool"} THEN {n + 1} ELSE {})
  BY <1>1, <1>4, <1>7 DEF Spoken
<1> QED
  BY <1>1, <1>5, <1>6, <1>8 DEF t, n

\* A row is inserted for what is said.
LEMMA SaidTracked ==
  ASSUME NEW messages \in Seq(Messages), NEW rows \in Seq(TraceRows),
         NEW m \in Messages, m.role \in {"assistant", "tool"},
         Len(messages) >= 2, Tracked(rows, messages, Len(messages)),
         NEW new \in Traced(rows, m)
  PROVE  /\ new \in Seq(TraceRows)
         /\ Tracked(new, Append(messages, m), Len(messages) + 1)
<1> DEFINE t == Append(messages, m)
           n == Len(messages)
<1>1. PICK r \in {m, Gap} : new = Append(rows, r)
  BY DEF Traced
<1>2. r \in TraceRows
  BY BoundsAssumption DEF Gap, Message, TraceRows, Messages
<1>3. /\ n \in Nat /\ t[n + 1] = m /\ \A k \in 1 .. n : t[k] = messages[k]
      /\ Spoken(t) = Spoken(messages) \cup {n + 1}
  BY Added
<1>4. Len(rows) = n - 2 /\ n >= 2 /\ Spoken(messages) = 3 .. n
  BY DEF Tracked
<1> HIDE DEF t, n
<1>5. Spoken(t) = 3 .. n + 1
  BY <1>3, <1>4
<1>6. /\ new \in Seq(TraceRows) /\ Len(new) = n - 1 /\ new[n - 1] = r
      /\ \A k \in 1 .. n - 2 : new[k] = rows[k]
  BY <1>1, <1>2, <1>3, <1>4
<1>7. ASSUME NEW k \in 1 .. n - 1 PROVE new[k] \in {t[k + 2], Gap}
  <2>1. CASE k = n - 1
    BY <1>1, <1>3, <1>6, <2>1
  <2>2. CASE k \in 1 .. n - 2
    <3>1. rows[k] \in {messages[k + 2], Gap}
      BY <2>2 DEF Tracked, n
    <3> QED
      BY <1>3, <1>4, <1>6, <2>2, <3>1
  <2> QED
    BY <1>3, <2>1, <2>2
<1>8. Len(new) = (n + 1) - 2 /\ (n + 1) - 2 = n - 1
  BY <1>3, <1>6
<1>9. Tracked(new, t, n + 1)
  BY <1>5, <1>7, <1>8 DEF Tracked
<1> QED
  BY <1>6, <1>9 DEF t, n

\* No row for the request of a summary.
LEMMA AskedTracked ==
  ASSUME NEW messages \in Seq(Messages), NEW rows, Len(messages) >= 2,
         Tracked(rows, messages, Len(messages))
  PROVE  Tracked(rows, Append(messages, Message("user", 0)), Len(messages))
<1> DEFINE m == Message("user", 0)
<1>1. m \in Messages /\ m.role \notin {"assistant", "tool"}
  BY BoundsAssumption DEF Message, Messages
<1> HIDE DEF m
<1>2. Spoken(Append(messages, m)) = Spoken(messages)
  <2>1. Spoken(Append(messages, m)) = Spoken(messages) \cup
          (IF m.role \in {"assistant", "tool"} THEN {Len(messages) + 1} ELSE {})
    BY <1>1, Added
  <2> QED
    BY <1>1, <2>1
<1>3. \A k \in 1 .. Len(messages) - 2 :
        Append(messages, m)[k + 2] = messages[k + 2]
  BY <1>1
<1> QED
  BY <1>2, <1>3 DEF Tracked, m

-----------------------------------------------------------------------------
(* Conversations.                                                          *)

LEMMA WholeAnswered ==
  ASSUME NEW messages \in Seq(Messages)
  PROVE  WellFormed(messages) <=> Answered(messages, Len(messages))
BY DEF WellFormed, Answered

\* What was complete stays so, if what is added is no answer to it.
LEMMA StillAnswered ==
  ASSUME NEW messages \in Seq(Messages), NEW m \in Messages,
         NEW b \in 0 .. Len(messages), Answered(messages, b),
         b < Len(messages) \/ m.role # "tool",
         m.role = "tool" =>
           Len(messages) >= 1 /\ messages[Len(messages)].role \in {"assistant", "tool"}
  PROVE  Answered(Append(messages, m), b)
<1> DEFINE t == Append(messages, m)
           n == Len(messages)
<1>1. /\ n \in Nat /\ Len(t) = n + 1 /\ DOMAIN t = 1 .. n + 1 /\ t[n + 1] = m
      /\ \A k \in 1 .. n : t[k] = messages[k]
      /\ \A k \in 1 .. n : messages[k].of \in Nat
  BY Added
<1>2. /\ Answered(messages, b) /\ DOMAIN messages = 1 .. n
      /\ b \in Nat /\ b <= n /\ (b < n \/ m.role # "tool")
      /\ m.role = "tool" => n >= 1 /\ messages[n].role \in {"assistant", "tool"}
  BY <1>1
<1>3. Len(messages) = n
  OBVIOUS
<1> HIDE DEF t, n
<1>4. n \in Nat /\ Len(t) = n + 1 /\ \A k \in 1 .. n : t[k] = messages[k]
  BY <1>1
<1>5. ASSUME NEW k \in 1 .. b, t[k].role = "assistant"
      PROVE  LET last == k + t[k].of
             IN  /\ last <= b
                 /\ \A c \in 1 .. t[k].of : t[k + c] = Message("tool", c)
                 /\ last < Len(t) => t[last + 1].role # "tool"
  <2> DEFINE of == messages[k].of
  <2>1. of \in Nat /\ t[k].of = of /\ t[k].role = messages[k].role /\ k \in 1 .. n
    BY <1>1, <1>2
  <2>2. /\ k + of <= b
        /\ \A c \in 1 .. of : messages[k + c] = Message("tool", c)
        /\ k + of < n => messages[k + of + 1].role # "tool"
    BY <1>2, <1>3, <1>5, <2>1 DEF Answered
  <2> HIDE DEF of
  <2>3. \A c \in 1 .. of : k + c \in 1 .. n
    BY <1>2, <1>4, <2>1, <2>2
  <2>4. \A c \in 1 .. of : t[k + c] = Message("tool", c)
    BY <1>4, <2>2, <2>3
  <2>5. t[k + of + 1].role # "tool"
    <3>1. CASE k + of < n
      <4>1. k + of + 1 \in 1 .. n
        BY <1>4, <2>1, <3>1
      <4> QED
        BY <1>4, <2>2, <3>1, <4>1
    <3>2. CASE k + of = n
      <4>1. b = n
        BY <1>2, <1>4, <2>1, <2>2, <3>2
      <4> QED
        BY <1>1, <1>2, <3>2, <4>1
    <3>3. k + of <= n
      BY <1>2, <1>4, <2>1, <2>2
    <3> QED
      BY <1>4, <2>1, <3>1, <3>2, <3>3
  <2> QED
    BY <2>1, <2>2, <2>4, <2>5
<1>6. ASSUME NEW k \in 1 .. n + 1, t[k].role = "tool"
      PROVE  k > 1 /\ t[k - 1].role \in {"assistant", "tool"}
  <2>1. CASE k \in 1 .. n
    <3>1. messages[k].role = "tool"
      BY <1>4, <1>6, <2>1
    <3>2. k > 1 /\ messages[k - 1].role \in {"assistant", "tool"}
      BY <1>2, <2>1, <3>1 DEF Answered
    <3>3. k - 1 \in 1 .. n
      BY <1>4, <2>1, <3>2
    <3> QED
      BY <1>4, <3>2, <3>3
  <2>2. CASE k = n + 1
    <3>1. n >= 1 /\ messages[n].role \in {"assistant", "tool"}
      BY <1>1, <1>2, <1>6, <2>2
    <3>2. k > 1 /\ k - 1 = n /\ n \in 1 .. n
      BY <1>4, <2>2, <3>1
    <3> QED
      BY <1>4, <3>1, <3>2
  <2> QED
    BY <1>4, <2>1, <2>2
<1>7. Answered(t, b)
  BY <1>1, <1>5, <1>6 DEF Answered
<1> QED
  BY <1>7 DEF t

\* The LLM's calls follow a complete conversation.
LEMMA CallsFollow ==
  ASSUME NEW messages \in Seq(Messages), WellFormed(messages),
         NEW calls \in Seq(CallKinds), Len(calls) <= MaxCalls
  PROVE  AnswersFrom(Append(messages, Message("assistant", Len(calls))), calls,
                     Len(messages) + 1)
<1> DEFINE m == Message("assistant", Len(calls))
           t == Append(messages, m)
           n == Len(messages)
<1>1. m \in Messages /\ Len(calls) \in Nat /\ m.role = "assistant"
  BY BoundsAssumption DEF Message, Messages
<1>2. n \in Nat /\ Len(t) = n + 1 /\ t[n + 1] = m
  BY <1>1, Added
<1>3. Answered(messages, n) /\ n \in 0 .. n
  BY <1>2, WholeAnswered
<1>4. Answered(t, n)
  <2> HIDE DEF m
  <2> QED
    BY <1>1, <1>3, StillAnswered
<1> HIDE DEF t, n
<1>5. (n + 1) - 1 = n /\ Len(t) - (n + 1) = 0 /\ 0 + Len(calls) = Len(calls)
  BY <1>1, <1>2
<1>6. AnswersFrom(t, calls, n + 1)
  BY <1>2, <1>4, <1>5 DEF AnswersFrom
<1> QED
  BY <1>6 DEF t, n

\* A message answers the next call.
LEMMA AnswerAdded ==
  ASSUME NEW messages \in Seq(Messages), NEW calls \in Seq(CallKinds),
         NEW a \in 3 .. Len(messages), AnswersFrom(messages, calls, a),
         NEW m \in Messages, m = Message("tool", Len(messages) + 1 - a)
  PROVE  LET t == Append(messages, m)
         IN  /\ Answered(t, a - 1)
             /\ t[a] = Message("assistant", Len(messages) - a + Len(calls))
             /\ \A c \in 1 .. Len(messages) + 1 - a : t[a + c] = Message("tool", c)
<1> DEFINE t == Append(messages, m)
           n == Len(messages)
<1>1. n \in Nat /\ t[n + 1] = m /\ \A k \in 1 .. n : t[k] = messages[k]
  BY Added
<1>2. a \in Nat /\ 3 <= a /\ a <= n
  BY <1>1
<1>3. /\ Answered(messages, a - 1)
      /\ messages[a] = Message("assistant", n - a + Len(calls))
      /\ \A c \in 1 .. n - a : messages[a + c] = Message("tool", c)
  BY DEF AnswersFrom
<1>4. m = Message("tool", n + 1 - a)
  OBVIOUS
<1>5. \A x : Message("assistant", x).role = "assistant" /\ Message("tool", x).role = "tool"
  BY DEF Message
<1> HIDE DEF n
<1>6. messages[n].role \in {"assistant", "tool"}
  <2>1. CASE n = a
    BY <1>3, <1>5, <2>1
  <2>2. CASE n # a
    <3>1. n - a \in 1 .. n - a /\ a + (n - a) = n
      BY <1>1, <1>2, <2>2
    <3> QED
      BY <1>3, <1>5, <3>1
  <2> QED
    BY <2>1, <2>2
<1>7. a - 1 \in 0 .. n /\ a - 1 < n /\ n >= 1
  BY <1>1, <1>2
<1>8. Answered(t, a - 1)
  BY <1>3, <1>6, <1>7, StillAnswered DEF n
<1> HIDE DEF t
<1>9. t[a] = Message("assistant", n - a + Len(calls))
  BY <1>1, <1>2, <1>3
<1>10. ASSUME NEW c \in 1 .. n + 1 - a PROVE t[a + c] = Message("tool", c)
  <2>1. CASE c \in 1 .. n - a
    <3>1. a + c \in 1 .. n
      BY <1>1, <1>2, <2>1
    <3> QED
      BY <1>1, <1>3, <2>1, <3>1
  <2>2. CASE c = n + 1 - a
    <3>1. a + c = n + 1
      BY <1>1, <1>2, <2>2
    <3> QED
      BY <1>1, <1>4, <2>2, <3>1
  <2> QED
    BY <1>1, <1>2, <2>1, <2>2
<1> QED
  BY <1>8, <1>9, <1>10 DEF t, n

\* It leaves calls to answer ...
LEMMA AnswerFollows ==
  ASSUME NEW messages \in Seq(Messages), NEW calls \in Seq(CallKinds), Len(calls) > 1,
         NEW a \in 3 .. Len(messages), AnswersFrom(messages, calls, a),
         NEW m \in Messages, m = Message("tool", Len(messages) + 1 - a)
  PROVE  AnswersFrom(Append(messages, m), Tail(calls), a)
<1> DEFINE t == Append(messages, m)
           n == Len(messages)
           old == Len(calls)
           new == Len(Tail(calls))
<1>1. /\ Answered(t, a - 1) /\ t[a] = Message("assistant", n - a + old)
      /\ \A c \in 1 .. n + 1 - a : t[a + c] = Message("tool", c)
  BY AnswerAdded, Zenon
<1>2. n \in Nat /\ a \in Nat /\ Len(t) = n + 1
  BY Added
<1>3. old \in Nat /\ new = old - 1
  OBVIOUS
<1> HIDE DEF t, n, old, new
<1>4. n - a + old = Len(t) - a + new /\ Len(t) - a = n + 1 - a
  BY <1>2, <1>3
<1>5. /\ t[a] = Message("assistant", Len(t) - a + new)
      /\ \A c \in 1 .. Len(t) - a : t[a + c] = Message("tool", c)
  BY <1>1, <1>4
<1>6. AnswersFrom(t, Tail(calls), a)
  BY <1>1, <1>5 DEF AnswersFrom, new
<1> QED
  BY <1>6 DEF t

\* ... or completes the conversation.
LEMMA LastAnswer ==
  ASSUME NEW messages \in Seq(Messages), NEW calls \in Seq(CallKinds), Len(calls) = 1,
         NEW a \in 3 .. Len(messages), AnswersFrom(messages, calls, a),
         NEW m \in Messages, m = Message("tool", Len(messages) + 1 - a)
  PROVE  WellFormed(Append(messages, m))
<1> DEFINE t == Append(messages, m)
           n == Len(messages)
           of == n + 1 - a
<1>0. /\ Answered(t, a - 1) /\ t[a] = Message("assistant", n - a + Len(calls))
      /\ \A c \in 1 .. of : t[a + c] = Message("tool", c)
  BY AnswerAdded, Zenon
<1>1. /\ Answered(t, a - 1) /\ t[a] = Message("assistant", n - a + 1)
      /\ \A c \in 1 .. of : t[a + c] = Message("tool", c)
  <2> HIDE DEF t, n, of
  <2> QED
    BY <1>0
<1>2. /\ n \in Nat /\ a \in Nat /\ 3 <= a /\ a <= n
      /\ Len(t) = n + 1 /\ DOMAIN t = 1 .. n + 1 /\ t \in Seq(Messages)
  BY Added
<1>9. \A k \in 1 .. n + 1 : t[k].of \in Nat
  BY Added
<1>3. of \in Nat /\ n - a + 1 = of /\ a + of = n + 1
  BY <1>2
<1> HIDE DEF t, n, of
<1>4. t[a].of = of
  BY <1>1, <1>3 DEF Message
<1>5. \A c \in 1 .. of : t[a + c].role = "tool"
  <2>1. \A c : Message("tool", c).role = "tool"
    BY DEF Message
  <2> QED
    BY <1>1, <2>1
<1>6. ASSUME NEW k \in 1 .. n + 1, t[k].role = "assistant"
      PROVE  LET last == k + t[k].of
             IN  /\ last <= n + 1
                 /\ \A c \in 1 .. t[k].of : t[k + c] = Message("tool", c)
                 /\ last < Len(t) => t[last + 1].role # "tool"
  <2>1. CASE k \in 1 .. a - 1
    <3>1. LET last == k + t[k].of
          IN  /\ last <= a - 1
              /\ \A c \in 1 .. t[k].of : t[k + c] = Message("tool", c)
              /\ last < Len(t) => t[last + 1].role # "tool"
      BY <1>1, <1>6, <2>1 DEF Answered
    <3>2. k + t[k].of <= n + 1
      BY <1>2, <1>9, <2>1, <3>1
    <3> QED
      BY <3>1, <3>2
  <2>2. CASE k = a
    <3>1. k + t[k].of = n + 1 /\ ~ (n + 1 < Len(t)) /\ n + 1 <= n + 1
      BY <1>2, <1>3, <1>4, <2>2
    <3> QED
      BY <1>1, <1>4, <2>2, <3>1
  <2>3. CASE k > a
    <3>1. k - a \in 1 .. of /\ a + (k - a) = k
      BY <1>2, <1>3, <2>3
    <3> QED
      BY <1>5, <1>6, <3>1
  <2> QED
    BY <1>2, <2>1, <2>2, <2>3
<1>7. Answered(t, n + 1)
  BY <1>1, <1>6 DEF Answered
<1>8. WellFormed(t)
  BY <1>2, <1>7, WholeAnswered
<1> QED
  BY <1>8 DEF t

\* The request for a summary, at the turn limit.
LEMMA RequestFollows ==
  ASSUME NEW messages \in Seq(Messages), WellFormed(messages)
  PROVE  WellFormed(Append(messages, Message("user", 0)))
<1> DEFINE m == Message("user", 0)
           t == Append(messages, m)
           n == Len(messages)
<1>1. m \in Messages /\ m.role = "user"
  BY BoundsAssumption DEF Message, Messages
<1> HIDE DEF m
<1>2. n \in Nat /\ Len(t) = n + 1 /\ t[n + 1] = m /\ t \in Seq(Messages)
  BY <1>1, Added
<1>3. Answered(messages, n) /\ n \in 0 .. n
  BY <1>2, WholeAnswered
<1>4. Answered(t, n)
  BY <1>1, <1>3, StillAnswered
<1>5. \A k \in 1 .. n : t[k].of \in Nat
  BY <1>1, Added
<1> HIDE DEF t, n
<1>6. Answered(t, n + 1)
  <2>1. ASSUME NEW k \in 1 .. n + 1, t[k].role = "assistant"
        PROVE  /\ k \in 1 .. n
               /\ k + t[k].of <= n => k + t[k].of <= n + 1
    BY <1>1, <1>2, <1>5, <2>1
  <2> QED
    BY <1>4, <2>1 DEF Answered
<1>7. WellFormed(t)
  BY <1>2, <1>6, WholeAnswered
<1> QED
  BY <1>7 DEF t, m

-----------------------------------------------------------------------------
(* What a step makes of a run.                                             *)

LEMMA WaitingOrReady ==
  ASSUME NEW run \in Runs, Waiting(run) \/ Ready(run)
  PROVE  Len(run.messages) \in Nat /\ Len(run.messages) >= 2
<1>1. run.messages \in Seq(Messages) /\ run.rows \in Seq(TraceRows)
  BY RunFields
<1>2. Len(run.messages) \in Nat /\ Len(run.rows) \in Nat
  BY <1>1
<1>3. Len(run.rows) = Len(run.messages) - 2 \/ Len(run.rows) = Len(run.messages) - 1 - 2
  BY DEF Waiting, Ready, Tracked
<1> QED
  BY <1>2, <1>3

\* The conversation of a new run is its system prompt and its goal.
LEMMA NewRunReady == NewRun \in Runs /\ Ready(NewRun)
<1> DEFINE messages == <<Message("system", 0), Message("user", 0)>>
<1>1. /\ Message("system", 0) \in Messages /\ Message("user", 0) \in Messages
      /\ Message("system", 0).role = "system" /\ Message("user", 0).role = "user"
  BY BoundsAssumption DEF Message, Messages
<1>2. /\ messages \in Seq(Messages) /\ Len(messages) = 2 /\ DOMAIN messages = 1 .. 2
      /\ messages[1].role = "system" /\ messages[2].role = "user"
  BY <1>1
<1>3. <<>> \in BoundedSeq(CallKinds, MaxCalls) /\ <<>> \in Seq(TraceRows)
  <2>1. \A S : <<>> \in Seq(S) /\ Len(<<>>) = 0
    OBVIOUS
  <2>2. 0 <= MaxCalls /\ MaxCalls \in Nat
    BY BoundsAssumption
  <2> QED
    BY <2>1, <2>2, Bounded
<1> HIDE DEF messages
<1>4. \A k \in DOMAIN messages : messages[k].role \notin {"assistant", "tool"}
  BY <1>2
<1>5. WellFormed(messages)
  BY <1>4 DEF WellFormed
<1>6. Tracked(<<>>, messages, Len(messages))
  <2>1. Spoken(messages) = {} /\ 3 .. 2 = {} /\ Len(<<>>) = 2 - 2 /\ 1 .. 2 - 2 = {}
    BY <1>4 DEF Spoken
  <2> QED
    BY <1>2, <2>1 DEF Tracked
<1>7. /\ NewRun.at = "think" /\ NewRun.turns = 0 /\ NewRun.calls = <<>>
      /\ NewRun.messages = messages /\ NewRun.rows = <<>>
  BY DEF NewRun, messages
<1>8. NewRun \in Runs
  BY <1>2, <1>3, BoundsAssumption DEF NewRun, Runs, messages, Messages, TraceRows
<1>9. 0 < MaxTurns
  BY BoundsAssumption
<1> QED
  BY <1>5, <1>6, <1>7, <1>8, <1>9 DEF Ready

\* Observing the answer to a call, a run goes on with the next, or asks.
LEMMA Observes ==
  ASSUME NEW run \in Runs, Waiting(run), NEW next \in Observed(run)
  PROVE  next \in Runs /\ (Waiting(next) \/ Ready(next))
<1> DEFINE messages == run.messages
           calls == run.calls
           n == Len(messages)
           m == Message("tool", NextCall(run))
           t == Append(messages, m)
           u == Message("user", 0)
           over == Len(calls) = 1
           limit == over /\ run.turns + 1 >= MaxTurns
<1>1. /\ run.turns \in 0 .. MaxTurns /\ calls \in Seq(CallKinds) /\ Len(calls) <= MaxCalls
      /\ messages \in Seq(Messages) /\ run.rows \in Seq(TraceRows)
  BY RunFields
<1>2. /\ run.at = "act" /\ calls # <<>> /\ run.turns < MaxTurns
      /\ Tracked(run.rows, messages, n)
  BY DEF Waiting
<1>3. PICK a \in 3 .. n : AnswersFrom(messages, calls, a)
  BY DEF Waiting
<1>4. PICK rows \in Traced(run.rows, m) :
        next = [at |-> IF limit THEN "summary" ELSE IF over THEN "think" ELSE "act",
                turns |-> IF over THEN run.turns + 1 ELSE run.turns,
                calls |-> Tail(calls),
                messages |-> messages \o (IF limit THEN <<m, u>> ELSE <<m>>),
                rows |-> rows]
  BY DEF Observed
<1>5. NextCall(run) = n - a + 1
  BY <1>3, AskedAt
<1>6. /\ n \in Nat /\ a \in Nat /\ 3 <= a /\ a <= n /\ n >= 2
      /\ Len(calls) \in Nat /\ Len(calls) >= 1
      /\ Tail(calls) \in Seq(CallKinds) /\ Len(Tail(calls)) = Len(calls) - 1
  BY <1>1, <1>2
<1>7. m \in Messages /\ m = Message("tool", n + 1 - a) /\ m.role = "tool"
  <2>1. n - a + 1 = n + 1 - a
    BY <1>6
  <2>2. messages[a].of \in 0 .. MaxCalls
    <3>1. messages[a] \in Messages
      BY <1>1, <1>6
    <3> QED
      BY <3>1 DEF Messages
  <2>3. messages[a].of = n - a + Len(calls)
    BY <1>3 DEF AnswersFrom, Message
  <2>4. n - a + 1 \in 0 .. MaxCalls
    <3> DEFINE of == messages[a].of
               left == Len(calls)
    <3>1. of \in 0 .. MaxCalls /\ of = n - a + left /\ left \in Nat /\ left >= 1
      BY <1>6, <2>2, <2>3
    <3> HIDE DEF messages, calls, n, of, left
    <3> QED
      BY <1>6, <3>1, BoundsAssumption
  <2> QED
    BY <1>5, <2>1, <2>4 DEF Message, Messages
<1>8. u \in Messages
  BY BoundsAssumption DEF Message, Messages
<1> HIDE DEF m, u
<1>9. /\ messages \o <<m>> = t /\ messages \o <<m, u>> = Append(t, u)
      /\ t \in Seq(Messages) /\ Append(t, u) \in Seq(Messages)
      /\ Len(t) = n + 1 /\ Len(Append(t, u)) = n + 2
  <2>1. messages \o <<m>> = t /\ t \in Seq(Messages) /\ Len(t) = n + 1
    BY <1>1, <1>7
  <2>2. Append(t, u) \in Seq(Messages) /\ Len(Append(t, u)) = n + 2
    BY <1>8, <2>1
  <2>3. messages \o <<m, u>> = Append(t, u)
    <3>1. <<m>> \in Seq(Messages) /\ <<u>> \in Seq(Messages) /\ <<m>> \o <<u>> = <<m, u>>
      <4>1. <<m>> \in Seq(Messages) /\ <<u>> \in Seq(Messages)
        BY <1>7, <1>8
      <4>2. Append(<<m>>, u) = <<m, u>>
        BY <1>7, <1>8, Pair
      <4>3. Append(<<m>>, u) = <<m>> \o <<u>>
        BY <1>8, <4>1, AppendIsConcat
      <4> QED
        BY <4>1, <4>2, <4>3
    <3>2. Append(t, u) = t \o <<u>>
      BY <1>8, <2>1, AppendIsConcat
    <3>3. (messages \o <<m>>) \o <<u>> = messages \o (<<m>> \o <<u>>)
      BY <1>1, <3>1, ConcatAssociative
    <3> HIDE DEF messages, t
    <3> QED
      BY <2>1, <3>1, <3>2, <3>3
  <2> QED
    BY <2>1, <2>2, <2>3
<1>10. rows \in Seq(TraceRows) /\ Tracked(rows, t, n + 1)
  BY <1>1, <1>2, <1>4, <1>6, <1>7, SaidTracked
<1>11. Tail(calls) \in BoundedSeq(CallKinds, MaxCalls)
  <2>1. Len(Tail(calls)) <= MaxCalls
    BY <1>1, <1>6, BoundsAssumption
  <2> QED
    BY <1>6, <2>1, Bounded, BoundsAssumption
<1> HIDE DEF messages, calls, n, t
<1>12. CASE ~ over
  <2>1. /\ next.at = "act" /\ next.turns = run.turns /\ next.calls = Tail(calls)
        /\ next.messages = t /\ next.rows = rows
    BY <1>4, <1>9, <1>12
  <2>2. Len(calls) > 1 /\ Tail(calls) # <<>>
    <3>1. Len(calls) > 1 /\ Len(Tail(calls)) # 0
      BY <1>6, <1>12
    <3> QED
      BY <1>6, <3>1, EmptySeq
  <2>3. AnswersFrom(t, Tail(calls), a)
    BY <1>1, <1>3, <1>7, <2>2, AnswerFollows DEF messages, calls, n, t
  <2>4. a \in 3 .. Len(t)
    BY <1>6, <1>9
  <2>5. Waiting(next)
    BY <1>2, <1>9, <1>10, <2>1, <2>2, <2>3, <2>4 DEF Waiting
  <2>6. next \in Runs
    <3>1. next = [at |-> "act", turns |-> run.turns, calls |-> Tail(calls),
                  messages |-> t, rows |-> rows]
      BY <1>4, <1>9, <1>12
    <3> QED
      BY <1>1, <1>9, <1>10, <1>11, <3>1 DEF Runs, Messages, TraceRows
  <2> QED
    BY <2>5, <2>6
<1>13. CASE over
  <2>1. WellFormed(t)
    BY <1>1, <1>3, <1>7, <1>13, LastAnswer DEF messages, calls, n, t
  <2>2. Tail(calls) = <<>>
    <3>1. Len(Tail(calls)) = 0
      BY <1>6, <1>13
    <3> QED
      BY <1>6, <3>1, EmptySeq
  <2>3. CASE limit
    <3>1. run.turns + 1 = MaxTurns
      BY <1>1, <1>2, <2>3, BoundsAssumption
    <3>2. next = [at |-> "summary", turns |-> MaxTurns, calls |-> Tail(calls),
                  messages |-> Append(t, u), rows |-> rows]
      BY <1>4, <1>9, <1>13, <2>3, <3>1
    <3>3. WellFormed(Append(t, u))
      BY <1>9, <2>1, RequestFollows DEF u
    <3>4. Tracked(rows, Append(t, u), n + 1)
      <4>1. Len(t) >= 2 /\ Tracked(rows, t, Len(t))
        BY <1>6, <1>9, <1>10
      <4>2. Tracked(rows, Append(t, u), Len(t))
        BY <1>9, <4>1, AskedTracked DEF u
      <4> QED
        BY <1>9, <4>2
    <3>5. Len(Append(t, u)) - 1 = n + 1
      BY <1>6, <1>9
    <3>6. /\ next.at = "summary" /\ next.turns = MaxTurns /\ next.calls = <<>>
          /\ next.messages = Append(t, u) /\ next.rows = rows
      BY <2>2, <3>2
    <3>7. Ready(next)
      BY <3>3, <3>4, <3>5, <3>6 DEF Ready
    <3>8. next \in Runs
      BY <1>9, <1>10, <1>11, <3>2, BoundsAssumption DEF Runs, Messages, TraceRows
    <3> QED
      BY <3>7, <3>8
  <2>4. CASE ~ limit
    <3>1. run.turns + 1 < MaxTurns /\ run.turns + 1 \in 0 .. MaxTurns
      BY <1>1, <1>13, <2>4, BoundsAssumption
    <3>2. next = [at |-> "think", turns |-> run.turns + 1, calls |-> Tail(calls),
                  messages |-> t, rows |-> rows]
      BY <1>4, <1>9, <1>13, <2>4
    <3>3. /\ next.at = "think" /\ next.turns = run.turns + 1 /\ next.calls = <<>>
          /\ next.messages = t /\ next.rows = rows
      BY <2>2, <3>2
    <3>4. Ready(next)
      BY <1>9, <1>10, <2>1, <3>1, <3>3 DEF Ready
    <3>5. next \in Runs
      BY <1>9, <1>10, <1>11, <3>1, <3>2 DEF Runs, Messages, TraceRows
    <3> QED
      BY <3>4, <3>5
  <2> QED
    BY <2>3, <2>4
<1> QED
  BY <1>12, <1>13

-----------------------------------------------------------------------------
(* Traces.                                                                 *)

\* The k-th row is that of message k + 2.
LEMMA TracesByIndex ==
  ASSUME NEW rows, NEW messages, NEW n \in Nat, n >= 2, Tracked(rows, messages, n)
  PROVE  Traces(rows, messages)
<1>1. /\ Len(rows) = n - 2 /\ Spoken(messages) = 3 .. n
      /\ \A k \in 1 .. n - 2 : rows[k] \in {messages[k + 2], Gap}
  BY DEF Tracked
<1>2. \A k \in 2 .. n : Cardinality(3 .. k) = k - 2
  <2> SUFFICES ASSUME NEW k \in 2 .. n PROVE Cardinality(3 .. k) = k - 2
    OBVIOUS
  <2>1. k \in Int /\ Cardinality(3 .. k) = IF 3 > k THEN 0 ELSE k - 3 + 1
    BY FS_Interval
  <2> QED
    BY <2>1
<1>3. Len(rows) = Cardinality(Spoken(messages))
  BY <1>1, <1>2
<1>4. ASSUME NEW k \in Spoken(messages)
      PROVE  rows[Cardinality({i \in Spoken(messages) : i <= k})] \in {messages[k], Gap}
  <2>1. k \in 3 .. n
    BY <1>1
  <2>2. {i \in Spoken(messages) : i <= k} = 3 .. k
    BY <1>1, <2>1
  <2>3. Cardinality(3 .. k) = k - 2 /\ k - 2 \in 1 .. n - 2 /\ (k - 2) + 2 = k
    BY <1>2, <2>1
  <2> QED
    BY <1>1, <2>2, <2>3
<1> QED
  BY <1>3, <1>4 DEF Traces

LEMMA RunTraced ==
  ASSUME NEW run \in Runs, Waiting(run) \/ Ready(run)
  PROVE  Traces(run.rows, run.messages)
<1>1. Len(run.messages) \in Nat /\ Len(run.messages) >= 2
  BY WaitingOrReady
<1>2. run.rows \in Seq(TraceRows)
  BY RunFields
<1>3. PICK n \in {Len(run.messages), Len(run.messages) - 1} :
        Tracked(run.rows, run.messages, n)
  BY DEF Waiting, Ready
<1>4. Len(run.rows) \in Nat /\ Len(run.rows) = n - 2
  BY <1>2, <1>3 DEF Tracked
<1>5. n \in Nat /\ n >= 2
  BY <1>1, <1>3, <1>4
<1> QED
  BY <1>3, <1>5, TracesByIndex

-----------------------------------------------------------------------------
(* The stack.                                                              *)

LEMMA TopOf ==
  ASSUME Nested(stack), stack # <<>>
  PROVE  /\ Len(stack) \in Nat /\ Len(stack) >= 1 /\ Top = stack[Len(stack)]
         /\ Top \in Runs /\ (Waiting(Top) \/ Ready(Top))
         /\ Top.at \in {"think", "summary"} => Ready(Top)
         /\ Top.at = "act" => Waiting(Top)
<1>1. Len(stack) \in Nat /\ Len(stack) >= 1
  BY DEF Nested
<1>2. Top = stack[Len(stack)]
  BY DEF Top, Last
<1>3. Top \in Runs /\ (Waiting(Top) \/ Ready(Top))
  BY <1>1, <1>2 DEF Nested
<1> QED
  BY <1>1, <1>2, <1>3 DEF Waiting, Ready

\* Changing the run on top.
LEMMA TopReplaced ==
  ASSUME NEW s, Nested(s), s # <<>>, NEW run \in Runs, Waiting(run) \/ Ready(run)
  PROVE  Nested(Append(Front(s), run))
<1> DEFINE t == Append(Front(s), run)
<1>1. /\ t \in Seq(Runs) /\ Len(t) = Len(s) /\ t[Len(s)] = run
      /\ \A k \in 1 .. Len(s) - 1 : t[k] = s[k]
  BY Replaced DEF Nested
<1>2. Len(s) \in Nat /\ Len(s) <= MaxDepth + 1
  BY DEF Nested
<1>3. \A k \in 1 .. Len(s) - 1 : Waiting(s[k])
  BY <1>2 DEF Nested
<1> HIDE DEF t
<1>4. \A k \in 1 .. Len(t) : Waiting(t[k]) \/ (k = Len(t) /\ Ready(t[k]))
  BY <1>1, <1>2, <1>3
<1>5. Nested(t)
  BY <1>1, <1>2, <1>4 DEF Nested
<1> QED
  BY <1>5 DEF t

\* A run on top of the one that has been on top.
LEMMA ChildPushed ==
  ASSUME Nested(stack), stack # <<>>, Waiting(Top), Depth < MaxDepth
  PROVE  Nested(Append(stack, NewRun))
<1> DEFINE t == Append(stack, NewRun)
           n == Len(stack)
<1>1. stack \in Seq(Runs) /\ n \in Nat /\ NewRun \in Runs /\ Ready(NewRun)
  BY NewRunReady DEF Nested
<1>2. /\ t \in Seq(Runs) /\ Len(t) = n + 1 /\ t[n + 1] = NewRun
      /\ \A k \in 1 .. n : t[k] = stack[k]
  BY <1>1
<1>3. \A k \in 1 .. n : Waiting(stack[k])
  BY TopOf DEF Nested
<1>4. n + 1 <= MaxDepth + 1
  BY <1>1, BoundsAssumption DEF Depth
<1> HIDE DEF t, n
<1>5. \A k \in 1 .. n + 1 : Waiting(t[k]) \/ (k = n + 1 /\ Ready(t[k]))
  BY <1>1, <1>2, <1>3
<1>6. Nested(t)
  BY <1>2, <1>4, <1>5 DEF Nested
<1> QED
  BY <1>6 DEF t

\* A run that returns leaves the stack to its parent, which observes.
LEMMA Returns ==
  ASSUME Nested(stack), stack # <<>>, outcome \in {"none", "ok"} \cup Causes,
         NEW run, NEW end \in {"ok"} \cup Causes, NEW said, Finish(run, end, said)
  PROVE  Nested(stack') /\ outcome' \in {"none", "ok"} \cup Causes
<1> DEFINE n == Len(stack)
           s == Front(stack)
<1>1. stack \in Seq(Runs) /\ n \in Nat /\ n >= 1 /\ n <= MaxDepth + 1
  BY TopOf DEF Nested
<1>2. CASE Depth = 0
  <2>1. stack' = <<>> /\ outcome' = end
    BY <1>2 DEF Finish
  <2>2. <<>> \in Seq(Runs) /\ Len(<<>>) = 0 /\ 0 <= MaxDepth + 1 /\ 1 .. 0 = {}
    BY BoundsAssumption
  <2>3. Nested(<<>>)
    BY <2>2 DEF Nested
  <2> QED
    BY <2>1, <2>3
<1>3. CASE Depth # 0
  <2>1. PICK parent \in Observed(Last(s)) : stack' = Append(Front(s), parent)
    BY <1>3 DEF Finish
  <2>2. outcome' = outcome
    BY <1>3 DEF Finish
  <2>3. /\ s \in Seq(Runs) /\ Len(s) = n - 1
        /\ \A k \in 1 .. n - 1 : s[k] = stack[k]
    BY <1>1, FrontOf
  <2>4. n >= 2
    <3>1. Depth = n - 1
      BY DEF Depth
    <3> HIDE DEF n
    <3> QED
      BY <1>1, <1>3, <3>1
  <2>5. \A k \in 1 .. n - 1 : Waiting(stack[k]) /\ stack[k] \in Runs
    BY <1>1 DEF Nested
  <2> HIDE DEF n, s
  <2>6. Last(s) \in Runs /\ Waiting(Last(s)) /\ s # <<>>
    <3>1. Last(s) = s[n - 1] /\ n - 1 \in 1 .. n - 1
      BY <1>1, <2>3, <2>4 DEF Last
    <3>2. s # <<>>
      <4>1. Len(s) # 0
        BY <1>1, <2>3, <2>4
      <4> QED
        BY <4>1, EmptySeq
    <3> QED
      BY <2>3, <2>5, <3>1, <3>2
  <2>7. parent \in Runs /\ (Waiting(parent) \/ Ready(parent))
    BY <2>1, <2>6, Observes
  <2>8. Nested(s)
    <3>1. Len(s) <= MaxDepth + 1 /\ \A k \in 1 .. Len(s) : Waiting(s[k])
      BY <1>1, <2>3, <2>5, BoundsAssumption
    <3> QED
      BY <2>3, <3>1 DEF Nested
  <2>9. Nested(Append(Front(s), parent))
    BY <2>6, <2>7, <2>8, TopReplaced
  <2> QED
    BY <2>1, <2>2, <2>9
<1> QED
  BY <1>2, <1>3

\* What it returned, and how its own requests went.
LEMMA Concludes ==
  ASSUME NEW run \in Runs, NEW end \in {"ok"} \cup Causes, NEW said,
         Finish(run, end, said),
         end # "ok" => /\ WellFormed(run.messages) /\ run.turns < MaxTurns
                       /\ end = "busy" => attempt = MaxRetries,
         run.turns < MaxTurns => Traces(run.rows, run.messages \o said)
  PROVE  Returned' /\ attempt' \in 0 .. MaxRetries
<1>1. /\ finished'.end = end /\ finished'.run = run /\ finished'.said = said
      /\ finished'.requests = attempt + 1
  BY DEF Finish
<1>2. attempt' \in 0 .. MaxRetries
  BY BoundsAssumption DEF Finish
<1>3. FailsByItsOwnRequest'
  BY <1>1 DEF FailsByItsOwnRequest
<1> QED
  BY <1>1, <1>2, <1>3 DEF Returned

LEMMA NoneConcludes ==
  ASSUME finished' = NoRun
  PROVE  Returned'
BY DEF Returned, FailsByItsOwnRequest

-----------------------------------------------------------------------------
(* The steps.                                                              *)

LEMMA Begins == Init => IInv
<1> SUFFICES ASSUME Init PROVE IInv
  OBVIOUS
<1>1. NewRun \in Runs /\ Ready(NewRun)
  BY NewRunReady
<1>2. /\ <<NewRun>> \in Seq(Runs) /\ Len(<<NewRun>>) = 1 /\ <<NewRun>>[1] = NewRun
      /\ 1 <= MaxDepth + 1
  BY <1>1, BoundsAssumption
<1>3. Nested(stack)
  BY <1>1, <1>2 DEF Init, Nested
<1>4. Returned
  BY DEF Init, Returned, FailsByItsOwnRequest
<1> QED
  BY <1>3, <1>4, BoundsAssumption DEF Init, IInv

\* A run that asks has a complete conversation; its traces follow it.
LEMMA AskingRun ==
  ASSUME IInv, Asking
  PROVE  /\ Nested(stack) /\ stack # <<>> /\ Top \in Runs /\ Ready(Top)
         /\ Top.messages \in Seq(Messages) /\ Top.rows \in Seq(TraceRows)
         /\ Len(Top.messages) \in Nat /\ Len(Top.messages) >= 2
<1>1. Nested(stack) /\ stack # <<>> /\ Top \in Runs /\ Ready(Top)
  BY TopOf DEF IInv, Asking
<1> QED
  BY <1>1, RunFields, WaitingOrReady

LEMMA BusyStep ==
  ASSUME IInv, LlmBusy
  PROVE  IInv'
<1>1. Returned'
  BY NoneConcludes DEF LlmBusy
<1>2. Nested(stack) /\ attempt' \in 0 .. MaxRetries
  BY BoundsAssumption DEF IInv, LlmBusy
<1> QED
  BY <1>1, <1>2 DEF IInv, LlmBusy

LEMMA FailsStep ==
  ASSUME IInv, ThinkFails
  PROVE  IInv'
<1>1. PICK why \in Causes : CallFails(why) /\ Finish(Top, why, <<>>)
  BY DEF ThinkFails
<1>2. /\ Nested(stack) /\ stack # <<>> /\ Top \in Runs /\ Ready(Top)
      /\ Top.messages \in Seq(Messages)
  BY AskingRun DEF ThinkFails
<1>3. WellFormed(Top.messages) /\ Top.turns < MaxTurns
  BY <1>2 DEF Ready, ThinkFails
<1>4. why = "busy" => attempt = MaxRetries
  BY <1>1 DEF CallFails
<1>5. Traces(Top.rows, Top.messages \o <<>>)
  <2>1. Top.messages \o <<>> = Top.messages
    BY <1>2, ConcatEmptySeq
  <2> QED
    BY <1>2, <2>1, RunTraced
<1>6. Nested(stack') /\ outcome' \in {"none", "ok"} \cup Causes
  BY <1>1, <1>2, Returns DEF IInv
<1>7. Returned' /\ attempt' \in 0 .. MaxRetries
  BY <1>1, <1>2, <1>3, <1>4, <1>5, Concludes
<1> QED
  BY <1>6, <1>7 DEF IInv

LEMMA AnswersStep ==
  ASSUME IInv, ThinkAnswers
  PROVE  IInv'
<1> DEFINE m == Message("assistant", 0)
           messages == Top.messages
<1>1. PICK rows \in Traced(Top.rows, m) : Finish([Top EXCEPT !.rows = rows], "ok", <<m>>)
  BY DEF ThinkAnswers
<1>2. /\ Nested(stack) /\ stack # <<>> /\ Top \in Runs /\ Ready(Top)
      /\ messages \in Seq(Messages) /\ Top.rows \in Seq(TraceRows)
      /\ Len(messages) \in Nat /\ Len(messages) >= 2
  BY AskingRun DEF ThinkAnswers
<1>3. Tracked(Top.rows, messages, Len(messages))
  BY <1>2 DEF Ready, ThinkAnswers
<1>4. m \in Messages /\ m.role \in {"assistant", "tool"}
  BY BoundsAssumption DEF Message, Messages
<1> DEFINE run == [Top EXCEPT !.rows = rows]
<1> HIDE DEF m, messages
<1>5. rows \in Seq(TraceRows) /\ Tracked(rows, Append(messages, m), Len(messages) + 1)
  BY <1>1, <1>2, <1>3, <1>4, SaidTracked
<1>6. /\ run \in Runs /\ run.rows = rows /\ run.messages = messages
      /\ run.turns = Top.turns
  BY <1>2, <1>5 DEF Runs, TraceRows, messages
<1>7. messages \o <<m>> = Append(messages, m)
  BY <1>2, <1>4
<1>8. Traces(rows, messages \o <<m>>)
  <2>1. Len(messages) + 1 \in Nat /\ Len(messages) + 1 >= 2
    BY <1>2
  <2>2. Traces(rows, Append(messages, m))
    BY <1>5, <2>1, TracesByIndex
  <2> QED
    BY <1>7, <2>2
<1> HIDE DEF run
<1>9. Finish(run, "ok", <<m>>)
  BY <1>1 DEF run
<1>10. Nested(stack') /\ outcome' \in {"none", "ok"} \cup Causes
  BY <1>2, <1>9, Returns DEF IInv
<1>11. Returned' /\ attempt' \in 0 .. MaxRetries
  BY <1>6, <1>8, <1>9, Concludes
<1> QED
  BY <1>10, <1>11 DEF IInv

LEMMA CallsStep ==
  ASSUME IInv, ThinkCalls
  PROVE  IInv'
<1> DEFINE messages == Top.messages
<1>1. PICK calls \in BoundedSeq(CallKinds, MaxCalls) \ {<<>>} :
        \E rows \in Traced(Top.rows, Message("assistant", Len(calls))) :
          stack' = ReplaceTop([Top EXCEPT !.at = "act", !.calls = calls,
                                 !.messages = Append(@, Message("assistant", Len(calls))),
                                 !.rows = rows])
  BY DEF ThinkCalls
<1> DEFINE m == Message("assistant", Len(calls))
<1>2. PICK rows \in Traced(Top.rows, m) :
        stack' = ReplaceTop([Top EXCEPT !.at = "act", !.calls = calls,
                               !.messages = Append(@, m), !.rows = rows])
  BY <1>1
<1> DEFINE t == Append(messages, m)
           run == [Top EXCEPT !.at = "act", !.calls = calls, !.messages = t, !.rows = rows]
<1>3. /\ Nested(stack) /\ stack # <<>> /\ Top \in Runs /\ Ready(Top)
      /\ messages \in Seq(Messages) /\ Top.rows \in Seq(TraceRows)
      /\ Len(messages) \in Nat /\ Len(messages) >= 2
  BY AskingRun DEF ThinkCalls
<1>4. /\ Tracked(Top.rows, messages, Len(messages)) /\ WellFormed(messages)
      /\ Top.turns < MaxTurns
  BY <1>3 DEF Ready, ThinkCalls
<1>5. calls \in Seq(CallKinds) /\ Len(calls) <= MaxCalls /\ calls # <<>>
  BY <1>1, Bounded, BoundsAssumption
<1>6. m \in Messages /\ m.role \in {"assistant", "tool"}
  BY <1>5, BoundsAssumption DEF Message, Messages
<1>7. AnswersFrom(t, calls, Len(messages) + 1)
  BY <1>3, <1>4, <1>5, CallsFollow
<1> HIDE DEF m
<1>8. rows \in Seq(TraceRows) /\ Tracked(rows, t, Len(messages) + 1)
  BY <1>2, <1>3, <1>4, <1>6, SaidTracked
<1>9. t \in Seq(Messages) /\ Len(t) = Len(messages) + 1
  BY <1>3, <1>6
<1> HIDE DEF t
<1>10. /\ run.at = "act" /\ run.calls = calls /\ run.messages = t /\ run.rows = rows
       /\ run.turns = Top.turns /\ run \in Runs
  BY <1>1, <1>3, <1>8, <1>9 DEF Runs, Messages, TraceRows
<1>11. stack' = ReplaceTop(run)
  BY <1>2 DEF t
<1> HIDE DEF run
<1>12. Waiting(run)
  <2>1. Len(messages) + 1 \in 3 .. Len(t)
    BY <1>3, <1>9
  <2> QED
    BY <1>4, <1>5, <1>7, <1>8, <1>9, <1>10, <2>1 DEF Waiting
<1>13. Nested(stack')
  BY <1>3, <1>10, <1>11, <1>12, TopReplaced DEF ReplaceTop
<1>14. Returned'
  BY NoneConcludes DEF ThinkCalls
<1> QED
  BY <1>13, <1>14, BoundsAssumption DEF IInv, ThinkCalls

LEMMA SummaryStep ==
  ASSUME IInv, Summarize
  PROVE  IInv'
<1>1. PICK said : Finish(Top, "ok", said)
  BY DEF Summarize
<1>2. Nested(stack) /\ stack # <<>> /\ Top \in Runs /\ Ready(Top)
  BY AskingRun DEF Summarize
<1>3. ~ (Top.turns < MaxTurns)
  BY <1>2, BoundsAssumption DEF Ready, Summarize
<1>4. Nested(stack') /\ outcome' \in {"none", "ok"} \cup Causes
  BY <1>1, <1>2, Returns DEF IInv
<1>5. Returned' /\ attempt' \in 0 .. MaxRetries
  BY <1>1, <1>2, <1>3, Concludes
<1> QED
  BY <1>4, <1>5 DEF IInv

\* The answer to a call, a tool's or the code's own.
LEMMA ObservesStep ==
  ASSUME IInv, ToolReturns \/ RefuseDelegation
  PROVE  IInv'
<1>1. stack # <<>> /\ Top.at = "act"
  BY DEF ToolReturns, RefuseDelegation, Acting
<1>2. PICK run \in Observed(Top) : stack' = ReplaceTop(run)
  BY DEF ToolReturns, RefuseDelegation
<1>3. Nested(stack) /\ Top \in Runs /\ Waiting(Top)
  BY <1>1, TopOf DEF IInv
<1>4. run \in Runs /\ (Waiting(run) \/ Ready(run))
  BY <1>2, <1>3, Observes
<1>5. Nested(stack')
  BY <1>1, <1>2, <1>3, <1>4, TopReplaced DEF ReplaceTop
<1>6. finished' = NoRun /\ UNCHANGED <<attempt, outcome>>
  BY DEF ToolReturns, RefuseDelegation
<1>7. Returned'
  BY <1>6, NoneConcludes
<1> QED
  BY <1>5, <1>6, <1>7 DEF IInv

LEMMA DelegateStep ==
  ASSUME IInv, Delegate
  PROVE  IInv'
<1>1. Nested(stack) /\ stack # <<>> /\ Waiting(Top) /\ Depth < MaxDepth
  BY TopOf DEF IInv, Delegate, Acting
<1>2. Nested(stack')
  BY <1>1, ChildPushed DEF Delegate
<1>3. Returned'
  BY NoneConcludes DEF Delegate
<1> QED
  BY <1>2, <1>3 DEF IInv, Delegate

\* Below the top every run of the attempt waits for an answer to its next
\* call, on top one thinks, acts or sums up; what each has said is traced.
THEOREM InvariantHolds == Spec => []IInv
<1>1. Init => IInv
  BY Begins
<1>2. ASSUME IInv, [Next]_vars
      PROVE  IInv'
  <2>1. CASE UNCHANGED vars
    BY <1>2, <2>1 DEF IInv, vars, Returned, FailsByItsOwnRequest
  <2>2. CASE LlmBusy
    BY <1>2, <2>2, BusyStep
  <2>3. CASE ThinkFails
    BY <1>2, <2>3, FailsStep
  <2>4. CASE ThinkAnswers
    BY <1>2, <2>4, AnswersStep
  <2>5. CASE ThinkCalls
    BY <1>2, <2>5, CallsStep
  <2>6. CASE Summarize
    BY <1>2, <2>6, SummaryStep
  <2>7. CASE ToolReturns \/ RefuseDelegation
    BY <1>2, <2>7, ObservesStep
  <2>8. CASE Delegate
    BY <1>2, <2>8, DelegateStep
  <2> QED
    BY <1>2, <2>1, <2>2, <2>3, <2>4, <2>5, <2>6, <2>7, <2>8 DEF Next
<1> QED
  BY <1>1, <1>2, PTL DEF Spec

-----------------------------------------------------------------------------
(* What follows.                                                           *)

\* Delegation never nests deeper than handle_delegation lets it, no run
\* takes more turns than its agent has, and none sends more than
\* MAX_RETRIES retries.
THEOREM TypeCorrect == Spec => []TypeOK
<1>1. IInv => TypeOK
  BY DEF IInv, TypeOK, Nested, Returned
<1> QED
  BY <1>1, InvariantHolds, PTL

\* Whatever tools, children and the turn limit do, AgentRuntime::run never
\* sends the LLM a conversation with a call that is not answered right after
\* the message that makes it, once and in order.
THEOREM ConversationsAnswered == Spec => []ConversationsWellFormed
<1>1. IInv => ConversationsWellFormed
  BY AskingRun DEF ConversationsWellFormed, Ready
<1> QED
  BY <1>1, InvariantHolds, PTL

\* AgentRuntime::run returns an error only for a request of its own: never
\* for a tool or a child, never at the turn limit, and for a status that can
\* be retried only after the last retry.
THEOREM OwnFailures == Spec => []FailsByItsOwnRequest
<1>1. IInv => FailsByItsOwnRequest
  BY DEF IInv, Returned
<1> QED
  BY <1>1, InvariantHolds, PTL

\* insert_reasoning_trace is called for every message an agent says or
\* hears, in the order of the conversation; only an INSERT that fails leaves
\* a gap.
THEOREM Traceable == Spec => []TracesFollowConversation
<1>1. ASSUME IInv PROVE TracesFollowConversation
  <2>1. ASSUME NEW k \in DOMAIN stack
        PROVE  Traces(stack[k].rows, stack[k].messages)
    <3>1. stack[k] \in Runs /\ (Waiting(stack[k]) \/ Ready(stack[k]))
      BY <1>1 DEF IInv, Nested
    <3> QED
      BY <3>1, RunTraced
  <2> QED
    BY <1>1, <2>1 DEF IInv, Returned, TracesFollowConversation
<1> QED
  BY <1>1, InvariantHolds, PTL

=============================================================================
