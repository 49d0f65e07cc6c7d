------------------------------ MODULE AgentRun ------------------------------
(***************************************************************************)
(* One attempt at a step: AgentRuntime::run (backend/src/agent_runtime.rs) *)
(* with the runs it delegates to, and the requests to the LLM that         *)
(* LlmClient::request_with_retry makes for it (backend/src/llm.rs).  A run *)
(* thinks, acts on every tool call of the answer and observes, turn after  *)
(* turn.  Delegation is a recursive call: the runs under way are a stack.  *)
(* What the LLM and the tools say is not modelled, but its kind is.  The   *)
(* attempt may be dropped anywhere by the 30 minute timer: StepDispatch    *)
(* has that.                                                               *)
(***************************************************************************)
EXTENDS Naturals, Sequences, FiniteSets, SequencesExt

CONSTANTS
  MaxTurns,    \* max_turns of the agent (20; 25 for `research`)
  MaxDepth,    \* the limit of handle_delegation (3)
  MaxRetries,  \* MAX_RETRIES of request_with_retry (3)
  MaxCalls,    \* bound of the model: tool calls in one answer
  Faults       \* the failures of the environment that are in scope

FaultKinds == {"status",     \* the LLM's server answers with an error status
               "transport",  \* no answer arrives, or one that cannot be read
               "database"}   \* the INSERT of a trace fails

ASSUME BoundsAssumption == /\ MaxTurns \in Nat \ {0}
                           /\ MaxDepth \in Nat
                           /\ MaxRetries \in Nat
                           /\ MaxCalls \in Nat \ {0}
ASSUME RunFaultsAssumption == Faults \subseteq FaultKinds

VARIABLES
  stack,     \* the runs under way: the root first, each above its parent
  attempt,   \* the loop variable of request_with_retry, for the top run
  finished,  \* the run that returned just now, as it was, and how it ended
  outcome    \* what the root returned

vars == <<stack, attempt, finished, outcome>>

CallKinds == {"tool", "delegate"}

\* A message of a conversation: an assistant message says how many tool calls
\* it makes (none in a final answer), a tool message which of them it answers.
Message(role, of) == [role |-> role, of |-> of]

\* The row of a trace whose INSERT failed.
Gap == Message("gap", 0)

\* A run: `calls` are those of the last answer it has yet to process, `rows`
\* its rows in reasoning_traces, gaps included.
NewRun == [at |-> "think", turns |-> 0, calls |-> <<>>,
           messages |-> <<Message("system", 0), Message("user", 0)>>,
           rows |-> <<>>]

Top == Last(stack)
Depth == Len(stack) - 1
ReplaceTop(run) == Append(Front(stack), run)

NoRun == [end |-> "none"]

Init ==
  /\ stack = <<NewRun>>
  /\ attempt = 0
  /\ finished = NoRun
  /\ outcome = "none"

-----------------------------------------------------------------------------

\* insert_reasoning_trace, whose error is dropped.
Traced(rows, m) ==
  {Append(rows, r) : r \in IF "database" \in Faults THEN {m, Gap} ELSE {m}}

\* The calls of the last assistant message, and the one to process next.
Asked(run) == SelectLastInSeq(run.messages, LAMBDA m : m.role = "assistant")
NextCall(run) == run.messages[Asked(run)].of - Len(run.calls) + 1

\* One tool message answers the next call, whatever came of it.  After the
\* last one the turn is over; at the limit a summary is asked for.
Observed(run) ==
  LET m     == Message("tool", NextCall(run))
      over  == Len(run.calls) = 1
      limit == over /\ run.turns + 1 >= MaxTurns
  IN  { [at |-> IF limit THEN "summary" ELSE IF over THEN "think" ELSE "act",
         turns |-> IF over THEN run.turns + 1 ELSE run.turns,
         calls |-> Tail(run.calls),
         messages |-> run.messages \o (IF limit THEN <<m, Message("user", 0)>>
                                               ELSE <<m>>),
         rows |-> rows] : rows \in Traced(run.rows, m) }

\* The top run returns; `said` is its final answer, if it has one.  Its
\* parent takes the result or the error as the answer to the call.
Finish(run, end, said) ==
  /\ attempt' = 0
  /\ finished' = [end |-> end, depth |-> Depth, run |-> run, said |-> said,
                  requests |-> attempt + 1]
  /\ IF Depth = 0
       THEN /\ stack' = <<>>
            /\ outcome' = end
       ELSE /\ \E parent \in Observed(Last(Front(stack))) :
                 stack' = Append(Front(Front(stack)), parent)
            /\ UNCHANGED outcome

-----------------------------------------------------------------------------
(* The LLM is asked, in the phases "think" and "summary".                  *)

Asking == stack # <<>> /\ Top.at \in {"think", "summary"}

\* Mutant: the count starts over.
LlmBusy_forever ==
  /\ "status" \in Faults
  /\ Asking
  /\ attempt' = IF attempt < MaxRetries THEN attempt + 1 ELSE 0
  /\ finished' = NoRun
  /\ UNCHANGED <<stack, outcome>>

\* A retryable status, with retries left: back off and send again.
LlmBusy ==
  /\ "status" \in Faults
  /\ Asking /\ attempt < MaxRetries
  /\ attempt' = attempt + 1
  /\ finished' = NoRun
  /\ UNCHANGED <<stack, outcome>>

\* A retryable status after the last retry, another status, or an error of
\* the request itself, which is not retried.
CallFails(why) ==
  \/ why = "busy" /\ "status" \in Faults /\ attempt = MaxRetries
  \/ why = "refused" /\ "status" \in Faults
  \/ why = "transport" /\ "transport" \in Faults

Causes == {"busy", "refused", "transport"}

\* The run returns the error.
ThinkFails ==
  /\ Asking /\ Top.at = "think"
  /\ \E why \in Causes : CallFails(why) /\ Finish(Top, why, <<>>)

\* A final answer.
ThinkAnswers ==
  /\ Asking /\ Top.at = "think"
  /\ LET m == Message("assistant", 0)
     IN  \E rows \in Traced(Top.rows, m) :
           Finish([Top EXCEPT !.rows = rows], "ok", <<m>>)

\* Mutant: no trace of the calls.
ThinkCalls_untraced ==
  /\ Asking /\ Top.at = "think"
  /\ \E calls \in BoundedSeq(CallKinds, MaxCalls) \ {<<>>} :
       LET m == Message("assistant", Len(calls))
       IN  stack' = ReplaceTop([Top EXCEPT !.at = "act", !.calls = calls,
                                           !.messages = Append(@, m)])
  /\ attempt' = 0
  /\ finished' = NoRun
  /\ UNCHANGED outcome

\* Tool calls: at least one, in the order of the answer.
ThinkCalls ==
  /\ Asking /\ Top.at = "think"
  /\ \E calls \in BoundedSeq(CallKinds, MaxCalls) \ {<<>>} :
       LET m == Message("assistant", Len(calls))
       IN  \E rows \in Traced(Top.rows, m) :
             stack' = ReplaceTop([Top EXCEPT !.at = "act", !.calls = calls,
                                             !.messages = Append(@, m),
                                             !.rows = rows])
  /\ attempt' = 0
  /\ finished' = NoRun
  /\ UNCHANGED outcome

\* Mutant: a failing summary fails the run.
Summarize_strict ==
  /\ Asking /\ Top.at = "summary"
  /\ \/ Finish(Top, "ok", <<Message("assistant", 0)>>)
     \/ \E why \in Causes : CallFails(why) /\ Finish(Top, why, <<>>)

\* The last request offers no tools.  Whatever comes of it, tool calls and
\* errors included, the run returns Ok with some text; no trace is inserted.
Summarize ==
  /\ Asking /\ Top.at = "summary"
  /\ \/ Finish(Top, "ok", <<Message("assistant", 0)>>)
     \/ \E why \in Causes : CallFails(why) /\ Finish(Top, "ok", <<>>)

-----------------------------------------------------------------------------
(* The run acts on the next call.                                          *)

Acting(kind) == stack # <<>> /\ Top.at = "act" /\ Head(Top.calls) = kind

\* The tool succeeded, failed, timed out or is not one of the agent's.
ToolReturns ==
  /\ Acting("tool")
  /\ \E run \in Observed(Top) : stack' = ReplaceTop(run)
  /\ finished' = NoRun
  /\ UNCHANGED <<attempt, outcome>>

\* Mutant: no message answers a call that was refused.
RefuseDelegation_silent ==
  /\ Acting("delegate")
  /\ \E run \in Observed(Top) :
       stack' = ReplaceTop([run EXCEPT !.messages = Top.messages])
  /\ finished' = NoRun
  /\ UNCHANGED <<attempt, outcome>>

\* Too deep, arguments that do not parse, or an agent nobody registered.
RefuseDelegation ==
  /\ Acting("delegate")
  /\ \E run \in Observed(Top) : stack' = ReplaceTop(run)
  /\ finished' = NoRun
  /\ UNCHANGED <<attempt, outcome>>

\* Mutant: the limit is off by one.
Delegate_deep ==
  /\ Acting("delegate") /\ Depth <= MaxDepth
  /\ stack' = Append(stack, NewRun)
  /\ finished' = NoRun
  /\ UNCHANGED <<attempt, outcome>>

\* The child runs in the same sandbox; delegation has no timeout of its own.
Delegate ==
  /\ Acting("delegate") /\ Depth < MaxDepth
  /\ stack' = Append(stack, NewRun)
  /\ finished' = NoRun
  /\ UNCHANGED <<attempt, outcome>>

Next ==
  \/ LlmBusy \/ ThinkFails \/ ThinkAnswers \/ ThinkCalls \/ Summarize
  \/ ToolReturns \/ RefuseDelegation \/ Delegate

Spec == Init /\ [][Next]_vars

\* Fairness: a run goes on.  That the LLM's server answers at all is an
\* assumption (the client sets no timeout); tools are timed out by the code.
FairSpec == Spec /\ WF_vars(Next)

-----------------------------------------------------------------------------
(* Properties.                                                             *)

Runs == [at : {"think", "act", "summary"}, turns : 0 .. MaxTurns,
         calls : BoundedSeq(CallKinds, MaxCalls),
         messages : Seq([role : {"system", "user", "assistant", "tool"},
                         of : 0 .. MaxCalls]),
         rows : Seq([role : {"assistant", "tool", "gap"}, of : 0 .. MaxCalls])]

\* Never more runs than "max depth 3" allows.
TypeOK ==
  /\ stack \in Seq(Runs) /\ Len(stack) <= MaxDepth + 1
  /\ attempt \in 0 .. MaxRetries
  /\ finished # NoRun => /\ finished.end \in {"ok"} \cup Causes
                         /\ finished.run \in Runs
  /\ outcome \in {"none", "ok"} \cup Causes

\* Each call of an assistant message is answered, in order, by the messages
\* right after it, and no other message answers any.
WellFormed(messages) ==
  /\ \A k \in DOMAIN messages : messages[k].role = "assistant" =>
       LET last == k + messages[k].of
       IN  /\ last <= Len(messages)
           /\ \A c \in 1 .. messages[k].of : messages[k + c] = Message("tool", c)
           /\ last < Len(messages) => messages[last + 1].role # "tool"
  /\ \A k \in DOMAIN messages : messages[k].role = "tool" =>
       k > 1 /\ messages[k - 1].role \in {"assistant", "tool"}

\* "assistant message with tool_calls (must come before tool result messages
\* per OpenAI format)": whatever became of the calls, of tools and of
\* children, every conversation sent to the LLM answers each call once, in
\* order, right after the message that makes it.
ConversationsWellFormed == Asking => WellFormed(Top.messages)

\* A run fails for one reason, its own request to the LLM, with every call
\* of its conversation answered: neither a tool nor a child that failed makes
\* it fail, and a retryable status does so only after MAX_RETRIES retries.
FailsByItsOwnRequest ==
  finished # NoRun /\ finished.end # "ok" =>
    /\ WellFormed(finished.run.messages)
    /\ finished.run.turns < MaxTurns
    /\ finished.end = "busy" => finished.requests = MaxRetries + 1

\* Where the agent, a tool or a child has spoken.
Spoken(messages) == {k \in DOMAIN messages : messages[k].role \in {"assistant", "tool"}}

\* What was traced is what was said, in order, with gaps at most: the row of a
\* message comes after as many rows as messages were said before it.
Traces(rows, messages) ==
  LET spoken == Spoken(messages)
  IN  /\ Len(rows) = Cardinality(spoken)
      /\ \A k \in spoken :
           rows[Cardinality({i \in spoken : i <= k})] \in {messages[k], Gap}

\* The traces of a run are its conversation in order, but for INSERTs that
\* failed, up to the final answer if it gave that before the turn limit.
TracesFollowConversation ==
  /\ \A k \in DOMAIN stack : Traces(stack[k].rows, stack[k].messages)
  /\ finished # NoRun /\ finished.run.turns < MaxTurns =>
       Traces(finished.run.rows, finished.run.messages \o finished.said)

\* "Every agent thought, tool call, and observation persisted as reasoning
\* traces" (README.md): all that a run which has returned said.
EveryThoughtTraced ==
  finished # NoRun =>
    Traces(finished.run.rows, finished.run.messages \o finished.said)

\* Whatever the LLM asks for, delegating at every turn included, the attempt
\* comes to an end.
AttemptEnds == <>(outcome # "none")

=============================================================================
