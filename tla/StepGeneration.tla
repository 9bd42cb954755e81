----------------------------- MODULE StepGeneration ------------------------------
(***************************************************************************)
(* One step of a turn, from the request to the model to the results of the *)
(* tools it called:                                                        *)
(*                                                                         *)
(*   the answer as it streams in                                           *)
(*             kosong/src/chat_provider/openai_compatible.rs and kimi.rs   *)
(*   its parts put together, its calls given to the tools                  *)
(*             kosong/src/{generate,lib,message}.rs,                       *)
(*             dvadva-agent/src/soul/toolset.rs                            *)
(*   what the clients are told meanwhile; another attempt after an error   *)
(*             KimiSoul::step in dvadva-agent/src/soul/kimisoul.rs         *)
(*                                                                         *)
(* A line of the answer is one data: event.  Text and arguments are one    *)
(* fragment like another; a call is known by the attempt it was made in    *)
(* and its index in the answer.  The provider gives calls of one answer    *)
(* different ids.                                                          *)
(***************************************************************************)
EXTENDS Naturals, Sequences, FiniteSets, SequencesExt

CONSTANTS
    MaxAttempts,    \* max_retries_per_step
    MaxCalls,       \* bound: calls in an answer
    MaxEvents        \* bound: events in an answer

ASSUME StepAssumption == MaxAttempts \in Nat \ {0} /\ MaxCalls \in Nat /\ MaxEvents \in Nat

VARIABLES
    gen,        \* idle, asking, streaming, failing, backoff, results, telling or over
    attempts,   \* attempts made
    answer,     \* StreamedMessage: what was received and not yet handed on
    lines,      \* events received in this attempt
    pendingPart,    \* generate(): the part that the next may be merged with
    message,    \* generate(): the message so far
    toolRun,       \* each call's tool: none, running or done
    partQueue,  \* parts for the forwarding task
    resultQueue,    \* results for the forwarding task
    told,      \* what it has sent to the wire
    stepVerdict     \* of the step: none, again, well, failed or cut

stepVars == <<gen, attempts, answer, lines, pendingPart, message, toolRun, partQueue,
              resultQueue, told, stepVerdict>>

Contents == {"text", "think"}
CallsOf(a) == {[at |-> a, index |-> i] : i \in 1..MaxCalls}
AllCalls == UNION {CallsOf(a) : a \in 1..MaxAttempts}
Part(kind, call) == [kind |-> kind, call |-> call]
NoCall == [at |-> 0, index |-> 0]
NoPart == Part("none", NoCall)
Parts == {Part(k, NoCall) : k \in Contents} \cup {Part("call", c) : c \in AllCalls}

\* new_stream: nothing received; an accumulated call is what its fragments made of it.
Unheard == [parts |-> <<>>, finished |-> FALSE, flushed |-> FALSE, open |-> TRUE,
            named |-> {}, bad |-> FALSE]
NoMessage == [content |-> <<>>, calls |-> <<>>]

StepTypeOK ==
    /\ gen \in {"idle", "asking", "streaming", "failing", "backoff", "results", "telling", "over"}
    /\ attempts \in 0..MaxAttempts /\ lines \in 0..MaxEvents
    /\ ToSet(answer.parts) \subseteq Parts /\ answer.named \subseteq 1..MaxCalls
    /\ pendingPart \in Parts \cup {NoPart}
    /\ toolRun \in [AllCalls -> {"none", "running", "done"}]
    /\ stepVerdict \in {"none", "again", "well", "failed", "cut"}

StepInit ==
    /\ gen = "idle" /\ attempts = 0 /\ answer = Unheard /\ lines = 0
    /\ pendingPart = NoPart /\ message = NoMessage
    /\ toolRun = [c \in AllCalls |-> "none"]
    /\ partQueue = <<>> /\ resultQueue = <<>> /\ told = {} /\ stepVerdict = "none"

toldVars == <<partQueue, resultQueue, told>>
madeVars == <<pendingPart, message, toolRun, toldVars>>

---------------------------------------------------------------------------------
(* The answer. *)

\* Another attempt begins with everything anew.
Attempt ==
    /\ gen \in {"idle", "backoff"}
    /\ gen' = "asking" /\ attempts' = attempts + 1
    /\ answer' = Unheard /\ lines' = 0 /\ pendingPart' = NoPart /\ message' = NoMessage
    /\ stepVerdict' = "none"
    /\ UNCHANGED <<toolRun, toldVars>>

GenerationFails(retryable) ==
    /\ gen' = "failing" /\ stepVerdict' = IF retryable THEN "again" ELSE "failed"
    /\ UNCHANGED <<attempts, answer, lines, madeVars>>

\* The request is refused or does not arrive; the status tells whether to try again.
RequestFails == gen = "asking" /\ \E retryable \in BOOLEAN : GenerationFails(retryable)

StreamBegins ==
    /\ gen = "asking" /\ gen' = "streaming"
    /\ UNCHANGED <<attempts, answer, lines, madeVars, stepVerdict>>

\* An answer that is not streamed comes at once: new_parts.
WholeAnswer(contents, n) ==
    /\ gen = "asking" /\ gen' = "streaming"
    /\ answer' = [Unheard EXCEPT
         !.parts = [i \in 1..Len(contents) |-> Part(contents[i], NoCall)] \o
                   [i \in 1..n |-> Part("call", [at |-> attempts, index |-> i])],
         !.finished = TRUE, !.flushed = TRUE, !.open = FALSE]
    /\ UNCHANGED <<attempts, lines, madeVars, stepVerdict>>

EventLines ==
    {[kind |-> k, index |-> 0] : k \in Contents \cup {"finish", "done", "garbage"}} \cup
    {[kind |-> k, index |-> i] : k \in {"name", "arguments"}, i \in 1..MaxCalls}

\* Mutant: a call is handed on with the event that names it.
IngestByAdjacency(heard, line) ==
    IF ~heard.open \/ heard.bad THEN heard
    ELSE CASE line.kind \in Contents ->
                [heard EXCEPT !.parts = Append(@, Part(line.kind, NoCall))]
           [] line.kind = "name" ->
                [heard EXCEPT !.parts =
                    Append(@, Part("call", [at |-> attempts, index |-> line.index]))]
           [] line.kind = "arguments" -> heard
           [] line.kind = "finish" -> [heard EXCEPT !.finished = TRUE]
           [] line.kind = "done" -> [heard EXCEPT !.finished = TRUE, !.open = FALSE]
           [] line.kind = "garbage" -> [heard EXCEPT !.bad = TRUE]

\* Text is handed on as it comes, calls are put together by their index.  Nothing of a
\* read is looked at after [DONE] or an event that cannot be parsed.
Ingest(heard, line) ==
    IF ~heard.open \/ heard.bad THEN heard
    ELSE CASE line.kind \in Contents ->
                [heard EXCEPT !.parts = Append(@, Part(line.kind, NoCall))]
           [] line.kind = "name" -> [heard EXCEPT !.named = @ \cup {line.index}]
           [] line.kind = "arguments" -> heard
           [] line.kind = "finish" -> [heard EXCEPT !.finished = TRUE]
           [] line.kind = "done" -> [heard EXCEPT !.finished = TRUE, !.open = FALSE]
           [] line.kind = "garbage" -> [heard EXCEPT !.bad = TRUE]

Drained == gen = "streaming" /\ answer.parts = <<>>

\* One read brings one event or more, here two.
ReadEvents(events) ==
    /\ Drained /\ answer.open /\ ~answer.finished /\ ~answer.bad
    /\ lines + Len(events) <= MaxEvents /\ lines' = lines + Len(events)
    /\ answer' = LET heard == Ingest(answer, events[1]) IN
                   IF Len(events) = 1 THEN heard ELSE Ingest(heard, events[2])
    /\ UNCHANGED <<gen, attempts, madeVars, stepVerdict>>

\* What was read before the event that cannot be parsed is not handed on.
BadEvent == gen = "streaming" /\ answer.bad /\ GenerationFails(FALSE)

StreamEnds ==
    /\ Drained /\ answer.open /\ ~answer.finished /\ ~answer.bad
    /\ answer' = [answer EXCEPT !.open = FALSE]
    /\ UNCHANGED <<gen, attempts, lines, madeVars, stepVerdict>>

\* A timeout may be tried again, a broken body is not.
StreamBreaks ==
    /\ Drained /\ answer.open /\ ~answer.finished /\ ~answer.bad
    /\ \E retryable \in BOOLEAN : GenerationFails(retryable)

\* Cut off before the provider said that it was done.
CutOff == Drained /\ ~answer.open /\ ~answer.finished /\ GenerationFails(TRUE)

\* In the order of their slots; one that was never named is none.
FlushToolCalls ==
    /\ Drained /\ answer.finished /\ ~answer.flushed /\ ~answer.bad
    /\ \E slots \in [1..Cardinality(answer.named) -> answer.named] :
         /\ \A i, j \in DOMAIN slots : i < j => slots[i] < slots[j]
         /\ answer' = [answer EXCEPT !.flushed = TRUE,
              !.parts = [i \in DOMAIN slots |->
                            Part("call", [at |-> attempts, index |-> slots[i]])]]
    /\ UNCHANGED <<gen, attempts, lines, madeVars, stepVerdict>>

---------------------------------------------------------------------------------
(* The message. *)

\* KimiToolset::handle: a call that finds no tool or has bad arguments is answered at
\* once, the others run in a task of their own.
Dispatch(call) ==
    \/ /\ toolRun' = [toolRun EXCEPT ![call] = "done"]
       /\ resultQueue' = Append(resultQueue, call)
    \/ toolRun' = [toolRun EXCEPT ![call] = "running"] /\ resultQueue' = resultQueue

AppendPart(part) ==
    IF part.kind = "call"
    THEN message' = [message EXCEPT !.calls = Append(@, part.call)] /\ Dispatch(part.call)
    ELSE /\ message' = IF part = NoPart THEN message
                       ELSE [message EXCEPT !.content = Append(@, part.kind)]
         /\ UNCHANGED <<toolRun, resultQueue>>

Merges(part) == pendingPart = part /\ part.kind \in Contents

NextPart ==
    /\ gen = "streaming" /\ answer.parts # <<>> /\ ~answer.bad
    /\ LET part == Head(answer.parts) IN
         /\ answer' = [answer EXCEPT !.parts = Tail(@)]
         /\ partQueue' = Append(partQueue, part)
         /\ pendingPart' = part
         /\ IF Merges(part) THEN UNCHANGED <<message, toolRun, resultQueue>>
                            ELSE AppendPart(pendingPart)
    /\ UNCHANGED <<gen, attempts, lines, told, stepVerdict>>

\* The end: an answer of nothing is asked for again.
AnswerEnds ==
    /\ Drained /\ answer.finished /\ answer.flushed
    /\ AppendPart(pendingPart) /\ pendingPart' = NoPart
    /\ IF message' = NoMessage THEN gen' = "failing" /\ stepVerdict' = "again"
                               ELSE gen' = "results" /\ stepVerdict' = stepVerdict
    /\ UNCHANGED <<attempts, answer, lines, partQueue, told>>

ToolEnds(call) ==
    /\ toolRun[call] = "running" /\ toolRun' = [toolRun EXCEPT ![call] = "done"]
    /\ resultQueue' = Append(resultQueue, call)
    /\ UNCHANGED <<gen, attempts, answer, lines, pendingPart, message, partQueue, told, stepVerdict>>

---------------------------------------------------------------------------------
(* KimiSoul::step. *)

\* The forwarding task takes from either queue.
ForwardPart ==
    /\ partQueue # <<>>
    /\ told' = told \cup {Head(partQueue)} /\ partQueue' = Tail(partQueue)
    /\ UNCHANGED <<gen, attempts, answer, lines, pendingPart, message, toolRun, resultQueue, stepVerdict>>

ForwardResult ==
    /\ resultQueue # <<>>
    /\ told' = told \cup {Part("result", Head(resultQueue))}
    /\ resultQueue' = Tail(resultQueue)
    /\ UNCHANGED <<gen, attempts, answer, lines, pendingPart, message, toolRun, partQueue, stepVerdict>>

\* The forwarding task ends when nobody can tell it anything any more.
ForwardEnded ==
    partQueue = <<>> /\ resultQueue = <<>> /\ \A c \in AllCalls : toolRun[c] # "running"

Retry ==
    /\ gen = "failing" /\ ForwardEnded
    /\ IF stepVerdict = "again" /\ attempts < MaxAttempts
       THEN gen' = "backoff" /\ stepVerdict' = stepVerdict
       ELSE gen' = "over" /\ stepVerdict' = "failed"
    /\ UNCHANGED <<attempts, answer, lines, madeVars>>

\* tool_results, in the order of the calls, then grow_context, which may refuse them.
GrowWhenAnswered ==
    /\ gen = "results" /\ \A c \in ToSet(message.calls) : toolRun[c] = "done"
    /\ gen' = "telling" /\ stepVerdict' \in {"none", "failed"}
    /\ UNCHANGED <<attempts, answer, lines, madeVars>>

\* Well or not, it waits until the clients have been told.
StepReturns ==
    /\ gen = "telling" /\ ForwardEnded
    /\ gen' = "over" /\ stepVerdict' = IF stepVerdict = "none" THEN "well" ELSE stepVerdict
    /\ UNCHANGED <<attempts, answer, lines, madeVars>>

\* The turn is cancelled: the tools run on.
StepCut ==
    /\ gen \notin {"idle", "over"} /\ gen' = "over" /\ stepVerdict' = "cut"
    /\ UNCHANGED <<attempts, answer, lines, madeVars>>

StepNext ==
    \/ (attempts < MaxAttempts /\ Attempt) \/ RequestFails \/ StreamBegins
    \/ \E contents \in {<<>>, <<"text">>, <<"think", "text">>}, n \in 0..MaxCalls :
          WholeAnswer(contents, n)
    \/ \E events \in {<<a>> : a \in EventLines} \cup (EventLines \X EventLines) :
          ReadEvents(events)
    \/ BadEvent \/ StreamEnds \/ StreamBreaks \/ CutOff \/ FlushToolCalls
    \/ NextPart \/ AnswerEnds \/ (\E call \in AllCalls : ToolEnds(call))
    \/ ForwardPart \/ ForwardResult \/ Retry \/ GrowWhenAnswered \/ StepReturns \/ StepCut

StepSpec == StepInit /\ [][StepNext]_stepVars

---------------------------------------------------------------------------------
(* lib.rs:37-66, openai_compatible.rs:303-311, kimisoul.rs:925-927: no tool has run for an
   attempt that was given up, and a step that ends well has told the clients of every
   part and every call of its message, with the result of each. *)
StepIsWhole ==
    /\ \A c \in AllCalls : toolRun[c] # "none" =>
         c.at = attempts /\ gen \notin {"failing", "backoff"}
    /\ stepVerdict = "well" =>
         /\ \A i \in DOMAIN message.content : Part(message.content[i], NoCall) \in told
         /\ \A c \in ToSet(message.calls) :
              toolRun[c] = "done" /\ {Part("call", c), Part("result", c)} \subseteq told
=================================================================================
