------------------------------ MODULE ApprovalPipe ------------------------------
(***************************************************************************)
(* How a tool gets its approval: the broker of                             *)
(* server/dvadva-agent/src/soul/approval.rs, the one-shot answers of       *)
(* wire/types.rs, and the piping task that the agent loop of               *)
(* soul/kimisoul.rs starts with each step to carry requests from the       *)
(* broker to the turn's wire and the answers back.                         *)
(*                                                                         *)
(* The tasks run on several threads, so a step is at most one critical     *)
(* section.  Tools are tasks of their own: they outlive a cancelled turn,  *)
(* and so does its piping task, whose wire is then closed.                 *)
(***************************************************************************)
EXTENDS Naturals, Sequences

CONSTANTS
    Asks,       \* the tool calls that ask for approval, each its own request id
    Actions,    \* what approval is asked for
    MaxSteps,   \* bound: steps begun
    NoAsk       \* no request: a piping task with free hands

ASSUME ApprovalAssumption == MaxSteps \in Nat /\ NoAsk \notin Asks

Steps == 1..MaxSteps
Answers == {"Approve", "ApproveForSession", "Reject"}

VARIABLES
    \* Approval
    yolo,       \* nobody is asked
    auto,       \* auto_approve_actions
    queue,      \* request_queue
    line,       \* the piping tasks that wait for its receiver, the first one has it
    requests,   \* the keys of the map of requests
    verdict,    \* the value of each request's one-shot answer
    \* the agent loop
    step,       \* the number of the last step
    running,    \* whether that step runs
    closed,     \* the wires of the steps up to this one are closed
    \* each tool call
    tool,       \* where it is
    act,        \* the action it asks for, if it ever runs
    by,         \* the step that called it
    \* each piping task, named by its step
    pipe,       \* where it is
    held,       \* the request it carries
    \* each request on a wire
    shown,      \* the requests a live wire carried
    reply,      \* the value of the one-shot answer of the wire's copy
    \* history
    waved,      \* calls that went through because of yolo
    skipped     \* requests answered before the broker listed them

brokerVars == <<yolo, auto, queue, line, requests, verdict>>
loopVars == <<step, running, closed>>
toolVars == <<tool, act, by>>
pipeVars == <<pipe, held>>
wireVars == <<shown, reply>>
vars == <<brokerVars, loopVars, toolVars, pipeVars, wireVars, waved, skipped>>

TypeOK ==
    /\ yolo \in BOOLEAN /\ running \in BOOLEAN
    /\ auto \in SUBSET Actions
    /\ queue \in Seq(Asks) /\ line \in Seq(Steps)
    /\ requests \in SUBSET Asks
    /\ verdict \in [Asks -> Answers \cup {"none"}]
    /\ step \in 0..MaxSteps /\ closed \in 0..MaxSteps
    /\ tool \in [Asks -> {"none", "working", "asking", "queued", "look", "looked",
                          "asleep", "approved", "rejected"}]
    /\ act \in [Asks -> Actions]
    /\ by \in [Asks -> 0..MaxSteps]
    /\ pipe \in [Steps -> {"none", "fetch", "check", "look", "looked", "asleep",
                           "relay", "stopped"}]
    /\ held \in [Steps -> Asks \cup {NoAsk}]
    /\ shown \in SUBSET Asks
    /\ reply \in [Asks -> Answers \cup {"none"}]
    /\ waved \in SUBSET Asks /\ skipped \in SUBSET Asks

Init ==
    /\ yolo = FALSE /\ auto = {} /\ queue = <<>> /\ line = <<>> /\ requests = {}
    /\ verdict = [a \in Asks |-> "none"]
    /\ step = 0 /\ running = FALSE /\ closed = 0
    /\ tool = [a \in Asks |-> "none"]
    /\ act \in [Asks -> Actions] /\ by = [a \in Asks |-> 0]
    /\ pipe = [p \in Steps |-> "none"] /\ held = [p \in Steps |-> NoAsk]
    /\ shown = {} /\ reply = [a \in Asks |-> "none"]
    /\ waved = {} /\ skipped = {}

---------------------------------------------------------------------------------
(* The agent loop. *)

\* /yolo is a turn without a step.
ToggleYolo ==
    /\ ~running
    /\ yolo' = ~yolo
    /\ UNCHANGED <<auto, queue, line, requests, verdict, loopVars, toolVars, pipeVars,
                   wireVars, waved, skipped>>

BeginStep ==
    /\ ~running /\ step < MaxSteps
    /\ step' = step + 1 /\ running' = TRUE
    /\ pipe' = [pipe EXCEPT ![step + 1] = "fetch"]
    /\ line' = Append(line, step + 1)
    /\ UNCHANGED <<yolo, auto, queue, requests, verdict, closed, toolVars, held,
                   wireVars, waved, skipped>>

\* An abort lands where a task waits: for the queue, or for an answer.
EndStep ==
    /\ running
    /\ \A a \in Asks : by[a] = step => tool[a] \in {"approved", "rejected"}
    /\ \/ pipe[step] = "asleep" /\ UNCHANGED line
       \/ pipe[step] = "fetch" /\ \E i \in 1..Len(line) :
             line[i] = step
             /\ line' = SubSeq(line, 1, i - 1) \o SubSeq(line, i + 1, Len(line))
    /\ running' = FALSE
    /\ pipe' = [pipe EXCEPT ![step] = "stopped"]
    /\ held' = [held EXCEPT ![step] = NoAsk]
    /\ UNCHANGED <<yolo, auto, queue, requests, verdict, step, closed, toolVars,
                   wireVars, waved, skipped>>

\* run_soul: the turn is over, its wire closes.  A cancelled one is dropped where it
\* stands, and the handle of its piping task with it.
EndTurn ==
    /\ closed < step /\ ~running
    /\ closed' = step
    /\ UNCHANGED <<brokerVars, step, running, toolVars, pipeVars, wireVars, waved,
                   skipped>>

CancelTurn ==
    /\ closed < step /\ running
    /\ closed' = step /\ running' = FALSE
    /\ UNCHANGED <<brokerVars, step, toolVars, pipeVars, wireVars, waved, skipped>>

---------------------------------------------------------------------------------
(* A tool call: Approval::request, on the tool's own task. *)

CallTool(a) ==
    /\ running /\ tool[a] = "none"
    /\ by' = [by EXCEPT ![a] = step]
    /\ tool' = [tool EXCEPT ![a] = "working"]
    /\ UNCHANGED <<brokerVars, loopVars, act, pipeVars, wireVars, waved, skipped>>

Ask(a) ==
    /\ tool[a] = "working"
    /\ tool' = [tool EXCEPT ![a] = IF yolo \/ act[a] \in auto THEN "approved"
                                                              ELSE "asking"]
    /\ waved' = IF yolo THEN waved \cup {a} ELSE waved
    /\ UNCHANGED <<brokerVars, loopVars, act, by, pipeVars, wireVars, skipped>>

\* The request is queued first, and listed after.
Put(a) ==
    /\ tool[a] = "asking"
    /\ queue' = Append(queue, a)
    /\ tool' = [tool EXCEPT ![a] = "queued"]
    /\ UNCHANGED <<yolo, auto, line, requests, verdict, loopVars, act, by, pipeVars,
                   wireVars, waved, skipped>>

List(a) ==
    /\ tool[a] = "queued"
    /\ requests' = requests \cup {a}
    /\ tool' = [tool EXCEPT ![a] = "look"]
    /\ UNCHANGED <<yolo, auto, queue, line, verdict, loopVars, act, by, pipeVars,
                   wireVars, waved, skipped>>

\* PendingResponse::wait looks at the value, and only then asks to be notified.
LookAgain(a) ==
    /\ tool[a] = "look" /\ verdict[a] = "none"
    /\ tool' = [tool EXCEPT ![a] = "looked"]
    /\ UNCHANGED <<brokerVars, loopVars, act, by, pipeVars, wireVars, waved, skipped>>

Sleep(a) ==
    /\ tool[a] = "looked"
    /\ tool' = [tool EXCEPT ![a] = "asleep"]
    /\ UNCHANGED <<brokerVars, loopVars, act, by, pipeVars, wireVars, waved, skipped>>

Finish(a) ==
    /\ tool[a] = "look" /\ verdict[a] # "none"
    /\ tool' = [tool EXCEPT ![a] = IF verdict[a] = "Reject" THEN "rejected"
                                                            ELSE "approved"]
    /\ auto' = IF verdict[a] = "ApproveForSession" THEN auto \cup {act[a]} ELSE auto
    /\ UNCHANGED <<yolo, queue, line, requests, verdict, loopVars, act, by, pipeVars,
                   wireVars, waved, skipped>>

---------------------------------------------------------------------------------
(* A piping task. *)

\* resolve_request: the first answer counts, and wakes a waiter that is asleep.
\* A request that is not listed is not found, and its answer is lost.
Settle(a, v) ==
    /\ requests' = requests \ {a}
    /\ skipped' = IF a \in requests THEN skipped ELSE skipped \cup {a}
    /\ verdict' = IF a \in requests /\ verdict[a] = "none"
                  THEN [verdict EXCEPT ![a] = v] ELSE verdict
    /\ tool' = IF a \in requests /\ verdict[a] = "none" /\ tool[a] = "asleep"
               THEN [tool EXCEPT ![a] = "look"] ELSE tool

\* Back to the queue, at the end of the line.
Refetch(p) ==
    /\ pipe' = [pipe EXCEPT ![p] = "fetch"]
    /\ held' = [held EXCEPT ![p] = NoAsk]
    /\ line' = Append(line, p)

Fetch(p) ==
    /\ pipe[p] = "fetch" /\ queue # <<>>
    /\ line # <<>> /\ Head(line) = p
    /\ line' = Tail(line) /\ queue' = Tail(queue)
    /\ held' = [held EXCEPT ![p] = Head(queue)]
    /\ pipe' = [pipe EXCEPT ![p] = "check"]
    /\ UNCHANGED <<yolo, auto, requests, verdict, loopVars, toolVars, wireVars, waved,
                   skipped>>

\* Mutant: a request for an action already approved is dropped, not resolved.
AutoApproveSilently(p) ==
    /\ pipe[p] = "check" /\ act[held[p]] \in auto
    /\ Refetch(p)
    /\ UNCHANGED <<yolo, auto, queue, requests, verdict, loopVars, toolVars, wireVars,
                   waved, skipped>>

AutoApprove(p) ==
    /\ pipe[p] = "check" /\ act[held[p]] \in auto
    /\ Settle(held[p], "Approve")
    /\ Refetch(p)
    /\ UNCHANGED <<yolo, auto, queue, loopVars, act, by, wireVars, waved>>

\* A closed wire takes the request and shows it to nobody.
Show(p) ==
    /\ pipe[p] = "check" /\ act[held[p]] \notin auto
    /\ shown' = IF p > closed THEN shown \cup {held[p]} ELSE shown
    /\ pipe' = [pipe EXCEPT ![p] = "look"]
    /\ UNCHANGED <<brokerVars, loopVars, toolVars, held, reply, waved, skipped>>

LookForReply(p) ==
    /\ pipe[p] = "look"
    /\ pipe' = [pipe EXCEPT ![p] = IF reply[held[p]] = "none" THEN "looked" ELSE "relay"]
    /\ UNCHANGED <<brokerVars, loopVars, toolVars, held, wireVars, waved, skipped>>

SleepOnReply(p) ==
    /\ pipe[p] = "looked"
    /\ pipe' = [pipe EXCEPT ![p] = "asleep"]
    /\ UNCHANGED <<brokerVars, loopVars, toolVars, held, wireVars, waved, skipped>>

\* Mutant: an approval for once is remembered for the session.
RelayForever(p) ==
    /\ pipe[p] = "relay"
    /\ LET a == held[p] IN
         /\ Settle(a, reply[a])
         /\ auto' = IF reply[a] # "Reject" /\ a \in requests
                    THEN auto \cup {act[a]} ELSE auto
    /\ Refetch(p)
    /\ UNCHANGED <<yolo, queue, loopVars, act, by, wireVars, waved>>

Relay(p) ==
    /\ pipe[p] = "relay"
    /\ LET a == held[p] IN
         /\ Settle(a, reply[a])
         /\ auto' = IF reply[a] = "ApproveForSession" /\ a \in requests
                    THEN auto \cup {act[a]} ELSE auto
    /\ Refetch(p)
    /\ UNCHANGED <<yolo, queue, loopVars, act, by, wireVars, waved>>

---------------------------------------------------------------------------------
\* The other end of the wire answers a request it was shown, at any time after.
Answer(a) ==
    /\ a \in shown /\ reply[a] = "none"
    /\ \E v \in Answers : reply' = [reply EXCEPT ![a] = v]
    /\ pipe' = [p \in Steps |-> IF held[p] = a /\ pipe[p] = "asleep" THEN "look"
                                                                      ELSE pipe[p]]
    /\ UNCHANGED <<brokerVars, loopVars, toolVars, held, shown, waved, skipped>>

Loop == ToggleYolo \/ BeginStep \/ EndStep \/ EndTurn \/ CancelTurn

Tool(a) ==
    \/ CallTool(a) \/ Ask(a) \/ Put(a) \/ List(a) \/ LookAgain(a) \/ Sleep(a)
    \/ Finish(a)

Pipe(p) ==
    \/ Fetch(p) \/ AutoApprove(p) \/ Show(p) \/ LookForReply(p) \/ SleepOnReply(p)
    \/ Relay(p)

Next ==
    \/ Loop
    \/ \E a \in Asks : Tool(a) \/ Answer(a)
    \/ \E p \in Steps : Pipe(p)

Spec == Init /\ [][Next]_vars

---------------------------------------------------------------------------------
(* approval.rs:71-130: no tool runs without consent.  One that was let through
   was waved on by yolo, was itself approved by an answer, or asked for an action
   that an answer to it or to another request approved for the session. *)
Consented(x) == \E b \in Asks : act[b] = x /\ reply[b] = "ApproveForSession"

NoRunWithoutConsent ==
    \A a \in Asks :
        tool[a] = "approved" =>
            a \in waved \/ reply[a] = "Approve" \/ Consented(act[a])

(* kimisoul.rs:776 and 819: a request is in one place.  It is queued once or
   carried by one piping task; and while the step that raised it runs it is in one
   of these places until it is resolved, but for one whose answer came before the
   broker had listed it. *)
Queued(a) == \E i \in DOMAIN queue : queue[i] = a

Waiting(a) == tool[a] \in {"queued", "look", "looked", "asleep"} /\ verdict[a] = "none"

RequestInOnePlace ==
    /\ \A i, j \in DOMAIN queue : queue[i] = queue[j] => i = j
    /\ \A p, q \in Steps : held[p] = held[q] /\ held[p] # NoAsk => p = q
    /\ \A p \in Steps : ~Queued(held[p])
    /\ running =>
          \A a \in Asks :
              by[a] = step /\ Waiting(a) /\ a \notin skipped =>
                  Queued(a) \/ \E p \in Steps : held[p] = a

(* Does not hold, _history/PLAN.md:47-48: "per-step approval piping".  A request of the running
   step that a piping task waits an answer to was shown on the wire of its turn. *)
ShownToItsTurn ==
    running =>
        \A p \in Steps :
            pipe[p] \in {"look", "looked", "asleep"} /\ by[held[p]] = step =>
                held[p] \in shown
=================================================================================
