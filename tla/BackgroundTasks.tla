----------------------------- MODULE BackgroundTasks -----------------------------
(***************************************************************************)
(* Background tasks: server/dvadva-agent/src/tasks.rs, the registry, and   *)
(* those who use it, each on a task of the runtime of its own.             *)
(*                                                                         *)
(*   tools/shell.rs        starts a command and watches it                 *)
(*   tools/agent.rs        starts a subagent (tools/fork.rs: a fork of     *)
(*                         this one) and watches it                        *)
(*   tools/task/output.rs  waits for one                                   *)
(*   tools/task/stop.rs    stops one                                       *)
(*                                                                         *)
(* The process at the other end closes its streams and exits when it likes. *)
(* Consent is ApprovalPipe's business; what a task writes is left out.     *)
(***************************************************************************)
EXTENDS Naturals

CONSTANT Tasks

VARIABLES
    kind,           \* "none", "shell" or "agent"
    status,         \* TaskEntry::status
    file,           \* the status runtime.json says
    process,        \* the process: none, starting (an agent's handshake), alive, gone
    open,           \* which of its streams are open at its end
    monitor,        \* where the watching task is
    reason,         \* the status it is about to set
    heard,          \* the streams a shell's monitor has seen the end of
    killSent,       \* the kill channel has been used
    stopper,        \* TaskStop: idle, or about to write the file
    waiter,         \* TaskOutput: idle, armed, asleep or back
    turn,           \* the turn that starts the tasks, and its wire, is on
    told            \* the notification: none, wire, queue or lost

taskVars == <<kind, status, file, process, open, monitor, reason, heard, killSent, stopper,
              waiter, turn, told>>

Terminal == {"completed", "failed", "killed", "timed_out"}
Streams == {"stdout", "stderr"}
Watching == {"reading", "killing", "waiting", "writing", "telling", "sending"}

TaskTypeOK ==
    /\ kind \in [Tasks -> {"none", "shell", "agent"}]
    /\ status \in [Tasks -> Terminal \cup {"none", "running"}]
    /\ file \in [Tasks -> Terminal \cup {"none", "running"}]
    /\ process \in [Tasks -> {"none", "starting", "alive", "gone"}]
    /\ open \in [Tasks -> SUBSET Streams] /\ heard \in [Tasks -> SUBSET Streams]
    /\ monitor \in [Tasks -> Watching \cup {"none", "registered", "panicked", "done"}]
    /\ \A t \in Tasks :
         monitor[t] \in {"writing", "telling", "sending", "done"} => status[t] \in Terminal
    /\ told \in [Tasks -> {"none", "wire", "queue", "lost"}] /\ turn \in BOOLEAN

TaskInit ==
    /\ kind = [t \in Tasks |-> "none"] /\ status = kind /\ file = kind /\ process = kind
    /\ open = [t \in Tasks |-> {}] /\ heard = open
    /\ monitor = kind /\ reason = kind /\ told = kind
    /\ killSent = [t \in Tasks |-> FALSE]
    /\ stopper = [t \in Tasks |-> "idle"] /\ waiter = stopper
    /\ turn = TRUE

---------------------------------------------------------------------------------
(* Starting one. *)

\* Into the registry, and then to the files.
Register(t) ==
    /\ status' = [status EXCEPT ![t] = "running"]
    /\ monitor' = [monitor EXCEPT ![t] = "registered"]

Spawned(t) ==
    /\ open' = [open EXCEPT ![t] = Streams]
    /\ UNCHANGED <<file, reason, heard, killSent, stopper, waiter, turn, told>>

RunBackground(t) ==
    /\ turn /\ kind[t] = "none"
    /\ kind' = [kind EXCEPT ![t] = "shell"]
    /\ process' = [process EXCEPT ![t] = "alive"]
    /\ Register(t) /\ Spawned(t)

\* An agent has to answer its initialize before it is a task at all.
SpawnAgent(t) ==
    /\ turn /\ kind[t] = "none"
    /\ kind' = [kind EXCEPT ![t] = "agent"]
    /\ process' = [process EXCEPT ![t] = "starting"]
    /\ UNCHANGED <<status, monitor>> /\ Spawned(t)

Handshake(t) ==
    /\ process[t] = "starting"
    /\ UNCHANGED <<kind, file, reason, heard, killSent, stopper, waiter, turn, told>>
    /\ \/ process' = [process EXCEPT ![t] = "alive"] /\ Register(t) /\ UNCHANGED open
       \/ /\ process' = [process EXCEPT ![t] = "gone"] /\ open' = [open EXCEPT ![t] = {}]
          /\ UNCHANGED <<status, monitor>>

WriteSpecFiles(t) ==
    /\ monitor[t] = "registered"
    /\ file' = [file EXCEPT ![t] = "running"]
    /\ monitor' = [monitor EXCEPT ![t] = "reading"]
    /\ UNCHANGED <<kind, status, process, open, reason, heard, killSent, stopper, waiter, turn, told>>

---------------------------------------------------------------------------------
(* The process.  What it leaves behind may hold its streams open. *)

ClosesStream(t) ==
    /\ \E s \in open[t] : open' = [open EXCEPT ![t] = @ \ {s}]
    /\ process[t] # "starting"
    /\ UNCHANGED <<kind, status, file, process, monitor, reason, heard, killSent, stopper, waiter,
                   turn, told>>

Exits(t) ==
    /\ process[t] = "alive"
    /\ process' = [process EXCEPT ![t] = "gone"]
    /\ UNCHANGED <<kind, status, file, open, monitor, reason, heard, killSent, stopper, waiter, turn,
                   told>>

---------------------------------------------------------------------------------
(* Those who watch. *)

GoesTo(t, place) == monitor' = [monitor EXCEPT ![t] = place]
Quietly == UNCHANGED <<kind, status, file, process, open, killSent, stopper, waiter, turn, told>>

\* The child is killed and waited for before anything is said.
Kills(t, why) ==
    /\ GoesTo(t, "killing") /\ reason' = [reason EXCEPT ![t] = why] /\ heard' = heard

\* The end of the output, or of an agent's turn.
StdoutEnds(t) ==
    /\ monitor[t] = "reading"
    /\ kind[t] = "agent" \/ "stdout" \notin open[t]
    /\ GoesTo(t, "waiting") /\ UNCHANGED <<reason, heard>> /\ Quietly

StderrEnds(t) ==
    /\ monitor[t] = "reading" /\ kind[t] = "shell"
    /\ "stderr" \notin open[t] \cup heard[t]
    /\ heard' = [heard EXCEPT ![t] = @ \cup {"stderr"}]
    /\ UNCHANGED <<monitor, reason>> /\ Quietly

(* The loop comes round with the future of stderr finished, and the select that looks at
   it again before it finds another branch ready resumes it: the monitor panics. *)
StderrAgain(t) ==
    /\ monitor[t] = "reading" /\ "stderr" \in heard[t]
    /\ GoesTo(t, "panicked") /\ UNCHANGED <<reason, heard>> /\ Quietly

\* Mutant: the deadline counts while the process runs.
DeadlineOfTheLiving(t) ==
    /\ monitor[t] = "reading" /\ kind[t] = "shell" /\ process[t] = "alive"
    /\ Kills(t, "timed_out") /\ Quietly

Deadline(t) ==
    /\ monitor[t] = "reading" /\ kind[t] = "shell"
    /\ Kills(t, "timed_out") /\ Quietly

HearsKill(t) ==
    /\ monitor[t] = "reading" /\ killSent[t]
    /\ Kills(t, "killed") /\ Quietly

KillIsOver(t) ==
    /\ monitor[t] = "killing" /\ process[t] = "alive"
    /\ process' = [process EXCEPT ![t] = "gone"]
    /\ UNCHANGED <<kind, status, file, open, monitor, reason, heard, killSent, stopper, waiter, turn,
                   told>>

\* Whoever is armed or asleep is woken.
Wake(t) ==
    waiter' = [waiter EXCEPT ![t] = IF @ \in {"armed", "asleep"} THEN "woken" ELSE @]

\* Whatever the status was; the file is written when the lock is off.
Complete(t) ==
    /\ monitor[t] \in {"killing", "waiting"} /\ process[t] = "gone"
    /\ \E s \in IF monitor[t] = "killing" THEN {reason[t]} ELSE {"completed", "failed"} :
         status' = [status EXCEPT ![t] = s] /\ reason' = [reason EXCEPT ![t] = s]
    /\ GoesTo(t, "writing") /\ Wake(t)
    /\ UNCHANGED <<kind, file, process, open, heard, killSent, stopper, turn, told>>

WriteRuntimeFile(t) ==
    /\ monitor[t] = "writing"
    /\ file' = [file EXCEPT ![t] = reason[t]] /\ GoesTo(t, "telling")
    /\ UNCHANGED <<kind, status, process, open, reason, heard, killSent, stopper, waiter, turn, told>>

\* An agent's end goes out of turn when the wire it was started with is found closed; a
\* command's goes to that wire whatever has become of it.
ForwardToClient(t) ==
    /\ monitor[t] = "telling"
    /\ IF kind[t] = "agent" /\ ~turn
       THEN told' = [told EXCEPT ![t] = "queue"] /\ GoesTo(t, "done")
       ELSE told' = told /\ GoesTo(t, "sending")
    /\ UNCHANGED <<kind, status, file, process, open, reason, heard, killSent, stopper, waiter, turn>>

\* The wire may have been closed since; then it is published to nobody.
SendNotification(t) ==
    /\ monitor[t] = "sending"
    /\ told' = [told EXCEPT ![t] = IF turn THEN "wire" ELSE "lost"] /\ GoesTo(t, "done")
    /\ UNCHANGED <<kind, status, file, process, open, reason, heard, killSent, stopper, waiter, turn>>

TurnOver ==
    /\ turn /\ turn' = FALSE
    /\ UNCHANGED <<kind, status, file, process, open, monitor, reason, heard, killSent, stopper,
                   waiter, told>>

---------------------------------------------------------------------------------
(* Those who ask. *)

\* The status is set here and now; the monitor may be past listening.
TaskStop(t) ==
    /\ status[t] = "running"
    /\ status' = [status EXCEPT ![t] = "killed"]
    /\ killSent' = [killSent EXCEPT ![t] = TRUE]
    /\ stopper' = [stopper EXCEPT ![t] = "writing"] /\ Wake(t)
    /\ UNCHANGED <<kind, file, process, open, monitor, reason, heard, turn, told>>

TaskStopWrites(t) ==
    /\ stopper[t] = "writing"
    /\ stopper' = [stopper EXCEPT ![t] = "idle"]
    /\ file' = [file EXCEPT ![t] = "killed"]
    /\ UNCHANGED <<kind, status, process, open, monitor, reason, heard, killSent, waiter, turn, told>>

Waits(t, from, to) ==
    /\ waiter[t] = from /\ waiter' = [waiter EXCEPT ![t] = to]
    /\ UNCHANGED <<kind, status, file, process, open, monitor, reason, heard, killSent, stopper, turn,
                   told>>

Arm(t) == status[t] # "none" /\ Waits(t, "idle", "armed")
LookAgain(t) == Waits(t, "armed", IF status[t] = "running" THEN "asleep" ELSE "back")
Woken(t) == Waits(t, "woken", "back")
OutOfTime(t) == Waits(t, "asleep", "back")

\* Mutant: the status is looked at before the wait is armed.
ArmAfterLook(t) == status[t] = "running" /\ Waits(t, "idle", "looked")
BlockTooLate(t) == ArmAfterLook(t) \/ Waits(t, "looked", "asleep") \/ Woken(t) \/ OutOfTime(t)

Block(t) == Arm(t) \/ LookAgain(t) \/ Woken(t) \/ OutOfTime(t)

---------------------------------------------------------------------------------
Watches(t) ==
    \/ WriteSpecFiles(t) \/ StdoutEnds(t) \/ StderrEnds(t) \/ StderrAgain(t) \/ Deadline(t)
    \/ HearsKill(t) \/ KillIsOver(t) \/ Complete(t) \/ WriteRuntimeFile(t)
    \/ ForwardToClient(t) \/ SendNotification(t)

\* What a monitor is bound to do: a subagent that lives owes it no end of its turn, the
\* stream of one that is gone ends, for what it starts has pipes of its own.
MustWatch(t) ==
    /\ Watches(t)
    /\ kind[t] = "agent" /\ monitor[t] = "reading" => process[t] = "gone" \/ killSent[t]

TaskStep(t) ==
    \/ RunBackground(t) \/ SpawnAgent(t) \/ Handshake(t) \/ ClosesStream(t) \/ Exits(t)
    \/ Watches(t) \/ TaskStop(t) \/ TaskStopWrites(t) \/ Block(t)

TaskNext == TurnOver \/ \E t \in Tasks : TaskStep(t)

TaskSpec == TaskInit /\ [][TaskNext]_taskVars

---------------------------------------------------------------------------------
(* output.rs:77-97: nobody sleeps through the end of the task it waits for, however its
   end, the look at its status and the wait for the notice fall. *)
SleeperIsWoken ==
    \A t \in Tasks : waiter[t] = "asleep" => status[t] = "running"

(* Does not hold, agent.rs:127-130 "fall back to the out-of-turn queue": a subagent's end is
   lost when its turn's wire is closed between the look at it and the sending. *)
AgentIsTold ==
    \A t \in Tasks : kind[t] = "agent" /\ monitor[t] = "done" => told[t] \in {"wire", "queue"}

(* shell.rs:382-418: a task whose process is gone comes to an end, for as long as the one
   that watches it does. *)
WatchedTaskEnds ==
    \A t \in Tasks :
        (process[t] = "gone" /\ status[t] = "running") ~>
            (status[t] \in Terminal \/ monitor[t] = "panicked")

(* shell.rs:440, desc/task/output.md:5: "You will be automatically notified when it
   completes": a command's process that is gone makes its task end. *)
TaskEnds ==
    \A t \in Tasks :
        (process[t] = "gone" /\ status[t] = "running") ~> status[t] \in Terminal
=================================================================================
