------------------------------- MODULE SoulInputs -------------------------------
(***************************************************************************)
(* What comes into a soul from outside the conversation of its model:      *)
(* server/dvadva-agent/src/soul/kimisoul.rs.                               *)
(*                                                                         *)
(*   prompts, slash commands, skills and flows    KimiSoul::run            *)
(*   steers                       accepted by wire/server.rs, queued, and   *)
(*                                heard between two steps                  *)
(*   what the forks a user began have to say      at the next turn         *)
(*                                                                         *)
(* A run may be cancelled at each of its awaits; the cancel_token is there *)
(* from before it begins until after it has ended, and is what a steer is  *)
(* accepted by.  What the steps do is AgentLoop's business.                *)
(***************************************************************************)
EXTENDS Naturals, Sequences, FiniteSets, SequencesExt

CONSTANTS
    Steers,     \* requests to steer, each made once
    Forks,      \* the tasks that /fork may start
    MaxRuns,    \* bound: runs
    MaxTurnSteps   \* max_steps_per_turn, which config.rs and the command line check

ASSUME InputsAssumption == MaxRuns \in Nat /\ MaxTurnSteps \in Nat \ {0}

VARIABLES
    run,        \* where the run is; "none" when there is no cancel_token
    runs,       \* runs begun
    stepNo,     \* the step of the turn
    stops,      \* the last step gave a reason to stop
    flow,       \* whether the turn is one of a flow's, or of a skill or prompt alone
    steerQueue, \* KimiSoul::steer_queue
    steer,      \* each steer: none, seen (that a turn runs), queued, heard or cleared
    midStep,    \* history: the steers that were queued while the turn's step ran
    pendingForks,   \* KimiSoul::pending_fork_tasks
    fork,       \* each fork: none, spawned (not yet listed), running or done
    output,     \* what it wrote: "short", or long and cut "between" or "within" characters
    toSurface,  \* the forks the run has still to look at
    keep,       \* those it keeps for later
    telling,    \* how often the model was told of a fork's end
    ended       \* how the last run ended: well, cut (cancelled or failed) or by a panic

inputVars == <<run, runs, stepNo, stops, flow, steerQueue, steer, midStep, pendingForks,
               fork, output, toSurface, keep, telling, ended>>

steerVars == <<steerQueue, steer, midStep>>
forkVars == <<pendingForks, fork, output, toSurface, keep, telling>>
turnState == <<stepNo, stops, flow>>

InputTypeOK ==
    /\ run \in {"none", "accepted", "surfacing", "command", "forking", "turning", "step",
                "hearing", "turned", "over"}
    /\ stepNo \in 0..MaxTurnSteps /\ stops \in BOOLEAN /\ flow \in BOOLEAN
    /\ ToSet(steerQueue) = {s \in Steers : steer[s] = "queued"}
    /\ steer \in [Steers -> {"none", "seen", "queued", "heard", "cleared"}]
    /\ ToSet(pendingForks) \subseteq {f \in Forks : fork[f] \in {"running", "done"}}
    /\ IsInjective(pendingForks)
    /\ output \in [Forks -> {"short", "between", "within"}]
    /\ ended \in {"well", "cut", "panic"}

InputInit ==
    /\ run = "none" /\ runs = 0 /\ stepNo = 0 /\ stops = FALSE /\ flow = FALSE
    /\ steerQueue = <<>> /\ steer = [s \in Steers |-> "none"] /\ midStep = {}
    /\ pendingForks = <<>> /\ fork = [f \in Forks |-> "none"]
    /\ output \in [Forks -> {"short", "between", "within"}]
    /\ toSurface = <<>> /\ keep = <<>> /\ telling = [f \in Forks |-> 0]
    /\ ended = "well"

RunGoes(from, to) == run = from /\ run' = to

---------------------------------------------------------------------------------
(* The run and its turns. *)

\* The server fills the slot, and the soul's task begins.
AcceptPrompt ==
    /\ runs < MaxRuns /\ runs' = runs + 1
    /\ RunGoes("none", "accepted")
    /\ ended' = "well"
    /\ UNCHANGED <<turnState, steerVars, forkVars>>

TurnBegins ==
    /\ RunGoes("accepted", "surfacing")
    /\ toSurface' = pendingForks /\ keep' = <<>>
    /\ UNCHANGED <<runs, turnState, steerVars, pendingForks, fork, output, telling, ended>>

\* Still running, or over: then the model and the user are told.  Writing it down may
\* fail.  (A task that was never heard of is passed over: there is none, for the list
\* lives no longer than the tasks.)
SurfaceOne ==
    /\ run = "surfacing" /\ toSurface # <<>>
    /\ LET f == Head(toSurface) IN
         /\ \/ fork[f] = "running" /\ keep' = Append(keep, f) /\ telling' = telling
            \/ /\ fork[f] = "done" /\ output[f] # "within"
               /\ \/ keep' = keep /\ telling' = [telling EXCEPT ![f] = @ + 1]
                  \/ keep' = Append(keep, f) /\ telling' = telling
    /\ toSurface' = Tail(toSurface)
    /\ UNCHANGED <<run, runs, turnState, steerVars, pendingForks, fork, output, ended>>

\* The last 8000 bytes begin within a character: the run dies of it.
SurfacePanics ==
    /\ run = "surfacing" /\ toSurface # <<>>
    /\ fork[Head(toSurface)] = "done" /\ output[Head(toSurface)] = "within"
    /\ run' = "over"
    /\ ended' = "panic"
    /\ UNCHANGED <<runs, turnState, steerVars, forkVars>>

\* Mutant: the list of forks begins anew with the run.
SurfacedAll ==
    /\ run = "surfacing" /\ toSurface = <<>>
    /\ pendingForks' = <<>>
    /\ run' \in {"command", "turning"} /\ flow' \in BOOLEAN
    /\ UNCHANGED <<runs, stepNo, stops, steerVars, fork, output, toSurface, keep, telling,
                   ended>>

\* A command of its own, a skill or a prompt alone, or the first turn of a flow.
Surfaced ==
    /\ run = "surfacing" /\ toSurface = <<>>
    /\ pendingForks' = keep
    /\ run' \in {"command", "turning"} /\ flow' \in BOOLEAN
    /\ UNCHANGED <<runs, stepNo, stops, steerVars, fork, output, toSurface, keep, telling,
                   ended>>

CommandEnds ==
    /\ RunGoes("command", "over")
    /\ UNCHANGED <<runs, turnState, steerVars, forkVars, ended>>

\* /fork: the task is started, and listed when the context holds the note of it.
ForkStarts(f) ==
    /\ RunGoes("command", "forking")
    /\ fork[f] = "none" /\ fork' = [fork EXCEPT ![f] = "spawned"]
    /\ UNCHANGED <<runs, turnState, steerVars, pendingForks, output, toSurface, keep,
                   telling, ended>>

ForkListed(f) ==
    /\ RunGoes("forking", "over")
    /\ fork[f] = "spawned" /\ fork' = [fork EXCEPT ![f] = "running"]
    /\ pendingForks' = Append(pendingForks, f)
    /\ UNCHANGED <<runs, turnState, steerVars, output, toSurface, keep, telling, ended>>

\* turn(): what was queued before is no longer wanted.  Without a model, or one that
\* cannot take the message, there is no turn.
TurnStarts ==
    /\ run = "turning" /\ run' \in {"step", "over"}
    /\ steerQueue' = <<>>
    /\ steer' = [s \in Steers |-> IF steer[s] = "queued" THEN "cleared" ELSE steer[s]]
    /\ stepNo' = 1 /\ stops' = FALSE /\ midStep' = {}
    /\ UNCHANGED <<runs, flow, forkVars, ended>>

StepEnds ==
    /\ RunGoes("step", "hearing")
    /\ stops' \in BOOLEAN
    /\ UNCHANGED <<runs, stepNo, flow, steerVars, forkVars, ended>>

Hears(queue) ==
    /\ steerQueue' = <<>>
    /\ steer' = [s \in Steers |-> IF s \in ToSet(queue) THEN "heard" ELSE steer[s]]

NextStep ==
    IF stepNo < MaxTurnSteps THEN run' = "step" /\ stepNo' = stepNo + 1
                          ELSE run' = "over" /\ stepNo' = stepNo

\* Mutant: a turn that stops does not look for what was said to it.
ConsumeUnlessStopped ==
    /\ run = "hearing"
    /\ IF stops THEN run' = "turned" /\ UNCHANGED <<stepNo, steerQueue, steer>>
                ELSE Hears(steerQueue) /\ NextStep
    /\ UNCHANGED <<runs, stops, flow, midStep, forkVars, ended>>

\* What was said keeps a turn going that would have stopped.
ConsumePendingSteers ==
    /\ run = "hearing"
    /\ Hears(steerQueue)
    /\ IF stops /\ steerQueue = <<>> THEN run' = "turned" /\ stepNo' = stepNo ELSE NextStep
    /\ UNCHANGED <<runs, stops, flow, midStep, forkVars, ended>>

\* A flow goes on with another turn.
TurnReturns ==
    /\ run = "turned"
    /\ run' \in (IF flow THEN {"over", "turning"} ELSE {"over"})
    /\ UNCHANGED <<runs, turnState, steerVars, forkVars, ended>>

\* Cancelled at an await, or failed: of what was drained to be heard, the rest is lost.
Interrupted ==
    /\ run \notin {"none", "over"}
    /\ run' = "over"
    /\ \E n \in 0..Len(steerQueue) :
         IF run = "hearing" /\ n < Len(steerQueue)
         THEN /\ steerQueue' = <<>>
              /\ steer' = [s \in Steers |->
                     IF s \notin ToSet(steerQueue) THEN steer[s]
                     ELSE IF s \in ToSet(SubSeq(steerQueue, 1, n)) THEN "heard" ELSE "cleared"]
         ELSE UNCHANGED <<steerQueue, steer>>
    /\ ended' = "cut"
    /\ UNCHANGED <<runs, turnState, midStep, forkVars>>

ClearSlot ==
    /\ RunGoes("over", "none")
    /\ UNCHANGED <<runs, turnState, steerVars, forkVars, ended>>

---------------------------------------------------------------------------------
(* Those outside. *)

\* handle_steer looks at the slot, and takes the queue when that lock is off.
HandleSteer(s) ==
    /\ steer[s] = "none" /\ run # "none"
    /\ steer' = [steer EXCEPT ![s] = "seen"]
    /\ UNCHANGED <<run, runs, turnState, steerQueue, midStep, forkVars, ended>>

QueueSteer(s) ==
    /\ steer[s] = "seen"
    /\ steer' = [steer EXCEPT ![s] = "queued"]
    /\ steerQueue' = Append(steerQueue, s)
    /\ midStep' = IF run = "step" THEN midStep \cup {s} ELSE midStep
    /\ UNCHANGED <<run, runs, turnState, forkVars, ended>>

ForkEnds(f) ==
    /\ fork[f] = "running"
    /\ fork' = [fork EXCEPT ![f] = "done"]
    /\ UNCHANGED <<run, runs, turnState, steerVars, pendingForks, output, toSurface, keep,
                   telling, ended>>

---------------------------------------------------------------------------------
InputNext ==
    \/ AcceptPrompt \/ TurnBegins \/ SurfaceOne \/ SurfacePanics \/ Surfaced
    \/ CommandEnds \/ TurnStarts \/ StepEnds \/ ConsumePendingSteers \/ TurnReturns
    \/ Interrupted \/ ClearSlot
    \/ \E s \in Steers : HandleSteer(s) \/ QueueSteer(s)
    \/ \E f \in Forks : ForkStarts(f) \/ ForkListed(f) \/ ForkEnds(f)

InputSpec == InputInit /\ [][InputNext]_inputVars

---------------------------------------------------------------------------------
(* kimisoul.rs:818-825: a turn that comes to its own end has heard what was said to it
   while its last step ran, as it has what was said before. *)
SteersAreHeard ==
    run = "turned" => \A s \in midStep : steer[s] # "queued"

(* kimisoul.rs:630-634: a fork that is listed is kept until the model was told of its
   end, whatever is cut short or fails in between; but for a run that is cut short it
   is told once. *)
ForksAreKept ==
    \A f \in Forks : fork[f] \in {"running", "done"} =>
        f \in ToSet(pendingForks) \/ telling[f] > 0

(* kimisoul.rs:630-633: "Called at the start of each turn so completed forks surface on
   the user's next interaction."  A run that is not cancelled there has gone through all
   the forks it began with.  (It is not so: the last 8000 bytes of what a fork wrote may
   begin within a character.) *)
ForkSurfaces ==
    [][run = "surfacing" /\ run' # run /\ ended' # "cut" => toSurface = <<>>]_inputVars
=================================================================================
