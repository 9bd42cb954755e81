------------------------------- MODULE SoulProof --------------------------------
(***************************************************************************)
(* A soul for any number of steers, forks, runs, attempts, calls and       *)
(* events: what comes into it from outside, its steps, and how its tools   *)
(* get their approval.                                                     *)
(***************************************************************************)
EXTENDS ApprovalPipe, SoulInputs, StepGeneration, FlowRunner, SequenceTheorems,
    FiniteSetTheorems, TLAPS

---------------------------------------------------------------------------------
(* Sequences and the sets of what is in them. *)

\* One more element, at the end.
LEMMA AppendedOne ==
    ASSUME NEW S, NEW s \in Seq(S), NEW e \in S
    PROVE  Append(s, e) \in Seq(S) /\ ToSet(Append(s, e)) = ToSet(s) \cup {e}
<1>1. /\ Append(s, e) \in Seq(S) /\ DOMAIN Append(s, e) = 1 .. Len(s) + 1
      /\ Append(s, e)[Len(s) + 1] = e
      /\ \A i \in 1 .. Len(s) : Append(s, e)[i] = s[i]
  OBVIOUS
<1>2. ToSet(Append(s, e)) \subseteq ToSet(s) \cup {e}
  BY <1>1 DEF ToSet
<1>3. ToSet(s) \cup {e} \subseteq ToSet(Append(s, e))
  <2>1. Len(s) + 1 \in 1 .. Len(s) + 1 /\ 1 .. Len(s) \subseteq 1 .. Len(s) + 1
    OBVIOUS
  <2>2. QED
    BY <1>1, <2>1 DEF ToSet
<1>4. QED
  BY <1>1, <1>2, <1>3

\* The head, and what is behind it.
LEMMA HeadAndTail ==
    ASSUME NEW S, NEW s \in Seq(S), s # <<>>
    PROVE  /\ Head(s) \in S /\ Tail(s) \in Seq(S)
           /\ ToSet(s) = {Head(s)} \cup ToSet(Tail(s))
<1>1. /\ Len(s) \in Nat \ {0} /\ Head(s) = s[1] /\ s[1] \in S /\ Tail(s) \in Seq(S)
      /\ DOMAIN Tail(s) = 1 .. Len(s) - 1 /\ DOMAIN s = 1 .. Len(s)
      /\ \A i \in 1 .. Len(s) - 1 : Tail(s)[i] = s[i + 1]
  OBVIOUS
<1>2. ToSet(Tail(s)) \subseteq ToSet(s)
  <2>1. \A i \in 1 .. Len(s) - 1 : i + 1 \in 1 .. Len(s)
    BY <1>1
  <2>2. QED
    BY <1>1, <2>1 DEF ToSet
<1>3. ToSet(s) \subseteq {Head(s)} \cup ToSet(Tail(s))
  <2> SUFFICES ASSUME NEW i \in 1 .. Len(s), i # 1
               PROVE  s[i] \in ToSet(Tail(s))
    BY <1>1 DEF ToSet
  <2>1. i - 1 \in 1 .. Len(s) - 1 /\ (i - 1) + 1 = i
    BY <1>1
  <2>2. Tail(s)[i - 1] = s[i]
    BY <1>1, <2>1
  <2>3. QED
    BY <1>1, <2>1, <2>2 DEF ToSet
<1>4. Head(s) \in ToSet(s)
  BY <1>1 DEF ToSet
<1>5. QED
  BY <1>1, <1>2, <1>3, <1>4

\* Nothing twice: what is appended was not there, and what is behind the head is not it.
LEMMA AppendedOnce ==
    ASSUME NEW S, NEW s \in Seq(S), NEW e \in S, IsInjective(s), e \notin ToSet(s)
    PROVE  IsInjective(Append(s, e))
<1>1. /\ DOMAIN Append(s, e) = 1 .. Len(s) + 1 /\ Append(s, e)[Len(s) + 1] = e
      /\ \A i \in 1 .. Len(s) : Append(s, e)[i] = s[i] /\ s[i] # e
  BY DEF ToSet
<1>2. \A i \in 1 .. Len(s) + 1 : i = Len(s) + 1 \/ i \in 1 .. Len(s)
  OBVIOUS
<1>3. \A i, j \in 1 .. Len(s) : s[i] = s[j] => i = j
  BY DEF IsInjective
<1>4. QED
  BY <1>1, <1>2, <1>3 DEF IsInjective

LEMMA TailOnce ==
    ASSUME NEW S, NEW s \in Seq(S), s # <<>>, IsInjective(s)
    PROVE  IsInjective(Tail(s)) /\ Head(s) \notin ToSet(Tail(s))
<1>1. /\ Len(s) \in Nat \ {0} /\ Head(s) = s[1]
      /\ DOMAIN Tail(s) = 1 .. Len(s) - 1 /\ DOMAIN s = 1 .. Len(s)
      /\ \A i \in 1 .. Len(s) - 1 : Tail(s)[i] = s[i + 1]
  OBVIOUS
<1>2. \A i \in 1 .. Len(s) - 1 : i + 1 \in 1 .. Len(s) /\ i + 1 # 1
  BY <1>1
<1>3. \A i, j \in 1 .. Len(s) : s[i] = s[j] => i = j
  BY <1>1 DEF IsInjective
<1>4. \A i, j \in 1 .. Len(s) - 1 : i + 1 = j + 1 => i = j
  BY <1>1
<1>5. IsInjective(Tail(s))
  BY <1>1, <1>2, <1>3, <1>4 DEF IsInjective
<1>6. Head(s) \notin ToSet(Tail(s))
  <2>1. 1 \in 1 .. Len(s)
    BY <1>1
  <2>2. QED
    BY <1>1, <1>2, <1>3, <2>1 DEF ToSet
<1>7. QED
  BY <1>5, <1>6
---------------------------------------------------------------------------------
(* What comes into the soul. *)

InputTypes ==
    /\ run \in {"none", "accepted", "surfacing", "command", "forking", "turning", "step",
                "hearing", "turned", "over"}
    /\ stepNo \in 0..MaxTurnSteps /\ stops \in BOOLEAN /\ flow \in BOOLEAN
    /\ steer \in [Steers -> {"none", "seen", "queued", "heard", "cleared"}]
    /\ steerQueue \in Seq(Steers)
    /\ fork \in [Forks -> {"none", "spawned", "running", "done"}]
    /\ output \in [Forks -> {"short", "between", "within"}]
    /\ {pendingForks, toSurface, keep} \subseteq Seq(Forks)
    /\ telling \in [Forks -> Nat]
    /\ ended \in {"well", "cut", "panic"}

(* What is queued is what the queue holds; what was queued during the step is heard when the
   turn is over. *)
SteerInv ==
    /\ ToSet(steerQueue) = {s \in Steers : steer[s] = "queued"}
    /\ \A s \in midStep : s \in Steers /\ steer[s] \in {"queued", "heard", "cleared"}
    /\ SteersAreHeard

\* The forks of the list are running or done, each once.
Listed(forks) ==
    ToSet(forks) \subseteq {f \in Forks : fork[f] \in {"running", "done"}} /\ IsInjective(forks)

(* A fork that was started is listed, or has been told of; the run that goes through the list
   has each of it still to look at, or keeps it, or has told of it. *)
ForkInv ==
    /\ Listed(pendingForks) /\ ForksAreKept
    /\ run = "surfacing" =>
         /\ Listed(toSurface) /\ Listed(keep) /\ ToSet(keep) \cap ToSet(toSurface) = {}
         /\ \A f \in ToSet(pendingForks) : f \in ToSet(toSurface) \cup ToSet(keep) \/ telling[f] > 0

InputInv == InputTypes /\ SteerInv /\ ForkInv

\* The steps that leave the steers alone, and those that leave the forks alone.
LEMMA SteersUntouched ==
    ASSUME InputInv, UNCHANGED steerVars, run' # "turned" \/ run = "turned"
    PROVE  SteerInv'
BY DEF InputInv, SteerInv, SteersAreHeard, steerVars

LEMMA ForksUntouched ==
    ASSUME InputInv, UNCHANGED forkVars, run' # "surfacing" \/ run = "surfacing"
    PROVE  ForkInv'
BY DEF InputInv, ForkInv, ForksAreKept, Listed, forkVars

\* A run goes through the forks of the list.
LEMMA SurfacingSteps ==
    ASSUME InputInv, TurnBegins \/ SurfaceOne \/ SurfacePanics \/ Surfaced
    PROVE  InputInv'
<1>1. UNCHANGED <<steerVars, fork, output>> /\ run' # "turned"
  BY DEF TurnBegins, SurfaceOne, SurfacePanics, Surfaced, RunGoes, forkVars
<1>2. SteerInv'
  BY <1>1, SteersUntouched
<1>3. CASE TurnBegins
  <2>1. InputTypes'
    BY <1>1, <1>3 DEF TurnBegins, RunGoes, InputInv, InputTypes, turnState, steerVars
  <2>2. ToSet(<<>>) = {} /\ IsInjective(<<>>)
    BY DEF ToSet, IsInjective
  <2>3. ForkInv'
    BY <1>1, <1>3, <2>2 DEF TurnBegins, InputInv, ForkInv, ForksAreKept, Listed
  <2>4. QED
    BY <1>2, <2>1, <2>3 DEF InputInv
<1>4. CASE SurfaceOne
  <2> DEFINE f == Head(toSurface)
  <2>1. /\ run = "surfacing" /\ toSurface # <<>> /\ toSurface' = Tail(toSurface)
        /\ UNCHANGED <<run, runs, turnState, steerVars, pendingForks, fork, output, ended>>
        /\ \/ keep' = Append(keep, f) /\ telling' = telling
           \/ keep' = keep /\ telling' = [telling EXCEPT ![f] = @ + 1]
    BY <1>4 DEF SurfaceOne
  <2>2. /\ f \in Forks /\ toSurface' \in Seq(Forks)
        /\ ToSet(toSurface) = {f} \cup ToSet(toSurface')
        /\ toSurface \in Seq(Forks) /\ keep \in Seq(Forks)
    BY <2>1, HeadAndTail DEF InputInv, InputTypes
  <2>3. IsInjective(toSurface') /\ f \notin ToSet(toSurface')
    BY <2>1, <2>2, TailOnce DEF InputInv, ForkInv, Listed
  <2>4. f \notin ToSet(keep) /\ IsInjective(keep)
    BY <2>1, <2>2 DEF InputInv, ForkInv, Listed
  <2>5. CASE keep' = Append(keep, f) /\ telling' = telling
    <3>1. keep' \in Seq(Forks) /\ ToSet(keep') = ToSet(keep) \cup {f}
      BY <2>2, <2>5, AppendedOne
    <3>2. IsInjective(keep')
      BY <2>2, <2>4, <2>5, AppendedOnce
    <3> HIDE DEF f
    <3>3. InputTypes'
      BY <2>1, <2>2, <2>5, <3>1 DEF InputInv, InputTypes, turnState, steerVars
    <3>4. ForkInv'
      BY <2>1, <2>2, <2>3, <2>5, <3>1, <3>2 DEF InputInv, ForkInv, ForksAreKept, Listed
    <3>5. QED
      BY <1>2, <3>3, <3>4 DEF InputInv
  <2>6. CASE keep' = keep /\ telling' = [telling EXCEPT ![f] = @ + 1]
    <3> HIDE DEF f
    <3>1. /\ telling' \in [Forks -> Nat] /\ telling'[f] > 0
          /\ \A g \in Forks : telling[g] > 0 => telling'[g] > 0
      BY <2>2, <2>6 DEF InputInv, InputTypes
    <3>2. InputTypes'
      BY <2>1, <2>2, <2>6, <3>1 DEF InputInv, InputTypes, turnState, steerVars
    <3>3. ForkInv'
      BY <2>1, <2>2, <2>3, <2>6, <3>1 DEF InputInv, ForkInv, ForksAreKept, Listed
    <3>4. QED
      BY <1>2, <3>2, <3>3 DEF InputInv
  <2>7. QED
    BY <2>1, <2>5, <2>6
<1>5. CASE SurfacePanics
  <2>1. InputTypes'
    BY <1>5 DEF SurfacePanics, InputInv, InputTypes, turnState, steerVars, forkVars
  <2>2. ForkInv'
    BY <1>5, ForksUntouched DEF SurfacePanics
  <2>3. QED
    BY <1>2, <2>1, <2>2 DEF InputInv
<1>6. CASE Surfaced
  <2>1. /\ run = "surfacing" /\ toSurface = <<>> /\ pendingForks' = keep
        /\ run' \in {"command", "turning"} /\ flow' \in BOOLEAN
        /\ UNCHANGED <<runs, stepNo, stops, steerVars, fork, output, toSurface, keep, telling,
                       ended>>
    BY <1>6 DEF Surfaced
  <2>2. InputTypes'
    BY <2>1 DEF InputInv, InputTypes, steerVars
  <2>3. ToSet(toSurface) = {}
    BY <2>1 DEF ToSet
  <2>4. ForkInv'
    BY <2>1, <2>3 DEF InputInv, ForkInv, ForksAreKept, Listed
  <2>5. QED
    BY <1>2, <2>2, <2>4 DEF InputInv
<1>7. QED
  BY <1>3, <1>4, <1>5, <1>6

\* A fork is started, listed, and ends.
LEMMA ForkSteps ==
    ASSUME InputInv, NEW f \in Forks, ForkStarts(f) \/ ForkListed(f) \/ ForkEnds(f)
    PROVE  InputInv'
<1>1. UNCHANGED <<steerVars, turnState, output, toSurface, keep, telling, ended>>
  BY DEF ForkStarts, ForkListed, ForkEnds
<1>2. SteerInv'
  BY <1>1, SteersUntouched DEF ForkStarts, ForkListed, ForkEnds, RunGoes
<1>3. CASE ForkStarts(f)
  BY <1>1, <1>2, <1>3 DEF ForkStarts, RunGoes, InputInv, InputTypes, ForkInv, ForksAreKept, Listed,
     turnState, steerVars
<1>4. CASE ForkListed(f)
  <2>1. /\ fork[f] = "spawned" /\ fork' = [fork EXCEPT ![f] = "running"]
        /\ run = "forking" /\ run' = "over"
        /\ pendingForks' = Append(pendingForks, f)
    BY <1>4 DEF ForkListed, RunGoes
  <2>2. pendingForks \in Seq(Forks) /\ f \notin ToSet(pendingForks) /\ IsInjective(pendingForks)
    BY <2>1 DEF InputInv, InputTypes, ForkInv, Listed
  <2>3. /\ pendingForks' \in Seq(Forks) /\ IsInjective(pendingForks')
        /\ ToSet(pendingForks') = ToSet(pendingForks) \cup {f}
    BY <2>1, <2>2, AppendedOne, AppendedOnce
  <2>4. QED
    BY <1>1, <1>2, <2>1, <2>3 DEF InputInv, InputTypes, ForkInv, ForksAreKept, Listed, turnState,
       steerVars
<1>5. CASE ForkEnds(f)
  BY <1>1, <1>2, <1>5 DEF ForkEnds, InputInv, InputTypes, ForkInv, ForksAreKept, Listed,
     turnState, steerVars
<1>6. QED
  BY <1>3, <1>4, <1>5
\* What is said to the turn is queued, and heard between two steps or no longer wanted.
LEMMA SteerSteps ==
    ASSUME InputInv,
           \/ TurnStarts \/ ConsumePendingSteers \/ Interrupted
           \/ \E s \in Steers : HandleSteer(s) \/ QueueSteer(s)
    PROVE  InputInv'
<1>2. ForkInv'
  BY ForksUntouched DEF TurnStarts, ConsumePendingSteers, Interrupted, HandleSteer, QueueSteer,
     NextStep
<1>3. ToSet(<<>>) = {}
  BY DEF ToSet
<1>4. CASE TurnStarts
  <2>1. InputTypes'
    <3>1. /\ run' \in {"step", "over"} /\ stepNo' = 1 /\ stops' = FALSE
          /\ steerQueue' \in Seq(Steers) /\ UNCHANGED <<runs, flow, forkVars, ended>>
      BY <1>4 DEF TurnStarts
    <3>2. steer' \in [Steers -> {"none", "seen", "queued", "heard", "cleared"}]
      BY <1>4 DEF TurnStarts, InputInv, InputTypes
    <3>3. stepNo' \in 0..MaxTurnSteps
      BY <3>1, InputsAssumption
    <3>4. QED
      BY <3>1, <3>2, <3>3 DEF InputInv, InputTypes, forkVars
  <2>2. SteerInv'
    BY <1>3, <1>4 DEF TurnStarts, InputInv, InputTypes, SteerInv, SteersAreHeard
  <2>3. QED
    BY <1>2, <2>1, <2>2 DEF InputInv
<1>5. CASE ConsumePendingSteers
  <2>1. /\ steerQueue' = <<>> /\ midStep' = midStep
        /\ steer' = [s \in Steers |-> IF s \in ToSet(steerQueue) THEN "heard" ELSE steer[s]]
    BY <1>5 DEF ConsumePendingSteers, Hears
  <2>2. InputTypes'
    <3>1. /\ run' \in {"step", "turned", "over"} /\ stepNo' \in 0..MaxTurnSteps
          /\ UNCHANGED <<runs, stops, flow, forkVars, ended>>
      BY <1>5, InputsAssumption DEF ConsumePendingSteers, NextStep, InputInv, InputTypes
    <3>2. steer' \in [Steers -> {"none", "seen", "queued", "heard", "cleared"}]
      BY <2>1 DEF InputInv, InputTypes
    <3>3. steerQueue' \in Seq(Steers)
      BY <2>1
    <3>4. QED
      BY <3>1, <3>2, <3>3 DEF InputInv, InputTypes, forkVars
  <2>3. SteerInv'
    BY <1>3, <2>1 DEF InputInv, InputTypes, SteerInv, SteersAreHeard
  <2>4. QED
    BY <1>2, <2>2, <2>3 DEF InputInv
<1>6. CASE Interrupted
  <2>1. /\ run' = "over" /\ midStep' = midStep
        /\ \/ UNCHANGED <<steerQueue, steer>>
           \/ /\ steerQueue' = <<>>
              /\ steer' \in [Steers -> {"none", "seen", "queued", "heard", "cleared"}]
              /\ \A s \in Steers : IF s \in ToSet(steerQueue) THEN steer'[s] \in {"heard", "cleared"}
                                                              ELSE steer'[s] = steer[s]
    BY <1>6 DEF Interrupted, InputInv, InputTypes
  <2>2. InputTypes'
    <3>1. /\ steerQueue' \in Seq(Steers)
          /\ steer' \in [Steers -> {"none", "seen", "queued", "heard", "cleared"}]
      <4>1. CASE UNCHANGED <<steerQueue, steer>>
        BY <4>1 DEF InputInv, InputTypes
      <4>2. CASE /\ steerQueue' = <<>>
                 /\ steer' \in [Steers -> {"none", "seen", "queued", "heard", "cleared"}]
        BY <4>2
      <4>3. QED
        BY <2>1, <4>1, <4>2
    <3>2. /\ ended' = "cut"
          /\ UNCHANGED <<stepNo, stops, flow, fork, output, pendingForks, toSurface, keep, telling>>
      BY <1>6 DEF Interrupted, turnState, forkVars
    <3>3. QED
      BY <2>1, <3>1, <3>2 DEF InputInv, InputTypes
  <2>3. SteerInv'
    BY <1>3, <2>1 DEF InputInv, InputTypes, SteerInv, SteersAreHeard
  <2>4. QED
    BY <1>2, <2>2, <2>3 DEF InputInv
<1>7. ASSUME NEW s \in Steers, HandleSteer(s)
      PROVE  InputInv'
  <2>1. InputTypes'
    BY <1>7 DEF HandleSteer, InputInv, InputTypes, turnState, forkVars
  <2>2. SteerInv'
    BY <1>7 DEF HandleSteer, InputInv, InputTypes, SteerInv, SteersAreHeard
  <2>3. QED
    BY <1>2, <2>1, <2>2 DEF InputInv
<1>8. ASSUME NEW s \in Steers, QueueSteer(s)
      PROVE  InputInv'
  <2>1. /\ steer[s] = "seen" /\ steer' = [steer EXCEPT ![s] = "queued"]
        /\ steerQueue' = Append(steerQueue, s)
        /\ midStep' = IF run = "step" THEN midStep \cup {s} ELSE midStep
        /\ UNCHANGED <<run, runs, turnState, forkVars, ended>>
    BY <1>8 DEF QueueSteer
  <2>2. steerQueue' \in Seq(Steers) /\ ToSet(steerQueue') = ToSet(steerQueue) \cup {s}
    BY <2>1, AppendedOne DEF InputInv, InputTypes
  <2>3. InputTypes'
    BY <2>1, <2>2 DEF InputInv, InputTypes, turnState, forkVars
  <2>4. /\ ToSet(steerQueue) = {t \in Steers : steer[t] = "queued"}
        /\ \A t \in midStep : t \in Steers /\ steer[t] \in {"queued", "heard", "cleared"}
        /\ SteersAreHeard /\ steer \in [Steers -> {"none", "seen", "queued", "heard", "cleared"}]
    BY DEF InputInv, InputTypes, SteerInv
  <2>5. \A t \in Steers : steer'[t] = IF t = s THEN "queued" ELSE steer[t]
    BY <2>1, <2>4
  <2>6. ToSet(steerQueue') = {t \in Steers : steer'[t] = "queued"}
    BY <2>2, <2>4, <2>5
  <2>7. \A t \in midStep' : t \in Steers /\ steer'[t] \in {"queued", "heard", "cleared"}
    BY <2>1, <2>4, <2>5
  <2>8. SteersAreHeard'
    BY <2>1, <2>4, <2>5 DEF SteersAreHeard
  <2>9. QED
    BY <1>2, <2>3, <2>6, <2>7, <2>8 DEF InputInv, SteerInv
<1>9. QED
  BY <1>4, <1>5, <1>6, <1>7, <1>8

\* The rest only leads a run from one place to the next.
LEMMA RunSteps ==
    ASSUME InputInv, AcceptPrompt \/ CommandEnds \/ StepEnds \/ TurnReturns \/ ClearSlot
    PROVE  InputInv'
<1>1. UNCHANGED <<steerVars, forkVars>> /\ run' \notin {"surfacing", "turned"}
  BY DEF AcceptPrompt, CommandEnds, StepEnds, TurnReturns, ClearSlot, RunGoes
<1>2. InputTypes'
  BY <1>1 DEF AcceptPrompt, CommandEnds, StepEnds, TurnReturns, ClearSlot, RunGoes, InputInv,
     InputTypes, turnState, steerVars, forkVars
<1>3. QED
  BY <1>1, <1>2, SteersUntouched, ForksUntouched DEF InputInv

LEMMA InputInvariant == InputSpec => []InputInv
<1>1. InputInit => InputInv
  <2> SUFFICES ASSUME InputInit PROVE InputInv
    OBVIOUS
  <2>1. ToSet(<<>>) = {} /\ IsInjective(<<>>)
    BY DEF ToSet, IsInjective
  <2>2. InputTypes
    <3>1. <<>> \in Seq(Forks) /\ <<>> \in Seq(Steers)
      OBVIOUS
    <3>2. stepNo \in 0..MaxTurnSteps
      BY InputsAssumption DEF InputInit
    <3>3. /\ steer \in [Steers -> {"none", "seen", "queued", "heard", "cleared"}]
          /\ fork \in [Forks -> {"none", "spawned", "running", "done"}]
          /\ telling \in [Forks -> Nat]
      BY DEF InputInit
    <3>4. QED
      BY <3>1, <3>2, <3>3 DEF InputInit, InputTypes
  <2>3. SteerInv /\ ForkInv
    BY <2>1 DEF InputInit, SteerInv, SteersAreHeard, ForkInv, ForksAreKept, Listed
  <2>4. QED
    BY <2>2, <2>3 DEF InputInv
<1>2. InputInv /\ [InputNext]_inputVars => InputInv'
  <2> SUFFICES ASSUME InputInv, [InputNext]_inputVars PROVE InputInv'
    OBVIOUS
  <2>1. CASE UNCHANGED inputVars
    BY <2>1, SteersUntouched, ForksUntouched DEF inputVars, InputInv, InputTypes, steerVars, forkVars
  <2>2. CASE TurnBegins \/ SurfaceOne \/ SurfacePanics \/ Surfaced
    BY <2>2, SurfacingSteps
  <2>3. CASE AcceptPrompt \/ CommandEnds \/ StepEnds \/ TurnReturns \/ ClearSlot
    BY <2>3, RunSteps
  <2>4. CASE \/ TurnStarts \/ ConsumePendingSteers \/ Interrupted
             \/ \E s \in Steers : HandleSteer(s) \/ QueueSteer(s)
    BY <2>4, SteerSteps
  <2>5. ASSUME NEW f \in Forks, ForkStarts(f) \/ ForkListed(f) \/ ForkEnds(f)
        PROVE  InputInv'
    BY <2>5, ForkSteps
  <2>6. QED
    BY <2>1, <2>2, <2>3, <2>4, <2>5 DEF InputNext
<1>3. QED
  BY <1>1, <1>2, PTL DEF InputSpec

(* kimisoul.rs: what each field may hold; the queue of steers holds those that are queued, and
   the list of forks only those that were started, each once. *)
THEOREM InputTypeCorrect == InputSpec => []InputTypeOK
<1>1. InputInv => InputTypeOK
  BY DEF InputInv, InputTypes, SteerInv, ForkInv, Listed, InputTypeOK
<1>2. QED
  BY <1>1, InputInvariant, PTL

(* kimisoul.rs:818-825: whenever a steer is queued, a turn that comes to its own end has heard
   what was said to it while its last step ran. *)
THEOREM TurnsHearTheirSteers == InputSpec => []SteersAreHeard
<1>1. InputInv => SteersAreHeard
  BY DEF InputInv, SteerInv
<1>2. QED
  BY <1>1, InputInvariant, PTL

(* kimisoul.rs:630-634: whatever is cut short or fails, a fork that is listed stays listed
   until the model was told of its end. *)
THEOREM ForksStayListed == InputSpec => []ForksAreKept
<1>1. InputInv => ForksAreKept
  BY DEF InputInv, ForkInv
<1>2. QED
  BY <1>1, InputInvariant, PTL
---------------------------------------------------------------------------------
(* A step. *)

HeardAnswers ==
    [parts : Seq(Parts), finished : BOOLEAN, flushed : BOOLEAN, open : BOOLEAN,
     named : SUBSET (1..MaxCalls), bad : BOOLEAN]
Messages == [content : Seq(Contents), calls : Seq(AllCalls)]

StepTypes ==
    /\ gen \in {"idle", "asking", "streaming", "failing", "backoff", "results", "telling", "over"}
    /\ attempts \in 0..MaxAttempts /\ (gen # "idle" => attempts # 0)
    /\ lines \in 0..MaxEvents
    /\ answer \in HeardAnswers
    /\ pendingPart \in Parts \cup {NoPart}
    /\ message \in Messages
    /\ toolRun \in [AllCalls -> {"none", "running", "done"}]
    /\ partQueue \in Seq(Parts) /\ resultQueue \in Seq(AllCalls)
    /\ stepVerdict \in {"none", "again", "well", "failed", "cut"}

\* A call is of this attempt, and was handed on when the answer was complete.
Complete(part) == part.kind = "call" => answer.flushed /\ part.call.at = attempts

(* A tool runs for a call of the message, of this attempt, and of an answer that was complete:
   such an attempt is not given up any more. *)
CallInv ==
    /\ answer.flushed => answer.finished /\ ~answer.bad
    /\ \A part \in ToSet(answer.parts) \cup {pendingPart} : Complete(part)
    /\ \A c \in AllCalls : toolRun[c] # "none" =>
         /\ c.at = attempts /\ answer.flushed /\ c \in ToSet(message.calls)
         /\ gen \in {"streaming", "results", "telling", "over"}

Sent(part) == part \in told \/ part \in ToSet(partQueue)

\* What the message is made of, and every result, has been told or is on its way.
ToldInv ==
    /\ pendingPart = NoPart \/ Sent(pendingPart)
    /\ \A i \in DOMAIN message.content : Sent(Part(message.content[i], NoCall))
    /\ \A c \in ToSet(message.calls) : Sent(Part("call", c))
    /\ \A c \in AllCalls :
         toolRun[c] = "done" => Part("result", c) \in told \/ c \in ToSet(resultQueue)

\* A step ends well when each call is answered and all was told.
EndInv ==
    /\ gen = "telling" => \A c \in ToSet(message.calls) : toolRun[c] = "done"
    /\ stepVerdict = "well" =>
         /\ gen = "over"
         /\ \A i \in DOMAIN message.content : Part(message.content[i], NoCall) \in told
         /\ \A c \in ToSet(message.calls) :
              toolRun[c] = "done" /\ {Part("call", c), Part("result", c)} \subseteq told

StepInv == StepTypes /\ CallInv /\ ToldInv /\ EndInv

\* What parts are.
LEMMA PartsAre ==
    ASSUME NEW part \in Parts \cup {NoPart}
    PROVE  \/ part = NoPart /\ part.kind = "none"
           \/ part.kind \in Contents /\ part = Part(part.kind, NoCall)
           \/ part.kind = "call" /\ part.call \in AllCalls /\ part = Part("call", part.call)
BY DEF Parts, NoPart, Part, Contents

\* A call of this attempt.
LEMMA CallOfThis ==
    ASSUME StepTypes, gen # "idle", NEW i \in 1..MaxCalls
    PROVE  /\ [at |-> attempts, index |-> i] \in AllCalls
           /\ Part("call", [at |-> attempts, index |-> i]) \in Parts
           /\ Part("call", [at |-> attempts, index |-> i]).kind = "call"
           /\ Part("call", [at |-> attempts, index |-> i]).call.at = attempts
<1>1. attempts \in 1..MaxAttempts
  BY StepAssumption DEF StepTypes
<1>2. [at |-> attempts, index |-> i] \in CallsOf(attempts)
  BY DEF CallsOf
<1>3. [at |-> attempts, index |-> i] \in AllCalls
  BY <1>1, <1>2 DEF AllCalls
<1>4. QED
  BY <1>3 DEF Parts, Part

\* An event adds text to what is to be handed on, no call.
LEMMA Ingested ==
    ASSUME NEW heard \in HeardAnswers, NEW spoken \in EventLines
    PROVE  /\ Ingest(heard, spoken) \in HeardAnswers
           /\ Ingest(heard, spoken).flushed = heard.flushed
           /\ \A part \in ToSet(Ingest(heard, spoken).parts) :
                part \in ToSet(heard.parts) \/ part.kind # "call"
<1>1. CASE ~heard.open \/ heard.bad
  BY <1>1 DEF Ingest
<1>2. CASE ~(~heard.open \/ heard.bad) /\ spoken.kind \in Contents
  <2>1. Part(spoken.kind, NoCall) \in Parts /\ Part(spoken.kind, NoCall).kind # "call"
    BY <1>2 DEF Parts, Part, Contents
  <2>2. Ingest(heard, spoken) = [heard EXCEPT !.parts = Append(@, Part(spoken.kind, NoCall))]
    BY <1>2 DEF Ingest, Contents
  <2>3. heard.parts \in Seq(Parts)
    BY DEF HeardAnswers
  <2>4. /\ Append(heard.parts, Part(spoken.kind, NoCall)) \in Seq(Parts)
        /\ ToSet(Append(heard.parts, Part(spoken.kind, NoCall)))
             = ToSet(heard.parts) \cup {Part(spoken.kind, NoCall)}
    BY <2>1, <2>3, AppendedOne
  <2>5. /\ Ingest(heard, spoken).parts = Append(heard.parts, Part(spoken.kind, NoCall))
        /\ Ingest(heard, spoken).flushed = heard.flushed
        /\ Ingest(heard, spoken) \in HeardAnswers
    BY <2>2, <2>4 DEF HeardAnswers
  <2>6. QED
    BY <2>1, <2>4, <2>5
<1>3. CASE ~(~heard.open \/ heard.bad) /\ spoken.kind = "name"
  <2>1. spoken.index \in 1..MaxCalls
    BY <1>3 DEF EventLines, Contents
  <2>2. Ingest(heard, spoken) = [heard EXCEPT !.named = @ \cup {spoken.index}]
    BY <1>3 DEF Ingest, Contents
  <2>3. QED
    BY <2>1, <2>2 DEF HeardAnswers
<1>4. CASE ~(~heard.open \/ heard.bad) /\ spoken.kind = "arguments"
  <2>1. Ingest(heard, spoken) = heard
    BY <1>4 DEF Ingest, Contents
  <2>2. QED
    BY <2>1
<1>5. CASE ~(~heard.open \/ heard.bad) /\ spoken.kind = "finish"
  <2>1. Ingest(heard, spoken) = [heard EXCEPT !.finished = TRUE]
    BY <1>5 DEF Ingest, Contents
  <2>2. QED
    BY <2>1 DEF HeardAnswers
<1>6. CASE ~(~heard.open \/ heard.bad) /\ spoken.kind = "done"
  <2>1. Ingest(heard, spoken) = [heard EXCEPT !.finished = TRUE, !.open = FALSE]
    BY <1>6 DEF Ingest, Contents
  <2>2. QED
    BY <2>1 DEF HeardAnswers
<1>7. CASE ~(~heard.open \/ heard.bad) /\ spoken.kind = "garbage"
  <2>1. Ingest(heard, spoken) = [heard EXCEPT !.bad = TRUE]
    BY <1>7 DEF Ingest, Contents
  <2>2. QED
    BY <2>1 DEF HeardAnswers
<1>8. QED
  BY <1>1, <1>2, <1>3, <1>4, <1>5, <1>6, <1>7 DEF EventLines

\* Another attempt begins: nothing runs for the one before.
LEMMA AttemptStep ==
    ASSUME StepInv, attempts < MaxAttempts, Attempt
    PROVE  StepInv'
<1>1. /\ gen \in {"idle", "backoff"} /\ gen' = "asking" /\ attempts' = attempts + 1
      /\ answer' = Unheard /\ lines' = 0 /\ pendingPart' = NoPart /\ message' = NoMessage
      /\ stepVerdict' = "none"
      /\ UNCHANGED <<toolRun, partQueue, resultQueue, told>>
  BY DEF Attempt, toldVars
<1>2. ToSet(<<>>) = {}
  BY DEF ToSet
<1>3. StepTypes'
  <2>1. Unheard \in HeardAnswers
    BY DEF Unheard, HeardAnswers
  <2>2. NoMessage \in Messages
    BY DEF NoMessage, Messages
  <2>3. attempts' \in 0..MaxAttempts /\ attempts' # 0 /\ lines' \in 0..MaxEvents
    BY <1>1, StepAssumption DEF StepInv, StepTypes
  <2>4. QED
    BY <1>1, <2>1, <2>2, <2>3 DEF StepInv, StepTypes
<1>4. \A c \in AllCalls : toolRun[c] = "none"
  BY <1>1 DEF StepInv, CallInv
<1>5. CallInv'
  BY <1>1, <1>2, <1>4 DEF CallInv, Complete, Unheard, NoPart, Part
<1>6. ToldInv' /\ EndInv'
  BY <1>1, <1>2, <1>4 DEF ToldInv, EndInv, NoMessage
<1>7. QED
  BY <1>3, <1>5, <1>6 DEF StepInv

\* An attempt is given up: no tool runs for it.
LEMMA GivenUp ==
    ASSUME StepInv, NEW retryable \in BOOLEAN, GenerationFails(retryable),
           gen = "asking" \/ (gen = "streaming" /\ ~answer.flushed)
    PROVE  StepInv'
<1>1. /\ gen' = "failing" /\ stepVerdict' \in {"again", "failed"}
      /\ UNCHANGED <<attempts, answer, lines, pendingPart, message, toolRun, partQueue,
                     resultQueue, told>>
  BY DEF GenerationFails, madeVars, toldVars
<1>2. \A c \in AllCalls : toolRun[c] = "none"
  BY DEF StepInv, CallInv
<1>3. StepTypes'
  BY <1>1 DEF StepInv, StepTypes
<1>4. CallInv'
  BY <1>1, <1>2 DEF StepInv, CallInv, Complete
<1>5. ToldInv' /\ EndInv'
  BY <1>1 DEF StepInv, ToldInv, Sent, EndInv
<1>6. QED
  BY <1>3, <1>4, <1>5 DEF StepInv

\* How an attempt is given up: before its answer is complete.
LEMMA FailingSteps ==
    ASSUME StepInv, RequestFails \/ BadEvent \/ StreamBreaks \/ CutOff
    PROVE  StepInv'
<1>1. gen = "asking" \/ (gen = "streaming" /\ ~answer.flushed)
  <2>1. answer.flushed => answer.finished /\ ~answer.bad
    BY DEF StepInv, CallInv
  <2>2. QED
    BY <2>1 DEF RequestFails, BadEvent, StreamBreaks, CutOff, Drained
<1>2. \E retryable \in BOOLEAN : GenerationFails(retryable)
  BY DEF RequestFails, BadEvent, StreamBreaks, CutOff
<1>3. QED
  BY <1>1, <1>2, GivenUp
\* The answer grows, and nothing is made of it yet.
LEMMA AnswerGrows ==
    ASSUME StepInv, gen # "idle", gen' \in {gen, "streaming"}, answer' \in HeardAnswers,
           lines' \in 0..MaxEvents,
           UNCHANGED <<attempts, pendingPart, message, toolRun, partQueue, resultQueue, told,
                       stepVerdict>>,
           answer.flushed => answer'.flushed,
           answer'.flushed => answer'.finished /\ ~answer'.bad,
           \A part \in ToSet(answer'.parts) : Complete(part)',
           gen' = gen \/ (gen = "asking" /\ stepVerdict # "well")
    PROVE  StepInv'
<1>1. StepTypes'
  BY DEF StepInv, StepTypes
<1>2. CallInv'
  BY DEF StepInv, CallInv, Complete
<1>3. ToldInv'
  BY DEF StepInv, ToldInv, Sent
<1>4. EndInv'
  BY DEF StepInv, EndInv
<1>5. QED
  BY <1>1, <1>2, <1>3, <1>4 DEF StepInv

\* The provider's answer, event by event or all at once.
LEMMA AnswerSteps ==
    ASSUME StepInv,
           \/ StreamBegins \/ StreamEnds \/ FlushToolCalls
           \/ \E contents \in {<<>>, <<"text">>, <<"think", "text">>}, n \in 0..MaxCalls :
                 WholeAnswer(contents, n)
           \/ \E events \in {<<a>> : a \in EventLines} \cup (EventLines \X EventLines) :
                 ReadEvents(events)
    PROVE  StepInv'
<1>1. answer \in HeardAnswers /\ lines \in 0..MaxEvents /\ (stepVerdict = "well" => gen = "over")
  BY DEF StepInv, StepTypes, EndInv
<1>2. CASE StreamBegins
  <2>1. /\ gen = "asking" /\ gen' = "streaming"
        /\ UNCHANGED <<attempts, answer, lines, pendingPart, message, toolRun, partQueue,
                       resultQueue, told, stepVerdict>>
    BY <1>2 DEF StreamBegins, madeVars, toldVars
  <2>2. /\ answer'.flushed => answer'.finished /\ ~answer'.bad
        /\ \A part \in ToSet(answer'.parts) : Complete(part)'
    BY <2>1 DEF StepInv, CallInv, Complete
  <2>3. QED
    BY <1>1, <2>1, <2>2, AnswerGrows
<1>3. CASE StreamEnds
  <2>1. /\ gen = "streaming" /\ gen' = gen /\ answer' = [answer EXCEPT !.open = FALSE]
        /\ UNCHANGED <<attempts, lines, pendingPart, message, toolRun, partQueue,
                       resultQueue, told, stepVerdict>>
    BY <1>3 DEF StreamEnds, Drained, madeVars, toldVars
  <2>2. /\ answer' \in HeardAnswers /\ answer'.parts = answer.parts
        /\ answer'.flushed = answer.flushed /\ answer'.finished = answer.finished
        /\ answer'.bad = answer.bad
    BY <1>1, <2>1 DEF HeardAnswers
  <2>3. /\ answer'.flushed => answer'.finished /\ ~answer'.bad
        /\ \A part \in ToSet(answer'.parts) : Complete(part)'
    BY <2>1, <2>2 DEF StepInv, CallInv, Complete
  <2>4. QED
    BY <1>1, <2>1, <2>2, <2>3, AnswerGrows
<1>4. CASE FlushToolCalls
  <2>1. PICK slots \in [1..Cardinality(answer.named) -> answer.named] :
          answer' = [answer EXCEPT !.flushed = TRUE,
                       !.parts = [i \in DOMAIN slots |->
                                     Part("call", [at |-> attempts, index |-> slots[i]])]]
    BY <1>4 DEF FlushToolCalls
  <2>2. /\ gen = "streaming" /\ answer.finished /\ ~answer.bad
        /\ UNCHANGED <<gen, attempts, lines, pendingPart, message, toolRun, partQueue,
                       resultQueue, told, stepVerdict>>
    BY <1>4 DEF FlushToolCalls, Drained, madeVars, toldVars
  <2>3. Cardinality(answer.named) \in Nat
    <3>1. IsFiniteSet(1..MaxCalls)
      BY StepAssumption, FS_Interval
    <3>2. answer.named \subseteq 1..MaxCalls
      BY <1>1 DEF HeardAnswers
    <3>3. QED
      BY <3>1, <3>2, FS_Subset, FS_CardinalityType
  <2> DEFINE parts == [i \in DOMAIN slots |->
                          Part("call", [at |-> attempts, index |-> slots[i]])]
  <2>4. \A i \in DOMAIN slots :
          /\ Part("call", [at |-> attempts, index |-> slots[i]]) \in Parts
          /\ Part("call", [at |-> attempts, index |-> slots[i]]).call.at = attempts
    <3>1. \A i \in DOMAIN slots : slots[i] \in 1..MaxCalls
      BY <1>1 DEF HeardAnswers
    <3>2. QED
      BY <2>2, <3>1, CallOfThis DEF StepInv
  <2>5. parts \in Seq(Parts) /\ \A part \in ToSet(parts) : part.call.at = attempts
    <3>1. DOMAIN parts = 1..Cardinality(answer.named) /\ DOMAIN slots = DOMAIN parts
      OBVIOUS
    <3>2. \A i \in DOMAIN parts : parts[i] \in Parts /\ parts[i].call.at = attempts
      BY <2>4, <3>1
    <3> HIDE DEF parts
    <3>3. \A part \in ToSet(parts) : part.call.at = attempts
      BY <3>2 DEF ToSet
    <3>4. parts = [i \in 1..Cardinality(answer.named) |-> parts[i]]
      BY <3>1 DEF parts
    <3>5. parts \in Seq(Parts)
      BY <2>3, <3>1, <3>2, <3>4
    <3>6. QED
      BY <3>3, <3>5
  <2>6. /\ answer' \in HeardAnswers /\ answer'.parts = parts /\ answer'.flushed
        /\ answer'.finished = answer.finished /\ answer'.bad = answer.bad
    BY <1>1, <2>1, <2>5 DEF HeardAnswers
  <2> HIDE DEF parts
  <2>7. \A part \in ToSet(answer'.parts) : Complete(part)'
    BY <2>2, <2>5, <2>6 DEF Complete
  <2>8. QED
    BY <1>1, <2>2, <2>6, <2>7, AnswerGrows
<1>5. ASSUME NEW contents \in {<<>>, <<"text">>, <<"think", "text">>}, NEW n \in 0..MaxCalls,
             WholeAnswer(contents, n)
      PROVE  StepInv'
  <2> DEFINE texts == [i \in 1..Len(contents) |-> Part(contents[i], NoCall)]
             calls == [i \in 1..n |-> Part("call", [at |-> attempts, index |-> i])]
  <2>1. /\ gen = "asking" /\ gen' = "streaming"
        /\ answer' = [Unheard EXCEPT !.parts = texts \o calls, !.finished = TRUE,
                                     !.flushed = TRUE, !.open = FALSE]
        /\ UNCHANGED <<attempts, lines, pendingPart, message, toolRun, partQueue,
                       resultQueue, told, stepVerdict>>
    BY <1>5 DEF WholeAnswer, madeVars, toldVars
  <2>2. texts \in Seq(Parts) /\ \A i \in DOMAIN texts : texts[i].kind # "call"
    <3>1. Len(contents) \in Nat /\ \A i \in 1..Len(contents) : contents[i] \in Contents
      BY DEF Contents
    <3>2. \A i \in 1..Len(contents) : /\ Part(contents[i], NoCall) \in Parts
                                      /\ Part(contents[i], NoCall).kind # "call"
      BY <3>1 DEF Parts, Part, Contents
    <3>3. QED
      BY <3>1, <3>2
  <2>3. calls \in Seq(Parts) /\ \A i \in DOMAIN calls : calls[i].call.at = attempts
    <3>1. \A i \in 1..n : /\ Part("call", [at |-> attempts, index |-> i]) \in Parts
                          /\ Part("call", [at |-> attempts, index |-> i]).call.at = attempts
      <4>1. \A i \in 1..n : i \in 1..MaxCalls
        BY StepAssumption
      <4>2. QED
        BY <2>1, <4>1, CallOfThis DEF StepInv
    <3>2. QED
      BY <3>1
  <2> HIDE DEF texts, calls
  <2>4. /\ texts \o calls \in Seq(Parts)
        /\ \A part \in ToSet(texts \o calls) : part.kind = "call" => part.call.at = attempts
    <3>1. /\ texts \o calls \in Seq(Parts) /\ DOMAIN (texts \o calls) = 1 .. Len(texts) + Len(calls)
          /\ \A i \in 1 .. Len(texts) + Len(calls) :
               (texts \o calls)[i] = IF i <= Len(texts) THEN texts[i] ELSE calls[i - Len(texts)]
      BY <2>2, <2>3
    <3>2. \A i \in 1 .. Len(texts) + Len(calls) :
            i \in DOMAIN texts \/ (i > Len(texts) /\ i - Len(texts) \in DOMAIN calls)
      BY <2>2, <2>3
    <3>3. QED
      BY <2>2, <2>3, <3>1, <3>2 DEF ToSet
  <2>5. /\ answer' \in HeardAnswers /\ answer'.parts = texts \o calls /\ answer'.flushed
        /\ answer'.finished /\ ~answer'.bad
    BY <2>1, <2>4 DEF HeardAnswers, Unheard
  <2>6. \A part \in ToSet(answer'.parts) : Complete(part)'
    BY <2>1, <2>4, <2>5 DEF Complete
  <2>7. QED
    BY <1>1, <2>1, <2>5, <2>6, AnswerGrows
<1>6. ASSUME NEW events \in {<<a>> : a \in EventLines} \cup (EventLines \X EventLines),
             ReadEvents(events)
      PROVE  StepInv'
  <2> DEFINE once == Ingest(answer, events[1])
             twice == Ingest(once, events[2])
  <2>1. /\ gen = "streaming" /\ ~answer.finished /\ answer.parts = <<>>
        /\ answer' = IF Len(events) = 1 THEN once ELSE twice
        /\ lines + Len(events) <= MaxEvents /\ lines' = lines + Len(events)
        /\ UNCHANGED <<gen, attempts, pendingPart, message, toolRun, partQueue,
                       resultQueue, told, stepVerdict>>
    BY <1>6 DEF ReadEvents, Drained, madeVars, toldVars
  <2>2. ~answer.flushed /\ ToSet(answer.parts) = {}
    BY <2>1 DEF StepInv, CallInv, ToSet
  <2>3. events[1] \in EventLines /\ Len(events) \in {1, 2}
        /\ (Len(events) # 1 => events[2] \in EventLines)
    OBVIOUS
  <2>4. /\ once \in HeardAnswers /\ once.flushed = answer.flushed
        /\ \A part \in ToSet(once.parts) : part \in ToSet(answer.parts) \/ part.kind # "call"
    BY <1>1, <2>3, Ingested
  <2> HIDE DEF once
  <2>5. Len(events) # 1 =>
          /\ twice \in HeardAnswers /\ twice.flushed = once.flushed
          /\ \A part \in ToSet(twice.parts) : part \in ToSet(once.parts) \/ part.kind # "call"
    BY <2>3, <2>4, Ingested
  <2> HIDE DEF twice
  <2>6. /\ answer' \in HeardAnswers /\ ~answer'.flushed
        /\ \A part \in ToSet(answer'.parts) : part.kind # "call"
    BY <2>1, <2>2, <2>3, <2>4, <2>5
  <2>7. lines' \in 0..MaxEvents
    BY <1>1, <2>1, <2>3, StepAssumption
  <2>8. QED
    BY <2>1, <2>2, <2>6, <2>7, AnswerGrows DEF Complete
<1>7. QED
  BY <1>2, <1>3, <1>4, <1>5, <1>6
\* A part that is complete goes into the message; if it is a call, its tool is called.
LEMMA Appended ==
    ASSUME StepInv, gen = "streaming", AppendPart(pendingPart)
    PROVE  /\ message' \in Messages /\ resultQueue' \in Seq(AllCalls)
           /\ toolRun' \in [AllCalls -> {"none", "running", "done"}]
           /\ \A c \in AllCalls : toolRun'[c] # "none" =>
                c.at = attempts /\ answer.flushed /\ c \in ToSet(message'.calls)
           /\ \A i \in DOMAIN message'.content : Sent(Part(message'.content[i], NoCall))
           /\ \A c \in ToSet(message'.calls) : Sent(Part("call", c))
           /\ \A c \in AllCalls :
                toolRun'[c] = "done" => Part("result", c) \in told \/ c \in ToSet(resultQueue')
<1>1. /\ message \in Messages /\ pendingPart \in Parts \cup {NoPart}
      /\ resultQueue \in Seq(AllCalls) /\ toolRun \in [AllCalls -> {"none", "running", "done"}]
  BY DEF StepInv, StepTypes
<1>2. /\ message.content \in Seq(Contents) /\ message.calls \in Seq(AllCalls)
      /\ message = [content |-> message.content, calls |-> message.calls]
  BY <1>1 DEF Messages
<1>3. CASE pendingPart = NoPart
  <2>1. UNCHANGED <<message, toolRun, resultQueue>>
    BY <1>3 DEF AppendPart, NoPart, Part
  <2>2. QED
    BY <1>1, <2>1 DEF StepInv, CallInv, ToldInv
<1>4. CASE pendingPart.kind \in Contents /\ pendingPart = Part(pendingPart.kind, NoCall)
  <2>1. /\ message' = [message EXCEPT !.content = Append(@, pendingPart.kind)]
        /\ UNCHANGED <<toolRun, resultQueue>>
    BY <1>4 DEF AppendPart, NoPart, Part, Contents
  <2>2. Sent(pendingPart)
    BY <1>4 DEF StepInv, ToldInv, NoPart, Part, Contents
  <2>3. /\ message'.content = Append(message.content, pendingPart.kind)
        /\ message'.calls = message.calls /\ message' \in Messages
    <3>1. Append(message.content, pendingPart.kind) \in Seq(Contents)
      BY <1>2, <1>4, AppendedOne
    <3>2. message' = [content |-> Append(message.content, pendingPart.kind),
                      calls |-> message.calls]
      BY <1>2, <2>1
    <3>3. QED
      BY <1>2, <3>1, <3>2 DEF Messages
  <2>4. \A i \in DOMAIN message'.content :
          \/ i \in DOMAIN message.content /\ message'.content[i] = message.content[i]
          \/ message'.content[i] = pendingPart.kind
    BY <1>2, <1>4, <2>3
  <2>5. QED
    BY <1>1, <1>4, <2>1, <2>2, <2>3, <2>4 DEF StepInv, CallInv, ToldInv
<1>5. CASE /\ pendingPart.kind = "call" /\ pendingPart.call \in AllCalls
           /\ pendingPart = Part("call", pendingPart.call)
  <2> DEFINE call == pendingPart.call
  <2>1. message' = [message EXCEPT !.calls = Append(@, call)] /\ Dispatch(call)
    BY <1>5 DEF AppendPart
  <2>2. Sent(Part("call", call)) /\ answer.flushed /\ call.at = attempts /\ call \in AllCalls
    <3>1. pendingPart # NoPart
      BY <1>5 DEF NoPart, Part
    <3>2. QED
      BY <1>5, <3>1 DEF StepInv, ToldInv, CallInv, Complete
  <2> HIDE DEF call
  <2>3. /\ message'.content = message.content /\ message'.calls = Append(message.calls, call)
        /\ message'.calls \in Seq(AllCalls)
        /\ ToSet(message'.calls) = ToSet(message.calls) \cup {call}
        /\ message' \in Messages
    <3>1. /\ Append(message.calls, call) \in Seq(AllCalls)
          /\ ToSet(Append(message.calls, call)) = ToSet(message.calls) \cup {call}
      BY <1>2, <2>2, AppendedOne
    <3>2. QED
      BY <1>1, <1>2, <2>1, <3>1 DEF Messages
  <2>4. /\ toolRun' \in [AllCalls -> {"none", "running", "done"}]
        /\ \A c \in AllCalls : c # call => toolRun'[c] = toolRun[c]
        /\ resultQueue' \in Seq(AllCalls) /\ ToSet(resultQueue) \subseteq ToSet(resultQueue')
        /\ toolRun'[call] = "done" => call \in ToSet(resultQueue')
    <3>1. /\ Append(resultQueue, call) \in Seq(AllCalls)
          /\ ToSet(Append(resultQueue, call)) = ToSet(resultQueue) \cup {call}
      BY <1>1, <2>2, AppendedOne
    <3>2. QED
      BY <1>1, <2>1, <2>2, <3>1 DEF Dispatch
  <2>5. \A c \in AllCalls : toolRun'[c] # "none" =>
          c.at = attempts /\ answer.flushed /\ c \in ToSet(message'.calls)
    BY <2>2, <2>3, <2>4 DEF StepInv, CallInv
  <2>6. \A c \in AllCalls :
          toolRun'[c] = "done" => Part("result", c) \in told \/ c \in ToSet(resultQueue')
    BY <2>4 DEF StepInv, ToldInv
  <2>7. /\ \A i \in DOMAIN message'.content : Sent(Part(message'.content[i], NoCall))
        /\ \A c \in ToSet(message'.calls) : Sent(Part("call", c))
    BY <2>2, <2>3 DEF StepInv, ToldInv
  <2>8. QED
    BY <2>3, <2>4, <2>5, <2>6, <2>7
<1>6. QED
  BY <1>1, <1>3, <1>4, <1>5, PartsAre

\* The next part of the answer is merged with the one before, or ends it.
LEMMA NextPartStep ==
    ASSUME StepInv, NextPart
    PROVE  StepInv'
<1> DEFINE part == Head(answer.parts)
<1>1. /\ gen = "streaming" /\ answer.parts # <<>>
      /\ answer' = [answer EXCEPT !.parts = Tail(@)]
      /\ partQueue' = Append(partQueue, part) /\ pendingPart' = part
      /\ UNCHANGED <<message, toolRun, resultQueue>> \/ AppendPart(pendingPart)
      /\ UNCHANGED <<gen, attempts, lines, told, stepVerdict>>
  BY DEF NextPart
<1>2. answer \in HeardAnswers /\ answer.parts \in Seq(Parts) /\ partQueue \in Seq(Parts)
  BY DEF StepInv, StepTypes, HeardAnswers
<1>3. /\ part \in Parts /\ Tail(answer.parts) \in Seq(Parts)
      /\ ToSet(answer.parts) = {part} \cup ToSet(Tail(answer.parts))
  BY <1>1, <1>2, HeadAndTail
<1>4. partQueue' \in Seq(Parts) /\ ToSet(partQueue') = ToSet(partQueue) \cup {part}
  BY <1>1, <1>2, <1>3, AppendedOne
<1> HIDE DEF part
<1>5. /\ answer' \in HeardAnswers /\ answer'.parts = Tail(answer.parts)
      /\ answer'.flushed = answer.flushed /\ answer'.finished = answer.finished
      /\ answer'.bad = answer.bad
  BY <1>1, <1>2, <1>3 DEF HeardAnswers
<1>6. /\ message' \in Messages /\ resultQueue' \in Seq(AllCalls)
      /\ toolRun' \in [AllCalls -> {"none", "running", "done"}]
      /\ \A c \in AllCalls : toolRun'[c] # "none" =>
           c.at = attempts /\ answer.flushed /\ c \in ToSet(message'.calls)
      /\ \A i \in DOMAIN message'.content : Sent(Part(message'.content[i], NoCall))
      /\ \A c \in ToSet(message'.calls) : Sent(Part("call", c))
      /\ \A c \in AllCalls :
           toolRun'[c] = "done" => Part("result", c) \in told \/ c \in ToSet(resultQueue')
  <2>1. CASE UNCHANGED <<message, toolRun, resultQueue>>
    BY <2>1 DEF StepInv, StepTypes, CallInv, ToldInv
  <2>2. CASE AppendPart(pendingPart)
    BY <1>1, <2>2, Appended
  <2>3. QED
    BY <1>1, <2>1, <2>2
<1>7. \A p : Sent(p) => Sent(p)'
  BY <1>1, <1>4 DEF Sent
<1>8. StepTypes'
  BY <1>1, <1>3, <1>4, <1>5, <1>6 DEF StepInv, StepTypes
<1>9. CallInv'
  BY <1>1, <1>3, <1>5, <1>6 DEF StepInv, CallInv, Complete
<1>10. ToldInv'
  BY <1>1, <1>4, <1>6, <1>7 DEF ToldInv, Sent
<1>11. EndInv'
  BY <1>1 DEF StepInv, EndInv
<1>12. QED
  BY <1>8, <1>9, <1>10, <1>11 DEF StepInv

\* The answer is over: what was held back goes into the message, or there is none.
LEMMA AnswerEndsStep ==
    ASSUME StepInv, AnswerEnds
    PROVE  StepInv'
<1>1. /\ gen = "streaming" /\ answer.flushed /\ AppendPart(pendingPart) /\ pendingPart' = NoPart
      /\ UNCHANGED <<attempts, answer, lines, partQueue, told>>
      /\ \/ message' = NoMessage /\ gen' = "failing" /\ stepVerdict' = "again"
         \/ gen' = "results" /\ stepVerdict' = stepVerdict
  BY DEF AnswerEnds, Drained
<1>2. /\ message' \in Messages /\ resultQueue' \in Seq(AllCalls)
      /\ toolRun' \in [AllCalls -> {"none", "running", "done"}]
      /\ \A c \in AllCalls : toolRun'[c] # "none" =>
           c.at = attempts /\ answer.flushed /\ c \in ToSet(message'.calls)
      /\ \A i \in DOMAIN message'.content : Sent(Part(message'.content[i], NoCall))
      /\ \A c \in ToSet(message'.calls) : Sent(Part("call", c))
      /\ \A c \in AllCalls :
           toolRun'[c] = "done" => Part("result", c) \in told \/ c \in ToSet(resultQueue')
  BY <1>1, Appended
<1>3. message' = NoMessage => \A c \in AllCalls : toolRun'[c] = "none"
  <2>1. ToSet(NoMessage.calls) = {}
    BY DEF NoMessage, ToSet
  <2>2. QED
    BY <1>2, <2>1
<1>4. StepTypes'
  BY <1>1, <1>2 DEF StepInv, StepTypes
<1>5. CallInv'
  <2>1. Complete(NoPart)'
    BY DEF Complete, NoPart, Part
  <2>2. QED
    BY <1>1, <1>2, <1>3, <2>1 DEF StepInv, CallInv, Complete
<1>6. ToldInv'
  BY <1>1, <1>2 DEF ToldInv, Sent
<1>7. EndInv'
  BY <1>1 DEF StepInv, EndInv
<1>8. QED
  BY <1>4, <1>5, <1>6, <1>7 DEF StepInv

\* A tool ends: its result is on its way.
LEMMA ToolEndsStep ==
    ASSUME StepInv, NEW call \in AllCalls, ToolEnds(call)
    PROVE  StepInv'
<1>1. /\ toolRun[call] = "running" /\ toolRun' = [toolRun EXCEPT ![call] = "done"]
      /\ resultQueue' = Append(resultQueue, call)
      /\ UNCHANGED <<gen, attempts, answer, lines, pendingPart, message, partQueue, told,
                     stepVerdict>>
  BY DEF ToolEnds
<1>2. resultQueue' \in Seq(AllCalls) /\ ToSet(resultQueue') = ToSet(resultQueue) \cup {call}
  BY <1>1, AppendedOne DEF StepInv, StepTypes
<1>3. StepTypes'
  BY <1>1, <1>2 DEF StepInv, StepTypes
<1>4. CallInv'
  BY <1>1 DEF StepInv, StepTypes, CallInv, Complete
<1>5. ToldInv'
  BY <1>1, <1>2 DEF StepInv, StepTypes, ToldInv, Sent
<1>6. EndInv'
  BY <1>1 DEF StepInv, StepTypes, EndInv
<1>7. QED
  BY <1>3, <1>4, <1>5, <1>6 DEF StepInv

\* The forwarding task tells the clients what is next in either queue.
LEMMA ForwardSteps ==
    ASSUME StepInv, ForwardPart \/ ForwardResult
    PROVE  StepInv'
<1>1. /\ UNCHANGED <<gen, attempts, answer, lines, pendingPart, message, toolRun, stepVerdict>>
      /\ told \subseteq told'
  BY DEF ForwardPart, ForwardResult
<1>2. /\ partQueue' \in Seq(Parts) /\ resultQueue' \in Seq(AllCalls)
      /\ \A part : Sent(part) => Sent(part)'
      /\ \A c \in ToSet(resultQueue) : c \in ToSet(resultQueue') \/ Part("result", c) \in told'
  <2>1. CASE ForwardPart
    <3>1. /\ Head(partQueue) \in Parts /\ Tail(partQueue) \in Seq(Parts)
          /\ ToSet(partQueue) = {Head(partQueue)} \cup ToSet(Tail(partQueue))
      BY <2>1, HeadAndTail DEF ForwardPart, StepInv, StepTypes
    <3>2. QED
      BY <2>1, <3>1 DEF ForwardPart, StepInv, StepTypes, Sent
  <2>2. CASE ForwardResult
    <3>1. /\ Head(resultQueue) \in AllCalls /\ Tail(resultQueue) \in Seq(AllCalls)
          /\ ToSet(resultQueue) = {Head(resultQueue)} \cup ToSet(Tail(resultQueue))
      BY <2>2, HeadAndTail DEF ForwardResult, StepInv, StepTypes
    <3>2. QED
      BY <2>2, <3>1 DEF ForwardResult, StepInv, StepTypes, Sent
  <2>3. QED
    BY <2>1, <2>2
<1>3. StepTypes'
  BY <1>1, <1>2 DEF StepInv, StepTypes
<1>4. CallInv'
  BY <1>1 DEF StepInv, CallInv, Complete
<1>5. ToldInv'
  BY <1>1, <1>2 DEF StepInv, ToldInv
<1>6. EndInv'
  BY <1>1 DEF StepInv, EndInv
<1>7. QED
  BY <1>3, <1>4, <1>5, <1>6 DEF StepInv

\* The step is tried again, has its results, returns or is cancelled.
LEMMA StepEndSteps ==
    ASSUME StepInv, Retry \/ GrowWhenAnswered \/ StepReturns \/ StepCut
    PROVE  StepInv'
<1>1. UNCHANGED <<attempts, answer, lines, pendingPart, message, toolRun, partQueue,
                  resultQueue, told>>
  BY DEF Retry, GrowWhenAnswered, StepReturns, StepCut, madeVars, toldVars
<1>2. /\ gen' \in {"backoff", "over", "telling"} /\ gen # "idle"
      /\ stepVerdict' \in {"none", "again", "well", "failed", "cut"}
      /\ gen' = "backoff" => gen = "failing"
  BY DEF Retry, GrowWhenAnswered, StepReturns, StepCut, StepInv, StepTypes
<1>3. StepTypes'
  BY <1>1, <1>2 DEF StepInv, StepTypes
<1>4. CallInv'
  BY <1>1, <1>2 DEF StepInv, CallInv, Complete
<1>5. ToldInv'
  BY <1>1 DEF StepInv, ToldInv, Sent
<1>6. EndInv'
  <2>1. ToSet(message.calls) \subseteq AllCalls
    BY DEF StepInv, StepTypes, Messages, ToSet
  <2>2. ToSet(<<>>) = {}
    BY DEF ToSet
  <2>3. CASE Retry \/ GrowWhenAnswered \/ StepCut
    BY <1>1, <2>3 DEF Retry, GrowWhenAnswered, StepCut, StepInv, EndInv
  <2>4. CASE StepReturns
    BY <1>1, <2>1, <2>2, <2>4 DEF StepReturns, ForwardEnded, StepInv, EndInv, ToldInv, Sent
  <2>5. QED
    BY <2>3, <2>4
<1>7. QED
  BY <1>3, <1>4, <1>5, <1>6 DEF StepInv

LEMMA StepInvariant == StepSpec => []StepInv
<1>1. StepInit => StepInv
  <2> SUFFICES ASSUME StepInit PROVE StepInv
    OBVIOUS
  <2>1. ToSet(<<>>) = {}
    BY DEF ToSet
  <2>2. Unheard \in HeardAnswers /\ NoMessage \in Messages
    BY DEF Unheard, NoMessage, HeardAnswers, Messages
  <2>3. attempts \in 0..MaxAttempts /\ lines \in 0..MaxEvents
    BY StepAssumption DEF StepInit
  <2>4. StepTypes
    BY <2>2, <2>3 DEF StepInit, StepTypes
  <2>5. CallInv
    BY <2>1 DEF StepInit, CallInv, Complete, Unheard, NoPart, Part
  <2>6. ToldInv /\ EndInv
    BY <2>1 DEF StepInit, ToldInv, EndInv, NoMessage
  <2>7. QED
    BY <2>4, <2>5, <2>6 DEF StepInv
<1>2. StepInv /\ [StepNext]_stepVars => StepInv'
  <2> SUFFICES ASSUME StepInv, [StepNext]_stepVars PROVE StepInv'
    OBVIOUS
  <2>1. CASE UNCHANGED stepVars
    BY <2>1 DEF stepVars, StepInv, StepTypes, CallInv, Complete, ToldInv, Sent, EndInv
  <2>2. CASE attempts < MaxAttempts /\ Attempt
    BY <2>2, AttemptStep
  <2>3. CASE RequestFails \/ BadEvent \/ StreamBreaks \/ CutOff
    BY <2>3, FailingSteps
  <2>4. CASE \/ StreamBegins \/ StreamEnds \/ FlushToolCalls
             \/ \E contents \in {<<>>, <<"text">>, <<"think", "text">>}, n \in 0..MaxCalls :
                   WholeAnswer(contents, n)
             \/ \E events \in {<<a>> : a \in EventLines} \cup (EventLines \X EventLines) :
                   ReadEvents(events)
    BY <2>4, AnswerSteps
  <2>5. CASE NextPart
    BY <2>5, NextPartStep
  <2>6. CASE AnswerEnds
    BY <2>6, AnswerEndsStep
  <2>7. CASE \E call \in AllCalls : ToolEnds(call)
    BY <2>7, ToolEndsStep
  <2>8. CASE ForwardPart \/ ForwardResult
    BY <2>8, ForwardSteps
  <2>9. CASE Retry \/ GrowWhenAnswered \/ StepReturns \/ StepCut
    BY <2>9, StepEndSteps
  <2>10. QED
    BY <2>1, <2>2, <2>3, <2>4, <2>5, <2>6, <2>7, <2>8, <2>9 DEF StepNext
<1>3. QED
  BY <1>1, <1>2, PTL DEF StepSpec

(* StepGeneration: what each field of a step may hold, over its attempts. *)
THEOREM StepTypeCorrect == StepSpec => []StepTypeOK
<1>1. StepInv => StepTypeOK
  <2> SUFFICES ASSUME StepInv PROVE StepTypeOK
    OBVIOUS
  <2>1. ToSet(answer.parts) \subseteq Parts /\ answer.named \subseteq 1..MaxCalls
    BY DEF StepInv, StepTypes, HeardAnswers, ToSet
  <2>2. QED
    BY <2>1 DEF StepInv, StepTypes, StepTypeOK
<1>2. QED
  BY <1>1, StepInvariant, PTL

(* lib.rs:37-66, openai_compatible.rs:303-311, kimisoul.rs:925-927: however an answer comes in,
   breaks off and is asked for again, no tool runs for an attempt that is given up, and a step
   that ends well has told the clients of all of its message. *)
THEOREM StepsAreWhole == StepSpec => []StepIsWhole
<1>1. StepInv => StepIsWhole
  BY DEF StepInv, CallInv, EndInv, StepIsWhole
<1>2. QED
  BY <1>1, StepInvariant, PTL
---------------------------------------------------------------------------------
(* FlowRunner: a chart of any size, and a run of any length. *)

FlowLabels == NodeLabels \cup NodeIds \cup {"", "begin", "end", "task", "decision"}

Definitions == [label : FlowLabels, explicit : BOOLEAN,
                kind : {"undefined", "begin", "end", "task", "decision"}]

FlowEdges(ids) == [dst : ids, label : EdgeLabels \cup {"none", "a", "b"}]

\* Nodes are what their definitions say, and an edge leads to a node that is one.
ChartInv ==
    /\ nodes \in [DOMAIN nodes -> Definitions]
    /\ outgoing \in [DOMAIN nodes -> Seq(FlowEdges(DOMAIN nodes))]
    /\ \A id \in DOMAIN nodes : nodes[id].kind = "undefined" => nodes[id] = Undefined
    /\ \A id \in DOMAIN nodes : \A i \in DOMAIN outgoing[id] :
         nodes[outgoing[id][i].dst].kind # "undefined"

\* Where a run can come to: out of these nodes there is no way, and their labels tell
\* one way on from another.
RunsAmong(ids) ==
    /\ flowNode \in ids /\ LeadsNowhereElse(ids)
    /\ \A id \in ids : Len(outgoing[id]) > 1 => LabelsTellApart(outgoing[id])

RunInv ==
    /\ nodes[flowNode].kind # "undefined"
    /\ \A id \in DOMAIN nodes : nodes[id].kind = "task" => Len(outgoing[id]) <= 1
    /\ \E ids \in SUBSET DOMAIN nodes : RunsAmong(ids)

\* Every turn of a run that goes on was a move or an answer without a valid choice.
MovesInv ==
    /\ moves \in Nat /\ maxMoves \in Nat /\ turns \in Nat /\ badReplies \in Nat
    /\ flowState = "parsing" => moves = 0 /\ turns = 0 /\ badReplies = 0
    /\ flowState \in {"running", "ended"} => turns = moves + badReplies /\ moves <= maxMoves
    /\ flowState = "failed" => turns <= maxMoves + badReplies

FlowInv ==
    /\ flowState \in {"parsing", "refused", "running", "ended", "rejected", "failed", "stuck"}
    /\ flowState = "parsing" => DOMAIN nodes = NodeIds
    /\ flowState \notin {"parsing", "refused"} => RunInv
    /\ ChartInv /\ MovesInv

Defines(defs) ==
    /\ defs \in [NodeIds -> Definitions]
    /\ \A id \in NodeIds : defs[id].kind = "undefined" => defs[id] = Undefined

\* A definition that is added is one, and none is taken away.
LEMMA AddsANode ==
    ASSUME NEW defs, Defines(defs), NEW id \in NodeIds, NEW label \in FlowLabels,
           NEW explicit \in BOOLEAN
    PROVE  /\ Defines(AddNode(defs, id, label, explicit))
           /\ AddNode(defs, id, label, explicit)[id].kind # "undefined"
           /\ \A k \in NodeIds : defs[k].kind # "undefined" =>
                AddNode(defs, id, label, explicit)[k].kind # "undefined"
<1> DEFINE node == [label |-> label, explicit |-> explicit, kind |-> KindOfLabel(label)]
           after == AddNode(defs, id, label, explicit)
<1>1. KindOfLabel(label) \in {"begin", "end", "task"}
  BY DEF KindOfLabel
<1>2. node \in Definitions /\ node.kind # "undefined"
  BY <1>1 DEF Definitions
<1>3. \/ after = [defs EXCEPT ![id] = node]
      \/ after = defs /\ defs[id] # Undefined
  BY DEF AddNode
<1> HIDE DEF node, after
<1>4. /\ Defines(after) /\ after[id].kind # "undefined"
      /\ \A k \in NodeIds : defs[k].kind # "undefined" => after[k].kind # "undefined"
  BY <1>2, <1>3 DEF Defines
<1>5. QED
  BY <1>4 DEF after

\* What is reachable contains where it is reached from, and nothing leads out of it.
LEMMA ReachableIsClosed ==
    ASSUME ChartInv, NEW from \in DOMAIN nodes
    PROVE  /\ Reachable(from) \subseteq DOMAIN nodes /\ from \in Reachable(from)
           /\ LeadsNowhereElse(Reachable(from))
<1>1. Reachable(from) \subseteq DOMAIN nodes /\ from \in Reachable(from)
  BY DEF Reachable
<1>2. ASSUME NEW id \in Reachable(from), NEW i \in DOMAIN outgoing[id]
      PROVE  outgoing[id][i].dst \in Reachable(from)
  <2>1. outgoing[id][i] \in FlowEdges(DOMAIN nodes)
    BY <1>1, <1>2 DEF ChartInv
  <2>2. outgoing[id][i].dst \in DOMAIN nodes
    BY <2>1 DEF FlowEdges
  <2>3. ASSUME NEW ids \in SUBSET DOMAIN nodes, from \in ids, LeadsNowhereElse(ids)
        PROVE  outgoing[id][i].dst \in ids
    <3>1. id \in ids
      BY <1>2, <2>3 DEF Reachable
    <3>2. QED
      BY <1>2, <2>3, <3>1 DEF LeadsNowhereElse
  <2>4. QED
    BY <2>2, <2>3 DEF Reachable
<1>3. QED
  BY <1>1, <1>2 DEF LeadsNowhereElse

\* A statement that is an edge leaves a chart that is one.
LEMMA EdgeKeepsChart ==
    ASSUME FlowInv, NEW src \in NodeIds, NEW dst \in NodeIds, NEW label \in EdgeLabels,
           EdgeStatement(src, dst, label)
    PROVE  ChartInv'
<1> DEFINE named == AddNode(nodes, src, src, FALSE)
           edge == [dst |-> dst, label |-> label]
<1>1. /\ DOMAIN nodes = NodeIds /\ nodes' = AddNode(named, dst, dst, FALSE)
      /\ outgoing' = [outgoing EXCEPT ![src] = Append(@, edge)]
  BY DEF EdgeStatement, ReadStatement, FlowInv
<1>2. src \in FlowLabels /\ dst \in FlowLabels /\ FALSE \in BOOLEAN
  BY DEF FlowLabels
<1> HIDE DEF edge
<1>3. Defines(nodes)
  BY <1>1 DEF FlowInv, ChartInv, Defines
<1>4. /\ Defines(named) /\ named[src].kind # "undefined"
      /\ \A k \in NodeIds : nodes[k].kind # "undefined" => named[k].kind # "undefined"
  BY <1>2, <1>3, AddsANode
<1> HIDE DEF named
<1>5. /\ Defines(nodes') /\ nodes'[dst].kind # "undefined"
       /\ \A k \in NodeIds : named[k].kind # "undefined" => nodes'[k].kind # "undefined"
  BY <1>1, <1>2, <1>4, AddsANode
<1>6. edge \in FlowEdges(NodeIds)
  BY DEF FlowEdges, edge
<1>7. /\ outgoing[src] \in Seq(FlowEdges(NodeIds))
      /\ Append(outgoing[src], edge) \in Seq(FlowEdges(NodeIds))
  BY <1>1, <1>6 DEF FlowInv, ChartInv
<1>8. outgoing' \in [NodeIds -> Seq(FlowEdges(NodeIds))]
  BY <1>1, <1>7 DEF FlowInv, ChartInv
<1>9. ASSUME NEW id \in NodeIds, NEW i \in DOMAIN outgoing'[id]
      PROVE  nodes'[outgoing'[id][i].dst].kind # "undefined"
  <2>1. ASSUME NEW j \in DOMAIN outgoing[id]
        PROVE  nodes'[outgoing[id][j].dst].kind # "undefined"
    <3>1. outgoing[id][j] \in FlowEdges(NodeIds)
      BY <1>1, <2>1 DEF FlowInv, ChartInv
    <3>2. outgoing[id][j].dst \in NodeIds
      BY <3>1 DEF FlowEdges
    <3>3. nodes[outgoing[id][j].dst].kind # "undefined"
      BY <1>1, <2>1 DEF FlowInv, ChartInv
    <3>4. QED
      BY <1>4, <1>5, <3>2, <3>3
  <2>2. CASE id = src
    <3>1. outgoing'[id] = Append(outgoing[src], edge)
      BY <1>1, <2>2 DEF FlowInv, ChartInv
    <3>2. \/ i \in DOMAIN outgoing[src] /\ outgoing'[id][i] = outgoing[src][i]
          \/ outgoing'[id][i] = edge
      BY <1>7, <1>9, <3>1
    <3>3. QED
      BY <1>5, <2>1, <2>2, <3>2 DEF edge
  <2>3. CASE id # src
    BY <1>1, <1>9, <2>1, <2>3 DEF FlowInv, ChartInv
  <2>4. QED
    BY <2>2, <2>3
<1>10. QED
  BY <1>8, <1>9, <1>5 DEF ChartInv, Defines

\* A chart that is valid can be run from its first node.
LEMMA ValidChartRuns ==
    ASSUME FlowInv, ParseEnds, ValidFlow
    PROVE  ChartInv' /\ RunInv'
<1> DEFINE first == CHOOSE id \in OfKind("begin") : TRUE
<1>1. /\ nodes' = InferDecisionNodes(nodes) /\ outgoing' = outgoing
      /\ flowNode' \in OfKind("begin")
  BY DEF ParseEnds
<1>2. \E id : OfKind("begin") = {id}
  <2>1. OfKind("begin") \subseteq NodeIds
    BY DEF OfKind, FlowInv, ParseEnds
  <2>2. IsFiniteSet(OfKind("begin"))
    BY <2>1, FlowAssumption, FS_Subset
  <2>3. Cardinality(OfKind("begin")) = 1
    BY DEF ValidFlow
  <2>4. QED
    BY <2>2, <2>3, FS_Singleton
<1>3. flowNode' = first /\ first \in DOMAIN nodes /\ nodes[first].kind = "begin"
  BY <1>1, <1>2 DEF OfKind
<1>4. \A id \in Reachable(first) : Len(outgoing[id]) > 1 => LabelsTellApart(outgoing[id])
  BY DEF ValidFlow
<1> HIDE DEF first
<1>5. /\ Reachable(first) \subseteq DOMAIN nodes /\ first \in Reachable(first)
      /\ LeadsNowhereElse(Reachable(first))
  BY <1>3, ReachableIsClosed DEF FlowInv
<1>6. /\ DOMAIN nodes' = DOMAIN nodes /\ nodes' \in [DOMAIN nodes -> Definitions]
      /\ \A id \in DOMAIN nodes :
           /\ nodes'[id].kind = "undefined" <=> nodes[id].kind = "undefined"
           /\ nodes[id].kind = "undefined" => nodes'[id] = nodes[id]
           /\ nodes'[id].kind = "task" => ~(Len(outgoing[id]) > 1)
  BY <1>1 DEF InferDecisionNodes, FlowInv, ChartInv, Definitions
<1>7. \A id \in DOMAIN nodes : Len(outgoing[id]) \in Nat
  BY DEF FlowInv, ChartInv
<1>8. ChartInv'
  <2>1. \A id \in DOMAIN nodes : \A i \in DOMAIN outgoing[id] :
          outgoing[id][i].dst \in DOMAIN nodes
    <3>1. ASSUME NEW id \in DOMAIN nodes, NEW i \in DOMAIN outgoing[id]
          PROVE  outgoing[id][i] \in FlowEdges(DOMAIN nodes)
      BY <3>1 DEF FlowInv, ChartInv
    <3>2. QED
      BY <3>1 DEF FlowEdges
  <2>2. QED
    BY <1>1, <1>6, <2>1 DEF FlowInv, ChartInv
<1>9. \A id \in DOMAIN nodes' : nodes'[id].kind = "task" => Len(outgoing'[id]) <= 1
  BY <1>1, <1>6, <1>7
<1>10. nodes'[flowNode'].kind # "undefined"
  BY <1>3, <1>6
<1>11. PICK ids : ids = Reachable(first)
  OBVIOUS
<1>12. ids \in SUBSET DOMAIN nodes' /\ RunsAmong(ids)'
  BY <1>1, <1>3, <1>4, <1>5, <1>6, <1>11 DEF RunsAmong, LeadsNowhereElse
<1>13. QED
  BY <1>8, <1>9, <1>10, <1>12 DEF RunInv

\* Ralph mode makes a flow that can be run.
LEMMA RalphRuns ==
    ASSUME FlowInv, NEW n \in 1..MaxRalph, RalphLoop(n)
    PROVE  ChartInv' /\ RunInv'
<1> DEFINE ids == RalphIds \cup {"begin", "end"}
<1>1. ids = {"R1", "R2", "begin", "end"}
  BY DEF RalphIds
<1>2. /\ nodes' = [id \in ids |-> RalphNode(CASE id = "R1" -> "task" [] id = "R2" -> "decision"
                                              [] OTHER -> id)]
      /\ flowNode' = "begin"
  BY DEF RalphLoop
<1>3. /\ DOMAIN outgoing' = ids
      /\ outgoing'["begin"] = RalphEdge("R1", "none") /\ outgoing'["R1"] = RalphEdge("R2", "none")
      /\ outgoing'["R2"] = RalphEdge("R2", "a") \o RalphEdge("end", "b")
      /\ outgoing'["end"] = <<>>
      /\ outgoing' = [id \in ids |-> outgoing'[id]]
  BY <1>1 DEF RalphLoop
<1>4. /\ nodes' \in [ids -> Definitions] /\ DOMAIN nodes' = ids
      /\ nodes'["begin"].kind = "begin" /\ nodes'["R1"].kind = "task"
      /\ nodes'["R2"].kind = "decision" /\ nodes'["end"].kind = "end"
  BY <1>1, <1>2 DEF RalphNode, Definitions, FlowLabels
<1> HIDE DEF ids
<1>5. ASSUME NEW dst \in ids, NEW label \in {"none", "a", "b"}
      PROVE  /\ RalphEdge(dst, label) \in Seq(FlowEdges(ids))
             /\ Len(RalphEdge(dst, label)) = 1
             /\ RalphEdge(dst, label)[1] = [dst |-> dst, label |-> label]
  BY DEF RalphEdge, FlowEdges
<1>6. /\ outgoing'["R2"] \in Seq(FlowEdges(ids)) /\ Len(outgoing'["R2"]) = 2
      /\ outgoing'["R2"][1] = [dst |-> "R2", label |-> "a"]
      /\ outgoing'["R2"][2] = [dst |-> "end", label |-> "b"]
  <2>1. /\ RalphEdge("R2", "a") \in Seq(FlowEdges(ids)) /\ Len(RalphEdge("R2", "a")) = 1
        /\ RalphEdge("R2", "a")[1] = [dst |-> "R2", label |-> "a"]
    BY <1>1, <1>5
  <2>2. /\ RalphEdge("end", "b") \in Seq(FlowEdges(ids)) /\ Len(RalphEdge("end", "b")) = 1
        /\ RalphEdge("end", "b")[1] = [dst |-> "end", label |-> "b"]
    BY <1>1, <1>5
  <2> HIDE DEF RalphEdge
  <2>3. QED
    BY <1>3, <2>1, <2>2
<1>7. /\ outgoing'["begin"] \in Seq(FlowEdges(ids)) /\ outgoing'["R1"] \in Seq(FlowEdges(ids))
      /\ Len(outgoing'["begin"]) = 1 /\ Len(outgoing'["R1"]) = 1
      /\ outgoing'["begin"][1].dst = "R1" /\ outgoing'["R1"][1].dst = "R2"
  BY <1>1, <1>3, <1>5
<1>8. outgoing'["end"] \in Seq(FlowEdges(ids)) /\ Len(outgoing'["end"]) = 0
  <2>1. <<>> \in Seq(FlowEdges(ids)) /\ Len(<<>>) = 0
    OBVIOUS
  <2>2. QED
    BY <1>3, <2>1
<1>9. outgoing' \in [ids -> Seq(FlowEdges(ids))]
  BY <1>1, <1>3, <1>6, <1>7, <1>8
<1>10. ASSUME NEW id \in ids, NEW i \in DOMAIN outgoing'[id]
       PROVE  outgoing'[id][i].dst \in {"R1", "R2", "end"}
  <2>1. i \in 1 .. Len(outgoing'[id])
    BY <1>9, <1>10
  <2>2. Len(outgoing'[id]) = 2 => i \in {1, 2}
    BY <2>1
  <2>3. Len(outgoing'[id]) = 1 => i = 1
    BY <2>1
  <2>4. ~(Len(outgoing'[id]) = 0)
    BY <2>1
  <2>5. QED
    BY <1>1, <1>6, <1>7, <1>8, <2>2, <2>3, <2>4
<1>11. LabelsTellApart(outgoing'["R2"])
  <2>1. DOMAIN outgoing'["R2"] = {1, 2}
    BY <1>6
  <2>2. Trimmed("a") = "a" /\ Trimmed("b") = "b"
    BY DEF Trimmed
  <2>3. outgoing'["R2"][1].label = "a" /\ outgoing'["R2"][2].label = "b"
    BY <1>6
  <2> HIDE DEF Trimmed
  <2>4. /\ Trimmed(outgoing'["R2"][1].label) = "a" /\ Trimmed(outgoing'["R2"][2].label) = "b"
        /\ "a" # "b" /\ "a" # "" /\ "b" # ""
    BY <2>2, <2>3
  <2>5. QED
    BY <2>1, <2>4 DEF LabelsTellApart
<1>12. ChartInv'
  BY <1>1, <1>4, <1>9, <1>10 DEF ChartInv
<1>13. ids \in SUBSET DOMAIN nodes' /\ RunsAmong(ids)'
  BY <1>1, <1>2, <1>4, <1>6, <1>7, <1>8, <1>10, <1>11 DEF RunsAmong, LeadsNowhereElse
<1>14. QED
  BY <1>1, <1>2, <1>4, <1>6, <1>7, <1>8, <1>12, <1>13 DEF RunInv

\* The runner goes where an edge leads.
LEMMA RunGoesOn ==
    ASSUME ChartInv, RunInv, NEW i \in DOMAIN Edges, flowNode' = Edges[i].dst,
           UNCHANGED <<nodes, outgoing>>
    PROVE  ChartInv' /\ RunInv'
<1>1. PICK ids \in SUBSET DOMAIN nodes : RunsAmong(ids)
  BY DEF RunInv
<1>2. Edges[i].dst \in ids /\ nodes[Edges[i].dst].kind # "undefined"
  BY <1>1 DEF RunsAmong, LeadsNowhereElse, ChartInv, Edges
<1>3. RunsAmong(ids)'
  BY <1>1, <1>2 DEF RunsAmong, LeadsNowhereElse
<1>4. QED
  BY <1>2, <1>3 DEF RunInv, ChartInv

\* What leads on leads on by a first edge.
LEMMA HasFirstEdge ==
    ASSUME ChartInv, RunInv, Edges # <<>>
    PROVE  1 \in DOMAIN Edges
<1>1. flowNode \in DOMAIN nodes
  BY DEF RunInv, RunsAmong
<1>2. Edges \in Seq(FlowEdges(DOMAIN nodes))
  BY <1>1 DEF ChartInv, Edges
<1>3. QED
  BY <1>2

\* A chart is one whatever is read, and a run is one whatever it does.
LEMMA FlowInvNext ==
    ASSUME FlowInv, [FlowNext]_flowVars
    PROVE  FlowInv'
<1> USE FlowAssumption
<1>1. ASSUME NEW id \in NodeIds, NEW label \in NodeLabels, NEW explicit \in BOOLEAN,
             NodeStatement(id, label, explicit)
      PROVE  FlowInv'
  <2>1. /\ DOMAIN nodes = NodeIds /\ Defines(nodes) /\ label \in FlowLabels
        /\ flowState = "parsing" /\ flowState' \in {"parsing", "refused"} /\ outgoing' = outgoing
    BY <1>1 DEF NodeStatement, ReadStatement, FlowInv, ChartInv, Defines, FlowLabels
  <2>2. nodes' = nodes \/ nodes' = AddNode(nodes, id, label, explicit)
    BY <1>1 DEF NodeStatement
  <2>3. /\ Defines(nodes')
        /\ \A k \in NodeIds : nodes[k].kind # "undefined" => nodes'[k].kind # "undefined"
    BY <2>1, <2>2, AddsANode
  <2>4. ASSUME NEW k \in NodeIds, NEW i \in DOMAIN outgoing[k]
        PROVE  nodes'[outgoing[k][i].dst].kind # "undefined"
    <3>1. outgoing[k][i] \in FlowEdges(NodeIds)
      BY <2>1, <2>4 DEF FlowInv, ChartInv
    <3>2. outgoing[k][i].dst \in NodeIds
      BY <3>1 DEF FlowEdges
    <3>3. QED
      BY <2>1, <2>3, <2>4, <3>2 DEF FlowInv, ChartInv
  <2>5. ChartInv' /\ DOMAIN nodes' = NodeIds
    BY <2>1, <2>3, <2>4 DEF FlowInv, ChartInv, Defines
  <2>6. MovesInv'
    BY <1>1, <2>1 DEF NodeStatement, ReadStatement, FlowInv, MovesInv
  <2>7. QED
    BY <2>1, <2>5, <2>6 DEF FlowInv
<1>2. ASSUME NEW src \in NodeIds, NEW dst \in NodeIds, NEW label \in EdgeLabels,
             EdgeStatement(src, dst, label)
      PROVE  FlowInv'
  <2>1. ChartInv'
    BY <1>2, EdgeKeepsChart
  <2>2. flowState = "parsing" /\ flowState' = "parsing" /\ DOMAIN nodes' = NodeIds
    BY <1>2 DEF EdgeStatement, ReadStatement, AddNode, FlowInv
  <2>3. MovesInv'
    BY <1>2, <2>2 DEF EdgeStatement, ReadStatement, FlowInv, MovesInv
  <2>4. QED
    BY <2>1, <2>2, <2>3 DEF FlowInv
<1>3. ASSUME UnreadStatement PROVE FlowInv'
  BY <1>3 DEF UnreadStatement, ReadStatement, FlowInv, ChartInv, MovesInv
<1>4. ASSUME ParseEnds PROVE FlowInv'
  <2>1. MovesInv' /\ flowState' \in {"running", "refused"}
    BY <1>4 DEF ParseEnds, FlowInv, MovesInv
  <2>2. CASE ValidFlow
    BY <1>4, <2>1, <2>2, ValidChartRuns DEF FlowInv
  <2>3. CASE ~ValidFlow
    BY <1>4, <2>1, <2>3 DEF ParseEnds, FlowInv, ChartInv
  <2>4. QED
    BY <2>2, <2>3
<1>5. ASSUME NEW n \in 1..MaxRalph, RalphLoop(n) PROVE FlowInv'
  <2>1. MovesInv' /\ flowState' = "running"
    BY <1>5 DEF RalphLoop, FlowInv, MovesInv
  <2>2. QED
    BY <1>5, <2>1, RalphRuns DEF FlowInv
<1>6. ASSUME FlowEnds PROVE FlowInv'
  <2>1. /\ flowState = "running" /\ flowState' \in {"ended", "failed"}
        /\ UNCHANGED <<nodes, outgoing, flowNode, moves, maxMoves, turns, badReplies>>
    BY <1>6 DEF FlowEnds
  <2>2. MovesInv'
    BY <2>1 DEF FlowInv, MovesInv
  <2>3. ChartInv' /\ RunInv'
    BY <2>1 DEF FlowInv, ChartInv, RunInv, RunsAmong, LeadsNowhereElse
  <2>4. QED
    BY <2>1, <2>2, <2>3 DEF FlowInv
<1>7. ASSUME LeaveBegin PROVE FlowInv'
  <2>1. /\ flowState = "running" /\ flowState' \in {"running", "stuck"} /\ Edges # <<>>
        /\ flowNode' = Edges[1].dst
        /\ UNCHANGED <<nodes, outgoing, moves, maxMoves, turns, badReplies>>
    BY <1>7 DEF LeaveBegin, AtNode
  <2>2. MovesInv'
    BY <2>1 DEF FlowInv, MovesInv
  <2>3. ChartInv' /\ RunInv'
    BY <2>1, HasFirstEdge, RunGoesOn DEF FlowInv
  <2>4. QED
    BY <2>1, <2>2, <2>3 DEF FlowInv
<1>8. ASSUME TurnFails PROVE FlowInv'
  <2>1. /\ flowState = "running" /\ flowState' \in {"failed", "rejected"}
        /\ moves < maxMoves /\ turns' = turns + 1
        /\ UNCHANGED <<nodes, outgoing, flowNode, moves, maxMoves, badReplies>>
    BY <1>8 DEF TurnFails, TurnOfFlow, AtNode
  <2>2. MovesInv'
    BY <2>1 DEF FlowInv, MovesInv
  <2>3. ChartInv' /\ RunInv'
    BY <2>1 DEF FlowInv, ChartInv, RunInv, RunsAmong, LeadsNowhereElse
  <2>4. QED
    BY <2>1, <2>2, <2>3 DEF FlowInv
<1>9. ASSUME TaskDone PROVE FlowInv'
  <2>1. /\ flowState = "running" /\ flowState' = "running" /\ Edges # <<>>
        /\ flowNode' = Edges[1].dst /\ moves < maxMoves
        /\ moves' = moves + 1 /\ turns' = turns + 1
        /\ UNCHANGED <<nodes, outgoing, maxMoves, badReplies>>
    BY <1>9 DEF TaskDone, TurnOfFlow, AtNode, FlowMoves
  <2>2. MovesInv'
    BY <2>1 DEF FlowInv, MovesInv
  <2>3. ChartInv' /\ RunInv'
    BY <2>1, HasFirstEdge, RunGoesOn DEF FlowInv
  <2>4. QED
    BY <2>1, <2>2, <2>3 DEF FlowInv
<1>10. ASSUME NEW choice \in Replies, Decide(choice) PROVE FlowInv'
  <2>1. /\ flowState = "running" /\ flowState' = "running" /\ moves < maxMoves
        /\ turns' = turns + 1 /\ UNCHANGED <<nodes, outgoing, maxMoves>>
    BY <1>10 DEF Decide, TurnOfFlow, AtNode
  <2>2. CASE badReplies' = badReplies + 1 /\ UNCHANGED <<flowNode, moves>>
    <3>1. MovesInv'
      BY <2>1, <2>2 DEF FlowInv, MovesInv
    <3>2. ChartInv' /\ RunInv'
      BY <2>1, <2>2 DEF FlowInv, ChartInv, RunInv, RunsAmong, LeadsNowhereElse
    <3>3. QED
      BY <2>1, <3>1, <3>2 DEF FlowInv
  <2>3. ASSUME NEW i \in DOMAIN Edges, FlowMoves(i), badReplies' = badReplies
        PROVE  FlowInv'
    <3>1. MovesInv'
      BY <2>1, <2>3 DEF FlowInv, MovesInv, FlowMoves
    <3>2. ChartInv' /\ RunInv'
      BY <2>1, <2>3, RunGoesOn DEF FlowInv, FlowMoves
    <3>3. QED
      BY <2>1, <3>1, <3>2 DEF FlowInv
  <2>4. QED
    BY <1>10, <2>2, <2>3 DEF Decide
<1>11. CASE UNCHANGED flowVars
  BY <1>11 DEF flowVars, FlowInv, ChartInv, RunInv, RunsAmong, LeadsNowhereElse, MovesInv
<1>12. QED
  BY <1>1, <1>2, <1>3, <1>4, <1>5, <1>6, <1>7, <1>8, <1>9, <1>10, <1>11 DEF FlowNext

\* Every chart and every run is one.
LEMMA FlowInvAlways == FlowSpec => []FlowInv
<1>1. FlowInit => FlowInv
  <2> SUFFICES ASSUME FlowInit PROVE FlowInv
    OBVIOUS
  <2>1. <<>> \in Seq(FlowEdges(NodeIds))
    OBVIOUS
  <2>2. Undefined \in Definitions /\ Undefined.kind = "undefined"
    BY DEF Undefined, Definitions, FlowLabels
  <2>3. ChartInv
    BY <2>1, <2>2 DEF FlowInit, ChartInv
  <2>4. MovesInv
    BY FlowAssumption DEF FlowInit, MovesInv
  <2>5. QED
    BY <2>3, <2>4 DEF FlowInit, FlowInv
<1>2. FlowInv /\ [FlowNext]_flowVars => FlowInv'
  BY FlowInvNext
<1>3. QED
  BY <1>1, <1>2, PTL DEF FlowSpec

\* kimisoul.rs:1252-1399: wherever a run comes, the node is known, a task leads one way,
\* an answer tells which way a decision leads, and a run of the moves it was given is no
\* longer than they and the answers without a valid choice.
THEOREM FlowCorrect == FlowSpec => []FlowIsSound
<1>1. FlowInv => FlowIsSound
  <2> SUFFICES ASSUME FlowInv, flowState \in {"running", "ended", "failed"}
               PROVE  FlowIsSound
    BY DEF FlowIsSound
  <2>1. RunInv
    BY DEF FlowInv
  <2>2. PICK ids \in SUBSET DOMAIN nodes : RunsAmong(ids)
    BY <2>1 DEF RunInv
  <2>3. flowNode \in DOMAIN nodes /\ (Len(Edges) > 1 => LabelsTellApart(Edges))
    BY <2>2 DEF RunsAmong, Edges
  <2>4. Edges \in Seq(FlowEdges(DOMAIN nodes))
    BY <2>3 DEF FlowInv, ChartInv, Edges
  <2>5. ASSUME NEW i \in DOMAIN Edges, NEW j \in DOMAIN Edges, Edges[i].label = Edges[j].label
        PROVE  i = j
    <3>1. CASE Len(Edges) > 1
      BY <2>3, <2>5, <3>1 DEF LabelsTellApart
    <3>2. CASE ~(Len(Edges) > 1)
      BY <2>4, <2>5, <3>2
    <3>3. QED
      BY <3>1, <3>2
  <2>6. turns <= maxMoves + badReplies
    BY DEF FlowInv, MovesInv
  <2>7. QED
    BY <2>1, <2>3, <2>5, <2>6 DEF FlowIsSound, RunInv, Edges
<1>2. QED
  BY <1>1, FlowInvAlways, PTL

---------------------------------------------------------------------------------
(* How a tool gets its approval: types, consent, and the whereabouts of a request. *)

(* A piping task past its fetch holds a request, one that relays has the answer, and
   a step to come has none yet. *)
Hands ==
    \A p \in Steps :
        /\ pipe[p] \in {"check", "look", "looked", "asleep", "relay"} <=> held[p] # NoAsk
        /\ pipe[p] = "relay" => reply[held[p]] # "none"
        /\ p > step => pipe[p] = "none"

TypeInv == TypeOK /\ Hands

LEMMA LineType ==
  ASSUME line \in Seq(Steps), NEW i \in 1..Len(line)
  PROVE  SubSeq(line, 1, i - 1) \o SubSeq(line, i + 1, Len(line)) \in Seq(Steps)
<1>1. \A j \in 1..Len(line) : line[j] \in Steps
  OBVIOUS
<1>2. SubSeq(line, 1, i - 1) \in Seq(Steps)
  BY <1>1, SubSeqProperties
<1>3. SubSeq(line, i + 1, Len(line)) \in Seq(Steps)
  BY <1>1, SubSeqProperties
<1>4. QED
  BY <1>2, <1>3, ConcatProperties

LEMMA LoopType == ASSUME TypeInv, Loop PROVE TypeInv'
<1> USE DEF TypeInv, TypeOK, Hands, brokerVars, loopVars, toolVars, pipeVars, wireVars
<1>1. CASE ToggleYolo
  BY <1>1 DEF ToggleYolo
<1>2. CASE BeginStep
  <2>1. step + 1 \in Steps /\ step' \in 0..MaxSteps
    BY <1>2, ApprovalAssumption DEF BeginStep, Steps
  <2>2. line' \in Seq(Steps)
    BY <1>2, <2>1 DEF BeginStep
  <2>3. Hands'
    BY <1>2, <2>1, ApprovalAssumption DEF BeginStep, Steps
  <2>4. QED
    BY <1>2, <2>1, <2>2, <2>3 DEF BeginStep
<1>3. CASE EndStep
  <2>1. line' \in Seq(Steps)
    BY <1>3, LineType DEF EndStep
  <2>2. QED
    BY <1>3, <2>1 DEF EndStep
<1>4. CASE EndTurn
  <2>1. closed' \in 0..MaxSteps
    BY <1>4 DEF EndTurn
  <2>2. QED
    BY <1>4, <2>1 DEF EndTurn
<1>5. CASE CancelTurn
  <2>1. closed' \in 0..MaxSteps /\ running' \in BOOLEAN
    BY <1>5 DEF CancelTurn
  <2>2. QED
    BY <1>5, <2>1 DEF CancelTurn
<1>6. QED
  BY <1>1, <1>2, <1>3, <1>4, <1>5 DEF Loop

LEMMA ToolStep == ASSUME TypeInv, NEW a \in Asks, Tool(a) PROVE TypeInv'
<1> USE DEF TypeInv, TypeOK, Hands, brokerVars, loopVars, toolVars, pipeVars, wireVars
<1>1. CASE CallTool(a)
  BY <1>1 DEF CallTool
<1>2. CASE Ask(a)
  BY <1>2 DEF Ask
<1>3. CASE Put(a)
  BY <1>3 DEF Put
<1>4. CASE List(a)
  BY <1>4 DEF List
<1>s. CASE LookAgain(a)
  BY <1>s DEF LookAgain
<1>w. CASE Sleep(a)
  BY <1>w DEF Sleep
<1>5. CASE Finish(a)
  <2>1. auto' \in SUBSET Actions
    BY <1>5 DEF Finish
  <2>2. QED
    BY <1>5, <2>1 DEF Finish
<1>6. QED
  BY <1>1, <1>2, <1>3, <1>4, <1>s, <1>w, <1>5 DEF Tool

LEMMA RefetchType ==
  ASSUME TypeInv, NEW p \in Steps, pipe[p] \in {"check", "relay"}, Refetch(p),
         UNCHANGED <<loopVars, wireVars>>
  PROVE  /\ pipe' \in [Steps -> {"none", "fetch", "check", "look", "looked", "asleep",
                                 "relay", "stopped"}]
         /\ held' \in [Steps -> Asks \cup {NoAsk}]
         /\ line' \in Seq(Steps)
         /\ Hands'
<1>1. /\ pipe' \in [Steps -> {"none", "fetch", "check", "look", "looked", "asleep",
                              "relay", "stopped"}]
      /\ held' \in [Steps -> Asks \cup {NoAsk}]
      /\ line' \in Seq(Steps)
  BY DEF TypeInv, TypeOK, Refetch
<1>2. Hands'
  BY DEF TypeInv, TypeOK, Hands, Refetch, wireVars, loopVars
<1>3. QED
  BY <1>1, <1>2

LEMMA SettleType ==
  ASSUME TypeOK, NEW a \in Asks, NEW v \in Answers, Settle(a, v)
  PROVE  /\ requests' \in SUBSET Asks /\ skipped' \in SUBSET Asks
         /\ verdict' \in [Asks -> Answers \cup {"none"}]
         /\ tool' \in [Asks -> {"none", "working", "asking", "queued", "look", "looked",
                                "asleep", "approved", "rejected"}]
  BY DEF TypeOK, Settle

LEMMA PipeStep == ASSUME TypeInv, NEW p \in Steps, Pipe(p) PROVE TypeInv'
<1> USE DEF brokerVars, loopVars, toolVars, pipeVars, wireVars
<1>t. TypeOK /\ Hands
  BY DEF TypeInv
<1>1. CASE Fetch(p)
  <2>1. Head(queue) \in Asks /\ Tail(queue) \in Seq(Asks) /\ Tail(line) \in Seq(Steps)
    BY <1>1, <1>t DEF Fetch, TypeOK
  <2>2. TypeOK'
    BY <1>1, <1>t, <2>1 DEF Fetch, TypeOK
  <2>3. Head(queue) # NoAsk
    BY <2>1, ApprovalAssumption
  <2>4. Hands'
    BY <1>1, <1>t, <2>3 DEF Fetch, TypeOK, Hands
  <2>5. QED
    BY <2>2, <2>4 DEF TypeInv
<1>2. CASE AutoApprove(p)
  <2>1. held[p] \in Asks
    BY <1>2, <1>t DEF AutoApprove, TypeOK, Hands
  <2>2. /\ requests' \in SUBSET Asks /\ skipped' \in SUBSET Asks
        /\ verdict' \in [Asks -> Answers \cup {"none"}]
        /\ tool' \in [Asks -> {"none", "working", "asking", "queued", "look", "looked",
                               "asleep", "approved", "rejected"}]
    BY <1>2, <1>t, <2>1, SettleType DEF AutoApprove, Answers
  <2>3. QED
    BY <1>2, <1>t, <2>2, RefetchType DEF AutoApprove, TypeInv, TypeOK
<1>3. CASE Show(p)
  <2>1. held[p] \in Asks
    BY <1>3, <1>t DEF Show, TypeOK, Hands
  <2>2. TypeOK'
    BY <1>3, <1>t, <2>1 DEF Show, TypeOK
  <2>3. Hands'
    BY <1>3, <1>t DEF Show, TypeOK, Hands
  <2>4. QED
    BY <2>2, <2>3 DEF TypeInv
<1>w. CASE LookForReply(p) \/ SleepOnReply(p)
  <2>1. TypeOK'
    BY <1>w, <1>t DEF LookForReply, SleepOnReply, TypeOK
  <2>2. Hands'
    BY <1>w, <1>t DEF LookForReply, SleepOnReply, TypeOK, Hands
  <2>3. QED
    BY <2>1, <2>2 DEF TypeInv
<1>4. CASE Relay(p)
  <2>1. held[p] \in Asks /\ reply[held[p]] \in Answers
    BY <1>4, <1>t DEF Relay, TypeOK, Hands
  <2>2. /\ requests' \in SUBSET Asks /\ skipped' \in SUBSET Asks
        /\ verdict' \in [Asks -> Answers \cup {"none"}]
        /\ tool' \in [Asks -> {"none", "working", "asking", "queued", "look", "looked",
                               "asleep", "approved", "rejected"}]
    BY <1>4, <1>t, <2>1, SettleType DEF Relay
  <2>3. auto' \in SUBSET Actions
    BY <1>4, <1>t, <2>1 DEF Relay, TypeOK
  <2>4. QED
    BY <1>4, <1>t, <2>2, <2>3, RefetchType DEF Relay, TypeInv, TypeOK
<1>5. QED
  BY <1>1, <1>2, <1>3, <1>w, <1>4 DEF Pipe

LEMMA AnswerStep == ASSUME TypeInv, NEW a \in Asks, Answer(a) PROVE TypeInv'
<1> USE DEF TypeInv, TypeOK, Hands, brokerVars, loopVars, toolVars, pipeVars, wireVars
<1>1. PICK v \in Answers : reply' = [reply EXCEPT ![a] = v]
  BY DEF Answer
<1>2. TypeOK'
  BY <1>1 DEF Answer
<1>3. Hands'
  BY <1>1, <1>2, ApprovalAssumption DEF Answer, Answers
<1>4. QED
  BY <1>2, <1>3

LEMMA TypeInit == Init => TypeInv
<1> SUFFICES ASSUME Init PROVE TypeInv
  OBVIOUS
<1>1. <<>> \in Seq(Asks) /\ <<>> \in Seq(Steps)
  OBVIOUS
<1>2. TypeOK
  <2>1. yolo \in BOOLEAN /\ running \in BOOLEAN
    BY DEF Init
  <2>2. /\ queue \in Seq(Asks) /\ line \in Seq(Steps)
        /\ step \in 0..MaxSteps /\ closed \in 0..MaxSteps
        /\ by \in [Asks -> 0..MaxSteps]
    BY <1>1, ApprovalAssumption DEF Init
  <2>3. QED
    BY <2>1, <2>2 DEF Init, TypeOK
<1>3. Hands
  BY DEF Init, Hands
<1>4. QED
  BY <1>2, <1>3 DEF TypeInv

LEMMA TypeStep == TypeInv /\ [Next]_vars => TypeInv'
<1>1. CASE UNCHANGED vars
  BY <1>1 DEF TypeInv, TypeOK, Hands, vars, brokerVars, loopVars, toolVars, pipeVars,
              wireVars
<1>2. QED
  BY <1>1, LoopType, ToolStep, PipeStep, AnswerStep DEF Next

(* Every variable stays in its type. *)
THEOREM TypeCorrect == Spec => []TypeOK
<1>1. Spec => []TypeInv
  BY TypeInit, TypeStep, PTL DEF Spec
<1>2. TypeInv => TypeOK
  BY DEF TypeInv
<1>3. QED
  BY <1>1, <1>2, PTL

---------------------------------------------------------------------------------
(* Consent.  What is approved for the session, and what each verdict says, goes back
   to an answer; answers and the actions asked for never change.                   *)

ConsentInv ==
    /\ \A x \in auto : Consented(x)
    /\ \A a \in Asks : verdict[a] = "Approve" => reply[a] = "Approve" \/ Consented(act[a])
    /\ \A a \in Asks : verdict[a] = "ApproveForSession" => Consented(act[a])
    /\ NoRunWithoutConsent

LEMMA ConsentKept ==
  ASSUME UNCHANGED act, \A b \in Asks : reply[b] # "none" => reply'[b] = reply[b],
         NEW x, Consented(x)
  PROVE  Consented(x)'
  BY DEF Consented

LEMMA ConsentSame ==
  ASSUME ConsentInv, UNCHANGED <<auto, verdict, act, reply, waved>>,
         \A a \in Asks : tool'[a] = "approved" => tool[a] = "approved"
  PROVE  ConsentInv'
  BY DEF ConsentInv, NoRunWithoutConsent, Consented

LEMMA ConsentLoop == ASSUME TypeInv, ConsentInv, Loop PROVE ConsentInv'
  BY ConsentSame DEF Loop, ToggleYolo, BeginStep, EndStep, EndTurn, CancelTurn, brokerVars,
                     loopVars, toolVars, pipeVars, wireVars

LEMMA ConsentTool == ASSUME TypeInv, ConsentInv, NEW a \in Asks, Tool(a) PROVE ConsentInv'
<1> USE DEF brokerVars, loopVars, toolVars, pipeVars, wireVars
<1>t. tool \in [Asks -> {"none", "working", "asking", "queued", "look", "looked",
                        "asleep", "approved", "rejected"}]
  BY DEF TypeInv, TypeOK
<1>1. CASE CallTool(a) \/ Put(a) \/ List(a) \/ LookAgain(a) \/ Sleep(a)
  <2>1. \A b \in Asks : tool'[b] = "approved" => tool[b] = "approved"
    BY <1>1, <1>t DEF CallTool, Put, List, LookAgain, Sleep
  <2>2. QED
    BY <1>1, <2>1, ConsentSame DEF CallTool, Put, List, LookAgain, Sleep
<1>2. CASE Ask(a)
  <2>1. UNCHANGED <<auto, verdict, act, reply>> /\ waved \subseteq waved'
    BY <1>2 DEF Ask
  <2>2. \A b \in Asks : tool'[b] = "approved" =>
            tool[b] = "approved" \/ b \in waved' \/ act[b] \in auto
    BY <1>2, <1>t DEF Ask
  <2>3. QED
    BY <2>1, <2>2 DEF ConsentInv, NoRunWithoutConsent, Consented
<1>3. CASE Finish(a)
  <2>1. UNCHANGED <<verdict, act, reply, waved>>
    BY <1>3 DEF Finish
  <2>2. \A x \in auto' : Consented(x)
    BY <1>3 DEF Finish, ConsentInv
  <2>3. verdict[a] \in {"Approve", "ApproveForSession", "Reject"}
    BY <1>3 DEF Finish, TypeInv, TypeOK, Answers
  <2>4. \A b \in Asks : tool'[b] = "approved" =>
            tool[b] = "approved" \/ reply[b] = "Approve" \/ Consented(act[b])
    BY <1>3, <1>t, <2>3 DEF Finish, ConsentInv
  <2>5. QED
    BY <2>1, <2>2, <2>4 DEF ConsentInv, NoRunWithoutConsent, Consented
<1>4. QED
  BY <1>1, <1>2, <1>3 DEF Tool

LEMMA ConsentPipe == ASSUME TypeInv, ConsentInv, NEW p \in Steps, Pipe(p) PROVE ConsentInv'
<1> USE DEF brokerVars, loopVars, toolVars, pipeVars, wireVars
<1>t. /\ tool \in [Asks -> {"none", "working", "asking", "queued", "look", "looked",
                           "asleep", "approved", "rejected"}]
      /\ verdict \in [Asks -> Answers \cup {"none"}]
  BY DEF TypeInv, TypeOK
<1>1. CASE Fetch(p) \/ Show(p) \/ LookForReply(p) \/ SleepOnReply(p)
  BY <1>1, ConsentSame DEF Fetch, Show, LookForReply, SleepOnReply
<1>s. ASSUME NEW a \in Asks, NEW v \in Answers, Settle(a, v)
      PROVE  /\ \A b \in Asks : tool'[b] = "approved" => tool[b] = "approved"
             /\ \A b \in Asks : verdict'[b] = verdict[b] \/ (b = a /\ verdict'[b] = v)
  BY <1>s, <1>t DEF Settle
<1>2. CASE AutoApprove(p)
  <2>1. held[p] \in Asks
    BY <1>2 DEF AutoApprove, TypeInv, TypeOK, Hands
  <2>2. UNCHANGED <<auto, act, reply, waved>> /\ act[held[p]] \in auto
    BY <1>2 DEF AutoApprove
  <2>3. /\ \A b \in Asks : tool'[b] = "approved" => tool[b] = "approved"
        /\ \A b \in Asks : verdict'[b] = verdict[b]
                             \/ (b = held[p] /\ verdict'[b] = "Approve")
    BY <1>2, <1>s, <2>1 DEF AutoApprove, Answers
  <2>4. QED
    BY <2>2, <2>3 DEF ConsentInv, NoRunWithoutConsent, Consented
<1>3. CASE Relay(p)
  <2>1. held[p] \in Asks /\ reply[held[p]] \in Answers
    BY <1>3 DEF Relay, TypeInv, TypeOK, Hands
  <2>2. UNCHANGED <<act, reply, waved>>
    BY <1>3 DEF Relay
  <2>3. /\ \A b \in Asks : tool'[b] = "approved" => tool[b] = "approved"
        /\ \A b \in Asks : verdict'[b] = verdict[b]
                             \/ (b = held[p] /\ verdict'[b] = reply[held[p]])
    BY <1>3, <1>s, <2>1 DEF Relay
  <2>4. \A x \in auto' : Consented(x)
    BY <1>3, <2>1 DEF Relay, ConsentInv, Consented
  <2>5. QED
    BY <2>1, <2>2, <2>3, <2>4 DEF ConsentInv, NoRunWithoutConsent, Consented
<1>4. QED
  BY <1>1, <1>2, <1>3 DEF Pipe

LEMMA ConsentAnswer == ASSUME TypeInv, ConsentInv, NEW a \in Asks, Answer(a) PROVE ConsentInv'
<1>1. UNCHANGED <<auto, verdict, act, tool, waved>>
  BY DEF Answer, brokerVars, toolVars
<1>2. \A b \in Asks : reply[b] # "none" => reply'[b] = reply[b]
  BY DEF Answer, TypeInv, TypeOK
<1>3. \A x : Consented(x) => Consented(x)'
  BY <1>1, <1>2, ConsentKept
<1>4. QED
  BY <1>1, <1>2, <1>3 DEF ConsentInv, NoRunWithoutConsent

(* No tool runs without an answer that lets it. *)
THEOREM ConsentCorrect == Spec => []NoRunWithoutConsent
<1>1. Init => ConsentInv
  BY DEF Init, ConsentInv, NoRunWithoutConsent
<1>2. TypeInv /\ ConsentInv /\ [Next]_vars => ConsentInv'
  <2>1. CASE UNCHANGED vars
    BY <2>1, ConsentSame DEF vars, brokerVars, toolVars, wireVars
  <2>2. QED
    BY <2>1, ConsentLoop, ConsentTool, ConsentPipe, ConsentAnswer DEF Next
<1>3. ConsentInv => NoRunWithoutConsent
  BY DEF ConsentInv
<1>4. QED
  BY <1>1, <1>2, <1>3, TypeInit, TypeStep, PTL DEF Spec

---------------------------------------------------------------------------------
(* The whereabouts of a request.                                                  *)

Distinct == \A i, j \in DOMAIN queue : queue[i] = queue[j] => i = j

Apart ==
    /\ \A p, q \in Steps : held[p] = held[q] /\ held[p] # NoAsk => p = q
    /\ \A p \in Steps : ~Queued(held[p])

NotYet ==
    \A a \in Asks :
        tool[a] \in {"none", "working", "asking"} =>
            ~Queued(a) /\ \A p \in Steps : held[p] # a

Placed ==
    running =>
        \A a \in Asks :
            by[a] = step /\ Waiting(a) /\ a \notin skipped =>
                Queued(a) \/ \E p \in Steps : held[p] = a

NoneAhead == \A a \in Asks : by[a] <= step

PlaceInv == Distinct /\ Apart /\ NotYet /\ Placed /\ NoneAhead

LEMMA QueueGrows ==
  ASSUME queue \in Seq(Asks), NEW a \in Asks, queue' = Append(queue, a)
  PROVE  /\ \A b : Queued(b)' <=> Queued(b) \/ b = a
         /\ Distinct /\ ~Queued(a) => Distinct'
<1>1. /\ Len(queue') = Len(queue) + 1 /\ Len(queue) \in Nat
      /\ DOMAIN queue = 1..Len(queue) /\ DOMAIN queue' = 1..Len(queue')
      /\ \A i \in 1..Len(queue) : queue'[i] = queue[i]
      /\ queue'[Len(queue) + 1] = a
  OBVIOUS
<1>2. ASSUME NEW b PROVE Queued(b)' <=> Queued(b) \/ b = a
  BY <1>1 DEF Queued
<1>3. Distinct /\ ~Queued(a) => Distinct'
  BY <1>1 DEF Queued, Distinct
<1>4. QED
  BY <1>2, <1>3

LEMMA QueueShrinks ==
  ASSUME queue \in Seq(Asks), queue # <<>>, queue' = Tail(queue), Distinct
  PROVE  /\ \A b : Queued(b)' <=> Queued(b) /\ b # Head(queue)
         /\ Queued(Head(queue))
         /\ Distinct'
<1>1. /\ Len(queue) \in Nat \ {0} /\ Len(queue') = Len(queue) - 1
      /\ DOMAIN queue = 1..Len(queue) /\ DOMAIN queue' = 1..Len(queue')
      /\ \A i \in 1..Len(queue') : queue'[i] = queue[i + 1]
      /\ Head(queue) = queue[1]
  OBVIOUS
<1>2. ASSUME NEW b, Queued(b)' PROVE Queued(b) /\ b # Head(queue)
  <2>1. PICK i \in 1..Len(queue') : queue'[i] = b
    BY <1>1, <1>2 DEF Queued
  <2>2. i + 1 \in 1..Len(queue) /\ i + 1 # 1 /\ queue[i + 1] = b
    BY <1>1, <2>1
  <2>3. QED
    BY <1>1, <2>2 DEF Queued, Distinct
<1>3. ASSUME NEW b, Queued(b), b # Head(queue) PROVE Queued(b)'
  <2>1. PICK i \in 1..Len(queue) : queue[i] = b
    BY <1>1, <1>3 DEF Queued
  <2>2. i # 1 /\ i - 1 \in 1..Len(queue') /\ queue'[i - 1] = b
    BY <1>1, <1>3, <2>1
  <2>3. QED
    BY <1>1, <2>2 DEF Queued
<1>4. Queued(Head(queue))
  BY <1>1 DEF Queued
<1>5. Distinct'
  BY <1>1 DEF Distinct
<1>6. QED
  BY <1>2, <1>3, <1>4, <1>5

LEMMA QueueSame ==
  ASSUME UNCHANGED queue
  PROVE  (\A b : Queued(b)' <=> Queued(b)) /\ (Distinct => Distinct')
  BY DEF Queued, Distinct

LEMMA PlaceLoop == ASSUME TypeInv, PlaceInv, Loop PROVE PlaceInv'
<1> USE QueueSame DEF PlaceInv, Apart, NotYet, Placed, NoneAhead, Waiting, brokerVars,
        loopVars, toolVars, pipeVars, wireVars
<1>1. CASE ToggleYolo \/ EndTurn \/ CancelTurn
  BY <1>1 DEF ToggleYolo, EndTurn, CancelTurn
<1>2. CASE BeginStep
  <2>1. \A a \in Asks : by[a] \in Nat /\ by[a] <= step /\ step \in Nat
    BY ApprovalAssumption DEF TypeInv, TypeOK
  <2>2. QED
    BY <1>2, <2>1 DEF BeginStep
<1>3. CASE EndStep
  <2>1. \A p \in Steps : held'[p] = held[p] \/ held'[p] = NoAsk
    BY <1>3 DEF EndStep, TypeInv, TypeOK
  <2>2. ~Queued(NoAsk)
    BY ApprovalAssumption DEF TypeInv, TypeOK, Queued
  <2>3. QED
    BY <1>3, <2>1, <2>2, ApprovalAssumption DEF EndStep
<1>4. QED
  BY <1>1, <1>2, <1>3 DEF Loop

LEMMA PlaceTool == ASSUME TypeInv, PlaceInv, NEW a \in Asks, Tool(a) PROVE PlaceInv'
<1> USE DEF brokerVars, loopVars, toolVars, pipeVars, wireVars
<1>t. /\ tool \in [Asks -> {"none", "working", "asking", "queued", "look", "looked",
                           "asleep", "approved", "rejected"}]
      /\ queue \in Seq(Asks) /\ by \in [Asks -> 0..MaxSteps] /\ step \in 0..MaxSteps
      /\ held \in [Steps -> Asks \cup {NoAsk}]
  BY DEF TypeInv, TypeOK
<1>1. CASE CallTool(a)
  BY <1>1, <1>t, QueueSame, ApprovalAssumption
     DEF CallTool, PlaceInv, Apart, NotYet, Placed, NoneAhead, Waiting
<1>2. CASE Ask(a) \/ List(a) \/ LookAgain(a) \/ Sleep(a) \/ Finish(a)
  <2>1. UNCHANGED <<queue, held, by, step, running, verdict, skipped>>
    BY <1>2 DEF Ask, List, LookAgain, Sleep, Finish
  <2>2. \A b \in Asks :
          /\ tool'[b] \in {"none", "working", "asking"}
                => tool[b] \in {"none", "working", "asking"}
          /\ tool'[b] \in {"queued", "look", "looked", "asleep"}
                => tool[b] \in {"queued", "look", "looked", "asleep"}
    BY <1>2, <1>t DEF Ask, List, LookAgain, Sleep, Finish
  <2>3. QED
    BY <2>1, <2>2, QueueSame DEF PlaceInv, Apart, NotYet, Placed, NoneAhead, Waiting
<1>3. CASE Put(a)
  <2>1. /\ \A b : Queued(b)' <=> Queued(b) \/ b = a
        /\ Distinct'
    BY <1>3, <1>t, QueueGrows DEF Put, PlaceInv, NotYet
  <2>2. \A p \in Steps : held[p] # a
    BY <1>3 DEF Put, PlaceInv, NotYet
  <2>3. QED
    BY <1>3, <1>t, <2>1, <2>2 DEF Put, PlaceInv, Apart, NotYet, Placed, NoneAhead, Waiting
<1>4. QED
  BY <1>1, <1>2, <1>3 DEF Tool

LEMMA PlacePipe == ASSUME TypeInv, PlaceInv, NEW p \in Steps, Pipe(p) PROVE PlaceInv'
<1> USE DEF brokerVars, loopVars, toolVars, pipeVars, wireVars
<1>t. /\ tool \in [Asks -> {"none", "working", "asking", "queued", "look", "looked",
                           "asleep", "approved", "rejected"}]
      /\ queue \in Seq(Asks)
      /\ verdict \in [Asks -> Answers \cup {"none"}]
      /\ held \in [Steps -> Asks \cup {NoAsk}]
  BY DEF TypeInv, TypeOK
<1>n. ~Queued(NoAsk)
  BY <1>t, ApprovalAssumption DEF Queued
<1>1. CASE Fetch(p)
  <2>1. /\ \A b : Queued(b)' <=> Queued(b) /\ b # Head(queue)
        /\ Queued(Head(queue))
        /\ Distinct'
    BY <1>1, <1>t, QueueShrinks DEF Fetch, PlaceInv
  <2>2. held[p] = NoAsk
    BY <1>1 DEF Fetch, TypeInv, Hands
  <2>3. \A q \in Steps : held'[q] = IF q = p THEN Head(queue) ELSE held[q]
    BY <1>1, <1>t DEF Fetch
  <2>4. Apart'
    BY <1>n, <2>1, <2>2, <2>3 DEF PlaceInv, Apart
  <2>5. NotYet'
    BY <1>1, <2>1, <2>3 DEF Fetch, PlaceInv, NotYet
  <2>6. Placed' /\ NoneAhead'
    <3>1. UNCHANGED <<tool, by, step, running, verdict, skipped>>
      BY <1>1 DEF Fetch
    <3>2. ASSUME NEW a \in Asks, Queued(a) \/ \E q \in Steps : held[q] = a
          PROVE  Queued(a)' \/ \E q \in Steps : held'[q] = a
      BY <3>2, <2>1, <2>2, <2>3, ApprovalAssumption
    <3>3. QED
      BY <3>1, <3>2 DEF PlaceInv, Placed, NoneAhead, Waiting
  <2>7. QED
    BY <2>1, <2>4, <2>5, <2>6 DEF PlaceInv
<1>2. CASE Show(p) \/ LookForReply(p) \/ SleepOnReply(p)
  BY <1>2, QueueSame DEF Show, LookForReply, SleepOnReply, PlaceInv, Apart, NotYet, Placed,
     NoneAhead, Waiting
<1>3. CASE AutoApprove(p) \/ Relay(p)
  <2>1. PICK v \in Answers : Settle(held[p], v)
    BY <1>3 DEF AutoApprove, Relay, Answers, TypeInv, TypeOK, Hands
  <2>2. held[p] \in Asks
    BY <1>3 DEF AutoApprove, Relay, TypeInv, TypeOK, Hands
  <2>3. /\ UNCHANGED <<queue, by, step, running>>
        /\ \A q \in Steps : held'[q] = IF q = p THEN NoAsk ELSE held[q]
    BY <1>3, <1>t DEF AutoApprove, Relay, Refetch
  <2>4. \A b \in Asks :
          /\ tool'[b] \in {"none", "working", "asking"}
                => tool[b] \in {"none", "working", "asking"}
          /\ Waiting(b)' => Waiting(b)
          /\ skipped \subseteq skipped'
          /\ b = held[p] => ~Waiting(b)' \/ b \in skipped'
    BY <1>t, <2>1, <2>2 DEF Settle, Waiting, Answers
  <2>5. \A b : Queued(b)' <=> Queued(b)
    BY <2>3, QueueSame
  <2>6. Distinct' /\ Apart' /\ NotYet' /\ NoneAhead'
    BY <1>n, <2>3, <2>4, <2>5, QueueSame, ApprovalAssumption
       DEF PlaceInv, Apart, NotYet, NoneAhead
  <2>7. Placed'
    BY <2>3, <2>4, <2>5 DEF PlaceInv, Placed
  <2>8. QED
    BY <2>6, <2>7 DEF PlaceInv
<1>4. QED
  BY <1>1, <1>2, <1>3 DEF Pipe

(* A request is in one place, and while its step runs it is in some place until it
   is resolved, unless its answer came before the broker had listed it. *)
THEOREM PlaceCorrect == Spec => []RequestInOnePlace
<1>1. Init => PlaceInv
  BY ApprovalAssumption DEF Init, PlaceInv, Distinct, Apart, NotYet, Placed, NoneAhead, Queued, Waiting
<1>2. TypeInv /\ PlaceInv /\ [Next]_vars => PlaceInv'
  <2>1. CASE UNCHANGED vars
    BY <2>1, QueueSame DEF vars, brokerVars, loopVars, toolVars, pipeVars, PlaceInv, Apart,
       NotYet, Placed, NoneAhead, Waiting
  <2>2. ASSUME TypeInv, PlaceInv, NEW a \in Asks, Answer(a) PROVE PlaceInv'
    BY <2>2, QueueSame DEF Answer, brokerVars, loopVars, toolVars, PlaceInv, Apart, NotYet,
       Placed, NoneAhead, Waiting
  <2>3. QED
    BY <2>1, <2>2, PlaceLoop, PlaceTool, PlacePipe DEF Next
<1>3. PlaceInv => RequestInOnePlace
  BY DEF PlaceInv, Distinct, Apart, Placed, RequestInOnePlace
<1>4. QED
  BY <1>1, <1>2, <1>3, TypeInit, TypeStep, PTL DEF Spec
================================================================================
