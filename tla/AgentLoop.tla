------------------------------- MODULE AgentLoop -------------------------------
(***************************************************************************)
(* What a soul does to its context: the turns and steps of                 *)
(* server/dvadva-agent/src/soul/kimisoul.rs, with D-Mail                   *)
(* (soul/denwarenji.rs) and compaction (soul/compaction.rs).               *)
(*                                                                         *)
(* The agent has the D-Mail tool, so every checkpoint leaves a message.    *)
(* A call of that tool is a task of its own and outlives a turn that is    *)
(* cut short; so does the mail it left.                                    *)
(***************************************************************************)
EXTENDS ContextFile

CONSTANTS
    MaxTurns,   \* bound: turns, slash commands included
    MaxAsks,    \* bound: steps of all turns
    MaxTokens   \* the count that makes the context too long; no usage is larger

ASSUME LoopAssumption == MaxTurns \in Nat /\ MaxAsks \in Nat /\ MaxTokens \in Nat \ {0}

StepIds == 1..MaxAsks
NoMail == [to |-> 0, by |-> 0]

VARIABLES
    soul,       \* where the turn is
    turns,      \* turns begun
    steps,      \* steps begun, the last one's number
    said,       \* what the model answered: whether it called tools, the tokens it
                \* used, and whether the calls that were made belong to the answer
    calling,    \* the steps whose D-Mail call is under way
    mail,       \* DenwaRenji: the pending mail, with the step that sent it
    nCheckpoints,   \* DenwaRenji: the checkpoints it knows of
    back,       \* the checkpoint the turn is rewinding to
    spoilt      \* history: something of a conversation was lost with what cut it

turnVars == <<turns, steps, said, nCheckpoints, back, spoilt>>
mailVars == <<calling, mail>>
soulVars == <<contextVars, soul, turnVars, mailVars>>

Reply == [calls : BOOLEAN, total : 0..MaxTokens, waits : BOOLEAN]
Nothing == [calls |-> FALSE, total |-> 0, waits |-> FALSE]

LoopTypeOK ==
    /\ ContextTypeOK
    /\ soul \in {"idle", "slash", "begin", "counting", "model", "results", "verdict",
                 "rewound", "next"}
    /\ turns \in 0..MaxTurns /\ steps \in 0..MaxAsks
    /\ said \in Reply
    /\ calling \in SUBSET StepIds
    /\ mail \in [to : Nat, by : StepIds] \cup {NoMail}
    /\ nCheckpoints \in Nat /\ back \in Nat /\ spoilt \in BOOLEAN
    /\ soul = "idle" => plan = <<>>

LoopInit ==
    /\ ContextInit
    /\ soul = "idle" /\ turns = 0 /\ steps = 0 /\ said = Nothing
    /\ calling = {} /\ mail = NoMail /\ nCheckpoints = 0 /\ back = 0 /\ spoilt = FALSE

\* The soul goes on when the context has done what it was asked for, and asks for more.
GoesOn(from, to, ops) ==
    /\ soul = from /\ plan = <<>>
    /\ soul' = to /\ plan' = ops
    /\ UNCHANGED <<memoryVars, diskVars, at, due, source, torn>>

---------------------------------------------------------------------------------
(* Compaction keeps the last two messages of the user or the model and what follows,
   and puts a summary in the place of what was before, if there was anything. *)
Counted(m) == m.role # "tools"

Kept(h) ==
    LET starts == {i \in DOMAIN h : Counted(h[i]) /\
                       \E j \in i + 1 .. Len(h) :
                           \A k \in i + 1 .. Len(h) : Counted(h[k]) <=> k = j}
    IN IF starts = {} THEN 1 ELSE CHOOSE i \in starts : TRUE

Compacted(h) ==
    IF Kept(h) = 1 THEN h
    ELSE <<Message("summary")>> \o SubSeq(h, Kept(h), Len(h))

Compaction == <<Do("clear", 0), Do("checkpoint", 0), Appends(Compacted(history))>>

---------------------------------------------------------------------------------
(* A turn. *)

BeginTurn ==
    /\ turns < MaxTurns
    /\ GoesOn("idle", "begin", <<Do("checkpoint", 0), Appends(<<Message("user")>>)>>)
    /\ turns' = turns + 1
    /\ UNCHANGED <<steps, said, nCheckpoints, back, spoilt, mailVars>>

\* /clear, and /compact of a context that is not empty.
SlashClear ==
    /\ turns < MaxTurns
    /\ GoesOn("idle", "slash", <<Do("clear", 0)>>)
    /\ turns' = turns + 1
    /\ UNCHANGED <<steps, said, nCheckpoints, back, spoilt, mailVars>>

SlashCompact ==
    /\ turns < MaxTurns /\ nextCheckpoint > 0
    /\ GoesOn("idle", "slash", Compaction)
    /\ turns' = turns + 1
    /\ UNCHANGED <<steps, said, nCheckpoints, back, spoilt, mailVars>>

SlashEnds ==
    /\ GoesOn("slash", "idle", <<>>)
    /\ UNCHANGED <<turnVars, mailVars>>

AskModel ==
    /\ steps < MaxAsks
    /\ \E from \in {"begin", "next"} :
         GoesOn(from, "counting",
                (IF tokenCount >= MaxTokens THEN Compaction ELSE <<>>)
                  \o <<Do("checkpoint", 0)>>)
    /\ steps' = steps + 1
    /\ UNCHANGED <<turns, said, nCheckpoints, back, spoilt, mailVars>>

CountCheckpoints ==
    /\ GoesOn("counting", "model", <<>>)
    /\ nCheckpoints' = nextCheckpoint
    /\ UNCHANGED <<turns, steps, said, back, spoilt, mailVars>>

\* A call starts while the answer streams in.  The answer may then fail and be asked
\* for again: the call goes on, and its result belongs to no answer.
CallMail ==
    /\ soul = "model"
    /\ calling' = calling \cup {steps}
    /\ UNCHANGED <<contextVars, soul, turnVars, mail>>

\* The usage is told, if the provider tells it.
ModelAnswers ==
    /\ \E a \in Reply, input \in 1..MaxTokens :
         /\ a.waits => a.calls /\ steps \in calling
         /\ a.total > 0 => input <= a.total
         /\ said' = a
         /\ GoesOn("model", "results",
                   IF a.total = 0 THEN <<>> ELSE <<[Usage(input) EXCEPT !.soft = TRUE]>>)
    /\ UNCHANGED <<turns, steps, nCheckpoints, back, spoilt, mailVars>>

\* Mutant: the answer is recorded, and its tool results only if no mail was sent.
GrowContextUnlessMail ==
    /\ said.waits => steps \notin calling
    /\ GoesOn("results", "verdict",
              <<Appends(<<Message(IF said.calls THEN "calls" ELSE "assistant")>>)>>
                \o (IF said.total = 0 THEN <<>> ELSE <<Usage(said.total)>>)
                \o <<Appends(IF said.calls /\ mail = NoMail THEN <<Message("tools")>>
                                                            ELSE <<>>)>>)
    /\ UNCHANGED <<turnVars, mailVars>>

GrowContext ==
    /\ said.waits => steps \notin calling
    /\ GoesOn("results", "verdict",
              <<Appends(<<Message(IF said.calls THEN "calls" ELSE "assistant")>>)>>
                \o (IF said.total = 0 THEN <<>> ELSE <<Usage(said.total)>>)
                \o <<Appends(IF said.calls THEN <<Message("tools")>> ELSE <<>>)>>)
    /\ UNCHANGED <<turnVars, mailVars>>

Rejected ==
    /\ said.calls
    /\ GoesOn("verdict", "idle", <<>>)
    /\ mail' = NoMail /\ said' = Nothing
    /\ UNCHANGED <<turns, steps, nCheckpoints, back, spoilt, calling>>

Rewind ==
    /\ mail # NoMail
    /\ GoesOn("verdict", "rewound", <<Do("revert", mail.to)>>)
    /\ mail' = NoMail /\ said' = Nothing /\ back' = mail.to
    /\ UNCHANGED <<turns, steps, nCheckpoints, spoilt, calling>>

DeliverMail ==
    /\ GoesOn("rewound", "next", <<Do("checkpoint", 0), Appends(<<Message("mail")>>)>>)
    /\ back' = 0
    /\ UNCHANGED <<turns, steps, said, nCheckpoints, spoilt, mailVars>>

AnotherStep ==
    /\ mail = NoMail /\ said.calls
    /\ GoesOn("verdict", "next", <<>>)
    /\ said' = Nothing
    /\ UNCHANGED <<turns, steps, nCheckpoints, back, spoilt, mailVars>>

TurnDone ==
    /\ mail = NoMail /\ ~said.calls
    /\ GoesOn("verdict", "idle", <<>>)
    /\ said' = Nothing
    /\ UNCHANGED <<turns, steps, nCheckpoints, back, spoilt, mailVars>>

\* DenwaRenji takes one mail at a time, to a checkpoint it knows of.
SendMail(s) ==
    /\ s \in calling
    /\ calling' = calling \ {s}
    /\ \/ mail' = mail
       \/ /\ mail = NoMail
          /\ \E k \in 0..nCheckpoints - 1 : mail' = [to |-> k, by |-> s]
    /\ UNCHANGED <<contextVars, soul, turnVars>>

---------------------------------------------------------------------------------
(* What cuts a turn short: its cancel, an error of the model, of the file system or of
   its limits.  Half a step recorded is spoilt, and so is a rewind or a list of
   messages half copied, and a memory the file does not hold. *)
Spoils == Tears \/ (soul = "verdict" /\ plan # <<>>) \/ at = "copy"

Interrupt ==
    /\ soul # "idle"
    /\ soul' = "idle" /\ plan' = <<>>
    /\ GiveUp
    /\ said' = Nothing /\ back' = 0
    /\ spoilt' = (spoilt \/ Spoils \/ torn')
    /\ UNCHANGED <<turns, steps, nCheckpoints, mailVars>>

Restart ==
    /\ Restore
    /\ soul' = "idle" /\ said' = Nothing
    /\ calling' = {} /\ mail' = NoMail /\ nCheckpoints' = 0 /\ back' = 0
    /\ spoilt' = (spoilt \/ Spoils \/ torn')
    /\ UNCHANGED <<turns, steps>>

DoContext ==
    /\ Context
    /\ UNCHANGED <<soul, turnVars, mailVars>>

LoopNext ==
    \/ DoContext
    \/ BeginTurn \/ SlashClear \/ SlashCompact \/ SlashEnds
    \/ AskModel \/ CountCheckpoints \/ CallMail \/ ModelAnswers \/ GrowContext
    \/ Rejected \/ Rewind \/ DeliverMail \/ AnotherStep \/ TurnDone
    \/ Interrupt \/ Restart
    \/ \E s \in StepIds : SendMail(s)

LoopSpec == LoopInit /\ [][LoopNext]_soulVars

---------------------------------------------------------------------------------
(* context.rs:158-284: the memory is what the file says once the operation under way has
   written what it owes, but for an operation cut where the two differ (`torn`) and while
   no two records of the file are glued (`Intact`). *)
ReadsAs(f) ==
    history = MessagesOf(f) /\ tokenCount = TokensOf(f) /\ nextCheckpoint = NextOf(f)

FileCatchesUp ==
    ~torn /\ Intact(file) => ReadsAs(IF at = "copied" THEN Front(file) ELSE file \o due)

(* kimisoul.rs:1013-1049: no model is asked with a tool call that has no result, or a
   result that no call asked for, whatever was rewound and compacted before, as long as
   nothing of a conversation was lost with what cut it: half a step that was recorded is
   such a loss (`spoilt`). *)
CallsAreAnswered ==
    soul = "model" /\ ~spoilt =>
        \A i \in DOMAIN history :
            /\ history[i].role = "calls" =>
                  i < Len(history) /\ history[i + 1].role = "tools"
            /\ history[i].role = "tools" => i > 1 /\ history[i - 1].role = "calls"

(* kimisoul.rs:843-853: a rewind ends at the checkpoint it goes back to, one that a
   turn cut short or compacted since has asked for included, as long as no rewind was cut
   in its copy, where part of the history is lost, nor a memory the file does not hold
   (`spoilt`). *)
RewindLands ==
    soul = "rewound" /\ plan = <<>> /\ ~spoilt => nextCheckpoint = back

(* Does not hold, tools/desc/dmail/dmail.md:3: "Checkpoints appear in the context as `user`
   messages reading `CHECKPOINT {checkpoint_id}` [...]. Sending a D-Mail rewinds the context to
   the checkpoint you name and appends your message in place of everything after it."
   For every mark the model reads, going back to it leaves what stands before it. *)
MarksAreCheckpoints ==
    soul = "model" /\ ~spoilt /\ Intact(file) =>
        \A i \in DOMAIN history :
            history[i].role = "mark" =>
                \E j \in DOMAIN file :
                    /\ file[j] = CheckpointLine(history[i].n)
                    /\ MessagesOf(SubSeq(file, 1, j - 1)) = SubSeq(history, 1, i - 1)
=================================================================================
