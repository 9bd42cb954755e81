------------------------------ MODULE ContextFile ------------------------------
(***************************************************************************)
(* The memory of a conversation and the file that outlives the process:    *)
(* server/dvadva-agent/src/soul/context.rs.                                *)
(*                                                                         *)
(* One task at a time holds the lock of the context, so the operations are *)
(* taken one after another from `plan`; but every operation awaits several *)
(* calls of the file system, and a turn may be cut short, or the process   *)
(* die, at each of them.  A record and its newline are two writes, and the *)
(* second may still be under way in the runtime's pool when the operation  *)
(* that asked for it has returned.  A record that is being written when    *)
(* its operation is cut gets there before the next one; what is in the     *)
(* file can be read.                                                       *)
(***************************************************************************)
EXTENDS Naturals, Sequences, FiniteSets, SequencesExt

CONSTANT MaxLate    \* bound: lines spoilt by a newline that lands too late

ASSUME LateAssumption == MaxLate \in Nat

VARIABLES
    history, tokenCount, nextCheckpoint,    \* the memory
    file,       \* the lines of the file
    tail,       \* how it ends: there is no file ("none"), it was just made ("whole"), its
                \* last newline is missing ("open") or may be on its way, to the end of
                \* the file ("late") or to where the last record ends ("placed")
    plan,       \* the operations to do, the first one is being done
    at,         \* how far it is
    due,        \* the lines it has still to write
    source,     \* the lines of the rotated file it has still to copy
    torn        \* history: an operation was cut where memory and file disagree

memoryVars == <<history, tokenCount, nextCheckpoint>>
diskVars == <<file, tail>>
opVars == <<plan, at, due, source>>
contextVars == <<memoryVars, diskVars, opVars, torn>>

MessageRoles == {"user", "mark", "assistant", "calls", "tools", "mail", "summary"}

Message(role) == [role |-> role, n |-> 0]
Mark(id) == [role |-> "mark", n |-> id]     \* "CHECKPOINT {id}"
UsageLine(n) == [role |-> "_usage", n |-> n]
CheckpointLine(id) == [role |-> "_checkpoint", n |-> id]
Junk == [role |-> "junk", n |-> 0]

Line == [role : MessageRoles \cup {"_usage", "_checkpoint", "junk"}, n : Nat]

\* What a file says, to restore and revert_to.
IsMessage(l) == l.role \in MessageRoles
IsUsage(l) == l.role = "_usage"
IsCheckpoint(l) == l.role = "_checkpoint"

MessagesOf(f) ==
    LET read[i \in 0 .. Len(f)] ==
          IF i = 0 THEN <<>> ELSE IF IsMessage(f[i]) THEN Append(read[i - 1], f[i]) ELSE read[i - 1]
    IN  read[Len(f)]
TokensOf(f) == LET i == SelectLastInSeq(f, IsUsage) IN IF i = 0 THEN 0 ELSE f[i].n
NextOf(f) == LET i == SelectLastInSeq(f, IsCheckpoint) IN IF i = 0 THEN 0 ELSE f[i].n + 1

Spoilt(f) == {i \in DOMAIN f : f[i] = Junk}
Intact(f) == Spoilt(f) = {}
Readable(f) == SubSeq(f, 1, SelectInSeq(Append(f, Junk), LAMBDA l : l = Junk) - 1)

Op == [op : {"checkpoint", "append", "usage", "clear", "revert"},
       lines : Seq(Line), n : Nat, soft : BOOLEAN]

\* The operations, as their callers ask for them.
Do(op, n) == [op |-> op, lines |-> <<>>, n |-> n, soft |-> FALSE]
Appends(ms) == [Do("append", 0) EXCEPT !.lines = ms]
Usage(n) == Do("usage", n)

ContextTypeOK ==
    /\ history \in Seq(Line) /\ tokenCount \in Nat /\ nextCheckpoint \in Nat
    /\ file \in Seq(Line) /\ tail \in {"none", "whole", "late", "placed", "open"}
    /\ plan \in Seq(Op)
    /\ at \in {"start", "open", "newline", "more", "forget", "create", "copy",
              "copied"}
    /\ due \in Seq(Line) /\ source \in Seq(Line) /\ torn \in BOOLEAN
    /\ plan = <<>> => at = "start"

ContextInit ==
    /\ history = <<>> /\ tokenCount = 0 /\ nextCheckpoint = 0
    /\ file = <<>> /\ tail = "whole"
    /\ plan = <<>> /\ at = "start" /\ due = <<>> /\ source = <<>> /\ torn = FALSE

---------------------------------------------------------------------------------
(* checkpoint, append_messages and update_token_count: the memory first, then the
   file, line by line. *)

Doing(op) == plan # <<>> /\ Head(plan).op = op

Done == plan' = Tail(plan) /\ at' = "start"

\* A line is written where the last one ends, with or without its newline.
WriteHere(l) == file' = Append(file, l) /\ tail' = "open"

PutBehind == file' = [file EXCEPT ![Len(file)] = Junk] /\ tail' = "open"

\* That of a copy is not appended: it overwrites the record that came before it.
PutUnder == file' = Append(file, Junk) /\ tail' = "open"

\* With the message that tells the model of it: an append of its own.
Checkpoint ==
    /\ Doing("checkpoint") /\ at = "start"
    /\ nextCheckpoint' = nextCheckpoint + 1
    /\ due' = <<CheckpointLine(nextCheckpoint)>> /\ at' = "open"
    /\ plan' = <<Head(plan), Appends(<<Mark(nextCheckpoint)>>)>> \o Tail(plan)
    /\ UNCHANGED <<history, tokenCount, diskVars, source, torn>>

AppendMessages ==
    /\ Doing("append") /\ at = "start"
    /\ history' = history \o Head(plan).lines
    /\ due' = Head(plan).lines /\ at' = "open"
    /\ UNCHANGED <<tokenCount, nextCheckpoint, diskVars, plan, source, torn>>

UpdateTokenCount ==
    /\ Doing("usage") /\ at = "start"
    /\ tokenCount' = Head(plan).n
    /\ due' = <<UsageLine(Head(plan).n)>> /\ at' = "open"
    /\ UNCHANGED <<history, nextCheckpoint, diskVars, plan, source, torn>>

\* append_messages of nothing opens the file and writes nothing.
WriteNothing ==
    /\ at = "open" /\ due = <<>>
    /\ Done
    /\ UNCHANGED <<memoryVars, diskVars, due, source, torn>>

\* One open file writes one thing after another, and waits for its own newline; that
\* of the operation before may not be there yet.
WriteLine ==
    /\ at \in {"open", "more"} /\ due # <<>>
    /\ \/ tail # "open" /\ WriteHere(Head(due))
       \/ tail = "open" /\ PutBehind
       \/ /\ at = "open" /\ Cardinality(Spoilt(file)) < MaxLate
          /\ \/ tail = "late" /\ PutBehind
             \/ tail = "placed" /\ PutUnder
    /\ due' = Tail(due) /\ at' = "newline"
    /\ UNCHANGED <<memoryVars, plan, source, torn>>

WriteNewline ==
    /\ at = "newline"
    /\ tail' = "late"
    /\ IF due = <<>> THEN Done ELSE at' = "more" /\ UNCHANGED plan
    /\ UNCHANGED <<memoryVars, file, due, source, torn>>

---------------------------------------------------------------------------------
(* clear and revert_to: the file is renamed away and begun anew. *)

\* Mutant: the messages in memory are kept, and those copied come on top.
ForgetLess == tokenCount' = 0 /\ nextCheckpoint' = 0 /\ UNCHANGED history

Forget == history' = <<>> /\ tokenCount' = 0 /\ nextCheckpoint' = 0

\* Without a file there is nothing to rename, and the turn fails.
RotateToClear ==
    /\ Doing("clear") /\ at = "start" /\ tail # "none"
    /\ file' = <<>> /\ tail' = "none" /\ torn' = TRUE
    /\ at' = "create"
    /\ UNCHANGED <<memoryVars, plan, due, source>>

\* So it does if the checkpoint does not exist.
RotateToRevert ==
    /\ Doing("revert") /\ at = "start" /\ tail # "none"
    /\ Head(plan).n < nextCheckpoint
    /\ file' = <<>> /\ tail' = "none" /\ torn' = TRUE
    /\ source' = file
    /\ at' = "forget"
    /\ UNCHANGED <<memoryVars, plan, due>>

ForgetToRevert ==
    /\ at = "forget"
    /\ Forget /\ torn' = FALSE
    /\ at' = "create"
    /\ UNCHANGED <<diskVars, plan, due, source>>

Create ==
    /\ at = "create"
    /\ tail' = "whole"
    /\ \/ Doing("clear") /\ Forget /\ torn' = FALSE /\ Done
       \/ Doing("revert") /\ at' = "copy" /\ UNCHANGED <<memoryVars, plan, torn>>
    /\ UNCHANGED <<file, due, source>>

\* Mutant: what follows the checkpoint is kept, up to the next one.
TargetAfter == CheckpointLine(Head(plan).n + 1)

Target == CheckpointLine(Head(plan).n)

\* A line that is no record fails the turn.
CopyLine ==
    /\ at = "copy" /\ source # <<>>
    /\ Head(source) # Junk /\ Head(source) # Target
    /\ WriteHere(Head(source))
    /\ at' = "copied"
    /\ UNCHANGED <<memoryVars, plan, due, source, torn>>

CopyNewline ==
    /\ at = "copied"
    /\ tail' = "placed"
    /\ LET l == Head(source) IN
         /\ history' = IF IsMessage(l) THEN Append(history, l) ELSE history
         /\ tokenCount' = IF IsUsage(l) THEN l.n ELSE tokenCount
         /\ nextCheckpoint' = IF IsCheckpoint(l) THEN l.n + 1 ELSE nextCheckpoint
    /\ source' = Tail(source) /\ at' = "copy"
    /\ UNCHANGED <<file, plan, due, torn>>

CopyEnds ==
    /\ at = "copy" /\ (source # <<>> => Head(source) = Target)
    /\ source' = <<>>
    /\ Done
    /\ UNCHANGED <<memoryVars, diskVars, due, torn>>

---------------------------------------------------------------------------------
(* An operation that fails or is cut short, and a process that dies. *)

Tears == due # <<>> \/ at = "copied"

GiveUp ==
    /\ at' = "start" /\ due' = <<>> /\ source' = <<>>
    /\ torn' = (torn \/ Tears)
    /\ UNCHANGED <<memoryVars, diskVars>>

\* update_token_count with a caller that only logs its error.
FailSoftly ==
    /\ plan # <<>> /\ Head(plan).soft /\ at \in {"open", "newline"}
    /\ plan' = Tail(plan)
    /\ GiveUp

\* restore: up to the first line that is no record; that it failed is ignored.  A
\* session without its file is created again.  A newline on its way may never come.
Restore ==
    /\ history' = MessagesOf(Readable(file))
    /\ tokenCount' = TokensOf(Readable(file))
    /\ nextCheckpoint' = NextOf(Readable(file))
    /\ torn' = ~Intact(file)
    /\ plan' = <<>> /\ at' = "start" /\ due' = <<>> /\ source' = <<>>
    /\ tail' = CASE tail = "none" -> "whole" [] tail = "placed" -> "late" [] OTHER -> tail
    /\ UNCHANGED file

Context ==
    \/ Checkpoint \/ AppendMessages \/ UpdateTokenCount
    \/ WriteNothing \/ WriteLine \/ WriteNewline
    \/ RotateToClear \/ RotateToRevert \/ ForgetToRevert \/ Create
    \/ CopyLine \/ CopyNewline \/ CopyEnds
    \/ FailSoftly
=================================================================================
