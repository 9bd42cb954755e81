------------------------------- MODULE Transcript -------------------------------
(***************************************************************************)
(* What a client shows of a session: client/wire-client/src/transcript.rs  *)
(* folds the messages into blocks.  A client that was there folds every    *)
(* fragment as it came; one that comes later folds the recorded messages,  *)
(* in which server/dvadva-agent/src/wire/channel.rs has merged the         *)
(* fragments.                                                              *)
(*                                                                         *)
(* A text is the sequence of the fragments in it, each known by its place  *)
(* in the stream.                                                          *)
(***************************************************************************)
EXTENDS Naturals, Sequences, SequencesExt

CONSTANTS
    Calls,          \* tool call ids
    MaxSent         \* bound: messages sent

ASSUME TranscriptAssumption == MaxSent \in Nat

VARIABLES
    sent,           \* messages sent
    begun,          \* calls begun
    shown,          \* the transcript of a client that was there
    buffer,         \* merge_buffer: the message fragments are merged into, or none
    replayed        \* the transcript the recorded messages fold to

foldVars == <<sent, begun, shown, buffer, replayed>>

Empty == [blocks |-> <<>>, subs |-> [c \in Calls |-> [blocks |-> <<>>, done |-> FALSE]]]
None == [kind |-> "none"]

\* A block, and what is begun of one
Block(kind, id, text) ==
    [kind |-> kind, id |-> id, text |-> text, answered |-> FALSE, abandoned |-> FALSE]
IsOpen(b) == b.kind = "call" /\ ~b.answered

\* The newest of the blocks that were found, 0 if none was.
Newest(found) == Max({0} \cup found)

AbandonOpenCalls(blocks) ==
    [i \in DOMAIN blocks |->
        IF IsOpen(blocks[i]) THEN [blocks[i] EXCEPT !.abandoned = TRUE] ELSE blocks[i]]

ApplyContent(blocks, m) ==
    LET n == Len(blocks)
    IN  IF n > 0 /\ blocks[n].kind = m.kind
        THEN [blocks EXCEPT ![n].text = @ \o m.text]
        ELSE Append(blocks, Block(m.kind, 0, m.text))

ApplyCallPart(blocks, m) ==
    LET i == Newest({k \in DOMAIN blocks : IsOpen(blocks[k])})
    IN  IF i = 0 THEN blocks ELSE [blocks EXCEPT ![i].text = @ \o m.text]

ApplyAnswer(blocks, m, kind) ==
    LET Asked(b) == b.kind = kind /\ b.id = m.id /\ (kind = "call" => ~b.answered)
        i == Newest({k \in DOMAIN blocks : Asked(blocks[k])})
    IN  IF i = 0 THEN blocks ELSE [blocks EXCEPT ![i].answered = TRUE]

ApplyToBlocks(blocks, m) ==
    CASE m.kind \in {"begin", "notice"} -> Append(blocks, Block(m.kind, 0, m.text))
      [] m.kind = "end" -> AbandonOpenCalls(blocks)
      [] m.kind = "interrupted" -> Append(AbandonOpenCalls(blocks), Block("notice", 0, <<>>))
      [] m.kind \in {"text", "think"} -> ApplyContent(blocks, m)
      [] m.kind \in {"call", "approval"} -> Append(blocks, Block(m.kind, m.id, m.text))
      [] m.kind = "part" -> ApplyCallPart(blocks, m)
      [] m.kind = "result" -> ApplyAnswer(blocks, m, "call")
      [] m.kind = "approved" -> ApplyAnswer(blocks, m, "approval")

\* A subagent's events make a transcript of its own, done when its turn ends.
ApplySubagentEvent(t, m) ==
    [t EXCEPT !.subs[m.id] = [blocks |-> ApplyToBlocks(@.blocks, m.inner),
                              done |-> @.done \/ m.inner.kind = "end"]]

ApplyEvent(t, m) ==
    CASE m.kind = "none" -> t
      [] m.kind = "sub" -> ApplySubagentEvent(t, m)
      [] OTHER -> [t EXCEPT !.blocks = ApplyToBlocks(@, m)]

---------------------------------------------------------------------------------
(* The merging side of the wire. *)

\* Whether the buffered message takes the fragment in: thinking does not once it is sealed.
MergesInto(b, m) ==
    \/ b.kind = "text" /\ m.kind = "text"
    \/ b.kind = "think" /\ m.kind = "think" /\ ~b.sealed
    \/ b.kind \in {"call", "part"} /\ m.kind = "part"

Merged(b, m) == [b EXCEPT !.text = @ \o m.text, !.sealed = @ \/ m.sealed]

\* Mutant: a message that is not merged overtakes the one that is being put together.
SendOvertaking(m) ==
    /\ sent' = sent + 1
    /\ shown' = ApplyEvent(shown, m)
    /\ CASE MergesInto(buffer, m) -> buffer' = Merged(buffer, m) /\ UNCHANGED replayed
         [] ~MergesInto(buffer, m) /\ m.kind \in {"text", "think", "call", "part"} ->
                buffer' = m /\ replayed' = ApplyEvent(replayed, buffer)
         [] OTHER -> replayed' = ApplyEvent(replayed, m) /\ UNCHANGED buffer

Send(m) ==
    /\ sent' = sent + 1
    /\ shown' = ApplyEvent(shown, m)
    /\ CASE MergesInto(buffer, m) -> buffer' = Merged(buffer, m) /\ UNCHANGED replayed
         [] ~MergesInto(buffer, m) /\ m.kind \in {"text", "think", "call", "part"} ->
                buffer' = m /\ replayed' = ApplyEvent(replayed, buffer)
         [] OTHER -> /\ replayed' = ApplyEvent(ApplyEvent(replayed, buffer), m)
                     /\ buffer' = None

Flush ==
    /\ buffer # None
    /\ replayed' = ApplyEvent(replayed, buffer) /\ buffer' = None
    /\ UNCHANGED <<sent, begun, shown>>

---------------------------------------------------------------------------------
Message(kind, id) == [kind |-> kind, id |-> id, text |-> <<sent + 1>>, sealed |-> FALSE]

\* What a turn sends: a call once, and what answers it after it.
Streams ==
    /\ begun' = begun
    /\ \/ \E kind \in {"begin", "text", "think", "part", "interrupted", "end"} :
            Send(Message(kind, 0))
       \/ Send([Message("think", 0) EXCEPT !.sealed = TRUE])

CallsTool ==
    \E c \in Calls \ begun : begun' = begun \cup {c} /\ Send(Message("call", c))

AfterCall ==
    /\ begun' = begun
    /\ \E c \in begun :
         \/ \E kind \in {"approval", "approved", "result"} : Send(Message(kind, c))
         \/ \E kind \in {"text", "end"} :
              Send([kind |-> "sub", id |-> c, inner |-> Message(kind, 0)])

FoldInit ==
    /\ sent = 0 /\ begun = {} /\ buffer = None
    /\ shown = Empty /\ replayed = Empty

FoldNext == (sent < MaxSent /\ (Streams \/ CallsTool \/ AfterCall)) \/ Flush

FoldSpec == FoldInit /\ [][FoldNext]_foldVars

FoldTypeOK == sent \in 0..MaxSent /\ begun \subseteq Calls

(* channel.rs:137-165, server.rs:1001-1013: a client that comes later and is given the
   recorded messages shows what one shows that was there for every fragment. *)
ReplayShowsTheSame ==
    ApplyEvent(replayed, buffer) = shown
=================================================================================
