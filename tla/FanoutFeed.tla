------------------------------- MODULE FanoutFeed -------------------------------
(***************************************************************************)
(* The fan-out under every caller the wire server has, in any order: facts *)
(* are broadcast, answers are sent to one client, clients attach, catch    *)
(* up, detach, the session shuts down, and writers drain.                  *)
(*                                                                         *)
(* A fact is its number in the order of publication; an answer meant for   *)
(* one client is the message 0.                                            *)
(***************************************************************************)
EXTENDS Naturals, Sequences

CONSTANTS
    Conns,
    MaxFacts,   \* bound: how many facts are published
    MaxQueue    \* bound: no answer is sent to a client whose queue is this long

ASSUME BoundsAssumption == MaxFacts \in Nat /\ MaxQueue \in Nat

VARIABLES
    attached, open, staging, staged, queue,
    published,   \* the number of facts broadcast so far
    joined,      \* the ids minted so far
    seen,        \* the last fact that reached each client (joined: the present)
    flowed       \* the last fact that was put on each client's queue

INSTANCE Fanout WITH Msgs <- Nat

vars == <<attached, open, staging, staged, queue, published, joined, seen, flowed>>

Init ==
    /\ FanoutInit
    /\ published = 0
    /\ joined = {}
    /\ seen = [c \in Conns |-> 0]
    /\ flowed = [c \in Conns |-> 0]

\* Mutant: a client joins one fact too early.
JoinEarly(c) ==
    /\ c \notin joined
    /\ Attach(c)
    /\ joined' = joined \cup {c}
    /\ seen' = [seen EXCEPT ![c] = published - 1]
    /\ flowed' = [flowed EXCEPT ![c] = published - 1]
    /\ UNCHANGED published

\* serve_connection: an id is minted by next_id and never comes back.
Join(c) ==
    /\ c \notin joined
    /\ Attach(c)
    /\ joined' = joined \cup {c}
    /\ seen' = [seen EXCEPT ![c] = published]
    /\ flowed' = [flowed EXCEPT ![c] = published]
    /\ UNCHANGED published

\* Connection::close.
Leave(c) ==
    /\ c \in joined
    /\ Detach(c)
    /\ UNCHANGED <<published, joined, seen, flowed>>

\* broadcast_event, request_approval, request_tool_call, the out-of-turn drain.
Publish ==
    /\ published < MaxFacts
    /\ published' = published + 1
    /\ Broadcast(published + 1)
    /\ flowed' = [c \in Conns |->
                     IF c \in Live \cap open THEN published + 1 ELSE flowed[c]]
    /\ UNCHANGED <<joined, seen>>

\* A response, an error, a replayed record.
Answer(c) ==
    /\ c \in joined
    /\ Len(queue[c]) < MaxQueue
    /\ SendTo(c, 0)
    /\ UNCHANGED <<published, joined, seen, flowed>>

\* replay_to, from its first to its last word with the fan-out.  The slot of
\* handle_replay keeps a second catch-up of the same connection out.
BeginReplay(c) ==
    /\ c \in joined \ staging
    /\ BeginCatchUp(c)
    /\ UNCHANGED <<published, joined, seen, flowed>>

EndReplay(c) ==
    /\ c \in staging
    /\ EndCatchUp(c)
    /\ flowed' = [flowed EXCEPT ![c] = IF c \in open THEN @ + Len(staged[c]) ELSE @]
    /\ UNCHANGED <<published, joined, seen>>

\* write_loop.
Write(c) ==
    /\ Take(c)
    /\ seen' = [seen EXCEPT ![c] = IF Head(queue[c]) = 0 THEN @ ELSE Head(queue[c])]
    /\ UNCHANGED <<published, joined, flowed>>

Stop ==
    /\ Shutdown
    /\ UNCHANGED <<published, joined, seen, flowed>>

Next ==
    \/ Publish
    \/ Stop
    \/ \E c \in Conns : \/ Join(c)
                        \/ Leave(c)
                        \/ Answer(c)
                        \/ BeginReplay(c)
                        \/ EndReplay(c)
                        \/ Write(c)

Spec == Init /\ [][Next]_vars

\* The writer tasks run, and a file walk comes to its end; nothing else is owed.
Fairness == \A c \in Conns : WF_vars(Write(c)) /\ WF_vars(EndReplay(c))

FairSpec == Spec /\ Fairness

---------------------------------------------------------------------------------
(* Types: every message is a fact already published or an answer. *)
TypeOK ==
    /\ FanoutTypeOK
    /\ published \in Nat
    /\ joined \in SUBSET Conns
    /\ seen \in [Conns -> Nat]
    /\ flowed \in [Conns -> Nat]

(* The accounts of the fan-out balance.  A live client's queue has been given
   every fact there is; one that catches up has been given every fact but those
   its attachment stages, in their order; and what a queue still holds is what
   was put on it after the last fact its client saw, in that order, whatever
   answers are sent in between. *)
MapsOK ==
    /\ attached \subseteq open
    /\ staging \subseteq attached
    /\ open \subseteq joined
    /\ \A c \in Conns \ staging : staged[c] = <<>>
    /\ \A c \in Conns \ joined : queue[c] = <<>> /\ flowed[c] = seen[c]

HeldBack(c) ==
    /\ flowed[c] + Len(staged[c]) <= published
    /\ c \in attached => flowed[c] + Len(staged[c]) = published
    /\ \A i \in 1..Len(staged[c]) : staged[c][i] = flowed[c] + i

\* q holds the facts after `from` up to `upto`, in their order, among answers.
Carries(q, from, upto) ==
    /\ from <= upto
    /\ \A i \in 1..Len(q) : q[i] = 0 \/ (from < q[i] /\ q[i] <= upto)
    /\ \A i, j \in 1..Len(q) : i < j /\ q[i] # 0 /\ q[j] # 0 => q[i] < q[j]
    /\ \A k \in from + 1 .. upto : \E i \in 1..Len(q) : q[i] = k

InTransit(c) == Carries(queue[c], seen[c], flowed[c])

AccountsBalance == MapsOK /\ \A c \in Conns : HeldBack(c) /\ InTransit(c)

(* No client is ever silenced by the pruning in broadcast, send_to and
   end_catch_up: an attachment leaves the map only in a step that shuts its
   queue down, which is to say only by detach or by shutdown. *)
NeverPruned == [][\A c \in attached \ attached' : c \in open \ open']_vars

(* fanout.rs:1-18 and 46-48: the fan-out is a session feed.  Staging delays a
   fact and never drops, repeats or reorders it, and no answer to one client
   makes a fact overtake another. *)
Feed == INSTANCE SessionFeed WITH Clients <- Conns

FeedSpec == Feed!Spec

(* A fact reaches every client attached when it is published, unless the client
   leaves first: what a catch-up held back is released. *)
EveryFactArrives ==
    \A c \in Conns : \A k \in 1..MaxFacts :
        (c \in attached /\ published = k) ~> (seen[c] >= k \/ c \notin attached)
=================================================================================
