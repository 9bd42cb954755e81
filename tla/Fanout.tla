--------------------------------- MODULE Fanout ---------------------------------
(***************************************************************************)
(* Routing to the clients attached to one session: the Fanout of           *)
(* server/dvadva-agent/src/wire/fanout.rs and the outbound queues of       *)
(* utils/aioqueue.rs.                                                      *)
(*                                                                         *)
(* Every method of the Fanout runs under its one mutex, so each is one     *)
(* atomic operator here.  The module says nothing of who calls it: the     *)
(* operators below are the actions FanoutFeed closes into a specification  *)
(* of its own, and the steps WireSession builds its handlers from.         *)
(***************************************************************************)
EXTENDS Naturals, Sequences

CONSTANTS
    Conns,   \* the connection ids: minted once and never reused
    Msgs     \* what may be put on an outbound queue

VARIABLES
    attached,   \* the connections the map of attachments holds
    open,       \* the outbound queues that have not been shut down
    staging,    \* the attachments whose `staged` is Some(_)
    staged,     \* the messages held back for a connection that catches up
    queue       \* the outbound queue of each connection, oldest first

fanoutVars == <<attached, open, staging, staged, queue>>

FanoutTypeOK ==
    /\ attached \in SUBSET Conns
    /\ open \in SUBSET Conns
    /\ staging \in SUBSET Conns
    /\ staged \in [Conns -> Seq(Msgs)]
    /\ queue \in [Conns -> Seq(Msgs)]

FanoutInit ==
    /\ attached = {}
    /\ open = {}
    /\ staging = {}
    /\ staged = [c \in Conns |-> <<>>]
    /\ queue = [c \in Conns |-> <<>>]

---------------------------------------------------------------------------------
\* A new client: an attachment with a queue of its own, nothing staged.
Attach(c) ==
    /\ attached' = attached \cup {c}
    /\ open' = open \cup {c}
    /\ UNCHANGED <<staging, staged, queue>>

\* The attachment goes, and what it had staged with it.  The queue is shut down
\* but keeps what it holds: the writer drains it before it stops.
Drop(cs) ==
    /\ attached' = attached \ cs
    /\ staging' = staging \ cs
    /\ staged' = [c \in Conns |-> IF c \in cs THEN <<>> ELSE staged[c]]

Detach(c) ==
    /\ Drop({c})
    /\ open' = IF c \in attached THEN open \ {c} ELSE open
    /\ UNCHANGED queue

Live == attached \ staging

\* Mutant: a client that lags is taken for one that has gone.
BroadcastImpatient(m) ==
    /\ queue' = [c \in Conns |->
                    IF c \in Live \cap open THEN Append(queue[c], m) ELSE queue[c]]
    /\ staged' = [c \in Conns |->
                    IF c \in attached \cap staging THEN Append(staged[c], m)
                                                   ELSE staged[c]]
    /\ attached' = {c \in attached : c \in staging \/ queue[c] = <<>>}
    /\ UNCHANGED <<open, staging>>

\* A session fact: staged for whoever catches up, queued for the others; an
\* attachment whose queue no longer takes it is dropped on the spot.
Broadcast(m) ==
    /\ queue' = [c \in Conns |->
                    IF c \in Live \cap open THEN Append(queue[c], m) ELSE queue[c]]
    /\ staged' = [c \in Conns |->
                    IF c \in attached \cap staging THEN Append(staged[c], m)
                                                   ELSE staged[c]]
    /\ attached' = attached \ (Live \ open)
    /\ UNCHANGED <<open, staging>>

\* An answer to one client: it bypasses the staging, and a client that is no
\* longer attached gets nothing.
SendTo(c, m) ==
    /\ queue' = IF c \in attached \cap open
                THEN [queue EXCEPT ![c] = Append(@, m)] ELSE queue
    /\ IF c \in attached \ open THEN Drop({c})
                                ELSE UNCHANGED <<attached, staging, staged>>
    /\ UNCHANGED open

BeginCatchUp(c) ==
    /\ IF c \in attached
       THEN /\ staging' = staging \cup {c}
            /\ staged' = [staged EXCEPT ![c] = <<>>]
       ELSE UNCHANGED <<staging, staged>>
    /\ UNCHANGED <<attached, open, queue>>

\* Mutant: what was staged overtakes what is already queued.
EndCatchUpFirst(c) ==
    /\ queue' = [queue EXCEPT ![c] = staged[c] \o @]
    /\ staging' = staging \ {c}
    /\ staged' = [staged EXCEPT ![c] = <<>>]
    /\ UNCHANGED <<attached, open>>

\* Mutant: the flush stops after the first message.
EndCatchUpShort(c) ==
    /\ queue' = IF staged[c] = <<>> THEN queue
                ELSE [queue EXCEPT ![c] = Append(@, Head(staged[c]))]
    /\ staging' = staging \ {c}
    /\ staged' = [staged EXCEPT ![c] = <<>>]
    /\ UNCHANGED <<attached, open>>

\* Flush what was staged, in order and under the lock, and go live again.
EndCatchUp(c) ==
    /\ queue' = IF c \in staging \cap open
                THEN [queue EXCEPT ![c] = @ \o staged[c]] ELSE queue
    /\ attached' = IF c \in staging \ open /\ staged[c] # <<>>
                   THEN attached \ {c} ELSE attached
    /\ staging' = staging \ {c}
    /\ staged' = [staged EXCEPT ![c] = <<>>]
    /\ UNCHANGED open

Shutdown ==
    /\ Drop(attached)
    /\ open' = open \ attached
    /\ UNCHANGED queue

\* The writer task takes the oldest message; a queue that was shut down is still
\* drained to its end.
Take(c) ==
    /\ queue[c] # <<>>
    /\ queue' = [queue EXCEPT ![c] = Tail(@)]
    /\ UNCHANGED <<attached, open, staging, staged>>
=================================================================================
