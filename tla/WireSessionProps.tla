---------------------------- MODULE WireSessionProps ----------------------------
(* What the session owes its clients, and what its comments say it does. *)
EXTENDS WireSession

Count(s, kind) == Cardinality({i \in DOMAIN s : s[i].kind = kind})

InQueue(c, m) == \E i \in DOMAIN queue[c] : queue[c][i] = m

OnItsWayUp(c, r) == \E i \in DOMAIN uplink[c] : uplink[c][i] = Msg("answer", r)

Armed(c, r) == approvals[c][r] > 0

(* A JSON-RPC response is not a session fact (fanout.rs:11-15): while a client is
   attached, its outstanding prompt is in exactly one place, so it is answered
   once, to it alone, whatever became of the turn; a client that has none
   outstanding is sent no answer. *)
PromptInOnePlace ==
    \A c \in attached :
        Here(c) =>
            Count(uplink[c], "prompt")
              + (IF life[c] = "prompting" THEN 1 ELSE 0)
              + Cardinality({t \in Turns : prompter[t] = c
                               /\ turn[t] \in {"starting", "running", "closed", "cleared"}})
              + Count(queue[c], "Prompted")
            = IF c \in prompting THEN 1 ELSE 0

(* server.rs:235-242 and 1263-1267: the snapshot of the open requests and the
   traffic staged for the same client never hold one request between them. *)
SnapshotXorStaged ==
    \A c \in Conns : \A r \in replay[c].open :
        \A i \in DOMAIN staged[c] : staged[c][i] # Msg("Request", r)

(* fanout.rs:126-128: every catch-up that began to stage ends it, so a client is
   deaf to the session only while its replay walks the file. *)
DeafOnlyWhileReplaying ==
    \A c \in attached \cap staging : replay[c].at \in {"ask", "walk"}

(* A stream loop parked on a request can always be released: the request is
   resolved, or an answer to it would still find it pending. *)
ParkedIsAnswerable ==
    \A t \in Turns :
        parked[t] # NoRequest =>
            answer[parked[t]] # "none" \/ parked[t] \in pending

(* server.rs:617-623: a registered external tool has one owner, whose connection
   still reads or has yet to give its tools back: no turn can be shown a tool
   nobody can service. *)
ToolsAreServiceable ==
    /\ registered = {n \in Tools : toolOwner[n] # NoConn}
    /\ \A n \in registered :
          life[toolOwner[n]] \in {"reading", "prompting", "closing", "releasing"}

Settled(c) ==
    /\ c \in attached /\ phase[c] \in {"Ready", "Running"} /\ replay[c].at = "idle"

(* server.rs:800-805: an attached client that caught up can answer every approval
   still open -- the dialog is up, on its way down, or its answer on its way up --
   but for the ones its own catch-up filed as history. *)
ArmedUnlessShelved ==
    \A c \in Conns : \A r \in pending \ ToolCalls :
        Settled(c) /\ <<c, r>> \notin shelved =>
            Armed(c, r) \/ InQueue(c, Msg("Request", r)) \/ OnItsWayUp(c, r)

(* The token in the slot is that of a turn that has not given it back. *)
TokenIsLive == token # NoTurn => turn[token] \in {"starting", "running", "closed"}

(* A catch-up ends: no client shows "loading history" forever. *)
ReplayEnds == \A c \in Conns : phase[c] = "Replaying" ~> phase[c] # "Replaying"

(* A cancelled turn ends and answers its prompt, even one whose stream loop is
   parked on a request nobody will answer. *)
CancelEnds == \A t \in Turns : t \in cancelled ~> turn[t] = "done"

(* A stopped session cuts every client loose. *)
StopEnds == stop ~> \A c \in Conns : life[c] \in {"absent", "gone"}

---------------------------------------------------------------------------------
(* Said by a comment, and not so. *)

(* server.rs:73-74: "one soul runs one turn at a time no matter how many clients
   are watching". *)
OneTurnAtATime ==
    Cardinality({t \in Turns : turn[t] \in {"starting", "running"}}) <= 1

(* server.rs:168-169: "A turn that is actually working is never idle, however
   long it takes and however alone it is." *)
Working(t) ==
    /\ turn[t] = "running"
    /\ \A r \in Requests : asker[r] = t => r \in relayed

WorkingIsNeverIdle == \A t \in Turns : Working(t) => ~IsIdle

(* server.rs:804-805: "Handing them over last is what lets a client attach to a
   parked agent and actually answer it." *)
OpenIsArmed ==
    \A c \in Conns : \A r \in pending \ ToolCalls :
        Settled(c) =>
            Armed(c, r) \/ InQueue(c, Msg("Request", r)) \/ OnItsWayUp(c, r)
=================================================================================
