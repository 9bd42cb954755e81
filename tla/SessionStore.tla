------------------------------ MODULE SessionStore ------------------------------
(***************************************************************************)
(* Which session an agent runs in, and what is left of it:                 *)
(*                                                                         *)
(*   server/dvadva-agent/src/session.rs     the directories of sessions    *)
(*   server/dvadva-agent/src/metadata.rs    kimi.json                      *)
(*   server/dvadva-agent/src/cli/mod.rs     resolve_session, post_run      *)
(*                                                                         *)
(* kimi.json is shared by all of a user's agents, without a lock: each     *)
(* loads it, and writes what it loaded, with its change, through one file  *)
(* beside it.  The open file is what is written to, under whichever name.  *)
(***************************************************************************)
EXTENDS Integers, FiniteSets

CONSTANTS
    Agents,         \* processes, one command line each
    WorkDirs,
    SessionIds,
    SubIds,         \* ids of the sessions of subagents, whose files lie with the parent's
    MaxRecords      \* bound: turns

ASSUME StoreAssumption ==
    /\ WorkDirs # {} /\ MaxRecords \in Nat /\ SessionIds \cap SubIds = {}
    /\ {"noEntry", "noLast", "torn", "noFile"} \cap (SessionIds \cup SubIds) = {}

VARIABLES
    meta,           \* kimi.json: of each directory its last session, or Torn
    tmp,            \* kimi.json.tmp
    stored,         \* what is on disk of each session
    agent,          \* each process: where it is, its session, what it loaded
    recorded,       \* history: the sessions something was said in, the turns
    shared,         \* history: sessions two processes were in at once
    overlapped      \* history: two processes were saving at once

metaVars == <<meta, tmp, overlapped>>
storeVars == <<metaVars, stored, agent, recorded, shared>>

NoEntry == "noEntry"
NoLast == "noLast"
Torn == [d \in WorkDirs |-> "torn"]
NoFile == [d \in WorkDirs |-> "noFile"]
Metadata == [WorkDirs -> {NoEntry, NoLast} \cup SessionIds \cup SubIds]
Sessions == WorkDirs \X (SessionIds \cup SubIds)
Nothing == [legacy |-> FALSE, dir |-> FALSE, context |-> "absent", wire |-> "empty"]
Unbegun == [at |-> "unbegun"]
Loaded == {"saving", "writing", "renaming"}
Inside == {"running", "clearing", "ending", "judging"}
Here(a) == <<agent[a].dir, agent[a].id>>

StoreTypeOK ==
    /\ meta = Torn \/ meta \in Metadata
    /\ tmp \in {NoFile, Torn} \/ tmp \in Metadata
    /\ \A s \in Sessions : stored[s].context \in {"absent", "empty", "full"}
                           /\ stored[s].wire \in {"empty", "full"}
    /\ \A a \in Agents : agent[a].at \in Loaded => agent[a].seen \in Metadata

StoreInit ==
    /\ stored \in [Sessions -> {Nothing, [Nothing EXCEPT !.legacy = TRUE]}]
    /\ \A s \in Sessions : stored[s].legacy => s[2] \in SessionIds
    /\ meta \in Metadata /\ tmp = NoFile
    /\ \A d \in WorkDirs : IF meta[d] \in SessionIds THEN stored[<<d, meta[d]>>].legacy
                                                     ELSE meta[d] \notin SubIds
    /\ agent = [a \in Agents |-> Unbegun]
    /\ recorded = [turns |-> 0, in |-> {s \in Sessions : stored[s].legacy}]
    /\ shared = {} /\ overlapped = FALSE

To(a, at) == agent' = [agent EXCEPT ![a].at = at]
Panics(a) == To(a, "dead")
KeepsStore == UNCHANGED <<stored, recorded, shared>>
KeepsFiles == UNCHANGED <<metaVars, stored, recorded>>

---------------------------------------------------------------------------------
(* resolve_session. *)

Start(a, d, how, s) ==
    /\ agent[a] = Unbegun
    /\ how = "continue" => s = CHOOSE id \in SessionIds : TRUE
    /\ how = "new" => s \in SessionIds /\ \A w \in WorkDirs : stored[<<w, s>>] = Nothing
    /\ how = "context" <=> s \in SubIds
    /\ \A b \in Agents : how \in {"new", "context"} /\ agent[b] # Unbegun => agent[b].id # s
    /\ agent' = [agent EXCEPT ![a] =
         [at |-> IF how \in {"new", "context"} THEN "creating" ELSE "looking",
          dir |-> d, how |-> how, id |-> s, known |-> NoLast, fd |-> "none"]]
    /\ UNCHANGED <<metaVars, stored, recorded, shared>>

NotFound(a) == To(a, IF agent[a].how = "continue" THEN "dead" ELSE "creating")

\* Session::find and continue_: no entry, no session, whatever lies on the disk.
Look(a) ==
    /\ agent[a].at = "looking"
    /\ IF meta = Torn THEN Panics(a)
       ELSE LET last == meta[agent[a].dir] IN
            IF last = NoEntry \/ (agent[a].how = "continue" /\ last = NoLast) THEN NotFound(a)
            ELSE agent' = [agent EXCEPT ![a].at = "opening", ![a].known = last,
                                        ![a].id = IF agent[a].how = "continue" THEN last ELSE @]
    /\ KeepsFiles /\ shared' = shared

Legacy(s) == stored[s].legacy /\ stored[s].context = "absent"

\* The process is in the session from here on.
Enters(a, s) ==
    /\ agent' = [agent EXCEPT ![a].at = "running", ![a].id = s[2]]
    /\ shared' = shared \cup {t \in {s} : \E b \in Agents \ {a} :
                                 agent[b].at \in Inside \cup {"deleting", "creating"} \cup Loaded
                                 /\ Here(b) = t}

\* migrate_session_context_file, when another process has done it since the look.
Open(a) ==
    /\ agent[a].at = "opening"
    /\ LET s == Here(a) IN
         CASE s[2] \in SubIds -> NotFound(a) /\ UNCHANGED <<stored, shared>>
           [] s[2] \notin SubIds /\ Legacy(s) -> To(a, "migrating") /\ UNCHANGED <<stored, shared>>
           [] s[2] \notin SubIds /\ ~Legacy(s) /\ stored[s].context = "absent" ->
                NotFound(a) /\ UNCHANGED <<stored, shared>>
           [] OTHER -> Enters(a, s) /\ stored' = stored
    /\ UNCHANGED <<metaVars, recorded>>

Migrate(a) ==
    /\ agent[a].at = "migrating"
    /\ LET s == Here(a) IN
         IF ~stored[s].legacy THEN Panics(a) /\ UNCHANGED <<stored, shared>>
         ELSE /\ stored' = [stored EXCEPT ![s].legacy = FALSE, ![s].dir = TRUE,
                                          ![s].context = "full"]
              /\ Enters(a, s)
    /\ UNCHANGED <<metaVars, recorded>>

\* Session::create: never truncates what a caller, or an earlier process, left there.
Create(s) == [s EXCEPT !.dir = TRUE, !.context = IF @ = "absent" THEN "empty" ELSE @]

\* A subagent's context may be a copy of its parent's.
CreateSession(a) ==
    /\ agent[a].at = "creating"
    /\ IF meta = Torn THEN Panics(a) /\ UNCHANGED <<stored, shared>>
       ELSE LET d == agent[a].dir IN
            /\ agent' = [agent EXCEPT ![a] =
                 [at |-> "saving", dir |-> d, how |-> @.how, id |-> @.id, fd |-> "none",
                  known |-> IF meta[d] = NoEntry THEN NoLast ELSE meta[d],
                  then |-> "running",
                  seen |-> [meta EXCEPT ![d] = IF @ = NoEntry THEN NoLast ELSE @]]]
            /\ stored' = [stored EXCEPT ![Here(a)] = Create(@)]
            /\ shared' = shared \cup {s \in {Here(a)} : \E b \in Agents \ {a} :
                              agent[b].at \in Inside \cup Loaded \cup {"deleting"}
                              /\ Here(b) = s}
    /\ UNCHANGED <<metaVars, recorded>>

---------------------------------------------------------------------------------
(* save_metadata. *)

Saving(a) == agent[a].at \in {"writing", "renaming"}

OpenTmp(a) ==
    /\ agent[a].at = "saving"
    /\ agent' = [agent EXCEPT ![a].at = "writing", ![a].fd = "tmp"]
    /\ tmp' = Torn /\ meta' = meta
    /\ overlapped' = (overlapped \/ \E b \in Agents \ {a} : Saving(b))
    /\ KeepsStore

\* Over what another has written, the end of the longer one stays.
Written(a, file) == {agent[a].seen} \cup (IF file = Torn THEN {} ELSE {Torn})
WriteTmp(a) ==
    /\ agent[a].at = "writing" /\ To(a, "renaming")
    /\ IF agent[a].fd = "tmp" THEN tmp' \in Written(a, tmp) ELSE tmp' = tmp
    /\ IF agent[a].fd = "real" THEN meta' \in Written(a, meta) ELSE meta' = meta
    /\ KeepsStore /\ overlapped' = overlapped

\* With a name goes the file: who has it open goes on writing to it.
Follows(fd) == CASE fd = "tmp" -> "real" [] fd = "real" -> "gone" [] OTHER -> fd
RenameTmp(a) ==
    /\ agent[a].at = "renaming"
    /\ IF tmp = NoFile
       THEN To(a, agent[a].then) /\ UNCHANGED <<meta, tmp>>
       ELSE /\ meta' = tmp /\ tmp' = NoFile
            /\ agent' = [b \in Agents |->
                 IF b = a THEN [agent[a] EXCEPT !.at = agent[a].then, !.fd = "none"]
                 ELSE IF Saving(b) THEN [agent[b] EXCEPT !.fd = Follows(@)] ELSE agent[b]]
    /\ KeepsStore /\ overlapped' = overlapped

\* A full disk: logged, and the process goes on.
SaveFails(a) ==
    /\ agent[a].at \in {"saving", "writing"} /\ To(a, agent[a].then)
    /\ UNCHANGED metaVars /\ KeepsStore

---------------------------------------------------------------------------------
(* The session, and post_run. *)

\* A turn: the recorder's line, and with it the context's.
Record(a, both) ==
    /\ agent[a].at = "running" /\ recorded.turns < MaxRecords
    /\ stored' = [stored EXCEPT ![Here(a)].wire = "full", ![Here(a)].dir = TRUE,
                                ![Here(a)].context = IF both THEN "full" ELSE @]
    /\ recorded' = [turns |-> recorded.turns + 1, in |-> recorded.in \cup {Here(a)}]
    /\ UNCHANGED <<metaVars, agent, shared>>

\* Context::clear, as a turn: the file is renamed away, then begun anew.
Clear(a) ==
    /\ agent[a].at = "running" /\ stored[Here(a)].wire = "full"
    /\ stored' = [stored EXCEPT ![Here(a)].context = "absent"]
    /\ To(a, "clearing") /\ UNCHANGED <<metaVars, recorded, shared>>
Cleared(a) ==
    /\ agent[a].at = "clearing"
    /\ stored' = [stored EXCEPT ![Here(a)].context = "empty"]
    /\ To(a, "running") /\ UNCHANGED <<metaVars, recorded, shared>>

\* Mutant: only the context is looked at.
ContextIsEmpty(s) == stored[s].context # "full"
IsEmpty(s) == stored[s].wire # "full" /\ stored[s].context # "full"

LoadToEnd(a) ==
    /\ agent[a].at = "running"
    /\ IF meta = Torn THEN Panics(a)
       ELSE agent' = [agent EXCEPT ![a] = [at |-> "ending", dir |-> @.dir, how |-> @.how,
                                           id |-> @.id, known |-> @.known, fd |-> "none",
                                           then |-> "ended",
                                           seen |-> meta]]
    /\ KeepsFiles /\ shared' = shared

\* An entry that another process's save has lost is made again as it was when this began.
Judge(a) ==
    /\ agent[a].at = "ending"
    /\ LET d == agent[a].dir
            last == IF agent[a].seen[d] = NoEntry THEN agent[a].known ELSE agent[a].seen[d]
       IN  agent' =
             IF ~IsEmpty(Here(a))
             THEN [agent EXCEPT ![a].at = "saving", ![a].seen[d] = agent[a].id]
             ELSE [agent EXCEPT ![a].at = "deleting",
                                ![a].seen[d] = IF last = agent[a].id THEN NoLast ELSE last]
    /\ KeepsFiles /\ shared' = shared

\* The directory of that name among the sessions: not a subagent's.
Delete(a) ==
    /\ agent[a].at = "deleting" /\ To(a, "saving")
    /\ stored' = IF agent[a].id \in SubIds THEN stored
                 ELSE [stored EXCEPT ![Here(a)] = [Nothing EXCEPT !.legacy = stored[Here(a)].legacy]]
    /\ UNCHANGED <<metaVars, recorded, shared>>

Crash(a) ==
    /\ agent[a].at \notin {"unbegun", "dead", "ended"} /\ Panics(a)
    /\ KeepsFiles /\ shared' = shared

StoreNext ==
    \/ \E a \in Agents, d \in WorkDirs, how \in {"new", "named", "continue", "context"},
          s \in SessionIds \cup SubIds : Start(a, d, how, s)
    \/ \E a \in Agents : Look(a) \/ Open(a) \/ Migrate(a) \/ CreateSession(a)
    \/ \E a \in Agents : OpenTmp(a) \/ WriteTmp(a) \/ RenameTmp(a) \/ SaveFails(a)
    \/ \E a \in Agents, both \in BOOLEAN : Record(a, both)
    \/ \E a \in Agents : Clear(a) \/ Cleared(a) \/ LoadToEnd(a) \/ Judge(a) \/ Delete(a)
    \/ \E a \in Agents : Crash(a)

StoreSpec == StoreInit /\ [][StoreNext]_storeVars

---------------------------------------------------------------------------------
HeldOf(s) == stored[s].legacy \/ ~IsEmpty(s)

\* Session::list.
Listed(d) ==
    IF meta = Torn \/ meta[d] = NoEntry THEN {}
    ELSE {s \in SessionIds : LET f == stored[<<d, s>>] IN
            Legacy(<<d, s>>) \/ (f.dir /\ f.context # "absent" /\ ~IsEmpty(<<d, s>>))}

(* session.rs:135-155, cli/mod.rs:538-575: what was said in a session stays, whoever is
   started, ends or dies while others save and clear; and the session that --continue goes
   for is one of those, listed unless its last /clear was cut in two.  Sessions that two
   processes were in at once are left out: the one may delete what the other has just begun.
   kimi.json itself is whole while one process at a time saves, whichever of them dies. *)
SessionsAreKept ==
    /\ \A s \in recorded.in \ shared : HeldOf(s)
    /\ \A d \in WorkDirs : meta # Torn /\ meta[d] \in SessionIds =>
         LET s == <<d, meta[d]>> IN
         s \in shared \/ (s \in recorded.in /\ (stored[s].context = "absent" \/ meta[d] \in Listed(d)))
    /\ ~overlapped => meta # Torn

(* Does not hold, metadata.rs:174-175: two that save at once share kimi.json.tmp, and the
   second's is renamed while it is written. *)
NeverHalfWritten == meta # Torn

(* Does not hold, cli/mod.rs:66 "Continue the previous session for the working directory.":
   a subagent's process ends as every other does, and is then the previous session, which
   --continue does not find. *)
ContinueFindsOne == \A d \in WorkDirs : meta # Torn => meta[d] \notin SubIds
=================================================================================
