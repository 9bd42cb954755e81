------------------------------- MODULE CachedKaos -------------------------------
(***************************************************************************)
(* The working directory as the file tools see it: kaos/src/cached.rs.     *)
(*                                                                         *)
(* One list of its paths is kept for glob, with the count of changes it is  *)
(* valid as of; every change made through it counts on both sides, a       *)
(* command when it starts and when its handle goes.  What a file held is   *)
(* put on a bounded history before it is written, for the Undo tool.       *)
(*                                                                         *)
(* The tool calls of a step run side by side, and each awaits the file      *)
(* system several times.  A background command (tools/shell.rs) and the     *)
(* other processes of the machine write without being counted.             *)
(***************************************************************************)
EXTENDS Naturals, Sequences, FiniteSets, SequencesExt

CONSTANTS
    Paths,
    Writers,        \* calls that write a file or make a directory
    Readers,        \* calls that glob
    MaxWrites,      \* bound: writes, directories, commands
    MaxUndoEntries, \* MAX_UNDO_ENTRIES
    MaxUndoBytes    \* MAX_UNDO_BYTES, in files of the one size that is kept

ASSUME KaosAssumption ==
    MaxWrites \in Nat /\ MaxUndoEntries \in Nat \ {0} /\ MaxUndoBytes \in Nat \ {0}

VARIABLES
    disk,           \* what is at each path: "big" is more than MAX_UNDO_FILE_BYTES
    first,          \* history: what was there when the session began
    mutations,      \* CachedKaos::mutations
    listing,        \* CachedKaos::index: its paths and its generation
    undoLog,        \* CachedKaos::write_history
    writer,         \* each writing call: where it is, its path, what it found there
    reader,         \* each glob: where it is, the generation it read, what it has walked
    undoing,        \* the steps an undo that holds the history has left; it has not
                    \* begun ("no"), or is about to count its change
    command,        \* a command: none, alive, or gone with its handle held
    loose,          \* history: something writes that is not counted
    begun,          \* calls begun
    excused         \* history: the paths undo does not promise to put back

filesVars == <<disk, first>>
indexVars == <<mutations, listing>>
kaosVars == <<filesVars, indexVars, undoLog, writer, reader, undoing, command, loose,
              begun, excused>>

Idle == [at |-> "idle"]
Unscanned == [generation |-> 0, paths |-> {"unscanned"}]
Files == {"old", "new", "big"}

KaosTypeOK ==
    /\ disk \in [Paths -> Files \cup {"none", "dir"}]
    /\ mutations \in Nat /\ listing.generation \in 0..mutations
    /\ Len(undoLog) =< MaxUndoEntries
    /\ \A e \in ToSet(undoLog) :
         e.path \in Paths /\ e.original \in {"old", "new", "none", "unrecorded"}
    /\ Cardinality({i \in DOMAIN undoLog : undoLog[i].original \in Files}) =< MaxUndoBytes
    /\ undoing.left \in Nat /\ undoing.left =< Len(undoLog)

There == {p \in Paths : disk[p] # "none"}

\* The first scan, unless it failed.
KaosInit ==
    /\ disk \in [Paths -> {"none", "old", "big"}] /\ first = disk
    /\ mutations = 0
    /\ listing \in {Unscanned, [generation |-> 0, paths |-> There]}
    /\ undoLog = <<>>
    /\ writer = [w \in Writers |-> Idle] /\ reader = [r \in Readers |-> Idle]
    /\ undoing = [at |-> "no", left |-> 0]
    /\ command = "none" /\ loose = FALSE /\ begun = 0 /\ excused = {}

Begin == begun < MaxWrites /\ begun' = begun + 1
MarkDirty == mutations' = mutations + 1

---------------------------------------------------------------------------------
(* write_bytes, write_text and mkdir. *)

\* What is too large, or cannot be read, is not recorded.
Original(p) == IF disk[p] \in {"big", "dir"} THEN "unrecorded" ELSE disk[p]

LooksBeforeWriting(w) ==
    /\ writer[w].at = "idle" /\ Begin
    /\ \E p \in Paths :
         writer' = [writer EXCEPT ![w] = [at |-> "looked", path |-> p, found |-> Original(p)]]
    /\ UNCHANGED <<filesVars, indexVars, undoLog, reader, undoing, command, loose, excused>>

\* The oldest go until both caps are kept.
Retained(log) == Cardinality({i \in DOMAIN log : log[i].original \in Files})

TrimHistory(log) ==
    LET fits(d) == Len(log) - d =< MaxUndoEntries
                     /\ Retained(SubSeq(log, d + 1, Len(log))) =< MaxUndoBytes
        dropped == CHOOSE d \in 0..Len(log) : fits(d) /\ \A e \in 0 .. d - 1 : ~fits(e)
    IN SubSeq(log, dropped + 1, Len(log))

RecordWrite(w) ==
    /\ writer[w].at = "looked" /\ undoing.at = "no"
    /\ LET log == Append(undoLog, [path |-> writer[w].path, original |-> writer[w].found]) IN
         /\ undoLog' = TrimHistory(log)
         /\ excused' = excused
                \cup {e.path : e \in ToSet(SubSeq(log, 1, Len(log) - Len(undoLog')))}
                \cup (IF writer[w].found = "unrecorded" THEN {writer[w].path} ELSE {})
    /\ MarkDirty
    /\ writer' = [writer EXCEPT ![w].at = "writing"]
    /\ UNCHANGED <<filesVars, listing, reader, undoing, command, loose, begun>>

\* It may fail, as it does where a directory is.
WriteLands(w) ==
    /\ writer[w].at = "writing"
    /\ \/ disk' = disk
       \/ /\ disk[writer[w].path] # "dir"
          /\ \E data \in {"new", "big"} : disk' = [disk EXCEPT ![writer[w].path] = data]
    /\ writer' = [writer EXCEPT ![w].at = "wrote"]
    /\ UNCHANGED <<first, indexVars, undoLog, reader, undoing, command, loose, begun, excused>>

MkdirBegins(w) ==
    /\ writer[w].at = "idle" /\ Begin
    /\ MarkDirty
    /\ \E p \in Paths : writer' = [writer EXCEPT ![w] = [at |-> "making", path |-> p]]
    /\ UNCHANGED <<filesVars, listing, undoLog, reader, undoing, command, loose, excused>>

MkdirLands(w) ==
    /\ writer[w].at = "making"
    /\ LET p == writer[w].path IN
         disk' = [disk EXCEPT ![p] = IF @ = "none" THEN "dir" ELSE @]
    /\ excused' = excused \cup {writer[w].path}
    /\ writer' = [writer EXCEPT ![w].at = "wrote"]
    /\ UNCHANGED <<first, indexVars, undoLog, reader, undoing, command, loose, begun>>

\* Mutant: only the first side of a change is counted.
ReturnsUncounted(w) ==
    /\ writer[w].at = "wrote"
    /\ writer' = [writer EXCEPT ![w] = Idle]
    /\ UNCHANGED <<filesVars, indexVars, undoLog, reader, undoing, command, loose, begun, excused>>

Returns(w) ==
    /\ writer[w].at = "wrote"
    /\ MarkDirty
    /\ writer' = [writer EXCEPT ![w] = Idle]
    /\ UNCHANGED <<filesVars, listing, undoLog, reader, undoing, command, loose, begun, excused>>

---------------------------------------------------------------------------------
(* undo holds the history from its first step to its last. *)

Undo ==
    /\ undoing.at = "no"
    /\ \E steps \in 1..Len(undoLog) : undoing' = [at |-> "popping", left |-> steps]
    /\ UNCHANGED <<filesVars, indexVars, undoLog, writer, reader, command, loose, begun, excused>>

\* Not where a directory is.
PutBack(e) ==
    disk' = [disk EXCEPT ![e.path] =
                 IF e.original = "unrecorded" \/ @ = "dir" THEN @ ELSE e.original]

\* A write on its way to a path makes what it leaves there anybody's guess.
Underway(p) == \E w \in Writers : writer[w].at \in {"looked", "writing"} /\ writer[w].path = p

\* Mutant: the oldest write is taken back first.
PopOldest(e) == e = Head(undoLog) /\ undoLog' = Tail(undoLog)

Pop(e) == e = Last(undoLog) /\ undoLog' = Front(undoLog)

\* Putting it back may fail; the entry is used up.
UndoOne ==
    /\ undoing.at = "popping" /\ undoing.left > 0
    /\ \E e \in ToSet(undoLog) :
         /\ Pop(e)
         /\ \E fails \in BOOLEAN :
              /\ IF fails THEN disk' = disk ELSE PutBack(e)
              /\ excused' = IF fails \/ Underway(e.path) \/ disk[e.path] = "dir"
                            THEN excused \cup {e.path} ELSE excused
    /\ undoing' = [undoing EXCEPT !.left = @ - 1]
    /\ UNCHANGED <<first, indexVars, writer, reader, command, loose, begun>>

UndoReturns ==
    /\ undoing.at = "popping" /\ undoing.left = 0
    /\ MarkDirty
    /\ undoing' = [undoing EXCEPT !.at = "no"]
    /\ UNCHANGED <<filesVars, listing, undoLog, writer, reader, command, loose, begun, excused>>

---------------------------------------------------------------------------------
(* glob within the working directory: get_paths. *)

\* A glob that finds the index current reads no further.
ReadsMutations(r) ==
    /\ reader[r].at = "idle"
    /\ listing = Unscanned \/ listing.generation # mutations
    /\ reader' = [reader EXCEPT ![r] =
                     [at |-> "walking", generation |-> mutations, left |-> Paths, seen |-> {}]]
    /\ UNCHANGED <<filesVars, indexVars, undoLog, writer, undoing, command, loose, begun, excused>>

Walks(r) ==
    /\ reader[r].at = "walking"
    /\ \E p \in reader[r].left :
         reader' = [reader EXCEPT ![r].left = @ \ {p},
                                  ![r].seen = IF p \in There THEN @ \cup {p} ELSE @]
    /\ UNCHANGED <<filesVars, indexVars, undoLog, writer, undoing, command, loose, begun, excused>>

\* Only a walk that no change has overtaken is for others to use.
Compares(r) ==
    /\ reader[r].at = "walking" /\ reader[r].left = {}
    /\ reader' = [reader EXCEPT ![r] =
                     IF @.generation = mutations THEN [@ EXCEPT !.at = "current"] ELSE Idle]
    /\ UNCHANGED <<filesVars, indexVars, undoLog, writer, undoing, command, loose, begun, excused>>

Publishes(r) ==
    /\ reader[r].at = "current"
    /\ listing' = IF listing # Unscanned /\ listing.generation > reader[r].generation
                  THEN listing
                  ELSE [generation |-> reader[r].generation, paths |-> reader[r].seen]
    /\ reader' = [reader EXCEPT ![r] = Idle]
    /\ UNCHANGED <<filesVars, mutations, undoLog, writer, undoing, command, loose, begun, excused>>

---------------------------------------------------------------------------------
(* exec, and what commands do. *)

Exec ==
    /\ command = "none" /\ Begin
    /\ MarkDirty
    /\ command' \in {"alive", "none"}
    /\ UNCHANGED <<filesVars, listing, undoLog, writer, reader, undoing, loose, excused>>

CommandWrites ==
    /\ command = "alive" \/ loose
    /\ \E p \in Paths, data \in {"none", "new"} :
         disk' = [disk EXCEPT ![p] = data] /\ excused' = excused \cup {p}
    /\ UNCHANGED <<first, indexVars, undoLog, writer, reader, undoing, command, loose, begun>>

CommandExits ==
    /\ command = "alive" /\ command' = "gone"
    /\ UNCHANGED <<filesVars, indexVars, undoLog, writer, reader, undoing, loose, begun, excused>>

\* Waited for, or killed: its handle is dropped.  Or it is dropped as it is, its output
\* unreadable, and the command goes on.
HandleDropped ==
    /\ command \in {"alive", "gone"} /\ command' = "none"
    /\ loose' = (loose \/ command = "alive")
    /\ MarkDirty
    /\ UNCHANGED <<filesVars, listing, undoLog, writer, reader, undoing, begun, excused>>

BackgroundCommand ==
    /\ ~loose /\ loose' = TRUE /\ Begin
    /\ UNCHANGED <<filesVars, indexVars, undoLog, writer, reader, undoing, command, excused>>

---------------------------------------------------------------------------------
KaosNext ==
    \/ \E w \in Writers :
         \/ LooksBeforeWriting(w) \/ RecordWrite(w) \/ WriteLands(w)
         \/ MkdirBegins(w) \/ MkdirLands(w) \/ Returns(w)
    \/ Undo \/ UndoOne \/ UndoReturns
    \/ \E r \in Readers : ReadsMutations(r) \/ Walks(r) \/ Compares(r) \/ Publishes(r)
    \/ Exec \/ CommandWrites \/ CommandExits \/ HandleDropped \/ BackgroundCommand

KaosSpec == KaosInit /\ [][KaosNext]_kaosVars

---------------------------------------------------------------------------------
(* cached.rs:43-49: a listing that would be used lists what there is, whatever was
   changed while it was walked, once the changes under way are over; but for changes
   that nobody counts. *)
IndexIsCurrent ==
    /\ listing # Unscanned /\ listing.generation = mutations
    /\ \A w \in Writers : writer[w].at \in {"idle", "looked"}
    /\ undoing.at = "no" /\ command = "none" /\ ~loose
    => listing.paths = There

(* cached.rs:194-224: when the history is undone to its bottom, every file is as it was
   and those that were not there are gone, whatever was written twice, written side by
   side or could not be written; but for what left the history otherwise, was changed
   behind its back, or was being written as it was undone. *)
UndoTakesBack ==
    /\ undoLog = <<>> /\ undoing.at = "no"
    /\ \A w \in Writers : writer[w].at = "idle"
    => \A p \in Paths \ excused : disk[p] = first[p]
=================================================================================
