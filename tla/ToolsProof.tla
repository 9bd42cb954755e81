------------------------------- MODULE ToolsProof -------------------------------
(***************************************************************************)
(* What the tools of an agent stand on, for any number of paths, calls,    *)
(* clients and servers: the working directory as they see it, the table    *)
(* they are found in, and what their calls may do to a file.               *)
(***************************************************************************)
EXTENDS CachedKaos, ToolTable, FileTools, SequenceTheorems, FiniteSetTheorems,
    WellFoundedInduction, TLAPS

---------------------------------------------------------------------------------
(* The history of writes. *)

\* A set of naturals that is not empty has a least member.
LEMMA LeastOf ==
    ASSUME NEW S \in SUBSET Nat, S # {}
    PROVE  \E m \in S : \A k \in S : m <= k
<1> DEFINE R == OpToRel(<, Nat)
<1>1. IsWellFoundedOn(R, Nat)
  BY NatLessThanWellFounded
<1>2. R = {ss \in Nat \X Nat : ss[1] < ss[2]}
  BY Zenon DEF OpToRel
<1> HIDE DEF R
<1>3. \E m \in S : \A k \in S : ~(<<k, m>> \in R)
  BY <1>1, WFMin
<1>4. PICK m \in S : \A k \in S : ~(<<k, m>> \in R)
  BY <1>3
<1>5. ASSUME NEW k \in S PROVE m <= k
  <2>1. ~(k < m)
    BY <1>2, <1>4
  <2>2. QED
    BY <2>1
<1>6. QED
  BY <1>5

UndoEntry == [path : Paths, original : {"old", "new", "none", "unrecorded"}]

\* What is trimmed goes from the old end, and what is left is within both caps.
LEMMA TrimKeepsTheEnd ==
    ASSUME NEW log \in Seq(UndoEntry)
    PROVE  /\ \E d \in 0..Len(log) : TrimHistory(log) = SubSeq(log, d + 1, Len(log))
           /\ Len(TrimHistory(log)) =< MaxUndoEntries
           /\ Retained(TrimHistory(log)) =< MaxUndoBytes
<1> DEFINE fits(d) == /\ Len(log) - d =< MaxUndoEntries
                      /\ Retained(SubSeq(log, d + 1, Len(log))) =< MaxUndoBytes
           S == {d \in 0..Len(log) : fits(d)}
           least(d) == fits(d) /\ \A e \in 0 .. d - 1 : ~fits(e)
<1>1. fits(Len(log))
  <2>1. SubSeq(log, Len(log) + 1, Len(log)) = <<>>
    OBVIOUS
  <2>2. {i \in DOMAIN <<>> : <<>>[i].original \in Files} = {}
    OBVIOUS
  <2>3. Retained(<<>>) = 0
    BY <2>2, FS_EmptySet, Zenon DEF Retained
  <2>4. Retained(SubSeq(log, Len(log) + 1, Len(log))) = 0
    BY <2>1, <2>3
  <2>5. Len(log) - Len(log) =< MaxUndoEntries
    BY KaosAssumption
  <2>6. QED
    BY <2>4, <2>5, KaosAssumption
<1> HIDE DEF fits
<1>2. \E m \in S : \A k \in S : m <= k
  <2>1. S \in SUBSET Nat /\ S # {}
    BY <1>1
  <2> HIDE DEF S
  <2>2. QED
    BY <2>1, LeastOf
<1>3. \E d \in 0..Len(log) : least(d)
  <2>1. PICK m \in S : \A k \in S : m <= k
    BY <1>2
  <2>2. \A e \in 0 .. m - 1 : ~fits(e)
    BY <2>1
  <2>3. QED
    BY <2>1, <2>2
<1>4. TrimHistory(log) = SubSeq(log, (CHOOSE d \in 0..Len(log) : least(d)) + 1, Len(log))
  BY DEF TrimHistory, fits
<1> HIDE DEF least
<1>5. (CHOOSE d \in 0..Len(log) : least(d)) \in 0..Len(log)
  BY <1>3
<1>6. PICK d \in 0..Len(log) : TrimHistory(log) = SubSeq(log, d + 1, Len(log)) /\ fits(d)
  <2>1. fits(CHOOSE d \in 0..Len(log) : least(d))
    <3>1. least(CHOOSE d \in 0..Len(log) : least(d))
      BY <1>3
    <3>2. QED
      BY <3>1 DEF least
  <2>2. QED
    BY <1>4, <1>5, <2>1
<1>7. Len(SubSeq(log, d + 1, Len(log))) = Len(log) - d
  OBVIOUS
<1>8. QED
  BY <1>6, <1>7 DEF fits

---------------------------------------------------------------------------------
(* The working directory: its types, the list of its paths, the history of writes. *)

WritingCall ==
    [at : {"looked", "writing", "wrote"}, path : Paths,
     found : {"old", "new", "none", "unrecorded"}]
MakingCall == [at : {"making", "wrote"}, path : Paths]
Walk == [at : {"walking", "current"}, generation : Nat, left : SUBSET Paths, seen : SUBSET Paths]
Listing == [generation : Nat, paths : SUBSET Paths]

KaosTypes ==
    /\ disk \in [Paths -> {"old", "new", "big", "none", "dir"}]
    /\ first \in [Paths -> {"old", "big", "none"}]
    /\ mutations \in Nat
    /\ listing \in Listing \cup {Unscanned}
    /\ writer \in [Writers -> WritingCall \cup MakingCall \cup {Idle}]
    /\ reader \in [Readers -> Walk \cup {Idle}]
    /\ undoing \in [at : {"no", "popping"}, left : Nat]
    /\ undoLog \in Seq(UndoEntry)
    /\ excused \subseteq Paths

\* Something is on its way to the disk, or may be.
Unsettled ==
    \/ \E w \in Writers : writer[w].at \in {"writing", "making", "wrote"}
    \/ undoing.at = "popping" \/ command # "none" \/ loose

\* What was seen of the disk, but for what is left to see, is what is there, unless a
\* change has been counted since or is under way.
Current(generation, left, found) ==
    /\ generation <= mutations
    /\ generation = mutations /\ ~Unsettled =>
         \A p \in Paths \ left : p \in found <=> disk[p] # "none"

IndexInv ==
    /\ \A r \in Readers : reader[r] # Idle =>
         /\ Current(reader[r].generation, reader[r].left, reader[r].seen)
         /\ reader[r].seen \cap reader[r].left = {}
         /\ reader[r].at = "current" => reader[r].left = {}
    /\ listing # Unscanned => Current(listing.generation, {}, listing.paths)

Recorded(p) == \E i \in DOMAIN undoLog : undoLog[i].path = p
Oldest(i) == \A j \in 1 .. i - 1 : undoLog[j].path # undoLog[i].path

(* The oldest entry of a path holds what was there at first; a path without one is as it
   was, and whoever has looked at it to write it has found it so. *)
UndoOf(p) ==
    /\ \A i \in DOMAIN undoLog :
         undoLog[i].path = p /\ Oldest(i) => undoLog[i].original = first[p]
    /\ ~Recorded(p) =>
         /\ disk[p] = first[p]
         /\ \A w \in Writers : writer[w].at \in {"looked", "writing"} /\ writer[w].path = p =>
              writer[w].at = "looked" /\ writer[w].found \in {first[p], "unrecorded"}

UndoInv == \A p \in Paths \ excused : UndoOf(p)

(* Neither cap of the history is exceeded, and an undo has no more to take back than there
   is. *)
HistoryInv ==
    /\ Len(undoLog) =< MaxUndoEntries
    /\ Retained(undoLog) =< MaxUndoBytes
    /\ undoing.left =< Len(undoLog)
    /\ undoing.at = "no" => undoing.left = 0

KaosInv == KaosTypes /\ IndexInv /\ UndoInv /\ HistoryInv

---------------------------------------------------------------------------------
(* The three parts, for steps of a kind. *)

\* A step that counts a change outdates everything that was seen before it.
LEMMA CountedStep ==
    ASSUME KaosTypes, IndexInv, MarkDirty, UNCHANGED <<listing, reader>>
    PROVE  IndexInv'
BY DEF KaosTypes, IndexInv, MarkDirty, Current, Walk, Listing, Idle, Unscanned

\* A step that does not count one leaves the disk alone, or something is under way after
\* it; what was under way before it still is.
LEMMA UncountedStep ==
    ASSUME KaosTypes, IndexInv, UNCHANGED <<mutations, listing, reader>>,
           Unsettled => Unsettled', Unsettled' \/ UNCHANGED disk
    PROVE  IndexInv'
<1>1. ASSUME NEW g, NEW left, NEW found, Current(g, left, found)
      PROVE  /\ g <= mutations'
             /\ g = mutations' /\ ~Unsettled' =>
                  \A p \in Paths \ left : p \in found <=> disk'[p] # "none"
  BY <1>1 DEF Current
<1>2. QED
  BY <1>1 DEF IndexInv, Current

\* A step that leaves the history and those who are to write as they are.
LEMMA UnrecordedStep ==
    ASSUME KaosTypes, UndoInv, UNCHANGED <<first, undoLog>>, excused \subseteq excused',
           \A p \in Paths \ excused' : ~Recorded(p) => disk'[p] = disk[p],
           \A w \in Writers : writer'[w].at \in {"looked", "writing"} => writer'[w] = writer[w]
    PROVE  UndoInv'
BY DEF UndoInv, UndoOf, Recorded, Oldest

---------------------------------------------------------------------------------
(* Writing. *)

\* A call that is about to write looks at what is there.
LEMMA LooksStep ==
    ASSUME KaosInv, NEW w \in Writers, LooksBeforeWriting(w)
    PROVE  KaosInv'
<1>1. PICK p \in Paths :
        writer' = [writer EXCEPT ![w] = [at |-> "looked", path |-> p, found |-> Original(p)]]
  BY DEF LooksBeforeWriting
<1>2. /\ UNCHANGED <<filesVars, indexVars, undoLog, reader, undoing, command, loose, excused>>
      /\ writer[w].at = "idle"
  BY DEF LooksBeforeWriting
<1>3. KaosTypes'
  <2>1. Original(p) \in {"old", "new", "none", "unrecorded"}
    BY DEF KaosInv, KaosTypes, Original
  <2>2. writer'[w] \in WritingCall
    BY <1>1, <2>1 DEF WritingCall, KaosInv, KaosTypes
  <2>3. QED
    BY <1>1, <1>2, <2>2 DEF KaosInv, KaosTypes, filesVars, indexVars
<1>4. IndexInv'
  <2>1. Unsettled => Unsettled'
    BY <1>1, <1>2 DEF Unsettled, KaosInv, KaosTypes
  <2>2. QED
    BY <1>2, <2>1, UncountedStep DEF KaosInv, filesVars, indexVars
<1>5. UndoInv'
  <2> SUFFICES ASSUME NEW q \in Paths \ excused
               PROVE  UndoOf(q)'
    BY <1>2 DEF UndoInv
  <2>1. UndoOf(q)
    BY DEF KaosInv, UndoInv
  <2>2. ASSUME ~Recorded(q), p = q
        PROVE  Original(p) \in {first[p], "unrecorded"}
    BY <2>1, <2>2 DEF UndoOf, Original
  <2>3. QED
    BY <1>1, <1>2, <2>1, <2>2 DEF UndoOf, Recorded, Oldest, KaosInv, KaosTypes, filesVars
<1>6. HistoryInv'
  BY <1>2 DEF KaosInv, HistoryInv
<1>7. QED
  BY <1>3, <1>4, <1>5, <1>6 DEF KaosInv

\* A write is recorded, and counted, before it is made.
LEMMA RecordStep ==
    ASSUME KaosInv, NEW w \in Writers, RecordWrite(w)
    PROVE  KaosInv'
<1> DEFINE e == [path |-> writer[w].path, original |-> writer[w].found]
           log == Append(undoLog, e)
<1>1. /\ writer[w].at = "looked" /\ undoing.at = "no" /\ MarkDirty
      /\ undoLog' = TrimHistory(log)
      /\ excused' = excused
             \cup {f.path : f \in ToSet(SubSeq(log, 1, Len(log) - Len(undoLog')))}
             \cup (IF writer[w].found = "unrecorded" THEN {writer[w].path} ELSE {})
      /\ writer' = [writer EXCEPT ![w].at = "writing"]
      /\ UNCHANGED <<filesVars, listing, reader, undoing, command, loose, begun>>
  BY DEF RecordWrite
<1>2. writer[w] \in WritingCall
  BY <1>1 DEF KaosInv, KaosTypes, MakingCall, Idle
<1>3. /\ e \in UndoEntry /\ e.path = writer[w].path /\ e.original = writer[w].found
      /\ undoLog \in Seq(UndoEntry) /\ log \in Seq(UndoEntry)
      /\ Len(log) = Len(undoLog) + 1 /\ log[Len(log)] = e
      /\ \A i \in 1..Len(undoLog) : log[i] = undoLog[i]
  BY <1>2 DEF WritingCall, UndoEntry, KaosInv, KaosTypes
<1> HIDE DEF log, e
<1>4. PICK d \in 0..Len(log) : undoLog' = SubSeq(log, d + 1, Len(log))
  BY <1>1, <1>3, TrimKeepsTheEnd
<1>5. /\ undoLog' \in Seq(UndoEntry) /\ Len(undoLog') = Len(log) - d
      /\ \A i \in 1 .. Len(log) - d : undoLog'[i] = log[d + i]
  BY <1>3, <1>4
<1>6. \A i \in 1..d : log[i].path \in excused'
  <2> SUFFICES ASSUME NEW i \in 1..d
               PROVE  log[i].path \in excused'
    OBVIOUS
  <2>1. Len(log) - Len(undoLog') = d /\ Len(log) \in Nat
    BY <1>3, <1>5
  <2>2. i \in DOMAIN SubSeq(log, 1, d) /\ SubSeq(log, 1, d)[i] = log[i]
    BY <1>3, <2>1
  <2>3. log[i] \in ToSet(SubSeq(log, 1, Len(log) - Len(undoLog')))
    BY <2>1, <2>2 DEF ToSet
  <2>4. QED
    BY <1>1, <2>3
<1>7. KaosTypes'
  <2>1. writer'[w] \in WritingCall
    BY <1>1, <1>2 DEF WritingCall, KaosInv, KaosTypes
  <2>2. excused' \subseteq Paths
    <3>1. \A f \in ToSet(SubSeq(log, 1, Len(log) - Len(undoLog'))) : f.path \in Paths
      <4>1. Len(log) - Len(undoLog') = d /\ Len(log) \in Nat
        BY <1>3, <1>5
      <4>2. \A i \in 1..d : SubSeq(log, 1, d)[i] = log[i] /\ log[i] \in UndoEntry
        BY <1>3, <4>1
      <4>3. DOMAIN SubSeq(log, 1, d) = 1..d
        BY <1>3, <4>1
      <4>4. QED
        BY <4>1, <4>2, <4>3 DEF ToSet, UndoEntry
    <3>2. writer[w].path \in Paths /\ excused \subseteq Paths
      BY <1>2 DEF WritingCall, KaosInv, KaosTypes
    <3>3. QED
      BY <1>1, <3>1, <3>2
  <2>3. mutations' \in Nat
    BY <1>1 DEF MarkDirty, KaosInv, KaosTypes
  <2>4. QED
    BY <1>1, <1>5, <2>1, <2>2, <2>3 DEF KaosInv, KaosTypes, filesVars
<1>8. IndexInv'
  BY <1>1, CountedStep DEF KaosInv
<1>9. UndoInv'
  <2> SUFFICES ASSUME NEW q \in Paths \ excused'
               PROVE  UndoOf(q)'
    BY DEF UndoInv
  <2>1. UndoOf(q) /\ q \notin excused
    BY <1>1 DEF KaosInv, UndoInv
  <2>2. \A i \in 1..d : log[i].path # q
    BY <1>6
  <2>4. ASSUME NEW i \in DOMAIN undoLog', undoLog'[i].path = q, Oldest(i)'
        PROVE  undoLog'[i].original = first'[q]
    <3>1. i \in 1 .. Len(log) - d /\ undoLog'[i] = log[d + i] /\ d + i \in 1..Len(log)
      BY <2>4, <1>3, <1>5
    <3>2. \A j \in 1 .. (d + i) - 1 : log[j].path # q
      <4> SUFFICES ASSUME NEW j \in 1 .. (d + i) - 1, j > d
                   PROVE  log[j].path # q
        <5>1. \A j \in 1 .. (d + i) - 1 : j > d \/ j \in 1..d
          BY <3>1
        <5>2. QED
          BY <2>2, <5>1
      <4>1. j - d \in 1 .. i - 1 /\ j - d \in 1 .. Len(log) - d
        BY <3>1
      <4>2. undoLog'[j - d] = log[j]
        BY <1>5, <4>1
      <4>3. QED
        BY <2>4, <4>1, <4>2 DEF Oldest
    <3>3. CASE d + i = Len(log)
      <4>1. ~Recorded(q)
        <5>1. \A k \in 1..Len(undoLog) : k \in 1 .. (d + i) - 1 /\ log[k] = undoLog[k]
          BY <1>3, <3>1, <3>3
        <5>2. \A k \in 1..Len(undoLog) : undoLog[k].path # q
          BY <3>2, <5>1
        <5>3. QED
          BY <1>3, <5>2 DEF Recorded
      <4>2. e.path = q /\ e.original = writer[w].found
        BY <1>3, <2>4, <3>1, <3>3
      <4>3. writer[w].found = first[q]
        <5>1. writer[w].path = q /\ writer[w].found # "unrecorded"
          BY <1>1, <1>3, <4>2
        <5>2. QED
          BY <1>1, <2>1, <4>1, <5>1 DEF UndoOf
      <4>4. QED
        BY <1>1, <1>3, <3>1, <3>3, <4>2, <4>3 DEF filesVars
    <3>4. CASE d + i # Len(log)
      <4>1. d + i \in DOMAIN undoLog /\ log[d + i] = undoLog[d + i]
        BY <1>3, <3>1, <3>4
      <4>2. Oldest(d + i)
        <5>1. \A j \in 1 .. (d + i) - 1 : log[j] = undoLog[j]
          BY <1>3, <3>1, <3>4
        <5>2. \A j \in 1 .. (d + i) - 1 : undoLog[j].path # undoLog[d + i].path
          BY <2>4, <3>1, <3>2, <4>1, <5>1
        <5>3. QED
          BY <5>2 DEF Oldest
      <4>3. QED
        BY <1>1, <2>1, <2>4, <3>1, <4>1, <4>2 DEF UndoOf, filesVars
    <3>5. QED
      BY <3>3, <3>4
  <2>5. ASSUME ~Recorded(q)'
        PROVE  ~Recorded(q) /\ writer[w].path # q
    <3>1. \A i \in 1..Len(log) : log[i].path # q
      <4> SUFFICES ASSUME NEW i \in 1..Len(log), i > d
                   PROVE  log[i].path # q
        BY <2>2
      <4>1. i - d \in 1 .. Len(log) - d /\ i - d \in DOMAIN undoLog'
        BY <1>3, <1>5
      <4>2. undoLog'[i - d] = log[i]
        BY <1>5, <4>1
      <4>3. QED
        BY <2>5, <4>1, <4>2 DEF Recorded
    <3>2. QED
      BY <1>3, <3>1 DEF Recorded
  <2>6. QED
    BY <1>1, <2>1, <2>4, <2>5 DEF UndoOf, filesVars, KaosInv, KaosTypes
<1>10. HistoryInv'
  <2>1. Len(undoLog') =< MaxUndoEntries /\ Retained(undoLog') =< MaxUndoBytes
    BY <1>1, <1>3, TrimKeepsTheEnd
  <2>2. QED
    BY <1>1, <2>1 DEF HistoryInv, KaosInv
<1>11. QED
  BY <1>7, <1>8, <1>9, <1>10 DEF KaosInv

\* What a write leaves on the disk is under a path that is recorded, or excused.
LEMMA WriteLandsStep ==
    ASSUME KaosInv, NEW w \in Writers, WriteLands(w)
    PROVE  KaosInv'
<1>1. /\ writer[w].at = "writing" /\ writer' = [writer EXCEPT ![w].at = "wrote"]
      /\ UNCHANGED <<first, indexVars, undoLog, reader, undoing, command, loose, begun, excused>>
      /\ disk' \in [Paths -> {"old", "new", "big", "none", "dir"}]
      /\ \A p \in Paths : p # writer[w].path => disk'[p] = disk[p]
  BY DEF WriteLands, KaosInv, KaosTypes
<1>2. writer[w] \in WritingCall
  BY <1>1 DEF KaosInv, KaosTypes, MakingCall, Idle
<1>3. writer'[w] \in WritingCall /\ writer'[w].at = "wrote"
  BY <1>1, <1>2 DEF WritingCall, KaosInv, KaosTypes
<1>4. KaosTypes'
  BY <1>1, <1>3 DEF KaosInv, KaosTypes, indexVars
<1>5. IndexInv'
  <2>1. Unsettled'
    BY <1>3 DEF Unsettled
  <2>2. QED
    BY <1>1, <2>1, UncountedStep DEF KaosInv, indexVars
<1>6. UndoInv'
  <2>1. ASSUME NEW p \in Paths \ excused', ~Recorded(p)
        PROVE  disk'[p] = disk[p]
    BY <1>1, <2>1 DEF KaosInv, UndoInv, UndoOf
  <2>2. \A v \in Writers : writer'[v].at \in {"looked", "writing"} => writer'[v] = writer[v]
    BY <1>1, <1>3 DEF KaosInv, KaosTypes
  <2>3. QED
    BY <1>1, <2>1, <2>2, UnrecordedStep DEF KaosInv
<1>7. HistoryInv'
  BY <1>1 DEF KaosInv, HistoryInv, Retained
<1>8. QED
  BY <1>4, <1>5, <1>6, <1>7 DEF KaosInv

\* A directory begins to be made: counted.
LEMMA MkdirBeginsStep ==
    ASSUME KaosInv, NEW w \in Writers, MkdirBegins(w)
    PROVE  KaosInv'
<1>1. PICK p \in Paths : writer' = [writer EXCEPT ![w] = [at |-> "making", path |-> p]]
  BY DEF MkdirBegins
<1>2. /\ MarkDirty
      /\ UNCHANGED <<filesVars, listing, undoLog, reader, undoing, command, loose, excused>>
  BY DEF MkdirBegins
<1>3. KaosTypes'
  BY <1>1, <1>2 DEF KaosInv, KaosTypes, MakingCall, MarkDirty, filesVars
<1>4. IndexInv'
  BY <1>2, CountedStep DEF KaosInv
<1>5. UndoInv'
  <2>1. \A v \in Writers : writer'[v].at \in {"looked", "writing"} => writer'[v] = writer[v]
    BY <1>1 DEF KaosInv, KaosTypes
  <2>2. QED
    BY <1>2, <2>1, UnrecordedStep DEF KaosInv, filesVars
<1>6. HistoryInv'
  BY <1>2 DEF KaosInv, HistoryInv, Retained
<1>7. QED
  BY <1>3, <1>4, <1>5, <1>6 DEF KaosInv

\* A directory is made where nothing was.
LEMMA MkdirLandsStep ==
    ASSUME KaosInv, NEW w \in Writers, MkdirLands(w)
    PROVE  KaosInv'
<1>1. /\ writer[w].at = "making" /\ writer' = [writer EXCEPT ![w].at = "wrote"]
      /\ excused' = excused \cup {writer[w].path}
      /\ UNCHANGED <<first, indexVars, undoLog, reader, undoing, command, loose, begun>>
      /\ disk' \in [Paths -> {"old", "new", "big", "none", "dir"}]
      /\ \A p \in Paths : p # writer[w].path => disk'[p] = disk[p]
  BY DEF MkdirLands, KaosInv, KaosTypes
<1>2. writer[w] \in MakingCall
  BY <1>1 DEF KaosInv, KaosTypes, WritingCall, Idle
<1>3. writer'[w] \in MakingCall /\ writer'[w].at = "wrote" /\ writer[w].path \in Paths
  BY <1>1, <1>2 DEF MakingCall, KaosInv, KaosTypes
<1>4. KaosTypes'
  BY <1>1, <1>3 DEF KaosInv, KaosTypes, indexVars
<1>5. IndexInv'
  <2>1. Unsettled'
    BY <1>3 DEF Unsettled
  <2>2. QED
    BY <1>1, <2>1, UncountedStep DEF KaosInv, indexVars
<1>6. UndoInv'
  <2>1. \A v \in Writers : writer'[v].at \in {"looked", "writing"} => writer'[v] = writer[v]
    BY <1>1, <1>3 DEF KaosInv, KaosTypes
  <2>2. QED
    BY <1>1, <2>1, UnrecordedStep DEF KaosInv
<1>7. HistoryInv'
  BY <1>1 DEF KaosInv, HistoryInv, Retained
<1>8. QED
  BY <1>4, <1>5, <1>6, <1>7 DEF KaosInv

\* A write, or a directory, is counted once more when it has been made.
LEMMA ReturnsStep ==
    ASSUME KaosInv, NEW w \in Writers, Returns(w)
    PROVE  KaosInv'
<1>1. /\ MarkDirty /\ writer' = [writer EXCEPT ![w] = Idle]
      /\ UNCHANGED <<filesVars, listing, undoLog, reader, undoing, command, loose, begun, excused>>
  BY DEF Returns
<1>2. KaosTypes'
  BY <1>1 DEF KaosInv, KaosTypes, MarkDirty, filesVars
<1>3. IndexInv'
  BY <1>1, CountedStep DEF KaosInv
<1>4. UndoInv'
  <2>1. \A v \in Writers : writer'[v].at \in {"looked", "writing"} => writer'[v] = writer[v]
    BY <1>1 DEF KaosInv, KaosTypes, Idle
  <2>2. QED
    BY <1>1, <2>1, UnrecordedStep DEF KaosInv, filesVars
<1>5. HistoryInv'
  BY <1>1 DEF KaosInv, HistoryInv, Retained
<1>6. QED
  BY <1>2, <1>3, <1>4, <1>5 DEF KaosInv

---------------------------------------------------------------------------------
(* Undoing. *)

\* A sequence without its last element.
LEMMA FrontOfASequence ==
    ASSUME NEW S, NEW log \in Seq(S), log # <<>>
    PROVE  /\ Front(log) \in Seq(S) /\ Len(Front(log)) = Len(log) - 1
           /\ \A i \in 1 .. Len(log) - 1 : Front(log)[i] = log[i]
<1> DEFINE n == Len(log) - 1
<1>1. n \in Nat /\ \A i \in 1..n : log[i] \in S
  OBVIOUS
<1>2. Front(log) = SubSeq(log, 1, n)
  BY DEF Front
<1> HIDE DEF n
<1>3. /\ SubSeq(log, 1, n) \in Seq(S)
      /\ Len(SubSeq(log, 1, n)) = IF 1 <= n THEN (n - 1) + 1 ELSE 0
      /\ \A i \in 1 .. (n - 1) + 1 : SubSeq(log, 1, n)[i] = log[1 + (i - 1)]
  BY <1>1, SubSeqProperties
<1>4. Len(SubSeq(log, 1, n)) = n
  BY <1>1, <1>3
<1>5. \A i \in 1..n : SubSeq(log, 1, n)[i] = log[i]
  BY <1>1, <1>3
<1>6. QED
  BY <1>2, <1>3, <1>4, <1>5 DEF n

\* The history without its last entry retains no more than it did.
LEMMA FrontRetainsLess ==
    ASSUME NEW log \in Seq(UndoEntry), log # <<>>
    PROVE  Retained(Front(log)) =< Retained(log)
<1> DEFINE S == {i \in DOMAIN log : log[i].original \in Files}
           T == {i \in DOMAIN Front(log) : Front(log)[i].original \in Files}
<1>1. T \subseteq S
  BY DEF Front
<1>2. IsFiniteSet(S)
  <2>1. IsFiniteSet(1..Len(log))
    BY FS_Interval
  <2>2. S \subseteq 1..Len(log)
    OBVIOUS
  <2>3. QED
    BY <2>1, <2>2, FS_Subset
<1>3. Cardinality(T) =< Cardinality(S)
  BY <1>1, <1>2, FS_Subset
<1>4. QED
  BY <1>3 DEF Retained

\* One step is taken back: the oldest entry of a path is the last that is used up.
LEMMA UndoOneStep ==
    ASSUME KaosInv, UndoOne
    PROVE  KaosInv'
<1>1. PICK e \in ToSet(undoLog), fails \in BOOLEAN :
        /\ Pop(e)
        /\ IF fails THEN disk' = disk ELSE PutBack(e)
        /\ excused' = IF fails \/ Underway(e.path) \/ disk[e.path] = "dir"
                      THEN excused \cup {e.path} ELSE excused
  BY DEF UndoOne
<1>2. /\ undoing.at = "popping" /\ undoing.left > 0
      /\ undoing' = [undoing EXCEPT !.left = @ - 1]
      /\ UNCHANGED <<first, indexVars, writer, reader, command, loose, begun>>
  BY DEF UndoOne
<1> DEFINE n == Len(undoLog)
<1>3. /\ undoLog \in Seq(UndoEntry) /\ n \in Nat /\ n > 0 /\ e = undoLog[n] /\ e \in UndoEntry
      /\ undoLog' = Front(undoLog)
  BY <1>1, <1>2 DEF Pop, Last, KaosInv, KaosTypes, HistoryInv, ToSet
<1>4. /\ undoLog' \in Seq(UndoEntry) /\ Len(undoLog') = n - 1
      /\ \A i \in 1 .. n - 1 : undoLog'[i] = undoLog[i]
  <2>1. undoLog # <<>>
    BY <1>3
  <2>2. QED
    BY <1>3, <2>1, FrontOfASequence
<1>5. /\ \A p \in Paths : p # e.path => disk'[p] = disk[p]
      /\ disk' \in [Paths -> {"old", "new", "big", "none", "dir"}]
      /\ excused \subseteq excused' /\ excused' \subseteq Paths
  BY <1>1, <1>3 DEF PutBack, UndoEntry, KaosInv, KaosTypes
<1>6. KaosTypes'
  BY <1>2, <1>4, <1>5 DEF KaosInv, KaosTypes, indexVars
<1>7. IndexInv'
  <2>1. undoing'.at = "popping"
    BY <1>2 DEF KaosInv, KaosTypes
  <2>2. Unsettled'
    BY <2>1 DEF Unsettled
  <2>3. QED
    BY <1>2, <2>2, UncountedStep DEF KaosInv, indexVars
<1>8. UndoInv'
  <2> SUFFICES ASSUME NEW q \in Paths \ excused'
               PROVE  UndoOf(q)'
    BY DEF UndoInv
  <2>1. UndoOf(q)
    BY <1>5 DEF KaosInv, UndoInv
  <2>2. ASSUME NEW i \in DOMAIN undoLog', undoLog'[i].path = q, Oldest(i)'
        PROVE  undoLog'[i].original = first'[q]
    <3>1. i \in 1 .. n - 1 /\ undoLog'[i] = undoLog[i]
      BY <2>2, <1>4
    <3>2. Oldest(i)
      <4>1. \A j \in 1 .. i - 1 : j \in 1 .. n - 1 /\ undoLog'[j] = undoLog[j]
        BY <3>1, <1>3, <1>4
      <4>2. \A j \in 1 .. i - 1 : undoLog'[j].path # undoLog'[i].path
        BY <2>2 DEF Oldest
      <4>3. QED
        BY <3>1, <4>1, <4>2 DEF Oldest
    <3>3. QED
      BY <2>1, <2>2, <1>2, <1>3, <3>1, <3>2 DEF UndoOf
  <2>3. CASE q = e.path
    <3>1. /\ ~fails /\ ~Underway(q) /\ disk[q] # "dir"
      BY <1>1, <2>3
    <3>2. ASSUME ~Recorded(q)' PROVE disk'[q] = first'[q]
      <4>1. \A j \in 1 .. n - 1 : undoLog[j].path # q
        BY <3>2, <1>4 DEF Recorded
      <4>2. Oldest(n)
        BY <4>1, <2>3, <1>3 DEF Oldest
      <4>3. e.original = first[q]
        BY <2>1, <2>3, <4>2, <1>3 DEF UndoOf
      <4>4. first[q] # "unrecorded" /\ disk'[q] = first[q]
        BY <1>1, <1>3, <2>3, <3>1, <4>3 DEF PutBack, KaosInv, KaosTypes
      <4>5. QED
        BY <4>4, <1>2
    <3>3. QED
      BY <2>2, <3>1, <3>2, <1>2 DEF UndoOf, Underway
  <2>4. CASE q # e.path
    <3>1. ASSUME ~Recorded(q)' PROVE ~Recorded(q)
      <4>1. \A j \in 1 .. n - 1 : undoLog[j].path # q
        BY <3>1, <1>4 DEF Recorded
      <4>2. QED
        BY <4>1, <2>4, <1>3 DEF Recorded
    <3>2. QED
      BY <2>1, <2>2, <2>4, <3>1, <1>2, <1>5 DEF UndoOf
  <2>5. QED
    BY <2>3, <2>4
<1>9. HistoryInv'
  <2>1. Retained(undoLog') =< Retained(undoLog)
    BY <1>3, FrontRetainsLess
  <2>2. Retained(undoLog) \in Nat /\ Retained(undoLog') \in Nat
    <3>1. \A log \in Seq(UndoEntry) : Retained(log) \in Nat
      <4> SUFFICES ASSUME NEW log \in Seq(UndoEntry)
                   PROVE  Retained(log) \in Nat
        OBVIOUS
      <4>1. IsFiniteSet(1..Len(log))
        BY FS_Interval
      <4>2. {i \in DOMAIN log : log[i].original \in Files} \subseteq 1..Len(log)
        OBVIOUS
      <4>3. IsFiniteSet({i \in DOMAIN log : log[i].original \in Files})
        BY <4>1, <4>2, FS_Subset
      <4>4. QED
        BY <4>3, FS_CardinalityType DEF Retained
    <3>2. QED
      BY <3>1, <1>3, <1>4
  <2>3. undoing'.at = "popping" /\ undoing'.left =< n - 1
    BY <1>2, <1>3 DEF KaosInv, KaosTypes, HistoryInv
  <2>4. QED
    BY <1>3, <1>4, <2>1, <2>2, <2>3, KaosAssumption DEF KaosInv, HistoryInv
<1>10. QED
  BY <1>6, <1>7, <1>8, <1>9 DEF KaosInv

\* An undo begins, and returns.
LEMMA UndoStep ==
    ASSUME KaosInv, Undo \/ UndoReturns
    PROVE  KaosInv'
<1>1. UNCHANGED <<filesVars, listing, undoLog, writer, reader, command, loose, begun, excused>>
  BY DEF Undo, UndoReturns, indexVars
<1>2. UndoInv'
  BY <1>1, UnrecordedStep DEF KaosInv, filesVars
<1>3. CASE Undo
  <2>1. KaosTypes' /\ HistoryInv' /\ Unsettled'
    BY <1>1, <1>3 DEF Undo, KaosInv, KaosTypes, HistoryInv, Retained, Unsettled, filesVars,
       indexVars
  <2>2. IndexInv'
    BY <1>1, <1>3, <2>1, UncountedStep DEF Undo, KaosInv, indexVars
  <2>3. QED
    BY <1>2, <2>1, <2>2 DEF KaosInv
<1>4. CASE UndoReturns
  <2>1. KaosTypes' /\ HistoryInv'
    BY <1>1, <1>4 DEF UndoReturns, KaosInv, KaosTypes, HistoryInv, Retained, MarkDirty,
       filesVars
  <2>2. IndexInv'
    BY <1>1, <1>4, CountedStep DEF UndoReturns, KaosInv
  <2>3. QED
    BY <1>2, <2>1, <2>2 DEF KaosInv
<1>5. QED
  BY <1>3, <1>4

---------------------------------------------------------------------------------
(* Globs, and commands. *)

\* A glob changes nothing but what it has seen, and the list when it has seen enough.
LEMMA ReaderSteps ==
    ASSUME KaosInv, NEW r \in Readers,
           ReadsMutations(r) \/ Walks(r) \/ Compares(r) \/ Publishes(r)
    PROVE  KaosInv'
<1>1. UNCHANGED <<filesVars, mutations, undoLog, writer, undoing, command, loose, begun, excused>>
  BY DEF ReadsMutations, Walks, Compares, Publishes, indexVars
<1>2. UndoInv'
  BY <1>1, UnrecordedStep DEF KaosInv, filesVars
<1>3. HistoryInv'
  BY <1>1 DEF KaosInv, HistoryInv, Retained
<1>4. Unsettled' = Unsettled
  BY <1>1 DEF Unsettled
<1>5. SUFFICES /\ listing' \in Listing \cup {Unscanned}
               /\ \A q \in Readers : q # r => reader'[q] = reader[q]
               /\ reader' \in [Readers -> Walk \cup {Idle}]
               /\ listing' # Unscanned => Current(listing'.generation, {}, listing'.paths)
               /\ reader'[r] # Idle =>
                    /\ Current(reader'[r].generation, reader'[r].left, reader'[r].seen)
                    /\ reader'[r].seen \cap reader'[r].left = {}
                    /\ reader'[r].at = "current" => reader'[r].left = {}
  <2>1. KaosTypes'
    BY <1>1, <1>5 DEF KaosInv, KaosTypes, filesVars
  <2>2. IndexInv'
    BY <1>1, <1>4, <1>5 DEF KaosInv, IndexInv, Current, filesVars
  <2>3. QED
    BY <1>2, <1>3, <2>1, <2>2 DEF KaosInv
<1>6. /\ reader \in [Readers -> Walk \cup {Idle}] /\ listing \in Listing \cup {Unscanned}
      /\ mutations \in Nat
      /\ reader[r] # Idle =>
           /\ Current(reader[r].generation, reader[r].left, reader[r].seen)
           /\ reader[r].seen \cap reader[r].left = {}
           /\ reader[r].at = "current" => reader[r].left = {}
      /\ listing # Unscanned => Current(listing.generation, {}, listing.paths)
  BY DEF KaosInv, KaosTypes, IndexInv
<1>7. CASE ReadsMutations(r)
  BY <1>6, <1>7 DEF ReadsMutations, Walk, Idle, Current, indexVars
<1>8. CASE Walks(r)
  <2>1. PICK p \in reader[r].left :
          reader' = [reader EXCEPT ![r].left = @ \ {p},
                                   ![r].seen = IF p \in There THEN @ \cup {p} ELSE @]
    BY <1>8 DEF Walks
  <2>2. reader[r] \in Walk /\ reader[r].at = "walking" /\ listing' = listing
    <3>1. reader[r].at = "walking" /\ listing' = listing
      BY <1>8 DEF Walks, indexVars
    <3>2. QED
      BY <1>6, <3>1 DEF Idle
  <2>3. p \in Paths /\ reader[r] # Idle
    BY <2>1, <2>2 DEF Walk, Idle
  <2>4. /\ reader'[r] \in Walk /\ reader'[r].at = "walking"
        /\ reader'[r].generation = reader[r].generation
        /\ reader'[r].left = reader[r].left \ {p}
        /\ reader'[r].seen = IF p \in There THEN reader[r].seen \cup {p} ELSE reader[r].seen
    BY <1>6, <2>1, <2>2, <2>3 DEF Walk
  <2>5. Current(reader'[r].generation, reader'[r].left, reader'[r].seen)
    <3>1. ASSUME NEW q \in Paths \ reader'[r].left, q # p
          PROVE  q \in reader'[r].seen <=> q \in reader[r].seen
      BY <2>4, <3>1
    <3>2. p \notin reader[r].seen
      BY <1>6, <2>1, <2>3
    <3>3. QED
      BY <1>6, <2>3, <2>4, <3>1, <3>2 DEF Current, There
  <2>6. reader'[r].seen \cap reader'[r].left = {}
    BY <1>6, <2>3, <2>4
  <2>7. QED
    BY <1>6, <2>1, <2>2, <2>4, <2>5, <2>6
<1>9. CASE Compares(r)
  <2>1. reader[r] \in Walk /\ reader[r].left = {} /\ listing' = listing /\ reader[r] # Idle
    BY <1>6, <1>9 DEF Compares, Idle, indexVars
  <2>2. QED
    BY <1>6, <1>9, <2>1 DEF Compares, Walk, Idle
<1>10. CASE Publishes(r)
  <2>1. reader[r] \in Walk /\ reader[r].left = {} /\ reader[r] # Idle
    BY <1>6, <1>10 DEF Publishes, Idle
  <2>2. QED
    BY <1>6, <1>10, <2>1 DEF Publishes, Walk, Listing, Idle
<1>11. QED
  BY <1>7, <1>8, <1>9, <1>10

\* A command counts when it starts and when its handle goes; what it writes is excused.
LEMMA CommandSteps ==
    ASSUME KaosInv, Exec \/ CommandWrites \/ CommandExits \/ HandleDropped \/ BackgroundCommand
    PROVE  KaosInv'
<1>1. UNCHANGED <<first, listing, undoLog, writer, reader, undoing>>
  BY DEF Exec, CommandWrites, CommandExits, HandleDropped, BackgroundCommand, filesVars, indexVars
<1>2. HistoryInv'
  BY <1>1 DEF KaosInv, HistoryInv, Retained
<1>3. CASE CommandWrites
  <2>1. PICK p \in Paths, data \in {"none", "new"} :
          disk' = [disk EXCEPT ![p] = data] /\ excused' = excused \cup {p}
    BY <1>3 DEF CommandWrites
  <2>2. /\ UNCHANGED <<mutations, command, loose>> /\ Unsettled'
    BY <1>3 DEF CommandWrites, Unsettled, indexVars
  <2>3. KaosTypes'
    BY <1>1, <2>1, <2>2 DEF KaosInv, KaosTypes
  <2>4. IndexInv'
    BY <1>1, <2>2, UncountedStep DEF KaosInv
  <2>5. UndoInv'
    <3>1. \A q \in Paths \ excused' : disk'[q] = disk[q]
      BY <2>1 DEF KaosInv, KaosTypes
    <3>2. QED
      BY <1>1, <2>1, <3>1, UnrecordedStep DEF KaosInv
  <2>6. QED
    BY <1>2, <2>3, <2>4, <2>5 DEF KaosInv
<1>4. CASE Exec \/ HandleDropped
  <2>1. MarkDirty /\ UNCHANGED <<disk, excused>>
    BY <1>4 DEF Exec, HandleDropped, filesVars
  <2>2. KaosTypes'
    BY <1>1, <2>1 DEF KaosInv, KaosTypes, MarkDirty
  <2>3. IndexInv'
    BY <1>1, <2>1, CountedStep DEF KaosInv
  <2>4. UndoInv'
    BY <1>1, <2>1, UnrecordedStep DEF KaosInv
  <2>5. QED
    BY <1>2, <2>2, <2>3, <2>4 DEF KaosInv
<1>5. CASE CommandExits \/ BackgroundCommand
  <2>1. UNCHANGED <<disk, excused, mutations>> /\ Unsettled'
    BY <1>1, <1>5 DEF CommandExits, BackgroundCommand, Unsettled, filesVars, indexVars
  <2>2. KaosTypes'
    BY <1>1, <2>1 DEF KaosInv, KaosTypes
  <2>3. IndexInv'
    BY <1>1, <2>1, UncountedStep DEF KaosInv
  <2>4. UndoInv'
    BY <1>1, <2>1, UnrecordedStep DEF KaosInv
  <2>5. QED
    BY <1>2, <2>2, <2>3, <2>4 DEF KaosInv
<1>6. QED
  BY <1>3, <1>4, <1>5

---------------------------------------------------------------------------------
(* The working directory, in all. *)

\* It begins as the first scan, if there was one, saw it.
LEMMA KaosBegins == KaosInit => KaosInv
<1> SUFFICES ASSUME KaosInit PROVE KaosInv
  OBVIOUS
<1>1. KaosTypes
  BY DEF KaosInit, KaosTypes, Listing, Unscanned, There
<1>2. IndexInv
  BY DEF KaosInit, IndexInv, Current, Idle, There
<1>3. UndoInv
  BY DEF KaosInit, UndoInv, UndoOf, Recorded, Oldest, Idle
<1>4. HistoryInv
  <2>1. {i \in DOMAIN <<>> : <<>>[i].original \in Files} = {}
    OBVIOUS
  <2>2. Retained(<<>>) = 0
    BY <2>1, FS_EmptySet, Zenon DEF Retained
  <2>3. QED
    BY <2>2, KaosAssumption DEF KaosInit, HistoryInv
<1>5. QED
  BY <1>1, <1>2, <1>3, <1>4 DEF KaosInv

\* Nothing that happens breaks it.
LEMMA KaosGoesOn == KaosInv /\ [KaosNext]_kaosVars => KaosInv'
<1> SUFFICES ASSUME KaosInv, [KaosNext]_kaosVars PROVE KaosInv'
  OBVIOUS
<1>1. CASE UNCHANGED kaosVars
  <2>1. UNCHANGED <<disk, first, mutations, listing, undoLog, writer, reader, undoing, command,
                    loose, excused>>
    BY <1>1 DEF kaosVars, filesVars, indexVars
  <2>2. UndoInv'
    BY <2>1, UnrecordedStep DEF KaosInv
  <2>3. Unsettled' = Unsettled
    BY <2>1 DEF Unsettled
  <2>4. IndexInv'
    BY <2>1, <2>3, UncountedStep DEF KaosInv
  <2>5. QED
    BY <2>1, <2>2, <2>4 DEF KaosInv, KaosTypes, HistoryInv, Retained
<1>2. ASSUME NEW w \in Writers,
             \/ LooksBeforeWriting(w) \/ RecordWrite(w) \/ WriteLands(w)
             \/ MkdirBegins(w) \/ MkdirLands(w) \/ Returns(w)
      PROVE  KaosInv'
  BY <1>2, LooksStep, RecordStep, WriteLandsStep, MkdirBeginsStep, MkdirLandsStep, ReturnsStep
<1>3. CASE Undo \/ UndoOne \/ UndoReturns
  BY <1>3, UndoStep, UndoOneStep
<1>4. ASSUME NEW r \in Readers, ReadsMutations(r) \/ Walks(r) \/ Compares(r) \/ Publishes(r)
      PROVE  KaosInv'
  BY <1>4, ReaderSteps
<1>5. CASE Exec \/ CommandWrites \/ CommandExits \/ HandleDropped \/ BackgroundCommand
  BY <1>5, CommandSteps
<1>6. QED
  BY <1>1, <1>2, <1>3, <1>4, <1>5 DEF KaosNext

\* So it holds for as long as the session lives.
LEMMA KaosInvariant == KaosSpec => []KaosInv
BY KaosBegins, KaosGoesOn, PTL DEF KaosSpec

(* cached.rs: what each field may hold; neither cap of the history is exceeded, and an undo
   never has more to take back than there is. *)
THEOREM KaosTypeCorrect == KaosSpec => []KaosTypeOK
<1>1. KaosInv => KaosTypeOK
  <2> SUFFICES ASSUME KaosInv PROVE KaosTypeOK
    OBVIOUS
  <2>1. listing.generation \in 0..mutations
    BY DEF KaosInv, KaosTypes, IndexInv, Current, Listing, Unscanned
  <2>2. \A e \in ToSet(undoLog) :
          e.path \in Paths /\ e.original \in {"old", "new", "none", "unrecorded"}
    <3>1. \A i \in DOMAIN undoLog : undoLog[i] \in UndoEntry
      BY DEF KaosInv, KaosTypes
    <3>2. QED
      BY <3>1 DEF UndoEntry, ToSet
  <2>3. QED
    BY <2>1, <2>2 DEF KaosInv, KaosTypes, HistoryInv, Retained, KaosTypeOK, Files
<1>2. QED
  BY <1>1, KaosInvariant, PTL

(* cached.rs:43-49: whatever was changed while it was walked, the list of paths that globs use
   lists what there is, once the changes that are counted are over. *)
THEOREM IndexStaysCurrent == KaosSpec => []IndexIsCurrent
<1>1. KaosInv => IndexIsCurrent
  <2> SUFFICES ASSUME KaosInv, listing # Unscanned, listing.generation = mutations,
                      \A w \in Writers : writer[w].at \in {"idle", "looked"},
                      undoing.at = "no", command = "none", ~loose
               PROVE  listing.paths = There
    BY DEF IndexIsCurrent
  <2>1. ~Unsettled
    BY DEF Unsettled
  <2>2. \A p \in Paths : p \in listing.paths <=> disk[p] # "none"
    BY <2>1 DEF KaosInv, IndexInv, Current
  <2>3. listing.paths \subseteq Paths
    BY DEF KaosInv, KaosTypes, Listing, Unscanned
  <2>4. QED
    BY <2>2, <2>3 DEF There
<1>2. QED
  BY <1>1, KaosInvariant, PTL

(* cached.rs:194-224: undone to its bottom, the history of writes gives every file back as it
   was at first, but for those it does not answer for. *)
THEOREM UndoPutsBack == KaosSpec => []UndoTakesBack
<1>1. KaosInv => UndoTakesBack
  BY DEF KaosInv, UndoInv, UndoOf, Recorded, UndoTakesBack
<1>2. QED
  BY <1>1, KaosInvariant, PTL

---------------------------------------------------------------------------------
(* The table of tools. *)

(* The task that connects the servers is at one of them; those that are still to connect are
   on its list, and once it is over there are none. *)
LoaderInv ==
    /\ \A s \in Servers : status[s] = "pending" => \E i \in DOMAIN toConnect : toConnect[i] = s
    /\ \A s \in Servers :
         status[s] = "connecting" => loader \in {"connecting", "listing"} /\ s = Head(toConnect)
    /\ loader \in {"connecting", "listing"} => status[Head(toConnect)] = "connecting"
    /\ loader \in {"next", "connecting", "listing"} => toConnect # <<>>
    /\ loader = "over" => toConnect = <<>>

(* The task is waited for by the first turn, and a turn that runs has waited, or one before it
   was cancelled while it did. *)
TurnInv ==
    /\ loader = "config" => turnAt = "none" /\ ~loadingTask
    /\ loader \in {"next", "connecting", "listing"} /\ ~loadingTask =>
         turnAt = "waiting" \/ cutShort
    /\ turnAt = "running" /\ ~cutShort => loader = "over"

(* A name that is a server's is that of one that is connected, and a client's as well only if
   it was when the server came. *)
NamesInv ==
    /\ \A s \in Servers : status[s] = "connected" =>
         \A n \in listed[s] \ overlaid : table[n].by = "server"
    /\ \A n \in Names : table[n].by = "server" =>
         /\ table[n].server \in Servers /\ status[table[n].server] = "connected"
         /\ n \in external => n \in overlaid
    /\ loader = "config" => \A s \in Servers : status[s] # "connected"
    /\ call.at \in {"asking", "sent"} /\ call.tool.by = "server" =>
         call.tool.server \in Servers /\ status[call.tool.server] = "connected"

TableInv == TableTypeOK /\ LoaderInv /\ TurnInv /\ NamesInv

\* Nothing but the task changes what the servers are, once it has begun.
LEMMA ServersStand ==
    ASSUME TableInv, UNCHANGED mcpVars
    PROVE  LoaderInv'
BY DEF TableInv, LoaderInv, mcpVars

\* A configuration is read before the first turn.
LEMMA ConfigStep ==
    ASSUME TableInv, NEW s \in Servers, NEW authorized \in BOOLEAN, LoadMcpTools(s, authorized)
    PROVE  TableInv'
<1>1. /\ loader = "config" /\ listed' = [listed EXCEPT ![s] = {}]
      /\ status' = [status EXCEPT ![s] = IF authorized THEN "pending" ELSE "unauthorized"]
      /\ toConnect' = IF authorized THEN Append(toConnect, s) ELSE toConnect
      /\ UNCHANGED <<table, external, owners, attached, loader, loadingTask, turnAt, call,
                     overlaid, cutShort>>
  BY DEF LoadMcpTools
<1>2. TableTypeOK'
  BY <1>1 DEF TableInv, TableTypeOK
<1>3. /\ DOMAIN toConnect \subseteq DOMAIN toConnect'
      /\ \A i \in DOMAIN toConnect : toConnect'[i] = toConnect[i]
      /\ authorized => Len(toConnect') \in DOMAIN toConnect' /\ toConnect'[Len(toConnect')] = s
  BY <1>1 DEF TableInv, TableTypeOK
<1>4. LoaderInv'
  BY <1>1, <1>3 DEF TableInv, TableTypeOK, LoaderInv
<1>5. TurnInv'
  BY <1>1 DEF TableInv, TurnInv
<1>6. NamesInv'
  BY <1>1 DEF TableInv, TableTypeOK, NamesInv
<1>7. QED
  BY <1>2, <1>4, <1>5, <1>6 DEF TableInv

\* The list of servers without its head.
LEMMA RestOfTheList ==
    ASSUME TableInv, toConnect # <<>>, NextServer
    PROVE  /\ Head(toConnect) \in Servers /\ toConnect' \in Seq(Servers)
           /\ \/ loader' = "over" /\ toConnect' = <<>>
              \/ loader' = "next" /\ toConnect' # <<>>
           /\ \A i \in DOMAIN toConnect :
                \/ toConnect[i] = Head(toConnect)
                \/ \E j \in DOMAIN toConnect' : toConnect'[j] = toConnect[i]
<1>1. toConnect \in Seq(Servers) /\ Len(toConnect) \in Nat \ {0}
  BY DEF TableInv, TableTypeOK
<1>2. /\ toConnect' = Tail(toConnect) /\ Len(toConnect') = Len(toConnect) - 1
      /\ loader' = IF Len(toConnect) = 1 THEN "over" ELSE "next"
      /\ \A j \in 1 .. Len(toConnect) - 1 : toConnect'[j] = toConnect[j + 1]
      /\ toConnect' \in Seq(Servers)
  BY <1>1 DEF NextServer
<1>3. ASSUME NEW i \in DOMAIN toConnect, i # 1
      PROVE  \E j \in DOMAIN toConnect' : toConnect'[j] = toConnect[i]
  <2>1. i - 1 \in 1 .. Len(toConnect) - 1 /\ (i - 1) + 1 = i
    BY <1>1, <1>3
  <2>2. i - 1 \in DOMAIN toConnect' /\ toConnect'[i - 1] = toConnect[i]
    BY <1>2, <2>1
  <2>3. QED
    BY <2>2
<1>4. Head(toConnect) = toConnect[1] /\ toConnect[1] \in Servers
  BY <1>1
<1>5. \/ loader' = "over" /\ toConnect' = <<>>
      \/ loader' = "next" /\ toConnect' # <<>>
  <2>1. CASE Len(toConnect) = 1
    <3>1. Len(toConnect') = 0
      BY <1>2, <2>1
    <3>2. QED
      BY <1>2, <2>1, <3>1, EmptySeq
  <2>2. CASE Len(toConnect) # 1
    <3>1. Len(toConnect') # 0
      BY <1>1, <1>2, <2>2
    <3>2. QED
      BY <1>2, <2>2, <3>1, EmptySeq
  <2>3. QED
    BY <2>1, <2>2
<1>6. QED
  BY <1>2, <1>3, <1>4, <1>5

\* The task begins, and goes from server to server.
LEMMA LoaderSteps ==
    ASSUME TableInv, LoadingBegins \/ ConnectMcpServer \/ ConnectFails \/ ConnectMcpClient
    PROVE  TableInv'
<1>1. CASE LoadingBegins
  BY <1>1 DEF LoadingBegins, TableInv, TableTypeOK, LoaderInv, TurnInv, NamesInv
<1>2. CASE ConnectMcpClient
  BY <1>2 DEF ConnectMcpClient, Untouched, TableInv, TableTypeOK, LoaderInv, TurnInv, NamesInv
<1> DEFINE s == Head(toConnect)
<1>3. CASE ConnectMcpServer /\ status[s] = "pending"
  <2>1. /\ loader = "next" /\ loader' = "connecting" /\ toConnect' = toConnect
        /\ status' = [status EXCEPT ![s] = "connecting"] /\ listed' = listed /\ Untouched
    BY <1>3 DEF ConnectMcpServer
  <2>2. s \in Servers
    <3>1. toConnect # <<>> /\ toConnect \in Seq(Servers)
      BY <2>1 DEF TableInv, TableTypeOK, LoaderInv
    <3>2. QED
      BY <3>1
  <2> HIDE DEF s
  <2>3. LoaderInv'
    BY <2>1, <2>2 DEF TableInv, TableTypeOK, LoaderInv, s
  <2>4. QED
    BY <1>3, <2>1, <2>2, <2>3 DEF TableInv, TableTypeOK, TurnInv, NamesInv, Untouched
<1>4. CASE (ConnectMcpServer /\ status[s] # "pending") \/ ConnectFails
  <2>1. /\ NextServer /\ listed' = listed /\ Untouched /\ loader \notin {"config", "over"}
        /\ toConnect # <<>>
    BY <1>4 DEF ConnectMcpServer, ConnectFails, TableInv, LoaderInv
  <2>2. /\ s \in Servers /\ toConnect' \in Seq(Servers)
        /\ \/ loader' = "over" /\ toConnect' = <<>>
           \/ loader' = "next" /\ toConnect' # <<>>
        /\ \A i \in DOMAIN toConnect :
             toConnect[i] = s \/ \E j \in DOMAIN toConnect' : toConnect'[j] = toConnect[i]
    BY <2>1, RestOfTheList
  <2>3. /\ status' \in [Servers -> {"absent", "unauthorized", "pending", "connecting",
                                     "connected", "failed"}]
        /\ status'[s] \notin {"pending", "connecting"}
        /\ \A t \in Servers : t # s => status'[t] = status[t]
        /\ \A t \in Servers : status'[t] = "connected" <=> status[t] = "connected"
    BY <1>4, <2>2 DEF ConnectMcpServer, ConnectFails, TableInv, TableTypeOK, LoaderInv
  <2> HIDE DEF s
  <2>4. TableTypeOK'
    BY <2>1, <2>2, <2>3 DEF TableInv, TableTypeOK, Untouched
  <2>5. LoaderInv'
    <3>1. \A t \in Servers : status'[t] # "connecting"
      BY <2>1, <2>3 DEF TableInv, LoaderInv, s
    <3>2. ASSUME NEW t \in Servers, status'[t] = "pending"
          PROVE  \E j \in DOMAIN toConnect' : toConnect'[j] = t
      BY <2>2, <2>3, <3>2 DEF TableInv, LoaderInv
    <3>3. QED
      BY <2>2, <3>1, <3>2 DEF LoaderInv
  <2>6. TurnInv'
    BY <2>1, <2>2 DEF TableInv, TableTypeOK, TurnInv, Untouched
  <2>7. NamesInv'
    BY <2>1, <2>2, <2>3 DEF TableInv, NamesInv, Untouched
  <2>8. QED
    BY <2>4, <2>5, <2>6, <2>7 DEF TableInv
<1>5. QED
  BY <1>1, <1>2, <1>3, <1>4

\* A server that is connected takes the names its tools have.
LEMMA ListStep ==
    ASSUME TableInv, NEW tools \in SUBSET Names, ListTools(tools)
    PROVE  TableInv'
<1> DEFINE s == Head(toConnect)
<1>1. /\ loader = "listing" /\ status' = [status EXCEPT ![s] = "connected"]
      /\ listed' = [listed EXCEPT ![s] = tools]
      /\ table' = [n \in Names |-> IF n \in tools THEN OfServer(s) ELSE table[n]]
      /\ overlaid' = overlaid \cup (tools \cap external)
      /\ NextServer
      /\ UNCHANGED <<external, owners, attached, loadingTask, turnAt, call, cutShort>>
  BY DEF ListTools
<1>2. toConnect # <<>> /\ status[s] = "connecting"
  BY <1>1 DEF TableInv, LoaderInv
<1>3. /\ s \in Servers /\ toConnect' \in Seq(Servers)
      /\ \/ loader' = "over" /\ toConnect' = <<>>
         \/ loader' = "next" /\ toConnect' # <<>>
      /\ \A i \in DOMAIN toConnect :
           toConnect[i] = s \/ \E j \in DOMAIN toConnect' : toConnect'[j] = toConnect[i]
  BY <1>1, <1>2, RestOfTheList
<1>4. \A t \in Servers : status[t] = "connecting" => t = s
  BY DEF TableInv, LoaderInv
<1> HIDE DEF s
<1>5. TableTypeOK'
  BY <1>1, <1>3 DEF TableInv, TableTypeOK, Owner, OfServer
<1>6. LoaderInv'
  <2>1. ASSUME NEW t \in Servers, status'[t] = "pending"
        PROVE  \E j \in DOMAIN toConnect' : toConnect'[j] = t
    BY <1>1, <1>3, <2>1 DEF TableInv, TableTypeOK, LoaderInv
  <2>2. \A t \in Servers : status'[t] # "connecting"
    BY <1>1, <1>3, <1>4 DEF TableInv, TableTypeOK
  <2>3. QED
    BY <1>3, <2>1, <2>2 DEF LoaderInv
<1>7. TurnInv'
  BY <1>1, <1>3 DEF TableInv, TurnInv
<1>8. NamesInv'
  <2>1. \A t \in Servers : status[t] = "connected" => status'[t] = "connected"
    BY <1>1, <1>3 DEF TableInv, TableTypeOK
  <2>2. /\ status'[s] = "connected" /\ listed'[s] = tools
        /\ \A t \in Servers : t # s => status'[t] = status[t] /\ listed'[t] = listed[t]
    BY <1>1, <1>3 DEF TableInv, TableTypeOK
  <2>3. \A n \in Names : n \in tools => table'[n].by = "server" /\ table'[n].server = s
    BY <1>1 DEF OfServer
  <2>4. \A n \in Names : n \notin tools => table'[n] = table[n]
    BY <1>1
  <2>5. \A t \in Servers : listed'[t] \subseteq Names
    BY <1>5 DEF TableTypeOK
  <2>6. QED
    BY <1>1, <1>3, <2>1, <2>2, <2>3, <2>4, <2>5 DEF TableInv, NamesInv
<1>9. QED
  BY <1>5, <1>6, <1>7, <1>8 DEF TableInv

\* Clients come with names nobody else serves, and go with theirs.
LEMMA ClientSteps ==
    ASSUME TableInv, NEW c \in Clients,
           \/ \E offer \in SUBSET Names : RegisterExternalTools(c, offer)
           \/ ReleaseExternalTools(c)
    PROVE  TableInv'
<1>1. UNCHANGED <<mcpVars, loadingTask, turnAt, call, overlaid, cutShort>>
  BY DEF RegisterExternalTools, ReleaseExternalTools
<1>2. LoaderInv'
  BY <1>1, ServersStand
<1>3. TurnInv'
  BY <1>1 DEF TableInv, TurnInv, mcpVars
<1>4. ASSUME NEW offer \in SUBSET Names, RegisterExternalTools(c, offer)
      PROVE  TableTypeOK' /\ NamesInv'
  <2> DEFINE given == {n \in offer : ~HasBuiltinTool(n) /\ owners[n] \in {NoClient, c}}
  <2>1. /\ table' = [n \in Names |-> IF n \in given THEN OfClient(c) ELSE table[n]]
        /\ external' = external \cup given /\ attached' = attached \cup {c}
        /\ owners' = [n \in Names |-> IF n \in given THEN c ELSE owners[n]]
        /\ loader # "config"
    BY <1>4 DEF RegisterExternalTools, Registers
  <2>2. /\ given \subseteq Names
        /\ \A n \in given : table[n].by = "server" => n \in overlaid
    BY DEF HasBuiltinTool, Nobodys, TableInv, NamesInv
  <2> HIDE DEF given
  <2>3. TableTypeOK'
    BY <1>1, <2>1, <2>2 DEF TableInv, TableTypeOK, Owner, OfClient, mcpVars
  <2>4. \A n \in Names : table'[n].by = "server" => table'[n] = table[n] /\ n \notin given
    BY <2>1 DEF OfClient
  <2>5. \A n \in Names \ overlaid : table[n].by = "server" => table'[n].by = "server"
    BY <2>1, <2>2
  <2>6. \A s \in Servers : listed[s] \subseteq Names
    BY DEF TableInv, TableTypeOK
  <2>7. NamesInv'
    BY <1>1, <2>1, <2>4, <2>5, <2>6 DEF TableInv, NamesInv, mcpVars
  <2>8. QED
    BY <2>3, <2>7
<1>5. CASE ReleaseExternalTools(c)
  <2>1. PICK mine \in SUBSET Names :
          /\ table' = [n \in Names |-> IF n \in mine \cap external THEN Nobodys ELSE table[n]]
          /\ external' = external \ mine /\ attached' = attached \ {c}
          /\ owners' = [n \in Names |-> IF n \in mine THEN NoClient ELSE owners[n]]
    BY <1>5 DEF ReleaseExternalTools, Unregisters
  <2>2. TableTypeOK'
    BY <1>1, <2>1 DEF TableInv, TableTypeOK, Owner, mcpVars
  <2>3. \A n \in Names : table'[n].by = "server" => table'[n] = table[n]
    BY <2>1 DEF Nobodys
  <2>4. \A n \in Names \ overlaid : table[n].by = "server" => table'[n].by = "server"
    BY <2>1 DEF TableInv, NamesInv
  <2>5. \A s \in Servers : listed[s] \subseteq Names
    BY DEF TableInv, TableTypeOK
  <2>6. NamesInv'
    BY <1>1, <2>1, <2>3, <2>4, <2>5 DEF TableInv, NamesInv, mcpVars
  <2>7. QED
    BY <1>2, <1>3, <2>2, <2>6 DEF TableInv
<1>6. QED
  BY <1>2, <1>3, <1>4, <1>5 DEF TableInv

\* Turns, and the calls of their steps, change nothing of the table.
LEMMA TurnSteps ==
    ASSUME TableInv,
           \/ TakeMcpLoadingTask \/ McpLoadingEnded \/ TurnEnds \/ TurnIsCut
           \/ \E n \in Names : Handle(n)
           \/ McpToolAsks \/ McpToolAnswers \/ OwnToolEnds \/ ExternalToolAnswers \/ StepGoesOn
    PROVE  TableInv'
<1>1. CASE TakeMcpLoadingTask \/ McpLoadingEnded \/ TurnEnds \/ TurnIsCut
  <2>1. UNCHANGED <<table, external, owners, attached, mcpVars, overlaid>>
    BY <1>1 DEF TakeMcpLoadingTask, McpLoadingEnded, TurnEnds, TurnIsCut, TurnGoes
  <2>2. call' = call \/ call' = NoToolCall
    BY <1>1 DEF TakeMcpLoadingTask, McpLoadingEnded, TurnEnds, TurnIsCut
  <2>3. TableTypeOK'
    <3>1. /\ turnAt' \in {"none", "waiting", "running"} /\ loadingTask' \in BOOLEAN
          /\ cutShort' \in BOOLEAN
      BY <1>1 DEF TakeMcpLoadingTask, McpLoadingEnded, TurnEnds, TurnIsCut, TurnGoes,
         TableInv, TableTypeOK
    <3>2. call' \in [at : {"none", "asking", "sent", "answered"}, tool : Owner]
      BY <2>2 DEF TableInv, TableTypeOK, NoToolCall, Owner
    <3>3. QED
      BY <2>1, <3>1, <3>2 DEF TableInv, TableTypeOK, mcpVars
  <2>4. TurnInv'
    <3>1. CASE TakeMcpLoadingTask
      BY <2>1, <3>1 DEF TakeMcpLoadingTask, TurnGoes, TableInv, TableTypeOK, TurnInv, mcpVars
    <3>2. CASE McpLoadingEnded
      BY <2>1, <3>2 DEF McpLoadingEnded, TurnGoes, TableInv, TableTypeOK, TurnInv, mcpVars
    <3>3. CASE TurnEnds
      BY <2>1, <3>3 DEF TurnEnds, TurnGoes, TableInv, TableTypeOK, TurnInv, mcpVars
    <3>4. CASE TurnIsCut
      BY <2>1, <3>4 DEF TurnIsCut, TurnGoes, TableInv, TableTypeOK, TurnInv, mcpVars
    <3>5. QED
      BY <1>1, <3>1, <3>2, <3>3, <3>4
  <2>5. NamesInv'
    BY <2>1, <2>2 DEF TableInv, NamesInv, NoToolCall, mcpVars
  <2>6. QED
    BY <2>1, <2>3, <2>4, <2>5, ServersStand DEF TableInv
<1>2. CASE \/ \E n \in Names : Handle(n)
           \/ McpToolAsks \/ McpToolAnswers \/ OwnToolEnds \/ ExternalToolAnswers \/ StepGoesOn
  <2>1. UNCHANGED <<table, external, owners, attached, mcpVars, loadingTask, turnAt, overlaid,
                    cutShort>>
    BY <1>2 DEF Handle, McpToolAsks, McpToolAnswers, OwnToolEnds, ExternalToolAnswers,
       StepGoesOn, Answered, CallGoes
  <2>2. /\ call' \in [at : {"none", "asking", "sent", "answered"}, tool : Owner]
        /\ call'.at \in {"asking", "sent"} /\ call'.tool.by = "server" =>
             /\ call'.tool.server \in Servers
             /\ status[call'.tool.server] = "connected"
    <3>1. CASE \E n \in Names : Handle(n)
      <4>1. PICK n \in Names : Handle(n)
        BY <3>1
      <4>2. table[n] \in Owner
        BY DEF TableInv, TableTypeOK
      <4>3. CASE call' = [at |-> "answered", tool |-> Nobodys]
        BY <4>3 DEF Owner
      <4>4. CASE call' = [at |-> IF table[n].by = "server" THEN "asking" ELSE "sent",
                          tool |-> table[n]]
        BY <4>2, <4>4 DEF TableInv, NamesInv
      <4>5. QED
        BY <4>1, <4>3, <4>4 DEF Handle, CallGoes
    <3>2. CASE McpToolAsks
      BY <3>2 DEF McpToolAsks, CallGoes, TableInv, TableTypeOK, NamesInv
    <3>3. CASE McpToolAnswers \/ OwnToolEnds \/ ExternalToolAnswers
      BY <3>3 DEF McpToolAnswers, OwnToolEnds, ExternalToolAnswers, Answered, CallGoes,
         TableInv, TableTypeOK
    <3>4. CASE StepGoesOn
      BY <3>4 DEF StepGoesOn, CallGoes, NoToolCall, Owner
    <3>5. QED
      BY <1>2, <3>1, <3>2, <3>3, <3>4
  <2>3. QED
    BY <2>1, <2>2, ServersStand DEF TableInv, TableTypeOK, TurnInv, NamesInv, mcpVars
<1>3. QED
  BY <1>1, <1>2

\* The table begins with the agent's own tools.
LEMMA TableBegins == TableInit => TableInv
<1> SUFFICES ASSUME TableInit PROVE TableInv
  OBVIOUS
<1>1. TableTypeOK
  <2>1. table \in [Names -> Owner]
    BY DEF TableInit, Owner
  <2>2. call \in [at : {"none", "asking", "sent", "answered"}, tool : Owner]
    BY DEF TableInit, NoToolCall, Owner
  <2>3. toConnect \in Seq(Servers)
    BY DEF TableInit
  <2>4. loadingTask \in BOOLEAN /\ cutShort \in BOOLEAN
    BY DEF TableInit
  <2>5. QED
    BY <2>1, <2>2, <2>3, <2>4 DEF TableInit, TableTypeOK
<1>2. LoaderInv /\ TurnInv
  BY DEF TableInit, LoaderInv, TurnInv
<1>3. NamesInv
  BY DEF TableInit, NamesInv, Nobodys, Agents, NoToolCall
<1>4. QED
  BY <1>1, <1>2, <1>3 DEF TableInv

\* Nothing that happens breaks it.
LEMMA TableGoesOn == TableInv /\ [TableNext]_tableVars => TableInv'
<1> SUFFICES ASSUME TableInv, [TableNext]_tableVars PROVE TableInv'
  OBVIOUS
<1>1. CASE UNCHANGED tableVars
  BY <1>1, ServersStand DEF TableInv, TableTypeOK, TurnInv, NamesInv, tableVars, mcpVars
<1>2. ASSUME NEW s \in Servers, NEW authorized \in BOOLEAN, LoadMcpTools(s, authorized)
      PROVE  TableInv'
  BY <1>2, ConfigStep
<1>3. CASE LoadingBegins \/ ConnectMcpServer \/ ConnectFails \/ ConnectMcpClient
  BY <1>3, LoaderSteps
<1>4. ASSUME NEW tools \in SUBSET Names, ListTools(tools)
      PROVE  TableInv'
  BY <1>4, ListStep
<1>5. ASSUME NEW c \in Clients,
             \/ \E offer \in SUBSET Names : RegisterExternalTools(c, offer)
             \/ ReleaseExternalTools(c)
      PROVE  TableInv'
  BY <1>5, ClientSteps
<1>6. CASE \/ TakeMcpLoadingTask \/ McpLoadingEnded \/ TurnEnds \/ TurnIsCut
           \/ \E n \in Names : Handle(n)
           \/ McpToolAsks \/ McpToolAnswers \/ OwnToolEnds \/ ExternalToolAnswers \/ StepGoesOn
  BY <1>6, TurnSteps
<1>7. QED
  BY <1>1, <1>2, <1>3, <1>4, <1>5, <1>6 DEF TableNext

\* So it holds for as long as the agent lives.
LEMMA TableInvariant == TableSpec => []TableInv
BY TableBegins, TableGoesOn, PTL DEF TableSpec

(* toolset.rs: what each field may hold; a name is nobody's, the agent's, one client's or one
   server's. *)
THEOREM TableTypeCorrect == TableSpec => []TableTypeOK
<1>1. TableInv => TableTypeOK
  BY DEF TableInv
<1>2. QED
  BY <1>1, TableInvariant, PTL

(* toolset.rs:208-227 and kimisoul.rs:757-764: a turn that has waited for the servers finds
   every one connected or failed, a connected server serves what it has listed, and a call
   that was found to be a server's is one of a server that is connected. *)
THEOREM TurnsSeeTheirServers == TableSpec => []TurnSeesItsServers
<1>1. TableInv => TurnSeesItsServers
  BY DEF TableInv, LoaderInv, TurnInv, NamesInv, TurnSeesItsServers
<1>2. QED
  BY <1>1, TableInvariant, PTL

---------------------------------------------------------------------------------
(* Files that are changed. *)

\* A call that was begun was asked about or is of an action that is approved of, and no
\* edit is appended.
ToolsInv ==
    /\ change = [c \in ToolCalls |-> change[c]] /\ text = [f \in Targets |-> text[f]]
    /\ granted \subseteq {"edit", "editOutside"}
    /\ \A c \in ToolCalls : change[c].phase \in Phases
    /\ \A c \in ToolCalls : Begun(c) =>
         /\ change[c].file \in Targets
         /\ change[c].asked \/ ActionOf(change[c].file) \in granted
         /\ c \in EditCalls => ~change[c].append

\* What the invariant says of one call.
CallOK(r, c, allowed) ==
    /\ r.phase \in Phases
    /\ r.phase \in {"asking", "allowed"} =>
         /\ r.file \in Targets
         /\ r.asked \/ ActionOf(r.file) \in allowed
         /\ c \in EditCalls => ~r.append

\* A step of one call.
LEMMA OneCall ==
    ASSUME ToolsInv, NEW c \in ToolCalls, NEW r,
           change' = [change EXCEPT ![c] = r], text' = [f \in Targets |-> text'[f]],
           granted \subseteq granted', granted' \subseteq {"edit", "editOutside"},
           CallOK(r, c, granted')
    PROVE  ToolsInv'
<1>1. change' = [d \in ToolCalls |-> IF d = c THEN r ELSE change[d]]
  BY DEF ToolsInv
<1>2. \A d \in ToolCalls : change'[d] = IF d = c THEN r ELSE change[d]
  BY <1>1
<1>3. \A d \in ToolCalls : CallOK(change'[d], d, granted')
  BY <1>2 DEF ToolsInv, CallOK, Begun
<1>4. QED
  BY <1>1, <1>2, <1>3 DEF ToolsInv, CallOK, Begun

\* A call that ends needs no one's leave.
LEMMA OneEnds ==
    ASSUME ToolsInv, NEW c \in ToolCalls, NEW phase \in {"done", "refused", "failed"},
           Ends(c, phase), text' = [f \in Targets |-> text'[f]], granted' = granted
    PROVE  ToolsInv'
<1>1. CallOK([phase |-> phase], c, granted')
  BY DEF CallOK, Phases
<1>2. change' = [change EXCEPT ![c] = [phase |-> phase]]
  BY DEF Ends
<1>3. granted' \subseteq {"edit", "editOutside"}
  BY DEF ToolsInv
<1>4. QED
  BY <1>1, <1>2, <1>3, OneCall

\* A call that has computed what to write asks, or need not.
LEMMA OneAsks ==
    ASSUME ToolsInv, NEW c \in ToolCalls, NEW f \in Targets, NEW edits, NEW to,
           NEW append \in BOOLEAN, c \in EditCalls => ~append, AsksFor(c, f, edits, to, append)
    PROVE  ToolsInv'
<1> DEFINE r == [phase |-> IF ActionOf(f) \in granted THEN "allowed" ELSE "asking",
                 file |-> f, from |-> text[f], edits |-> edits, to |-> to, append |-> append,
                 asked |-> ActionOf(f) \notin granted]
<1>1. CallOK(r, c, granted)
  BY DEF CallOK, Phases
<1>2. change' = [change EXCEPT ![c] = r] /\ text' = text /\ granted' = granted
  BY DEF AsksFor
<1>3. text' = [g \in Targets |-> text'[g]] /\ granted' \subseteq {"edit", "editOutside"}
  BY <1>2 DEF ToolsInv
<1> HIDE DEF r
<1>4. QED
  BY <1>1, <1>2, <1>3, OneCall

\* The invariant.
LEMMA ToolsInvariant == ToolsSpec => []ToolsInv
<1>1. ToolsInit => ToolsInv
  BY DEF ToolsInit, ToolsInv, NoChange, Begun, Phases
<1>2. ToolsInv /\ [ToolsNext]_changeVars => ToolsInv'
  <2> SUFFICES ASSUME ToolsInv, [ToolsNext]_changeVars PROVE ToolsInv'
    OBVIOUS
  <2>0. /\ text = [f \in Targets |-> text[f]]
        /\ EditCalls \subseteq ToolCalls /\ WriteCalls \subseteq ToolCalls
    BY DEF ToolsInv, ToolCalls
  <2>1. ASSUME NEW c \in EditCalls, NEW f \in Targets, NEW edits, NEW shape,
               StrReplaceFile(c, f, edits, shape)
        PROVE  ToolsInv'
    <3>1. CASE Fails(c)
      BY <2>0, <3>1, OneEnds DEF Fails
    <3>2. CASE AsksFor(c, f, edits, ApplyEdits(LossyText(text[f]), edits).text, FALSE)
      BY <2>0, <3>2, OneAsks
    <3>3. QED
      BY <2>1, <3>1, <3>2 DEF StrReplaceFile
  <2>2. ASSUME NEW c \in WriteCalls, NEW f \in Targets, NEW append \in BOOLEAN, NEW shape,
               WriteFile(c, f, <<"b">>, append, shape)
        PROVE  ToolsInv'
    <3>1. CASE Fails(c)
      BY <2>0, <3>1, OneEnds DEF Fails
    <3>2. CASE AsksFor(c, f, <<>>, <<"b">>, append)
      BY <2>0, <3>2, OneAsks, ToolsAssumption
    <3>3. QED
      BY <2>2, <3>1, <3>2 DEF WriteFile
  <2>3. ASSUME NEW c \in ToolCalls, Approve(c)
        PROVE  ToolsInv'
    <3> DEFINE r == [change[c] EXCEPT !.phase = "allowed"]
    <3>1. change[c].phase = "asking" /\ Begun(c)
      BY <2>3 DEF Approve, Begun
    <3>2. /\ change' = [change EXCEPT ![c] = r] /\ text' = text
          /\ granted \subseteq granted' /\ granted' \subseteq {"edit", "editOutside"}
      BY <2>3 DEF Approve, ToolsInv, ActionOf
    <3>3. CallOK(r, c, granted')
      BY <3>1, <3>2 DEF CallOK, ToolsInv, Phases
    <3> HIDE DEF r
    <3>4. QED
      BY <2>0, <3>2, <3>3, OneCall
  <2>4. ASSUME NEW c \in ToolCalls, Reject(c) \/ WriteFails(c)
        PROVE  ToolsInv'
    BY <2>0, <2>4, OneEnds DEF Reject, WriteFails, Fails
  <2>5. ASSUME NEW c \in ToolCalls, WriteOut(c)
        PROVE  ToolsInv'
    <3>1. text' = [f \in Targets |-> text'[f]]
      BY <2>0, <2>5 DEF WriteOut
    <3>2. QED
      BY <2>5, <3>1, OneEnds DEF WriteOut
  <2>6. ASSUME NEW f \in Targets, OtherChange(f)
        PROVE  ToolsInv'
    BY <2>0, <2>6 DEF OtherChange, ToolsInv, Begun
  <2>7. CASE UNCHANGED changeVars
    BY <2>7 DEF changeVars, ToolsInv, Begun
  <2>8. QED
    BY <2>1, <2>2, <2>3, <2>4, <2>5, <2>6, <2>7 DEF ToolsNext
<1>3. QED
  BY <1>1, <1>2, PTL DEF ToolsSpec

\* write.rs:113-142, replace.rs:229-257: whatever calls run side by side, a file is changed
\* only into what a call computed, once the user was asked for it or has approved of the like.
THEOREM ChangesAreAllowed == ToolsSpec => ChangedOnlyAsAllowed
<1>1. ToolsInv /\ [ToolsNext]_changeVars =>
        [\A f \in Targets : text'[f] \notin {text[f], Absent} =>
            \E c \in ToolCalls :
              /\ change[c].phase = "allowed" /\ change[c].file = f
              /\ \/ text'[f] = change[c].to
                 \/ c \in WriteCalls /\ text[f] # Absent /\ text'[f] = text[f] \o change[c].to
              /\ \/ change[c].asked
                 \/ (IF f \in Outside THEN "editOutside" ELSE "edit") \in granted]_changeVars
  <2> SUFFICES ASSUME ToolsInv, ToolsNext, NEW f \in Targets, text'[f] \notin {text[f], Absent}
               PROVE  \E c \in ToolCalls :
                        /\ change[c].phase = "allowed" /\ change[c].file = f
                        /\ \/ text'[f] = change[c].to
                           \/ /\ c \in WriteCalls /\ text[f] # Absent
                              /\ text'[f] = text[f] \o change[c].to
                        /\ \/ change[c].asked
                           \/ (IF f \in Outside THEN "editOutside" ELSE "edit") \in granted
    OBVIOUS
  <2>1. text # text'
    OBVIOUS
  <2>2. \/ \E c \in ToolCalls : WriteOut(c)
        \/ \E g \in Targets : OtherChange(g)
    BY <2>1 DEF ToolsNext, StrReplaceFile, WriteFile, AsksFor, Fails, Approve, Reject, WriteFails
  <2>3. ~ \E g \in Targets : OtherChange(g)
    BY DEF OtherChange, ToolsInv
  <2>4. PICK c \in ToolCalls : WriteOut(c)
    BY <2>2, <2>3
  <2>5. /\ Begun(c) /\ change[c].phase = "allowed" /\ change[c].file \in Targets
        /\ change[c].asked \/ ActionOf(change[c].file) \in granted
        /\ c \in EditCalls => ~change[c].append
    BY <2>4 DEF WriteOut, ToolsInv, Begun
  <2>6. text' = [text EXCEPT ![change[c].file] =
                   IF change[c].append /\ @ # Absent THEN @ \o change[c].to ELSE change[c].to]
    BY <2>4 DEF WriteOut
  <2>7. /\ change[c].file = f
        /\ \/ text'[f] = change[c].to
           \/ c \notin EditCalls /\ text[f] # Absent /\ text'[f] = text[f] \o change[c].to
    BY <2>5, <2>6 DEF ToolsInv
  <2>8. QED
    BY <2>5, <2>7 DEF ToolCalls, ActionOf
<1>2. QED
  BY <1>1, ToolsInvariant, PTL DEF ToolsSpec, ChangedOnlyAsAllowed

---------------------------------------------------------------------------------
(* Steps, one after the other. *)

\* A run of n steps of the values in S, from the first on.
IsRun(g, n, S, opening, step) ==
    /\ g \in [0..n -> S] /\ g[0] = opening
    /\ \A i \in 1..n : g[i] = step[<<i, g[i - 1]>>]

\* There is a run of any length.
LEMMA RunExists ==
    ASSUME NEW n \in Nat, NEW S, NEW opening \in S, NEW step \in [(1..n) \X S -> S]
    PROVE  \E g : IsRun(g, n, S, opening, step)
<1> DEFINE Short == {k \in 0..n : \A g : ~IsRun(g, k, S, opening, step)}
<1>1. SUFFICES ASSUME Short # {}
               PROVE  FALSE
  BY <1>1
<1>2. PICK k \in Short : \A m \in Short : k <= m
  <2>1. Short \in SUBSET Nat
    OBVIOUS
  <2> HIDE DEF Short
  <2>2. QED
    BY <1>1, <2>1, LeastOf
<1>3. CASE k = 0
  <2>1. IsRun([i \in 0..0 |-> opening], 0, S, opening, step)
    BY DEF IsRun
  <2>2. QED
    BY <1>2, <1>3, <2>1
<1>4. CASE k # 0
  <2>1. k \in 1..n /\ k - 1 \in 0..n /\ ~(k - 1 \in Short)
    BY <1>2, <1>4
  <2>2. PICK g : IsRun(g, k - 1, S, opening, step)
    BY <2>1
  <2> DEFINE more == [i \in 0..k |-> IF i = k THEN step[<<k, g[k - 1]>>] ELSE g[i]]
  <2>3. /\ g \in [0..(k - 1) -> S] /\ g[0] = opening
        /\ \A i \in 1..(k - 1) : g[i] = step[<<i, g[i - 1]>>]
    BY <2>2 DEF IsRun
  <2>4. step[<<k, g[k - 1]>>] \in S
    BY <2>1, <2>3
  <2>5. more \in [0..k -> S] /\ more[0] = opening
    BY <2>1, <2>3, <2>4
  <2>6. ASSUME NEW i \in 1..k PROVE more[i] = step[<<i, more[i - 1]>>]
    <3>1. i - 1 \in 0..k /\ i - 1 # k /\ i \in 0..k
      BY <2>1
    <3>2. more[i - 1] = g[i - 1]
      BY <3>1
    <3>3. CASE i = k
      BY <3>1, <3>2, <3>3
    <3>4. CASE i # k
      BY <2>3, <3>1, <3>2, <3>4
    <3>5. QED
      BY <3>3, <3>4
  <2>7. IsRun(more, k, S, opening, step)
    BY <2>5, <2>6 DEF IsRun
  <2>8. QED
    BY <1>2, <2>7
<1>5. QED
  BY <1>3, <1>4

\* What holds at first and is kept by each of n steps holds after all of them.
LEMMA StepByStep ==
    ASSUME NEW n \in Nat, NEW P, 0 \in P, \A i \in 1..n : i - 1 \in P => i \in P
    PROVE  \A i \in 0..n : i \in P
<1> DEFINE Rest == {i \in 0..n : i \notin P}
<1>1. SUFFICES ASSUME Rest # {}
               PROVE  FALSE
  BY <1>1
<1>2. PICK i \in Rest : \A m \in Rest : i <= m
  <2>1. Rest \in SUBSET Nat
    OBVIOUS
  <2> HIDE DEF Rest
  <2>2. QED
    BY <1>1, <2>1, LeastOf
<1>3. i # 0 /\ i \in 1..n /\ i - 1 \in 0..n /\ ~(i - 1 \in Rest)
  BY <1>2
<1>4. QED
  BY <1>2, <1>3

---------------------------------------------------------------------------------
(* Searching. *)

\* How far a search is: the line it is at, those it holds back, how many more are wanted, and
\* what it shows.
Searches == [at : Nat, held : Seq(Nat), left : Nat, shown : Seq(Nat)]
NoSearch == [at |-> 0, held |-> <<>>, left |-> 0, shown |-> <<>>]

\* A line more.
LEMMA GrepTyped ==
    ASSUME NEW pattern, NEW before \in Nat, NEW after \in Nat, NEW r \in Searches, NEW line
    PROVE  GrepLine(pattern, before, after, r, line) \in Searches
<1> DEFINE at == r.at + 1
           held == Append(r.held, at)
<1>1. /\ r.at \in Nat /\ r.held \in Seq(Nat) /\ r.left \in Nat /\ r.shown \in Seq(Nat)
      /\ at \in Nat
  BY DEF Searches
<1>2. held \in Seq(Nat) /\ Tail(held) \in Seq(Nat)
  <2>1. held \in Seq(Nat) /\ Len(held) = Len(r.held) + 1
    BY <1>1, AppendProperties
  <2>2. Len(r.held) \in Nat
    BY <1>1
  <2>3. held # <<>>
    BY <2>1, <2>2, EmptySeq
  <2>4. QED
    BY <2>1, <2>3, HeadTailProperties
<1>3. Append(r.shown, at) \in Seq(Nat) /\ Append(r.shown \o r.held, at) \in Seq(Nat)
  BY <1>1
<1> HIDE DEF at, held
<1>4. CASE Unpadded(line) = pattern
  BY <1>1, <1>3, <1>4 DEF GrepLine, Searches, at
<1>5. CASE Unpadded(line) # pattern /\ r.left > 0
  BY <1>1, <1>3, <1>5 DEF GrepLine, Searches, at
<1>6. CASE Unpadded(line) # pattern /\ ~(r.left > 0)
  <2>1. GrepLine(pattern, before, after, r, line)
          = [r EXCEPT !.at = at, !.held = IF before = 0 THEN <<>>
                                          ELSE IF Len(held) > before THEN Tail(held) ELSE held]
    BY <1>6 DEF GrepLine, at, held
  <2> DEFINE kept == IF before = 0 THEN <<>> ELSE IF Len(held) > before THEN Tail(held) ELSE held
  <2>2. kept \in Seq(Nat)
    BY <1>2
  <2> HIDE DEF kept
  <2>3. GrepLine(pattern, before, after, r, line) = [r EXCEPT !.at = at, !.held = kept]
    BY <2>1 DEF kept
  <2>4. QED
    BY <1>1, <2>2, <2>3 DEF Searches
<1>7. QED
  BY <1>4, <1>5, <1>6

\* A search goes from line to line.
LEMMA SearchRuns ==
    ASSUME NEW lines \in Seq(Texts), NEW pattern, NEW before \in Nat, NEW after \in Nat
    PROVE  LET g == LinesSearched(lines, pattern, before, after) IN
           /\ g \in [0..Len(lines) -> Searches] /\ g[0] = NoSearch
           /\ \A i \in 1..Len(lines) : g[i] = GrepLine(pattern, before, after, g[i - 1], lines[i])
<1> DEFINE n == Len(lines)
           step == [is \in (1..n) \X Searches |->
                       GrepLine(pattern, before, after, is[2], lines[is[1]])]
           IsIt(g) == g = [i \in 0..n |-> IF i = 0 THEN NoSearch
                                          ELSE GrepLine(pattern, before, after, g[i - 1], lines[i])]
<1>1. n \in Nat /\ NoSearch \in Searches /\ step \in [(1..n) \X Searches -> Searches]
  BY GrepTyped DEF Searches, NoSearch
<1>2. PICK g : IsRun(g, n, Searches, NoSearch, step)
  BY <1>1, RunExists
<1>3. IsIt(g)
  <2>1. /\ g \in [0..n -> Searches] /\ g[0] = NoSearch
        /\ \A i \in 1..n : g[i] = step[<<i, g[i - 1]>>]
    BY <1>2 DEF IsRun
  <2>2. ASSUME NEW i \in 1..n PROVE g[i] = GrepLine(pattern, before, after, g[i - 1], lines[i])
    <3>1. i - 1 \in 0..n /\ i \in 1..n
      BY <1>1
    <3> HIDE DEF n, step
    <3>2. g[i - 1] \in Searches /\ g[i] = step[<<i, g[i - 1]>>]
      BY <2>1, <3>1
    <3>3. QED
      BY <3>2 DEF step
  <2>3. \A i \in 0..n : i = 0 \/ i \in 1..n
    BY <1>1
  <2> HIDE DEF step
  <2>4. g = [i \in 0..n |-> g[i]]
    BY <2>1
  <2>5. \A i \in 0..n : g[i] = IF i = 0 THEN NoSearch
                                ELSE GrepLine(pattern, before, after, g[i - 1], lines[i])
    BY <2>1, <2>2, <2>3
  <2>6. QED
    BY <2>4, <2>5
<1> DEFINE h == LinesSearched(lines, pattern, before, after)
<1>4. h = CHOOSE k : IsIt(k)
  BY DEF LinesSearched, NoSearch
<1>5. IsIt(h)
  BY <1>3, <1>4
<1> HIDE DEF h, step
<1>6. h[0] = NoSearch /\ DOMAIN h = 0..n /\ h = [i \in 0..n |-> h[i]]
  BY <1>1, <1>5
<1>7. ASSUME NEW i \in 1..n PROVE h[i] = GrepLine(pattern, before, after, h[i - 1], lines[i])
  <2>1. i \in 0..n /\ i # 0
    OBVIOUS
  <2>2. QED
    BY <1>5, <2>1
<1> HIDE DEF IsIt
<1>8. \A i \in 0..n : h[i] \in Searches
  <2> DEFINE P == {i \in 0..n : h[i] \in Searches}
  <2>1. 0 \in P
    BY <1>1, <1>6
  <2>2. ASSUME NEW i \in 1..n, i - 1 \in P PROVE i \in P
    BY <1>7, <2>2, GrepTyped
  <2> HIDE DEF P
  <2>3. \A i \in 0..n : i \in P
    BY <1>1, <2>1, <2>2, StepByStep
  <2>4. QED
    BY <2>3 DEF P
<1>9. QED
  BY <1>6, <1>7, <1>8 DEF h

\* A line around one that matches, among the first i.
Near(lines, pattern, before, after, i, j) ==
    \E m \in 1..i : Unpadded(lines[m]) = pattern /\ m - before <= j /\ j <= m + after

\* Each is more than the ones before it.
Rises(s) == \A k, m \in DOMAIN s : k < m => s[k] < s[m]

\* The lines that are held are the last ones, none of which is shown; of the last ones that
\* a match would want, there is none that is neither; and what is left is what the last
\* match wants after it.
SearchOK(lines, pattern, before, after, i, r) ==
    LET h == Len(r.held)
        Is(j) == Near(lines, pattern, before, after, i, j)
    IN  /\ r \in Searches /\ r.at = i
        /\ h <= before /\ h <= i /\ r.held = [k \in 1..h |-> i - h + k]
        /\ Rises(r.shown)
        /\ \A j \in ToSet(r.shown) : j \in 1..i /\ Is(j) /\ j + h <= i
        /\ \A j \in 1..i : Is(j) => j \in ToSet(r.shown)
        /\ \A j \in 1..i : i - before < j => j \in ToSet(r.shown) \/ i - h < j
        /\ \A m \in 1..i : Unpadded(lines[m]) = pattern => m + after <= i + r.left
        /\ r.left > 0 =>
             h = 0 /\ \E m \in 1..i : Unpadded(lines[m]) = pattern /\ m + after = i + r.left

\* A sequence with one value more.
LEMMA HeldByMore ==
    ASSUME NEW s \in Seq(Nat), NEW x \in Nat
    PROVE  ToSet(Append(s, x)) = ToSet(s) \cup {x}
<1> DEFINE more == Append(s, x)
           n == Len(s)
<1>1. /\ n \in Nat /\ DOMAIN more = 1..(n + 1) /\ DOMAIN s = 1..n /\ more[n + 1] = x
      /\ \A k \in 1..n : more[k] = s[k]
  OBVIOUS
<1> HIDE DEF more, n
<1>2. ToSet(more) = {more[k] : k \in 1..(n + 1)} /\ ToSet(s) = {s[k] : k \in 1..n}
  BY <1>1 DEF ToSet
<1>3. ToSet(more) = ToSet(s) \cup {x}
  BY <1>1, <1>2
<1>4. QED
  BY <1>3 DEF more

\* It rises still when the value is more than the others.
LEMMA RisesWithMore ==
    ASSUME NEW s \in Seq(Nat), NEW x \in Nat, Rises(s), \A j \in ToSet(s) : j < x
    PROVE  Rises(Append(s, x))
<1> DEFINE more == Append(s, x)
           n == Len(s)
<1>1. /\ n \in Nat /\ DOMAIN more = 1..(n + 1) /\ DOMAIN s = 1..n /\ more[n + 1] = x
      /\ \A k \in 1..n : more[k] = s[k]
  OBVIOUS
<1> HIDE DEF more, n
<1>3. ASSUME NEW k \in DOMAIN more, NEW m \in DOMAIN more, k < m
      PROVE  more[k] < more[m]
  <2>1. k \in 1..n /\ more[k] = s[k] /\ s[k] \in ToSet(s)
    BY <1>1, <1>3 DEF ToSet
  <2>2. CASE m = n + 1
    BY <1>1, <1>3, <2>1, <2>2
  <2>3. CASE m # n + 1
    <3>1. m \in 1..n /\ more[m] = s[m]
      BY <1>1, <2>3
    <3>2. QED
      BY <1>1, <1>3, <2>1, <3>1 DEF Rises
  <2>4. QED
    BY <2>2, <2>3
<1>4. QED
  BY <1>3 DEF more, Rises

\* One with another behind it.
LEMMA HeldByBoth ==
    ASSUME NEW s \in Seq(Nat), NEW t \in Seq(Nat)
    PROVE  ToSet(s \o t) = ToSet(s) \cup ToSet(t)
<1> DEFINE both == s \o t
           n == Len(s)
           o == Len(t)
<1>1. /\ n \in Nat /\ o \in Nat /\ DOMAIN both = 1..(n + o) /\ DOMAIN s = 1..n /\ DOMAIN t = 1..o
      /\ \A k \in 1..n : both[k] = s[k]
      /\ \A k \in 1..o : both[n + k] = t[k]
  OBVIOUS
<1> HIDE DEF both, n, o
<1>2. /\ ToSet(both) = {both[k] : k \in 1..(n + o)} /\ ToSet(s) = {s[k] : k \in 1..n}
      /\ ToSet(t) = {t[k] : k \in 1..o}
  BY <1>1 DEF ToSet
<1>3. \A k \in 1..(n + o) : k \in 1..n \/ (k - n \in 1..o /\ k = n + (k - n))
  BY <1>1
<1>4. \A k \in 1..o : n + k \in 1..(n + o)
  BY <1>1
<1>5. ASSUME NEW k \in 1..(n + o) PROVE both[k] \in ToSet(s) \cup ToSet(t)
  <2>1. CASE k \in 1..n
    BY <1>1, <1>2, <2>1
  <2>2. CASE k - n \in 1..o /\ k = n + (k - n)
    <3>1. both[k] = t[k - n]
      BY <1>1, <2>2
    <3>2. QED
      BY <1>2, <2>2, <3>1
  <2>3. QED
    BY <1>3, <2>1, <2>2
<1>6. ToSet(s) \cup ToSet(t) \subseteq ToSet(both)
  BY <1>1, <1>2, <1>4
<1>7. QED
  BY <1>2, <1>5, <1>6 DEF both

\* They rise still when all of the second are more than those of the first.
LEMMA RisesWithBoth ==
    ASSUME NEW s \in Seq(Nat), NEW t \in Seq(Nat), Rises(s), Rises(t),
           \A j \in ToSet(s), l \in ToSet(t) : j < l
    PROVE  Rises(s \o t)
<1> DEFINE both == s \o t
           n == Len(s)
           o == Len(t)
<1>1. /\ n \in Nat /\ o \in Nat /\ DOMAIN both = 1..(n + o) /\ DOMAIN s = 1..n /\ DOMAIN t = 1..o
      /\ \A k \in 1..n : both[k] = s[k]
      /\ \A k \in 1..o : both[n + k] = t[k]
  OBVIOUS
<1> HIDE DEF both, n, o
<1>3. ASSUME NEW k \in DOMAIN both, NEW m \in DOMAIN both, k < m
      PROVE  both[k] < both[m]
  <2>1. CASE m \in 1..n
    <3>1. k \in 1..n
      BY <1>1, <1>3, <2>1
    <3>2. QED
      BY <1>1, <1>3, <2>1, <3>1 DEF Rises
  <2>2. CASE m \notin 1..n /\ k \notin 1..n
    <3>1. k - n \in 1..o /\ m - n \in 1..o /\ k - n < m - n /\ k = n + (k - n) /\ m = n + (m - n)
      BY <1>1, <1>3, <2>2
    <3>2. both[k] = t[k - n] /\ both[m] = t[m - n]
      BY <1>1, <3>1
    <3>3. t[k - n] < t[m - n]
      BY <1>1, <1>3, <3>1 DEF Rises
    <3>4. QED
      BY <3>2, <3>3
  <2>3. CASE m \notin 1..n /\ k \in 1..n
    <3>1. m - n \in 1..o /\ m = n + (m - n)
      BY <1>1, <2>3
    <3>2. both[k] = s[k] /\ both[m] = t[m - n] /\ s[k] \in ToSet(s) /\ t[m - n] \in ToSet(t)
      BY <1>1, <2>3, <3>1 DEF ToSet
    <3>3. QED
      BY <3>2
  <2>4. QED
    BY <2>1, <2>2, <2>3
<1>4. QED
  BY <1>3 DEF both, Rises

\* The last lines up to i.
LEMMA LastLines ==
    ASSUME NEW i \in Nat, NEW h \in Nat, h <= i, NEW s, s = [k \in 1..h |-> i - h + k]
    PROVE  ToSet(s) = (i - h + 1)..i /\ Rises(s)
<1>1. ToSet(s) = {i - h + k : k \in 1..h}
  BY DEF ToSet
<1>2. \A j \in (i - h + 1)..i : j - (i - h) \in 1..h /\ j = i - h + (j - (i - h))
  OBVIOUS
<1>3. (i - h + 1)..i \subseteq {i - h + k : k \in 1..h}
  BY <1>2
<1>4. \A k \in 1..h : i - h + k \in (i - h + 1)..i
  OBVIOUS
<1>5. Rises(s)
  BY DEF Rises
<1>6. QED
  BY <1>1, <1>3, <1>4, <1>5

\* Which of the lines a search wants, when one line more has been looked at.
LEMMA NearGrows ==
    ASSUME NEW lines, NEW pattern, NEW before \in Nat, NEW after \in Nat, NEW i \in Nat, NEW j
    PROVE  Near(lines, pattern, before, after, i + 1, j)
             <=> \/ Near(lines, pattern, before, after, i, j)
                 \/ Unpadded(lines[i + 1]) = pattern /\ i + 1 - before <= j /\ j <= i + 1 + after
<1>1. 1..(i + 1) = 1..i \cup {i + 1}
  OBVIOUS
<1>2. QED
  BY <1>1 DEF Near

\* A line that matches.
LEMMA MatchKeeps ==
    ASSUME NEW lines, NEW pattern, NEW before \in Nat, NEW after \in Nat, NEW i \in Nat, NEW r,
           SearchOK(lines, pattern, before, after, i, r), Unpadded(lines[i + 1]) = pattern
    PROVE  SearchOK(lines, pattern, before, after, i + 1,
                    GrepLine(pattern, before, after, r, lines[i + 1]))
<1> DEFINE h == Len(r.held)
           Is(j) == Near(lines, pattern, before, after, i, j)
           IsNow(j) == Near(lines, pattern, before, after, i + 1, j)
           both == r.shown \o r.held
           shown == Append(both, i + 1)
           s == GrepLine(pattern, before, after, r, lines[i + 1])
<1>1. r \in Searches /\ r.at = i /\ h \in Nat /\ h <= before /\ h <= i
  BY DEF SearchOK, Searches
<1>2. s = [at |-> i + 1, held |-> <<>>, left |-> after, shown |-> shown]
  BY <1>1 DEF GrepLine
<1>3. s \in Searches
  BY <1>1, GrepTyped
<1>4. r.held \in Seq(Nat) /\ r.shown \in Seq(Nat)
  BY <1>1 DEF Searches
<1>5. r.held = [k \in 1..h |-> i - h + k]
  BY DEF SearchOK
<1>6. Rises(r.shown)
  BY DEF SearchOK
<1>7. \A j \in ToSet(r.shown) : j \in 1..i /\ Is(j) /\ j + h <= i
  BY DEF SearchOK
<1>8. \A j \in 1..i : Is(j) => j \in ToSet(r.shown)
  BY DEF SearchOK
<1>9. \A j \in 1..i : i - before < j => j \in ToSet(r.shown) \/ i - h < j
  BY DEF SearchOK
<1>10. \A m \in 1..i : Unpadded(lines[m]) = pattern => m + after <= i + r.left
  BY DEF SearchOK
<1> HIDE DEF h
<1>11. ToSet(r.held) = (i - h + 1)..i /\ Rises(r.held)
  BY <1>1, <1>5, LastLines
<1>13. \A j \in ToSet(r.shown), l \in ToSet(r.held) : j < l
  BY <1>1, <1>7, <1>11
<1>31. ToSet(both) = ToSet(r.shown) \cup ToSet(r.held)
  BY <1>4, HeldByBoth
<1>14. both \in Seq(Nat) /\ ToSet(both) = ToSet(r.shown) \cup (i - h + 1)..i
  BY <1>4, <1>11, <1>31
<1>15. Rises(both)
  BY <1>4, <1>6, <1>11, <1>13, RisesWithBoth
<1>16. \A j \in ToSet(both) : j < i + 1
  BY <1>1, <1>7, <1>14
<1> HIDE DEF both
<1>29. i + 1 \in Nat
  OBVIOUS
<1>17. ToSet(shown) = ToSet(r.shown) \cup (i - h + 1)..i \cup {i + 1}
  BY <1>14, <1>29, HeldByMore
<1>30. Rises(shown)
  BY <1>14, <1>15, <1>16, <1>29, RisesWithMore
<1> HIDE DEF shown
<1>18. \A j : IsNow(j) <=> Is(j) \/ (i + 1 - before <= j /\ j <= i + 1 + after)
  BY NearGrows
<1> HIDE DEF Is, IsNow
<1>19. \A j \in ToSet(shown) : j \in 1..(i + 1) /\ IsNow(j)
  BY <1>1, <1>7, <1>17, <1>18
<1>20. \A j \in 1..(i + 1) : IsNow(j) => j \in ToSet(shown)
  <2> SUFFICES ASSUME NEW j \in 1..(i + 1), IsNow(j), j # i + 1, ~Is(j)
               PROVE  j \in ToSet(shown)
    BY <1>8, <1>17
  <2>1. j \in 1..i /\ i - before < j
    BY <1>18
  <2>2. j \in ToSet(r.shown) \/ j \in (i - h + 1)..i
    BY <1>1, <1>9, <2>1
  <2>3. QED
    BY <1>17, <2>2
<1>21. \A j \in 1..(i + 1) : i + 1 - before < j => j \in ToSet(shown)
  BY <1>18, <1>20
<1>24. /\ s.at = i + 1 /\ s.held = <<>> /\ Len(s.held) = 0 /\ s.left = after /\ s.shown = shown
  BY <1>2
<1> HIDE DEF s
<1>25. s.held = [k \in 1..0 |-> i + 1 - 0 + k]
  BY <1>24
<1>26. \A j \in ToSet(s.shown) : j \in 1..(i + 1) /\ IsNow(j) /\ j + 0 <= i + 1
  BY <1>19, <1>24
<1>22. \A m \in 1..(i + 1) : Unpadded(lines[m]) = pattern => m + after <= i + 1 + s.left
  BY <1>24
<1>23. \E m \in 1..(i + 1) : Unpadded(lines[m]) = pattern /\ m + after = i + 1 + s.left
  BY <1>24
<1>27. SearchOK(lines, pattern, before, after, i + 1, s)
  BY <1>3, <1>20, <1>21, <1>22, <1>23, <1>24, <1>25, <1>26, <1>30 DEF SearchOK, IsNow
<1>28. QED
  BY <1>27 DEF s

\* A line that an earlier match wants.
LEMMA FollowKeeps ==
    ASSUME NEW lines, NEW pattern, NEW before \in Nat, NEW after \in Nat, NEW i \in Nat, NEW r,
           SearchOK(lines, pattern, before, after, i, r), Unpadded(lines[i + 1]) # pattern,
           r.left > 0
    PROVE  SearchOK(lines, pattern, before, after, i + 1,
                    GrepLine(pattern, before, after, r, lines[i + 1]))
<1> DEFINE Is(j) == Near(lines, pattern, before, after, i, j)
           IsNow(j) == Near(lines, pattern, before, after, i + 1, j)
           shown == Append(r.shown, i + 1)
           s == GrepLine(pattern, before, after, r, lines[i + 1])
<1>1. r \in Searches /\ r.at = i /\ Len(r.held) = 0 /\ r.left \in Nat /\ r.shown \in Seq(Nat)
  BY DEF SearchOK, Searches
<1>2. s = [at |-> i + 1, held |-> <<>>, left |-> r.left - 1, shown |-> shown]
  BY <1>1 DEF GrepLine
<1>3. s \in Searches
  BY <1>1, GrepTyped
<1>6. Rises(r.shown)
  BY DEF SearchOK
<1>7. \A j \in ToSet(r.shown) : j \in 1..i /\ Is(j)
  BY DEF SearchOK
<1>8. \A j \in 1..i : Is(j) => j \in ToSet(r.shown)
  BY DEF SearchOK
<1>9. \A j \in 1..i : i - before < j => j \in ToSet(r.shown)
  BY <1>1 DEF SearchOK
<1>10. \A m \in 1..i : Unpadded(lines[m]) = pattern => m + after <= i + r.left
  BY DEF SearchOK
<1>11. PICK m \in 1..i : Unpadded(lines[m]) = pattern /\ m + after = i + r.left
  BY DEF SearchOK
<1>12. Is(i + 1)
  BY <1>1, <1>11 DEF Near
<1>29. i + 1 \in Nat /\ \A j \in ToSet(r.shown) : j < i + 1
  BY <1>7
<1>17. ToSet(shown) = ToSet(r.shown) \cup {i + 1}
  BY <1>1, <1>29, HeldByMore
<1>30. Rises(shown)
  BY <1>1, <1>6, <1>29, RisesWithMore
<1> HIDE DEF shown
<1>18. \A j : IsNow(j) <=> Is(j)
  BY NearGrows
<1> HIDE DEF Is, IsNow
<1>19. \A j \in ToSet(shown) : j \in 1..(i + 1) /\ IsNow(j)
  BY <1>7, <1>12, <1>17, <1>18
<1>20. \A j \in 1..(i + 1) : IsNow(j) => j \in ToSet(shown)
  BY <1>8, <1>17, <1>18
<1>21. \A j \in 1..(i + 1) : i + 1 - before < j => j \in ToSet(shown)
  BY <1>9, <1>17
<1>22. ASSUME NEW l \in 1..(i + 1), Unpadded(lines[l]) = pattern
       PROVE  l + after <= i + 1 + (r.left - 1)
  <2>1. l \in 1..i
    BY <1>22
  <2>2. l + after <= i + r.left
    BY <1>10, <1>22, <2>1
  <2>3. QED
    BY <1>1, <2>2
<1>23. \E l \in 1..(i + 1) : Unpadded(lines[l]) = pattern /\ l + after = i + 1 + (r.left - 1)
  BY <1>1, <1>11
<1>24. /\ s.at = i + 1 /\ s.held = <<>> /\ Len(s.held) = 0 /\ s.left = r.left - 1
       /\ s.shown = shown
  BY <1>2
<1> HIDE DEF s
<1>25. s.held = [k \in 1..0 |-> i + 1 - 0 + k]
  BY <1>24
<1>26. \A j \in ToSet(s.shown) : j \in 1..(i + 1) /\ IsNow(j) /\ j + 0 <= i + 1
  BY <1>19, <1>24
<1>27. SearchOK(lines, pattern, before, after, i + 1, s)
  BY <1>3, <1>20, <1>21, <1>22, <1>23, <1>24, <1>25, <1>26, <1>30 DEF SearchOK, IsNow
<1>28. QED
  BY <1>27 DEF s

\* A line that is wanted later, if at all.
LEMMA HoldKeeps ==
    ASSUME NEW lines, NEW pattern, NEW before \in Nat, NEW after \in Nat, NEW i \in Nat, NEW r,
           SearchOK(lines, pattern, before, after, i, r), Unpadded(lines[i + 1]) # pattern,
           ~(r.left > 0)
    PROVE  SearchOK(lines, pattern, before, after, i + 1,
                    GrepLine(pattern, before, after, r, lines[i + 1]))
<1> DEFINE h == Len(r.held)
           Is(j) == Near(lines, pattern, before, after, i, j)
           IsNow(j) == Near(lines, pattern, before, after, i + 1, j)
           more == Append(r.held, i + 1)
           held == IF before = 0 THEN <<>> ELSE IF Len(more) > before THEN Tail(more) ELSE more
           s == GrepLine(pattern, before, after, r, lines[i + 1])
<1>1. /\ r \in Searches /\ r.at = i /\ h \in Nat /\ h <= before /\ h <= i /\ r.left = 0
      /\ r.held \in Seq(Nat)
  BY DEF SearchOK, Searches
<1>2. s = [r EXCEPT !.at = i + 1, !.held = held]
  BY <1>1 DEF GrepLine
<1>3. s \in Searches
  BY <1>1, GrepTyped
<1>5. r.held = [k \in 1..h |-> i - h + k]
  BY DEF SearchOK
<1>7. \A j \in ToSet(r.shown) : j \in 1..i /\ Is(j) /\ j + h <= i
  BY DEF SearchOK
<1>8. \A j \in 1..i : Is(j) => j \in ToSet(r.shown)
  BY DEF SearchOK
<1>9. \A j \in 1..i : i - before < j => j \in ToSet(r.shown) \/ i - h < j
  BY DEF SearchOK
<1>10. \A m \in 1..i : Unpadded(lines[m]) = pattern => m + after <= i
  BY <1>1 DEF SearchOK
<1>11. ~Is(i + 1)
  BY <1>10 DEF Near
<1>12. Len(more) = h + 1 /\ more = [k \in 1..(h + 1) |-> i - h + k]
  <2>1. Len(more) = h + 1 /\ DOMAIN more = 1..(h + 1) /\ more[h + 1] = i + 1
        /\ more = [k \in 1..(h + 1) |-> more[k]] /\ \A k \in 1..h : more[k] = r.held[k]
    BY <1>1
  <2>2. ASSUME NEW k \in 1..(h + 1) PROVE more[k] = i - h + k
    <3>1. CASE k = h + 1
      BY <1>1, <2>1, <3>1
    <3>2. CASE k # h + 1
      <4>1. k \in 1..h /\ more[k] = r.held[k]
        BY <1>1, <2>1, <3>2
      <4>2. QED
        BY <1>5, <4>1
    <3>3. QED
      BY <3>1, <3>2
  <2> HIDE DEF more, h
  <2>3. QED
    BY <2>1, <2>2
<1>13. PICK g \in Nat : /\ Len(held) = g /\ held = [k \in 1..g |-> i + 1 - g + k]
                        /\ g <= before /\ g <= h + 1 /\ (before > 0 => g >= h)
                        /\ (g < before => g = h + 1)
  <2>1. CASE before = 0
    <3>1. held = <<>> /\ Len(held) = 0 /\ held = [k \in 1..0 |-> i + 1 - 0 + k]
      BY <2>1
    <3> HIDE DEF held, h
    <3>2. QED
      BY <1>1, <2>1, <3>1
  <2>2. CASE before # 0 /\ ~(Len(more) > before)
    <3>1. held = more
      BY <2>2
    <3>2. \A k \in 1..(h + 1) : i - h + k = i + 1 - (h + 1) + k
      BY <1>1
    <3>3. more = [k \in 1..(h + 1) |-> i + 1 - (h + 1) + k]
      BY <1>12, <3>2
    <3> HIDE DEF held, h, more
    <3>4. QED
      BY <1>1, <1>12, <2>2, <3>1, <3>3
  <2>3. CASE before # 0 /\ Len(more) > before
    <3>1. held = Tail(more) /\ h = before /\ h > 0
      BY <1>1, <1>12, <2>3
    <3>2. more \in Seq(Nat) /\ more # <<>>
      <4>1. Len(more) > 0
        BY <2>3
      <4>2. more \in Seq(Nat)
        BY <1>1, AppendProperties
      <4>3. ASSUME more = <<>>
            PROVE  FALSE
        <5>1. Len(more) = 0
          BY <4>3
        <5>2. QED
          BY <4>1, <5>1
      <4>4. QED
        BY <4>2, <4>3
    <3>7. Len(Tail(more)) = Len(more) - 1
      BY <3>2, HeadTailProperties
    <3>8. \A k \in 1..(Len(more) - 1) : Tail(more)[k] = more[k + 1]
      BY <3>2, HeadTailProperties
    <3>9. Tail(more) \in Seq(Nat)
      BY <3>2, HeadTailProperties
    <3>3. Tail(more) = [k \in 1..h |-> more[k + 1]] /\ Len(Tail(more)) = h
      <4> HIDE DEF h, more
      <4> DEFINE t == Tail(more)
      <4>4. Len(more) = h + 1 /\ h \in Nat
        BY <1>1, <1>12
      <4>1. t \in Seq(Nat) /\ Len(t) = h /\ \A k \in 1..h : t[k] = more[k + 1]
        BY <3>7, <3>8, <3>9, <4>4
      <4> HIDE DEF t
      <4>2. t = [k \in 1..h |-> more[k + 1]]
        BY <4>1
      <4>3. QED
        BY <4>1, <4>2 DEF t
    <3> HIDE DEF held, h, more
    <3>4. \A k \in 1..h : more[k + 1] = i + 1 - h + k
      <4> SUFFICES ASSUME NEW k \in 1..h PROVE more[k + 1] = i + 1 - h + k
        OBVIOUS
      <4>1. k + 1 \in 1..(h + 1) /\ i - h + (k + 1) = i + 1 - h + k
        BY <1>1
      <4>2. QED
        BY <1>12, <4>1
    <3>5. Tail(more) = [k \in 1..h |-> i + 1 - h + k]
      BY <3>3, <3>4
    <3>6. QED
      BY <1>1, <2>3, <3>1, <3>3, <3>5
  <2>4. QED
    BY <2>1, <2>2, <2>3
<1>14. s.at = i + 1 /\ s.held = held /\ s.left = 0 /\ s.shown = r.shown
  BY <1>1, <1>2 DEF Searches
<1> HIDE DEF s, held, h, more
<1>18. \A j : IsNow(j) <=> Is(j)
  BY NearGrows
<1> HIDE DEF Is, IsNow
<1>19. \A j \in ToSet(s.shown) : j \in 1..(i + 1) /\ IsNow(j) /\ j + g <= i + 1
  BY <1>1, <1>7, <1>13, <1>14, <1>18
<1>20. \A j \in 1..(i + 1) : IsNow(j) => j \in ToSet(s.shown)
  BY <1>8, <1>11, <1>14, <1>18
<1>21. \A j \in 1..(i + 1) : i + 1 - before < j => j \in ToSet(s.shown) \/ i + 1 - g < j
  BY <1>1, <1>9, <1>13, <1>14
<1>22. \A l \in 1..(i + 1) : Unpadded(lines[l]) = pattern => l + after <= i + 1 + s.left
  BY <1>10, <1>14
<1>23. Len(s.held) = g /\ g <= before /\ g <= i + 1 /\ s.held = [k \in 1..g |-> i + 1 - g + k]
  BY <1>1, <1>13, <1>14
<1>24. Rises(s.shown)
  BY <1>14 DEF SearchOK
<1>27. SearchOK(lines, pattern, before, after, i + 1, s)
  BY <1>3, <1>14, <1>19, <1>20, <1>21, <1>22, <1>23, <1>24 DEF SearchOK, IsNow
<1>28. QED
  BY <1>27 DEF s

\* So it is after every line.
LEMMA SearchIsOK ==
    ASSUME NEW lines \in Seq(Texts), NEW pattern, NEW before \in Nat, NEW after \in Nat
    PROVE  SearchOK(lines, pattern, before, after, Len(lines),
                    LinesSearched(lines, pattern, before, after)[Len(lines)])
<1> DEFINE n == Len(lines)
           g == LinesSearched(lines, pattern, before, after)
           P == {i \in 0..n : SearchOK(lines, pattern, before, after, i, g[i])}
<1>1. /\ n \in Nat /\ g[0] = NoSearch
      /\ \A i \in 1..n : g[i] = GrepLine(pattern, before, after, g[i - 1], lines[i])
  BY SearchRuns
<1>2. SearchOK(lines, pattern, before, after, 0, NoSearch)
  <2>1. /\ NoSearch \in Searches /\ NoSearch.held = <<>> /\ NoSearch.shown = <<>>
        /\ NoSearch.at = 0 /\ NoSearch.left = 0
    BY DEF NoSearch, Searches
  <2>2. Len(NoSearch.held) = 0 /\ NoSearch.held = [k \in 1..0 |-> 0 - 0 + k]
    BY <2>1
  <2>3. Rises(NoSearch.shown) /\ ToSet(NoSearch.shown) = {}
    BY <2>1 DEF Rises, ToSet
  <2> HIDE DEF NoSearch
  <2>4. QED
    BY <2>1, <2>2, <2>3 DEF SearchOK
<1>3. 0 \in P
  BY <1>1, <1>2
<1>4. ASSUME NEW i \in 1..n, i - 1 \in P PROVE i \in P
  <2>1. i - 1 \in Nat /\ (i - 1) + 1 = i /\ SearchOK(lines, pattern, before, after, i - 1, g[i - 1])
    BY <1>4
  <2> DEFINE m == i - 1
  <2>2. g[m] \in Searches /\ g[m].left \in Nat
    BY <2>1 DEF SearchOK, Searches
  <2> HIDE DEF m, g
  <2>3. SearchOK(lines, pattern, before, after, m + 1,
                 GrepLine(pattern, before, after, g[m], lines[m + 1]))
    BY <2>1, MatchKeeps, FollowKeeps, HoldKeeps DEF m
  <2>4. QED
    BY <1>1, <2>1, <2>3 DEF m
<1> HIDE DEF P
<1>5. \A i \in 0..n : i \in P
  BY <1>1, <1>3, <1>4, StepByStep
<1>6. QED
  BY <1>1, <1>5 DEF P

\* What a search shows is the first part of what it found.
LEMMA GrepMissesNothing ==
    ASSUME NEW lines \in Seq(Texts), NEW pattern, NEW before \in Nat, NEW after \in Nat,
           NEW limit \in Nat
    PROVE  LET found == Grep(lines, pattern, before, after, limit)
               wanted == {i \in DOMAIN lines : \E m \in DOMAIN lines :
                             Unpadded(lines[m]) = pattern /\ m - before <= i /\ i <= m + after}
           IN  /\ Rises(found.shown)
               /\ ToSet(found.shown) \subseteq wanted
               /\ \A i \in wanted \ ToSet(found.shown) :
                     found.truncated /\ \A j \in ToSet(found.shown) : j < i
<1> DEFINE n == Len(lines)
           all == LinesSearched(lines, pattern, before, after)[n].shown
           cut == IF limit = 0 THEN 1 ELSE limit
           c == Least(cut, Len(all))
           found == Grep(lines, pattern, before, after, limit)
           wanted == {i \in DOMAIN lines : \E m \in DOMAIN lines :
                         Unpadded(lines[m]) = pattern /\ m - before <= i /\ i <= m + after}
<1>1. found.shown = SubSeq(all, 1, c)
  BY DEF Grep
<1>14. found.truncated <=> Len(all) >= cut
  BY DEF Grep
<1>2. n \in Nat /\ DOMAIN lines = 1..n
  OBVIOUS
<1>3. SearchOK(lines, pattern, before, after, n, LinesSearched(lines, pattern, before, after)[n])
  BY SearchIsOK
<1>4. all \in Seq(Nat) /\ Rises(all)
  BY <1>3 DEF SearchOK, Searches
<1>5. ToSet(all) = wanted
  <2>1. \A j \in ToSet(all) : j \in 1..n /\ Near(lines, pattern, before, after, n, j)
    BY <1>3 DEF SearchOK
  <2>2. \A j \in 1..n : Near(lines, pattern, before, after, n, j) => j \in ToSet(all)
    BY <1>3 DEF SearchOK
  <2> HIDE DEF all
  <2>3. QED
    BY <1>2, <2>1, <2>2 DEF Near
<1> HIDE DEF all, found, wanted
<1>6. /\ cut \in Nat \ {0} /\ Len(all) \in Nat /\ c \in 0..Len(all) /\ c <= cut
      /\ c = cut \/ c = Len(all)
  BY <1>4 DEF Least
<1> HIDE DEF cut, c
<1>7. DOMAIN all = 1..Len(all) /\ \A k \in 1..Len(all) : all[k] \in Nat
  BY <1>4
<1>8. DOMAIN found.shown = 1..c /\ \A k \in 1..c : found.shown[k] = all[k]
  <2>1. c \in Nat /\ c - 1 + 1 = c
    BY <1>6
  <2>2. SubSeq(all, 1, c) = [k \in 1..c |-> all[k]]
    BY <2>1
  <2>3. QED
    BY <1>1, <2>2
<1>9. Rises(found.shown)
  <2>1. \A k \in 1..c : k \in 1..Len(all)
    BY <1>6
  <2>2. \A k, m \in 1..c : k < m => all[k] < all[m]
    BY <1>4, <1>7, <2>1 DEF Rises
  <2>3. QED
    BY <1>8, <2>2 DEF Rises
<1>10. ToSet(found.shown) = {all[k] : k \in 1..c} /\ ToSet(all) = {all[k] : k \in 1..Len(all)}
  BY <1>7, <1>8 DEF ToSet
<1>11. ToSet(found.shown) \subseteq wanted
  BY <1>5, <1>6, <1>10
<1>12. ASSUME NEW i \in wanted \ ToSet(found.shown)
       PROVE  found.truncated /\ \A j \in ToSet(found.shown) : j < i
  <2>1. PICK p \in 1..Len(all) : i = all[p]
    BY <1>5, <1>10, <1>12
  <2>2. p \notin 1..c
    BY <1>10, <1>12, <2>1
  <2>6. c < p /\ c = cut /\ Len(all) >= cut
    BY <1>6, <2>2
  <2>3. c < p /\ found.truncated
    BY <1>14, <2>6
  <2>4. ASSUME NEW j \in ToSet(found.shown) PROVE j < i
    <3>1. PICK k \in 1..c : j = all[k]
      BY <1>10
    <3>2. k \in 1..Len(all) /\ k < p
      BY <1>6, <2>3
    <3>3. QED
      BY <1>4, <1>7, <2>1, <3>1, <3>2 DEF Rises
  <2>5. QED
    BY <2>3, <2>4
<1>13. QED
  BY <1>9, <1>11, <1>12 DEF found, wanted

---------------------------------------------------------------------------------
(* Reading. *)

\* What has been taken of a file, in passing.
Takings == [lines : Seq(Texts), bytes : Nat, total : Nat, stop : {"no", "asked", "lines", "bytes"},
            panicked : BOOLEAN]

\* A line more.
LEMMA TakeTyped ==
    ASSUME NEW offset \in Nat, NEW n \in Nat, NEW r \in Takings, NEW line \in Texts
    PROVE  TakeLine(offset, n, r, line) \in Takings
<1> DEFINE kept == Append(r.lines, line)
           bytes == r.bytes + Kept(line)
           stop == IF Len(kept) >= n THEN "asked" ELSE IF Len(kept) >= MaxLines THEN "lines"
                   ELSE IF bytes >= MaxBytes THEN "bytes" ELSE "no"
           bad == r.panicked \/ Panics(line)
           s == TakeLine(offset, n, r, line)
<1>1. /\ r.lines \in Seq(Texts) /\ r.bytes \in Nat /\ r.total \in Nat /\ r.panicked \in BOOLEAN
      /\ r.stop \in {"no", "asked", "lines", "bytes"}
  BY DEF Takings
<1>2. kept \in Seq(Texts) /\ stop \in {"no", "asked", "lines", "bytes"}
  BY <1>1
<1>7. bad \in BOOLEAN
  BY Zenon
<1>11. r.total + 1 \in Nat
  BY <1>1
<1>3. bytes \in Nat
  <2>1. MaxLineLength \in Nat
    BY ToolsAssumption
  <2>2. LengthOf(line) \in Nat
    BY <2>1 DEF LengthOf
  <2>3. Kept(line) \in Nat
    BY <2>1, <2>2 DEF Kept, Least
  <2>4. QED
    BY <1>1, <2>3
<1>4. s = IF r.total + 1 < offset \/ r.stop # "no" THEN [r EXCEPT !.total = r.total + 1]
          ELSE [r EXCEPT !.total = r.total + 1, !.lines = kept, !.bytes = bytes, !.panicked = bad,
                         !.stop = stop]
  BY DEF TakeLine
<1> HIDE DEF kept, bytes, stop, bad, s
<1>8. r = [lines |-> r.lines, bytes |-> r.bytes, total |-> r.total, stop |-> r.stop,
           panicked |-> r.panicked]
  BY DEF Takings
<1>9. ASSUME r.total + 1 < offset \/ r.stop # "no"
      PROVE  s \in Takings
  <2>1. s = [lines |-> r.lines, bytes |-> r.bytes, total |-> r.total + 1, stop |-> r.stop,
             panicked |-> r.panicked]
    BY <1>4, <1>8, <1>9
  <2>2. QED
    BY <1>1, <1>11, <2>1, Zenon DEF Takings
<1>10. ASSUME ~(r.total + 1 < offset \/ r.stop # "no")
       PROVE  s \in Takings
  <2>1. s = [lines |-> kept, bytes |-> bytes, total |-> r.total + 1, stop |-> stop,
             panicked |-> bad]
    BY <1>4, <1>8, <1>10
  <2>2. QED
    BY <1>2, <1>3, <1>7, <1>11, <2>1, Zenon DEF Takings
<1>5. s \in Takings
  BY <1>9, <1>10
<1>6. QED
  BY <1>5 DEF s

\* What is read goes from line to line.
LEMMA TakingRuns ==
    ASSUME NEW lines \in Seq(Texts), NEW offset \in Nat, NEW k \in Nat
    PROVE  LET g == LinesTaken(lines, offset, k) IN
           /\ g[0] = NothingRead /\ \A i \in 0..Len(lines) : g[i] \in Takings
           /\ \A i \in 1..Len(lines) : g[i] = TakeLine(offset, k, g[i - 1], lines[i])
<1> DEFINE n == Len(lines)
           step == [is \in (1..n) \X Takings |-> TakeLine(offset, k, is[2], lines[is[1]])]
           IsIt(g) == g = [i \in 0..n |-> IF i = 0 THEN NothingRead
                                          ELSE TakeLine(offset, k, g[i - 1], lines[i])]
           h == LinesTaken(lines, offset, k)
<1>1. n \in Nat /\ NothingRead \in Takings /\ \A i \in 1..n : lines[i] \in Texts
  BY DEF Takings, NothingRead
<1>2. step \in [(1..n) \X Takings -> Takings]
  BY <1>1, TakeTyped
<1>3. PICK g : IsRun(g, n, Takings, NothingRead, step)
  BY <1>1, <1>2, RunExists
<1>4. IsIt(g)
  <2>1. /\ g \in [0..n -> Takings] /\ g[0] = NothingRead
        /\ \A i \in 1..n : g[i] = step[<<i, g[i - 1]>>]
    BY <1>3 DEF IsRun
  <2>2. ASSUME NEW i \in 1..n PROVE g[i] = TakeLine(offset, k, g[i - 1], lines[i])
    <3>1. i - 1 \in 0..n /\ i \in 1..n
      BY <1>1
    <3> HIDE DEF n, step
    <3>2. g[i - 1] \in Takings /\ g[i] = step[<<i, g[i - 1]>>]
      BY <2>1, <3>1
    <3>3. QED
      BY <3>2 DEF step
  <2>3. \A i \in 0..n : i = 0 \/ i \in 1..n
    BY <1>1
  <2> HIDE DEF step
  <2>4. g = [i \in 0..n |-> g[i]]
    BY <2>1
  <2>5. \A i \in 0..n : g[i] = IF i = 0 THEN NothingRead
                                ELSE TakeLine(offset, k, g[i - 1], lines[i])
    BY <2>1, <2>2, <2>3
  <2>6. QED
    BY <2>4, <2>5
<1>5. h = CHOOSE g2 : IsIt(g2)
  BY DEF LinesTaken
<1>6. IsIt(h)
  BY <1>4, <1>5
<1> HIDE DEF h, step
<1>7. h[0] = NothingRead
  BY <1>1, <1>6
<1>8. ASSUME NEW i \in 1..n PROVE h[i] = TakeLine(offset, k, h[i - 1], lines[i])
  <2>1. i \in 0..n /\ i # 0
    OBVIOUS
  <2>2. QED
    BY <1>6, <2>1
<1> HIDE DEF IsIt
<1>9. \A i \in 0..n : h[i] \in Takings
  <2> DEFINE P == {i \in 0..n : h[i] \in Takings}
  <2>1. 0 \in P
    BY <1>1, <1>7
  <2>2. ASSUME NEW i \in 1..n, i - 1 \in P PROVE i \in P
    <3>1. h[i - 1] \in Takings /\ lines[i] \in Texts
      BY <1>1, <2>2
    <3>2. h[i] \in Takings
      BY <1>8, <3>1, TakeTyped
    <3>3. QED
      BY <3>2
  <2> HIDE DEF P
  <2>3. \A i \in 0..n : i \in P
    BY <1>1, <2>1, <2>2, StepByStep
  <2>4. QED
    BY <2>3 DEF P
<1>10. QED
  BY <1>7, <1>8, <1>9 DEF h

\* After i lines: what is kept are the lines from the one asked for on, one at least, and as
\* long as nothing stopped it, all of them.
TakingOK(lines, offset, k, i, r) ==
    LET n == Len(r.lines)
    IN  /\ r \in Takings /\ r.total = i /\ r.lines = [m \in 1..n |-> lines[offset + m - 1]]
        /\ i < offset => n = 0 /\ r.stop = "no"
        /\ i >= offset => n >= 1
        /\ n <= k /\ n <= MaxLines /\ (n > 0 => offset + n <= i + 1)
        /\ r.stop = "no" => n < k /\ n < MaxLines /\ (i >= offset => offset + n = i + 1)

\* A line more.
LEMMA TakingKeeps ==
    ASSUME NEW lines \in Seq(Texts), NEW offset \in Nat \ {0}, NEW k \in Nat \ {0}, NEW i \in Nat,
           i < Len(lines), NEW r, TakingOK(lines, offset, k, i, r)
    PROVE  TakingOK(lines, offset, k, i + 1, TakeLine(offset, k, r, lines[i + 1]))
<1> DEFINE line == lines[i + 1]
           kept == Append(r.lines, line)
           bytes == r.bytes + Kept(line)
           stop == IF Len(kept) >= k THEN "asked" ELSE IF Len(kept) >= MaxLines THEN "lines"
                   ELSE IF bytes >= MaxBytes THEN "bytes" ELSE "no"
           bad == r.panicked \/ Panics(line)
           s == TakeLine(offset, k, r, line)
           n == Len(r.lines)
<1>1. line \in Texts
  OBVIOUS
<1>2. /\ r \in Takings /\ r.lines \in Seq(Texts) /\ r.total = i /\ n \in Nat
      /\ r.lines = [m \in 1..n |-> lines[offset + m - 1]]
  BY DEF TakingOK, Takings
<1>3. /\ i < offset => n = 0 /\ r.stop = "no"
      /\ i >= offset => n >= 1
      /\ n <= k /\ n <= MaxLines /\ (n > 0 => offset + n <= i + 1)
      /\ r.stop = "no" => n < k /\ n < MaxLines /\ (i >= offset => offset + n = i + 1)
  BY DEF TakingOK
<1>4. s \in Takings
  BY <1>1, <1>2, TakeTyped
<1>5. MaxLines \in Nat \ {0}
  BY ToolsAssumption
<1>6. s = IF r.total + 1 < offset \/ r.stop # "no" THEN [r EXCEPT !.total = r.total + 1]
          ELSE [r EXCEPT !.total = r.total + 1, !.lines = kept, !.bytes = bytes, !.panicked = bad,
                         !.stop = stop]
  BY DEF TakeLine
<1>7. Len(kept) = n + 1 /\ DOMAIN kept = 1..(n + 1) /\ kept[n + 1] = line
      /\ kept = [m \in 1..(n + 1) |-> kept[m]] /\ \A m \in 1..n : kept[m] = r.lines[m]
  BY <1>1, <1>2
<1>8. Len(kept) >= k \/ Len(kept) >= MaxLines => stop # "no"
  OBVIOUS
<1> HIDE DEF line, kept, bytes, stop, bad, s, n
<1>9. CASE r.total + 1 < offset \/ r.stop # "no"
  <2>1. s.lines = r.lines /\ s.total = i + 1 /\ s.stop = r.stop
    BY <1>2, <1>6, <1>9 DEF Takings
  <2>2. Len(s.lines) = n
    BY <2>1 DEF n
  <2>3. TakingOK(lines, offset, k, i + 1, s)
    BY <1>2, <1>3, <1>4, <1>5, <1>9, <2>1, <2>2 DEF TakingOK
  <2>4. QED
    BY <2>3 DEF s, line
<1>10. CASE ~(r.total + 1 < offset \/ r.stop # "no")
  <2>1. s.lines = kept /\ s.total = i + 1 /\ s.stop = stop
    BY <1>2, <1>6, <1>10 DEF Takings
  <2>2. offset + n = i + 1 /\ r.stop = "no" /\ i + 1 >= offset
    <3>1. r.stop = "no" /\ i + 1 >= offset
      BY <1>2, <1>10
    <3>2. CASE i >= offset
      BY <1>3, <3>1, <3>2
    <3>3. CASE i < offset
      <4>1. n = 0 /\ i + 1 = offset
        BY <1>3, <3>1, <3>3
      <4>2. QED
        BY <3>1, <4>1
    <3>4. QED
      BY <3>2, <3>3
  <2>3. ASSUME NEW m \in 1..(n + 1) PROVE kept[m] = lines[offset + m - 1]
    <3>1. CASE m = n + 1
      <4>1. offset + m - 1 = i + 1
        BY <1>2, <2>2, <3>1
      <4>2. QED
        BY <1>7, <3>1, <4>1 DEF line
    <3>2. CASE m # n + 1
      <4>1. m \in 1..n
        BY <1>2, <3>2
      <4>2. QED
        BY <1>2, <1>7, <4>1
    <3>3. QED
      BY <3>1, <3>2
  <2>4. kept = [m \in 1..(n + 1) |-> lines[offset + m - 1]]
    BY <1>7, <2>3
  <2>5. Len(s.lines) = n + 1 /\ s.lines = [m \in 1..(n + 1) |-> lines[offset + m - 1]]
    BY <1>7, <2>1, <2>4
  <2>6. /\ n + 1 <= k /\ n + 1 <= MaxLines /\ offset + (n + 1) = i + 1 + 1
        /\ s.stop = "no" => n + 1 < k /\ n + 1 < MaxLines
    BY <1>2, <1>3, <1>5, <1>7, <1>8, <2>1, <2>2
  <2>7. TakingOK(lines, offset, k, i + 1, s)
    BY <1>2, <1>4, <2>1, <2>2, <2>5, <2>6 DEF TakingOK
  <2>8. QED
    BY <2>7 DEF s, line
<1>11. QED
  BY <1>9, <1>10

\* So it is after every line.
LEMMA TakingIsOK ==
    ASSUME NEW lines \in Seq(Texts), NEW offset \in Nat \ {0}, NEW k \in Nat \ {0},
           NEW read \in 0..Len(lines)
    PROVE  TakingOK(lines, offset, k, read, LinesTaken(lines, offset, k)[read])
<1> DEFINE n == Len(lines)
           g == LinesTaken(lines, offset, k)
           P == {i \in 0..n : TakingOK(lines, offset, k, i, g[i])}
<1>1. /\ n \in Nat /\ g[0] = NothingRead
      /\ \A i \in 1..n : g[i] = TakeLine(offset, k, g[i - 1], lines[i])
  BY TakingRuns
<1>2. TakingOK(lines, offset, k, 0, NothingRead)
  <2>1. NothingRead \in Takings
    <3>1. 0 \in Nat /\ <<>> \in Seq(Texts)
      OBVIOUS
    <3>2. QED
      BY <3>1, Zenon DEF NothingRead, Takings
  <2>2. NothingRead.lines = <<>> /\ NothingRead.stop = "no" /\ NothingRead.total = 0
    BY DEF NothingRead
  <2>3. Len(NothingRead.lines) = 0 /\ NothingRead.lines = [m \in 1..0 |-> lines[offset + m - 1]]
    BY <2>2
  <2> HIDE DEF NothingRead
  <2>4. QED
    BY <2>1, <2>2, <2>3, ToolsAssumption DEF TakingOK
<1>3. 0 \in P
  BY <1>1, <1>2
<1>4. ASSUME NEW i \in 1..n, i - 1 \in P PROVE i \in P
  <2>1. i - 1 \in Nat /\ (i - 1) + 1 = i /\ i - 1 < n /\ TakingOK(lines, offset, k, i - 1, g[i - 1])
    BY <1>4
  <2> DEFINE m == i - 1
  <2> HIDE DEF m, g
  <2>2. TakingOK(lines, offset, k, m + 1, TakeLine(offset, k, g[m], lines[m + 1]))
    BY <2>1, TakingKeeps DEF m
  <2>3. QED
    BY <1>1, <2>1, <2>2 DEF m
<1> HIDE DEF P
<1>5. \A i \in 0..n : i \in P
  BY <1>1, <1>3, <1>4, StepByStep
<1>6. QED
  BY <1>1, <1>5 DEF P

\* What a page is to be, of the lines that could be read.
PageOK(page, lines, read, offset, k) ==
    /\ page.lines = SubSeq(lines, page.start, page.start + Len(page.lines) - 1)
    /\ page.lines = <<>> => page.start > read
    /\ page.eof => page.start + Len(page.lines) > read
    /\ Len(page.lines) <= Least(k, MaxLines)
    /\ offset < 0 /\ k >= -offset => page.start + Len(page.lines) = read + 1

\* A page from the line that was asked for on.
LEMMA ForwardIsOK ==
    ASSUME NEW lines \in Seq(Texts), NEW offset \in Nat \ {0}, NEW k \in Nat \ {0},
           NEW read \in 0..Len(lines)
    PROVE  PageOK(ReadForward(lines, read, offset, k), lines, read, offset, k)
<1> DEFINE n == read
           r == LinesTaken(lines, offset, k)[n]
           page == ReadForward(lines, read, offset, k)
           o == Len(r.lines)
<1>1. page.lines = r.lines /\ page.start = offset /\ page.total = r.total
  BY DEF ReadForward
<1>2. page.eof <=> r.stop = "no"
  BY DEF ReadForward
<1>3. TakingOK(lines, offset, k, n, r)
  BY TakingIsOK
<1>4. n \in Nat /\ n = read
  OBVIOUS
<1> HIDE DEF page, r, n
<1>5. /\ r.lines \in Seq(Texts) /\ r.total = n /\ o \in Nat
      /\ r.lines = [m \in 1..o |-> lines[offset + m - 1]]
      /\ n >= offset => o >= 1
      /\ o <= k /\ o <= MaxLines /\ (o > 0 => offset + o <= n + 1)
      /\ r.stop = "no" => (n >= offset => offset + o = n + 1)
  BY <1>3 DEF TakingOK, Takings
<1> HIDE DEF o
<1>6. SubSeq(lines, offset, offset + o - 1) = [m \in 1..o |-> lines[offset + m - 1]]
  <2>1. offset + o - 1 - offset + 1 = o
    BY <1>5
  <2>2. SubSeq(lines, offset, offset + o - 1)
          = [m \in 1..(offset + o - 1 - offset + 1) |-> lines[offset + m - 1]]
    BY <1>5
  <2>3. QED
    BY <2>1, <2>2
<1>7. page.lines = SubSeq(lines, page.start, page.start + Len(page.lines) - 1)
  BY <1>1, <1>5, <1>6 DEF o
<1>8. page.lines = <<>> => page.start > n
  BY <1>1, <1>4, <1>5 DEF o
<1>9. page.eof => page.start + Len(page.lines) > n
  BY <1>1, <1>2, <1>4, <1>5 DEF o
<1>10. Len(page.lines) <= Least(k, MaxLines)
  BY <1>1, <1>5 DEF o, Least
<1>11. QED
  BY <1>4, <1>7, <1>8, <1>9, <1>10 DEF PageOK, page

\* Nothing adds up to nothing.
LEMMA NoSum == SumOf(<<>>) = 0
<1> DEFINE IsIt(g) == g = [i \in 0..0 |-> IF i = 0 THEN 0 ELSE g[i - 1] + <<>>[i]]
           h == Sums(<<>>)
<1>1. h = CHOOSE g : IsIt(g)
  BY DEF Sums
<1>2. IsIt([i \in 0..0 |-> 0])
  OBVIOUS
<1>3. IsIt(h)
  BY <1>1, <1>2
<1> HIDE DEF h
<1>4. h[0] = 0
  BY <1>3
<1>5. QED
  BY <1>4 DEF SumOf, h

\* Of the numbers up to m that are good, one of which 0 is, there is a last one.
LEMMA LastFit ==
    ASSUME NEW m \in Nat, NEW fits \in SUBSET (0..m), 0 \in fits
    PROVE  (CHOOSE k \in fits : \A j \in fits : k >= j) \in 0..m
<1> DEFINE Left == {m - k : k \in fits}
<1>1. Left \in SUBSET Nat /\ Left # {}
  <2>1. \A k \in fits : m - k \in Nat
    OBVIOUS
  <2>2. m - 0 \in Left
    OBVIOUS
  <2>3. QED
    BY <2>1, <2>2
<1>2. PICK d \in Left : \A e \in Left : d <= e
  <2> HIDE DEF Left
  <2>1. QED
    BY <1>1, LeastOf
<1>3. PICK k \in fits : d = m - k
  BY <1>2
<1>4. ASSUME NEW j \in fits PROVE k >= j
  <2>1. m - j \in Left
    OBVIOUS
  <2> HIDE DEF Left
  <2>2. m - k <= m - j
    BY <1>2, <1>3, <2>1
  <2>3. QED
    BY <2>2
<1>5. (CHOOSE l \in fits : \A j \in fits : l >= j) \in fits
  BY <1>3, <1>4
<1>6. QED
  BY <1>5

\* A part of a part.
LEMMA PartOfPart ==
    ASSUME NEW S, NEW s \in Seq(S), NEW a \in Nat \ {0}, NEW b \in Nat, a <= b, b <= Len(s),
           NEW d \in Nat, d <= b - a + 1
    PROVE  SubSeq(SubSeq(s, a, b), d + 1, b - a + 1) = SubSeq(s, a + d, b)
           /\ Len(SubSeq(s, a, b)) = b - a + 1 /\ Len(SubSeq(s, a + d, b)) = b - a + 1 - d
           /\ SubSeq(s, a, b) \in Seq(S)
<1> DEFINE t == SubSeq(s, a, b)
           n == b - a + 1
<1>1. n \in Nat /\ d <= n
  OBVIOUS
<1>2. t \in Seq(S) /\ Len(t) = n /\ t = [i \in 1..n |-> s[a + i - 1]]
  OBVIOUS
<1>3. SubSeq(s, a + d, b) = [i \in 1..(b - (a + d) + 1) |-> s[a + d + i - 1]]
      /\ Len(SubSeq(s, a + d, b)) = b - (a + d) + 1
  OBVIOUS
<1>4. b - (a + d) + 1 = n - d
  OBVIOUS
<1> HIDE DEF t
<1>5. SubSeq(t, d + 1, n) = [i \in 1..(n - (d + 1) + 1) |-> t[d + 1 + i - 1]]
  BY <1>1, <1>2
<1>6. n - (d + 1) + 1 = n - d
  BY <1>1
<1>7. ASSUME NEW i \in 1..(n - d) PROVE t[d + 1 + i - 1] = s[a + d + i - 1]
  <2>1. d + 1 + i - 1 \in 1..n /\ a + (d + 1 + i - 1) - 1 = a + d + i - 1
    BY <1>1
  <2>2. QED
    BY <1>2, <2>1
<1> HIDE DEF n
<1>8. SubSeq(t, d + 1, n) = SubSeq(s, a + d, b)
  BY <1>3, <1>4, <1>5, <1>6, <1>7
<1>9. QED
  BY <1>2, <1>3, <1>4, <1>8 DEF t, n

\* A page of the last lines.
LEMMA TailIsOK ==
    ASSUME NEW lines \in Seq(Texts), NEW read \in 1..Len(lines), NEW offset \in Int, offset < 0,
           -offset <= MaxLines, NEW k \in Nat \ {0}
    PROVE  PageOK(ReadTail(lines, read, -offset, k), lines, read, offset, k)
<1> DEFINE count == -offset
           n == read
           opening == n - Least(count, n) + 1
           last == Least(opening + Least(k, MaxLines) - 1, n)
           candidates == SubSeq(lines, opening, last)
           sizes == [i \in DOMAIN candidates |-> Kept(candidates[i])]
           fits == {l \in 0..Len(candidates) :
                       SumOf(SubSeq(sizes, Len(sizes) - l + 1, Len(sizes))) <= MaxBytes}
           kept == Len(candidates) - CHOOSE l \in fits : \A j \in fits : l >= j
           shown == SubSeq(candidates, kept + 1, Len(candidates))
           page == ReadTail(lines, read, count, k)
           m == last - opening + 1
<1>1. /\ page.lines = shown /\ page.start = IF shown = <<>> THEN n + 1 ELSE opening + kept
      /\ page.total = n
  BY DEF ReadTail
<1>2. ~page.eof
  BY DEF ReadTail
<1>3. n \in Nat \ {0} /\ n <= Len(lines) /\ n = read /\ MaxLines \in Nat \ {0} /\ count \in Nat \ {0} /\ MaxBytes \in Nat
  BY ToolsAssumption
<1>14. \A a, b \in Nat : /\ Least(a, b) \in Nat /\ Least(a, b) <= a /\ Least(a, b) <= b
                         /\ Least(a, b) = a \/ Least(a, b) = b
  BY DEF Least
<1>4. /\ opening \in Nat \ {0} /\ last \in Nat /\ opening <= last /\ last <= n /\ m \in Nat
      /\ m <= k /\ m <= MaxLines /\ (k >= count => last = n)
  <2> DEFINE c == Least(count, n)
             l == Least(k, MaxLines)
  <2>1. c \in Nat \ {0} /\ c <= count /\ c <= n
    BY <1>3, <1>14
  <2>2. l \in Nat \ {0} /\ l <= k /\ l <= MaxLines /\ (l = k \/ l = MaxLines)
    BY <1>3, <1>14
  <2> HIDE DEF c, l
  <2>3. opening = n - c + 1 /\ opening \in Nat \ {0} /\ opening <= n
    BY <1>3, <2>1 DEF c
  <2> HIDE DEF opening, n
  <2>4. opening + l - 1 \in Nat /\ last = Least(opening + l - 1, n)
    BY <2>2, <2>3 DEF l
  <2> HIDE DEF last
  <2>5. last \in Nat /\ last <= opening + l - 1 /\ last <= n /\ (last = opening + l - 1 \/ last = n)
    BY <1>3, <1>14, <2>4
  <2>6. k >= count => last = n
    BY <1>3, <2>1, <2>2, <2>3, <2>5
  <2>7. opening <= last
    BY <1>3, <2>2, <2>3, <2>5
  <2>8. last - opening + 1 \in Nat /\ last - opening + 1 <= l
    BY <2>2, <2>3, <2>5, <2>7
  <2>9. m \in Nat /\ m <= k /\ m <= MaxLines
    BY <1>3, <2>2, <2>8
  <2>10. QED
    BY <2>3, <2>5, <2>6, <2>7, <2>9
<1> HIDE DEF n, opening, last, count, page
<1>5. candidates \in Seq(Texts) /\ Len(candidates) = m
  BY <1>4, PartOfPart DEF n
<1> HIDE DEF candidates, m
<1>6. 0 \in fits
  <2>1. sizes \in Seq(Nat) /\ Len(sizes) = m
    <3>1. ASSUME NEW i \in 1..m PROVE Kept(candidates[i]) \in Nat
      <4>1. candidates[i] \in Texts /\ MaxLineLength \in Nat
        BY <1>5, ToolsAssumption
      <4>2. LengthOf(candidates[i]) \in Nat
        BY <4>1 DEF LengthOf
      <4>3. QED
        BY <4>1, <4>2 DEF Kept, Least
    <3>2. DOMAIN candidates = 1..m /\ m \in Nat
      BY <1>4, <1>5 
    <3>3. QED
      BY <3>1, <3>2
  <2> HIDE DEF sizes
  <2>2. SubSeq(sizes, Len(sizes) - 0 + 1, Len(sizes)) = <<>>
    BY <1>4, <2>1
  <2> DEFINE rest == SubSeq(sizes, Len(sizes) - 0 + 1, Len(sizes))
  <2> HIDE DEF rest
  <2>6. SumOf(rest) = 0
    BY <2>2, NoSum DEF rest
  <2>3. SumOf(rest) <= MaxBytes
    BY <1>3, <2>6
  <2>4. 0 \in 0..Len(candidates)
    BY <1>4, <1>5
  <2>5. QED
    BY <2>3, <2>4 DEF rest
<1>7. fits \in SUBSET (0..m)
  BY <1>5
<1> HIDE DEF fits
<1>8. kept \in 0..m
  <2>1. (CHOOSE l \in fits : \A j \in fits : l >= j) \in 0..m
    BY <1>4, <1>6, <1>7, LastFit
  <2>2. QED
    BY <1>4, <1>5, <2>1
<1> HIDE DEF kept
<1>9. shown = SubSeq(lines, opening + kept, last) /\ Len(shown) = m - kept
  BY <1>4, <1>5, <1>8, PartOfPart DEF candidates, m, n
<1> HIDE DEF shown
<1>10. shown = <<>> <=> m = kept
  <2>1. shown \in Seq(Texts)
    BY <1>4, <1>8, <1>9 DEF n
  <2>2. shown = <<>> <=> Len(shown) = 0
    BY <2>1, EmptySeq
  <2>3. Len(shown) = m - kept /\ m \in Nat /\ kept \in Int
    BY <1>4, <1>8, <1>9
  <2> HIDE DEF last, opening
  <2>4. QED
    BY <2>2, <2>3
<1>11. CASE shown = <<>>
  <2>1. page.lines = <<>> /\ page.start = n + 1 /\ page.total = n /\ Len(page.lines) = 0
    BY <1>1, <1>11
  <2>2. SubSeq(lines, n + 1, n + 1 + 0 - 1) = <<>>
    BY <1>3
  <2>3. PageOK(page, lines, read, offset, k)
    BY <1>2, <1>3, <2>1, <2>2 DEF PageOK, Least
  <2>4. QED
    BY <2>3 DEF page, count
<1>12. CASE shown # <<>>
  <2>1. /\ page.lines = shown /\ page.start = opening + kept /\ page.total = n
        /\ Len(page.lines) = m - kept
    BY <1>1, <1>9, <1>12
  <2>2. opening + kept + (m - kept) - 1 = last
    BY <1>4, <1>8 DEF m
  <2>3. Len(page.lines) <= Least(k, MaxLines)
    BY <1>3, <1>4, <1>8, <2>1 DEF Least
  <2>4. k >= -offset => page.start + Len(page.lines) = n + 1
    BY <1>3, <1>4, <1>8, <2>1, <2>2 DEF count
  <2>5. PageOK(page, lines, read, offset, k)
    BY <1>2, <1>3, <1>9, <1>12, <2>1, <2>2, <2>3, <2>4 DEF PageOK
  <2>6. QED
    BY <2>5 DEF page, count
<1>13. QED
  BY <1>11, <1>12

\* A page of the last lines when none could be read.
LEMMA TailOfNothing ==
    ASSUME NEW lines \in Seq(Texts), NEW offset \in Int, offset < 0, NEW k \in Nat \ {0}
    PROVE  PageOK(ReadTail(lines, 0, -offset, k), lines, 0, offset, k)
<1> DEFINE count == -offset
           opening == 0 - Least(count, 0) + 1
           candidates == SubSeq(lines, opening, Least(opening + Least(k, MaxLines) - 1, 0))
           sizes == [i \in DOMAIN candidates |-> Kept(candidates[i])]
           fits == {l \in 0..Len(candidates) :
                       SumOf(SubSeq(sizes, Len(sizes) - l + 1, Len(sizes))) <= MaxBytes}
           most == CHOOSE l \in fits : \A j \in fits : l >= j
           kept == Len(candidates) - most
           shown == SubSeq(candidates, kept + 1, Len(candidates))
           page == ReadTail(lines, 0, count, k)
<1>1. /\ page.lines = shown /\ page.start = IF shown = <<>> THEN 0 + 1 ELSE opening + kept
      /\ ~page.eof
  BY DEF ReadTail
<1>2. opening = 1 /\ Least(opening + Least(k, MaxLines) - 1, 0) = 0
  <2>1. Least(count, 0) = 0
    BY DEF Least
  <2>2. Least(k, MaxLines) \in Nat \ {0}
    BY ToolsAssumption DEF Least
  <2> DEFINE l == Least(k, MaxLines)
  <2> HIDE DEF l
  <2>3. opening = 1 /\ Least(opening + l - 1, 0) = 0
    BY <2>1, <2>2 DEF l, Least
  <2>4. QED
    BY <2>3 DEF l
<1>3. candidates = <<>>
  BY <1>2
<1> HIDE DEF candidates, page, opening
<1>4. sizes = <<>> /\ Len(candidates) = 0 /\ Len(sizes) = 0
  BY <1>3
<1> HIDE DEF sizes
<1>5. fits \subseteq {0}
  BY <1>4
<1>6. 0 \in fits
  <2>1. SubSeq(sizes, Len(sizes) - 0 + 1, Len(sizes)) = <<>>
    BY <1>4
  <2> DEFINE rest == SubSeq(sizes, Len(sizes) - 0 + 1, Len(sizes))
  <2> HIDE DEF rest
  <2>2. SumOf(rest) = 0
    BY <2>1, NoSum DEF rest
  <2>3. SumOf(rest) <= MaxBytes
    BY <2>2, ToolsAssumption
  <2>4. QED
    BY <1>4, <2>3 DEF rest
<1>7. most = 0
  <2> HIDE DEF fits
  <2>1. \A j \in fits : 0 >= j
    BY <1>5
  <2>2. most \in fits
    BY <1>6, <2>1
  <2>3. QED
    BY <1>5, <2>2
<1> HIDE DEF fits, most
<1>8. shown = <<>>
  <2>1. kept = 0
    BY <1>4, <1>7
  <2> HIDE DEF kept
  <2>2. QED
    BY <1>3, <1>4, <2>1
<1> HIDE DEF shown
<1>9. page.lines = <<>> /\ page.start = 1 /\ Len(page.lines) = 0
  BY <1>1, <1>8
<1>10. SubSeq(lines, 1, 1 + 0 - 1) = <<>>
  OBVIOUS
<1>11. 0 <= Least(k, MaxLines)
  BY ToolsAssumption DEF Least
<1>12. PageOK(page, lines, 0, offset, k)
  BY <1>1, <1>9, <1>10, <1>11 DEF PageOK
<1>13. QED
  BY <1>12 DEF page, count

\* A file as it is read.
LEMMA LossyTyped ==
    ASSUME NEW lines \in Seq(Texts)
    PROVE  LossyText(lines) \in Seq(Texts) /\ Len(LossyText(lines)) = Len(lines)
           /\ (lines # <<>> => LossyText(lines) # <<>>)
<1>1. \A line \in Texts : Lossy(line) \in Texts
  BY DEF Lossy, Texts
<1>2. LossyText(lines) = [i \in 1..Len(lines) |-> Lossy(lines[i])]
  BY DEF LossyText
<1>3. \A i \in 1..Len(lines) : Lossy(lines[i]) \in Texts
  BY <1>1
<1> HIDE DEF LossyText
<1>4. LossyText(lines) \in Seq(Texts) /\ Len(LossyText(lines)) = Len(lines)
  BY <1>2, <1>3
<1>5. QED
  BY <1>4

\* What begins like no text is shown as none.
LEMMA KindsAreShown ==
    ASSUME NEW suffix \in FileSuffixes, NEW header \in Headers
    PROVE  LET kind == FileKind(suffix, header) IN
           /\ ShownByReadFile(kind) => header = "plain" /\ ~ShownByReadMedia(kind, "fits", Headers)
           /\ header \in {"image", "video"} /\ Hint(suffix) = "none" =>
                ShownByReadMedia(kind, "fits", {header})
BY DEF FileSuffixes, Headers, FileKind, Hint, Sniffed, IsNonText, ShownByReadFile, ShownByReadMedia

\* However a file is read, and wherever that breaks off.
LEMMA ReadersOfOne ==
    ASSUME NEW file \in Seq(Texts), NEW read \in 0..Len(file),
           NEW offset \in (-MaxLines..(FileLines + 1)) \ {0}, NEW k \in 1..(MaxLines + 1)
    PROVE  PageOK(ReadFile(file, read, offset, k), LossyText(file), read, offset, k)
<1>1. LossyText(file) \in Seq(Texts) /\ read \in 0..Len(LossyText(file))
  BY LossyTyped
<1>2. offset \in Int /\ k \in Nat \ {0} /\ -offset <= MaxLines
  BY ToolsAssumption
<1>3. CASE offset < 0
  <2>1. CASE read = 0
    BY <1>1, <1>2, <1>3, <2>1, TailOfNothing DEF ReadFile
  <2>2. CASE read # 0
    <3>1. read \in 1..Len(LossyText(file))
      BY <1>1, <2>2
    <3>2. QED
      BY <1>1, <1>2, <1>3, <3>1, TailIsOK DEF ReadFile
  <2>3. QED
    BY <2>1, <2>2
<1>4. CASE ~(offset < 0)
  <2>1. offset \in Nat \ {0}
    BY <1>2, <1>4
  <2>2. QED
    BY <1>1, <1>2, <1>4, <2>1, ForwardIsOK DEF ReadFile
<1>5. QED
  BY <1>3, <1>4

---------------------------------------------------------------------------------
(* What an edit makes of a text. *)

\* Where an old text is found there is room for it.
LEMMA PlacesFit ==
    ASSUME NEW lines \in Seq(Texts), NEW old \in Seq(Texts), NEW loosely
    PROVE  /\ Places(lines, old, loosely) \subseteq 1..Len(lines)
           /\ \A i \in Places(lines, old, loosely) : i + Len(old) - 1 <= Len(lines)
BY DEF Places, MatchesAt

\* A text with n of its lines, from line i on, replaced.
IsSpliced(lines, i, n, new, t) ==
    /\ t \in Seq(Texts) /\ Len(t) = Len(lines) - n + Len(new)
    /\ \A p \in 1..(i - 1) : t[p] = lines[p]
    /\ \A p \in 1..Len(new) : t[i + p - 1] = new[p]
    /\ \A p \in (i + n)..Len(lines) : t[p + Len(new) - n] = lines[p]

\* What splicing does.
LEMMA SplicedIs ==
    ASSUME NEW lines \in Seq(Texts), NEW new \in Seq(Texts), NEW i \in 1..Len(lines),
           NEW n \in Nat, i + n - 1 <= Len(lines)
    PROVE  IsSpliced(lines, i, n, new, Spliced(lines, i, n, new))
<1> DEFINE a == SubSeq(lines, 1, i - 1)
           b == SubSeq(lines, i + n, Len(lines))
           m == Len(new)
           l == Len(lines)
           ab == a \o new
           t == ab \o b
<1>1. m \in Nat /\ l \in Nat /\ i \in 1..l
  OBVIOUS
<1>2. a \in Seq(Texts) /\ Len(a) = i - 1 /\ \A p \in 1..(i - 1) : a[p] = lines[p]
  OBVIOUS
<1>3. /\ b \in Seq(Texts) /\ Len(b) = l - (i + n) + 1
       /\ \A p \in 1..Len(b) : b[p] = lines[i + n + p - 1]
  OBVIOUS
<1> HIDE DEF a, b
<1>4. ab \in Seq(Texts) /\ Len(ab) = i - 1 + m
  <2>1. new \in Seq(Texts) /\ a \in Seq(Texts) /\ Len(a) = i - 1
    BY <1>2
  <2>2. ab \in Seq(Texts)
    BY <2>1, ConcatProperties
  <2>3. Len(ab) = Len(a) + Len(new)
    BY <2>1, ConcatProperties
  <2>4. QED
    BY <2>1, <2>2, <2>3
<1>5. \A p \in 1..(i - 1) : ab[p] = lines[p]
  BY <1>1, <1>2
<1>6. \A p \in 1..m : ab[i + p - 1] = new[p]
  <2> SUFFICES ASSUME NEW p \in 1..m PROVE ab[i + p - 1] = new[p]
    OBVIOUS
  <2>1. i + p - 1 = Len(a) + p
    BY <1>2
  <2>2. ab[Len(a) + p] = new[p]
    <3>1. Len(a) + p \in 1..(Len(a) + Len(new)) /\ Len(a) + p > Len(a)
      BY <1>1, <1>2
    <3>2. a \in Seq(Texts) /\ new \in Seq(Texts)
      BY <1>2
    <3>3. ab[Len(a) + p] = new[Len(a) + p - Len(a)]
      BY <3>1, <3>2
    <3>4. QED
      BY <1>1, <1>2, <3>3
  <2>3. QED
    BY <2>1, <2>2
<1> HIDE DEF ab
<1>7. t \in Seq(Texts) /\ Len(t) = Len(ab) + Len(b)
  <2>1. ab \in Seq(Texts) /\ b \in Seq(Texts)
    BY <1>3, <1>4
  <2>2. t \in Seq(Texts)
    BY <2>1, ConcatProperties
  <2>3. Len(t) = Len(ab) + Len(b)
    BY <2>1, ConcatProperties
  <2>4. QED
    BY <2>2, <2>3
<1>8. /\ \A p \in 1..Len(ab) : t[p] = ab[p]
      /\ \A p \in 1..Len(b) : t[Len(ab) + p] = b[p]
  <2>1. ab \in Seq(Texts) /\ b \in Seq(Texts) /\ Len(ab) \in Nat /\ Len(b) \in Nat
    BY <1>3, <1>4
  <2>2. ASSUME NEW p \in 1..Len(ab) PROVE t[p] = ab[p]
    BY <2>1
  <2>3. ASSUME NEW p \in 1..Len(b) PROVE t[Len(ab) + p] = b[p]
    <3>1. Len(ab) + p \in 1..(Len(ab) + Len(b)) /\ Len(ab) + p > Len(ab)
      BY <2>1
    <3>2. t[Len(ab) + p] = b[Len(ab) + p - Len(ab)]
      BY <2>1, <3>1
    <3>3. QED
      BY <2>1, <3>2
  <2>4. QED
    BY <2>2, <2>3
<1> HIDE DEF t, m, l
<1>10. \A p \in 1..(i - 1) : t[p] = lines[p]
  BY <1>1, <1>4, <1>5, <1>8
<1>11. ASSUME NEW p \in 1..m PROVE t[i + p - 1] = new[p]
  <2>1. i + p - 1 \in 1..Len(ab)
    BY <1>1, <1>4
  <2>2. QED
    BY <1>6, <1>8, <2>1
<1>12. ASSUME NEW p \in (i + n)..l PROVE t[p + m - n] = lines[p]
  <2> DEFINE q == p - (i + n) + 1
  <2>1. q \in 1..Len(b) /\ p + m - n = Len(ab) + q /\ i + n + q - 1 = p
    BY <1>1, <1>3, <1>4
  <2> HIDE DEF q
  <2>2. QED
    BY <1>3, <1>8, <2>1
<1>13. Len(t) = l - n + m
  BY <1>1, <1>3, <1>4, <1>7
<1>14. Spliced(lines, i, n, new) = t
  BY DEF Spliced, t, ab, a, b, l
<1>15. QED
  BY <1>7, <1>10, <1>11, <1>12, <1>13, <1>14 DEF m, l, IsSpliced

\* The first place is replaced, and nothing else changes.
LEMMA SpliceReplaces ==
    ASSUME NEW lines \in Seq(Texts), NEW old \in Seq(Texts), old # <<>>, NEW new \in Seq(Texts),
           NEW i \in 1..Len(lines), i + Len(old) - 1 <= Len(lines)
    PROVE  Replaces(lines, {i}, old, new, Spliced(lines, i, Len(old), new))
<1> DEFINE n == Len(old)
           m == Len(new)
           l == Len(lines)
           To(x) == MovedTo(x, {i}, n, m)
           t == Spliced(lines, i, n, new)
<1>1. n \in Nat \ {0} /\ m \in Nat /\ l \in Nat /\ DOMAIN lines = 1..l /\ DOMAIN new = 1..m
  OBVIOUS
<1>2. /\ Len(t) = l - n + m
      /\ \A p \in 1..(i - 1) : t[p] = lines[p]
      /\ \A p \in 1..m : t[i + p - 1] = new[p]
      /\ \A p \in (i + n)..l : t[p + m - n] = lines[p]
  <2>1. i + n - 1 <= l
    OBVIOUS
  <2>2. n \in Nat
    OBVIOUS
  <2> HIDE DEF n
  <2>3. IsSpliced(lines, i, n, new, t)
    BY <2>1, <2>2, SplicedIs
  <2>4. QED
    BY <2>3 DEF IsSpliced
<1>3. ASSUME NEW x \in Nat PROVE To(x) = IF i + n <= x THEN x + m - n ELSE x
  <2>1. CASE i + n <= x
    <3>1. {j \in {i} : j + n <= x} = {i}
      BY <2>1
    <3>2. Cardinality({j \in {i} : j + n <= x}) = 1
      BY <3>1, FS_Singleton
    <3>3. QED
      BY <1>1, <2>1, <3>2 DEF MovedTo
  <2>2. CASE ~(i + n <= x)
    <3>1. {j \in {i} : j + n <= x} = {}
      BY <2>2
    <3>2. Cardinality({j \in {i} : j + n <= x}) = 0
      BY <3>1, FS_EmptySet
    <3>3. QED
      BY <1>1, <2>2, <3>2 DEF MovedTo
  <2>3. QED
    BY <2>1, <2>2
<1> HIDE DEF t, To, n, m, l
<1>4. Len(t) + 1 = To(l + 1)
  <2>1. i + n <= l + 1 /\ l + 1 \in Nat
    BY <1>1 DEF n, l
  <2>2. To(l + 1) = l + 1 + m - n
    BY <1>3, <2>1
  <2>3. QED
    BY <1>1, <1>2, <2>2
<1>5. To(i) = i
  BY <1>1, <1>3
<1>6. \A j \in {i}, k \in DOMAIN new : t[To(j) + k - 1] = new[k]
  BY <1>1, <1>2, <1>5
<1>7. ASSUME NEW x \in DOMAIN lines, \A j \in {i} : x < j \/ j + n <= x
      PROVE  t[To(x)] = lines[x]
  <2>1. x \in 1..l /\ x \in Nat
    BY <1>1
  <2>2. CASE x < i
    <3>1. To(x) = x /\ x \in 1..(i - 1)
      BY <1>1, <1>3, <2>1, <2>2
    <3>2. QED
      BY <1>2, <3>1
  <2>3. CASE i + n <= x
    <3>1. To(x) = x + m - n /\ x \in (i + n)..l
      BY <1>1, <1>3, <2>1, <2>3
    <3>2. QED
      BY <1>2, <3>1
  <2>4. QED
    BY <1>7, <2>2, <2>3
<1>8. Replaces(lines, {i}, old, new, t)
  BY <1>4, <1>6, <1>7 DEF Replaces, To, n, m, l
<1>9. QED
  BY <1>8 DEF t, n

\* An edit of the first place.
LEMMA FirstReplaces ==
    ASSUME NEW lines \in Seq(Texts), NEW old \in Seq(Texts), old # <<>>, NEW new \in Seq(Texts),
           NEW loosely
    PROVE  LET found == Places(lines, old, loosely)
               t == ReplaceFirst(lines, old, new, loosely)
           IN  /\ found = {} => t = Unfound
               /\ found # {} => t \in Seq(Texts) /\ t # Unfound
                                /\ \E i \in found : Replaces(lines, {i}, old, new, t)
<1> DEFINE found == Places(lines, old, loosely)
           t == ReplaceFirst(lines, old, new, loosely)
           i == CHOOSE i \in found : \A j \in found : i <= j
<1>1. CASE found = {}
  BY <1>1 DEF ReplaceFirst
<1>2. CASE found # {}
  <2>1. t = Spliced(lines, i, Len(old), new)
    BY <1>2 DEF ReplaceFirst
  <2>2. found \subseteq 1..Len(lines) /\ \A j \in found : j + Len(old) - 1 <= Len(lines)
    BY PlacesFit
  <2> HIDE DEF found, t
  <2>3. found \in SUBSET Nat
    BY <2>2
  <2>4. i \in found
    <3>1. \E k \in found : \A j \in found : k <= j
      BY <1>2, <2>3, LeastOf
    <3>2. QED
      BY <3>1
  <2> HIDE DEF i
  <2>5. Len(old) \in Nat /\ i \in 1..Len(lines) /\ i + Len(old) - 1 <= Len(lines)
    BY <2>2, <2>4
  <2>6. t \in Seq(Texts)
    BY <2>1, <2>5, SplicedIs DEF IsSpliced
  <2>7. Replaces(lines, {i}, old, new, t)
    BY <2>1, <2>5, SpliceReplaces
  <2>8. t # Unfound
    <3>1. ASSUME t = <<"unfound">>
          PROVE  FALSE
      <4>1. Len(t) = 1 /\ t[1] = "unfound"
        BY <3>1
      <4>2. t[1] \in Texts
        <5>1. DOMAIN t = 1..1
          BY <2>6, <4>1
        <5>2. \A k \in DOMAIN t : t[k] \in Texts
          BY <2>6
        <5>3. QED
          BY <5>1, <5>2
      <4>3. QED
        BY <4>1, <4>2 DEF Texts
    <3>2. QED
      BY <3>1 DEF Unfound
  <2>9. QED
    BY <1>2, <2>4, <2>6, <2>7, <2>8 DEF found, t
<1>3. QED
  BY <1>1, <1>2

---------------------------------------------------------------------------------
(* Every place replaced, from left to right. *)

\* What has been made of the lines so far, and the next line to look at.
Scans == [text : Seq(Texts), next : Nat]
NoScan == [text |-> <<>>, next |-> 1]

\* A line more of the text.
LEMMA ScanTyped ==
    ASSUME NEW lines \in Seq(Texts), NEW old \in Seq(Texts), NEW new \in Seq(Texts), NEW loosely,
           NEW r \in Scans, NEW i \in 1..Len(lines)
    PROVE  ReplaceLine(lines, old, new, loosely, r, i) \in Scans
<1>1. r.text \in Seq(Texts) /\ r.next \in Nat /\ lines[i] \in Texts /\ Len(old) \in Nat /\ i \in Nat
  BY DEF Scans
<1>2. r.text \o new \in Seq(Texts)
  BY <1>1, ConcatProperties
<1>3. Append(r.text, lines[i]) \in Seq(Texts)
  BY <1>1, AppendProperties
<1>4. i + Len(old) \in Nat /\ i + 1 \in Nat
  BY <1>1
<1>5. [text |-> r.text \o new, next |-> i + Len(old)] \in Scans
  BY <1>2, <1>4, Zenon DEF Scans
<1>6. [text |-> Append(r.text, lines[i]), next |-> i + 1] \in Scans
  BY <1>3, <1>4, Zenon DEF Scans
<1>7. QED
  BY <1>5, <1>6, Zenon DEF ReplaceLine

\* The scan, line by line.
LEMMA ScanRuns ==
    ASSUME NEW lines \in Seq(Texts), NEW old \in Seq(Texts), NEW new \in Seq(Texts), NEW loosely
    PROVE  LET g == Replacing(lines, old, new, loosely) IN
           /\ g[0] = NoScan /\ \A i \in 0..Len(lines) : g[i] \in Scans
           /\ \A i \in 1..Len(lines) : g[i] = ReplaceLine(lines, old, new, loosely, g[i - 1], i)
<1> DEFINE n == Len(lines)
           step == [is \in (1..n) \X Scans |-> ReplaceLine(lines, old, new, loosely, is[2], is[1])]
           IsIt(g) == g = [i \in 0..n |-> IF i = 0 THEN NoScan
                                          ELSE ReplaceLine(lines, old, new, loosely, g[i - 1], i)]
           h == Replacing(lines, old, new, loosely)
<1>1. n \in Nat /\ NoScan \in Scans
  BY DEF Scans, NoScan
<1>2. step \in [(1..n) \X Scans -> Scans]
  BY <1>1, ScanTyped
<1>3. PICK g : IsRun(g, n, Scans, NoScan, step)
  BY <1>1, <1>2, RunExists
<1>4. IsIt(g)
  <2>1. /\ g \in [0..n -> Scans] /\ g[0] = NoScan
        /\ \A i \in 1..n : g[i] = step[<<i, g[i - 1]>>]
    BY <1>3 DEF IsRun
  <2>2. ASSUME NEW i \in 1..n PROVE g[i] = ReplaceLine(lines, old, new, loosely, g[i - 1], i)
    <3>1. i - 1 \in 0..n /\ i \in 1..n
      BY <1>1
    <3> HIDE DEF n, step
    <3>2. g[i - 1] \in Scans /\ g[i] = step[<<i, g[i - 1]>>]
      BY <2>1, <3>1
    <3>3. QED
      BY <3>2 DEF step
  <2>3. \A i \in 0..n : i = 0 \/ i \in 1..n
    BY <1>1
  <2> HIDE DEF step
  <2>4. g = [i \in 0..n |-> g[i]]
    BY <2>1
  <2>5. \A i \in 0..n : g[i] = IF i = 0 THEN NoScan
                                ELSE ReplaceLine(lines, old, new, loosely, g[i - 1], i)
    BY <2>1, <2>2, <2>3
  <2>6. QED
    BY <2>4, <2>5
<1>5. h = CHOOSE g2 : IsIt(g2)
  BY DEF Replacing, NoScan
<1>6. IsIt(h)
  BY <1>4, <1>5
<1> HIDE DEF h, step
<1>7. h[0] = NoScan
  BY <1>1, <1>6
<1>8. ASSUME NEW i \in 1..n PROVE h[i] = ReplaceLine(lines, old, new, loosely, h[i - 1], i)
  <2>1. i \in 0..n /\ i # 0
    OBVIOUS
  <2>2. QED
    BY <1>6, <2>1
<1> HIDE DEF IsIt
<1>9. \A i \in 0..n : h[i] \in Scans
  <2> DEFINE P == {i \in 0..n : h[i] \in Scans}
  <2>1. 0 \in P
    BY <1>1, <1>7
  <2>2. ASSUME NEW i \in 1..n, i - 1 \in P PROVE i \in P
    <3>1. h[i - 1] \in Scans
      BY <2>2
    <3>2. h[i] \in Scans
      BY <1>8, <3>1, ScanTyped
    <3>3. QED
      BY <3>2
  <2> HIDE DEF P
  <2>3. \A i \in 0..n : i \in P
    BY <1>1, <2>1, <2>2, StepByStep
  <2>4. QED
    BY <2>3 DEF P
<1>10. QED
  BY <1>7, <1>8, <1>9 DEF h

\* A line that is in none of the places.
Spared(x, S, n) == \A j \in S : x < j \/ j + n <= x

\* Before a line, S are places to be replaced, apart, and none was passed over.
Settled(lines, old, loosely, next, S) ==
    LET n == Len(old) IN
    /\ S \subseteq Places(lines, old, loosely) /\ Apart(S, n) /\ \A j \in S : j + n <= next
    /\ \A x \in 1..(next - 1) : \/ x \in S \/ x \notin Places(lines, old, loosely)
                                \/ \E j \in S : j < x /\ x < j + n

\* A text is what replacing S makes of the lines before one.
MadeUpTo(lines, old, new, next, text2, S) ==
    LET n == Len(old)
        m == Len(new)
        To(x) == MovedTo(x, S, n, m)
    IN  /\ Len(text2) + 1 = To(next)
        /\ \A j \in S : /\ To(j) \in 1..(Len(text2) + 1) /\ To(j) + m <= Len(text2) + 1
                        /\ \A k \in 1..m : text2[To(j) + k - 1] = new[k]
        /\ \A x \in 1..(next - 1) : Spared(x, S, n) =>
             To(x) \in 1..Len(text2) /\ text2[To(x)] = lines[x]

\* After i lines.
ScanOK(lines, old, new, loosely, i, r, S) ==
    /\ r \in Scans /\ i < r.next /\ r.next <= Len(lines) + 1
    /\ Settled(lines, old, loosely, r.next, S) /\ MadeUpTo(lines, old, new, r.next, r.text, S)

\* How far a line behind all of the places is moved.
LEMMA MovedBehind ==
    ASSUME NEW S, IsFiniteSet(S), NEW n, NEW m, NEW x, \A j \in S : j + n <= x
    PROVE  MovedTo(x, S, n, m) = x + Cardinality(S) * (m - n)
<1>1. {j \in S : j + n <= x} = S
  OBVIOUS
<1>2. QED
  BY <1>1, Zenon DEF MovedTo

\* Lines have places that can be counted.
LEMMA PlacesFinite ==
    ASSUME NEW l \in Nat, NEW S \in SUBSET (1..l)
    PROVE  IsFiniteSet(S) /\ Cardinality(S) \in Nat
<1>1. IsFiniteSet(1..l)
  BY FS_Interval
<1>2. IsFiniteSet(S)
  BY <1>1, FS_Subset
<1>3. QED
  BY <1>2, FS_CardinalityType

\* One place more, behind the others.
LEMMA OneMorePlace ==
    ASSUME NEW l \in Nat, NEW S \in SUBSET (1..l), NEW n \in Nat \ {0}, NEW m \in Nat,
           NEW x \in 1..l,
           \A j \in S : j + n <= x
    PROVE  /\ \A y \in 1..(x + n - 1) : MovedTo(y, S \cup {x}, n, m) = MovedTo(y, S, n, m)
           /\ MovedTo(x + n, S \cup {x}, n, m) = MovedTo(x, S, n, m) + m
<1>1. ASSUME NEW y \in 1..(x + n - 1)
      PROVE  MovedTo(y, S \cup {x}, n, m) = MovedTo(y, S, n, m)
  <2>1. {j \in S \cup {x} : j + n <= y} = {j \in S : j + n <= y}
    OBVIOUS
  <2>2. QED
    BY <2>1 DEF MovedTo
<1>2. x \notin S
  OBVIOUS
<1>3. IsFiniteSet(S) /\ Cardinality(S) \in Nat
  BY PlacesFinite
<1>4. IsFiniteSet(S \cup {x}) /\ Cardinality(S \cup {x}) = Cardinality(S) + 1
  BY <1>2, <1>3, FS_AddElement
<1>5. MovedTo(x, S, n, m) = x + Cardinality(S) * (m - n)
  BY <1>3, MovedBehind, Zenon
<1>6. MovedTo(x + n, S \cup {x}, n, m) = x + n + Cardinality(S \cup {x}) * (m - n)
  <2>1. \A j \in S \cup {x} : j + n <= x + n
    OBVIOUS
  <2>2. QED
    BY <1>4, <2>1, MovedBehind, Zenon
<1> DEFINE c == Cardinality(S)
           d == m - n
<1>7. c \in Nat /\ d \in Int /\ (c + 1) * d = c * d + d
  BY <1>3
<1> HIDE DEF c
<1>8. x + n + (c + 1) * d = x + c * d + m
  <2>1. d = m - n /\ c * d \in Int
    BY <1>7
  <2> HIDE DEF d
  <2>2. QED
    BY <1>7, <2>1
<1>9. QED
  BY <1>1, <1>4, <1>5, <1>6, <1>8 DEF c

\* A line more behind all of the places.
LEMMA OneMoreLine ==
    ASSUME NEW S, IsFiniteSet(S), Cardinality(S) \in Nat, S \subseteq Nat, NEW n \in Nat,
           NEW m \in Nat, NEW x \in Nat, \A j \in S : j + n <= x
    PROVE  MovedTo(x + 1, S, n, m) = MovedTo(x, S, n, m) + 1
<1>1. MovedTo(x, S, n, m) = x + Cardinality(S) * (m - n)
  BY MovedBehind, Zenon
<1>2. \A j \in S : j + n <= x + 1
  OBVIOUS
<1>3. MovedTo(x + 1, S, n, m) = x + 1 + Cardinality(S) * (m - n)
  BY <1>2, MovedBehind, Zenon
<1>4. Cardinality(S) * (m - n) \in Int
  OBVIOUS
<1>5. QED
  BY <1>1, <1>3, <1>4

\* A place is replaced.
LEMMA ScanReplaces ==
    ASSUME NEW lines \in Seq(Texts), NEW old \in Seq(Texts), old # <<>>, NEW new \in Seq(Texts),
           NEW loosely, NEW x \in 1..Len(lines), NEW text2 \in Seq(Texts), NEW S,
           Settled(lines, old, loosely, x, S), MadeUpTo(lines, old, new, x, text2, S),
           x \in Places(lines, old, loosely)
    PROVE  /\ Settled(lines, old, loosely, x + Len(old), S \cup {x})
           /\ MadeUpTo(lines, old, new, x + Len(old), text2 \o new, S \cup {x})
<1> DEFINE n == Len(old)
           m == Len(new)
           l == Len(lines)
           T == S \cup {x}
           t == text2 \o new
           found == Places(lines, old, loosely)
           To(y) == MovedTo(y, S, n, m)
           After(y) == MovedTo(y, T, n, m)
<1>1. n \in Nat \ {0} /\ m \in Nat /\ l \in Nat /\ x \in 1..l /\ found \subseteq 1..l
  BY PlacesFit
<1>2. /\ S \subseteq found /\ Apart(S, n) /\ \A j \in S : j + n <= x
      /\ \A y \in 1..(x - 1) : y \in S \/ y \notin found \/ \E j \in S : j < y /\ y < j + n
  BY DEF Settled
<1>3. Len(text2) \in Nat /\ Len(text2) + 1 = To(x)
  BY DEF MadeUpTo
<1>4. \A j \in S : /\ To(j) \in 1..(Len(text2) + 1) /\ To(j) + m <= Len(text2) + 1
                   /\ \A k \in 1..m : text2[To(j) + k - 1] = new[k]
  BY DEF MadeUpTo
<1>5. \A y \in 1..(x - 1) : Spared(y, S, n) =>
             To(y) \in 1..Len(text2) /\ text2[To(y)] = lines[y]
  BY DEF MadeUpTo
<1>6. Len(t) = Len(text2) + m /\ \A k \in 1..Len(text2) : t[k] = text2[k]
  BY <1>1
<1>7. \A k \in 1..m : t[Len(text2) + k] = new[k]
  BY <1>1
<1> HIDE DEF n, m, l, t, found
<1>8. /\ \A y \in 1..(x + n - 1) : After(y) = To(y)
      /\ After(x + n) = To(x) + m
  <2>1. S \in SUBSET (1..l)
    BY <1>1, <1>2
  <2>2. QED
    BY <1>1, <1>2, <2>1, OneMorePlace, Zenon
<1> HIDE DEF To, After
<1>9. \A j \in S : j \in 1..(x + n - 1) /\ j \in 1..(x - 1)
  BY <1>1, <1>2
<1>10. T \subseteq found /\ \A j \in T : j + n <= x + n
  BY <1>1, <1>2 DEF found
<1>11. Apart(T, n)
  BY <1>1, <1>2, <1>9 DEF Apart
<1>12. \A y \in 1..(x + n - 1) : y \in T \/ y \notin found \/ \E j \in T : j < y /\ y < j + n
  BY <1>1, <1>2
<1>13. Settled(lines, old, loosely, x + n, T)
  BY <1>10, <1>11, <1>12 DEF Settled, n, found
<1>14. Len(t) + 1 = After(x + n)
  <2>1. Len(t) = Len(text2) + m /\ After(x + n) = To(x) + m
    BY <1>6, <1>8
  <2>2. QED
    BY <1>1, <1>3, <2>1
<1>15. ASSUME NEW j \in T
       PROVE  /\ After(j) \in 1..(Len(t) + 1) /\ After(j) + m <= Len(t) + 1
              /\ \A k \in 1..m : t[After(j) + k - 1] = new[k]
  <2>1. ASSUME j \in S
        PROVE  /\ After(j) \in 1..(Len(t) + 1) /\ After(j) + m <= Len(t) + 1
               /\ \A k \in 1..m : t[After(j) + k - 1] = new[k]
    <3>1. After(j) = To(j) /\ To(j) \in 1..(Len(text2) + 1) /\ To(j) + m <= Len(text2) + 1
      BY <1>4, <1>8, <1>9, <2>1
    <3>2. ASSUME NEW k \in 1..m PROVE t[After(j) + k - 1] = new[k]
      <4>1. To(j) + k - 1 \in 1..Len(text2)
        <5>1. m \in Nat /\ k \in 1..m
          BY <1>1
        <5>2. QED
          BY <1>3, <3>1, <5>1
      <4>2. t[To(j) + k - 1] = new[k]
        BY <1>4, <1>6, <2>1, <4>1
      <4>3. QED
        BY <3>1, <4>2
    <3>3. QED
      BY <1>1, <1>3, <1>6, <3>1, <3>2
  <2>2. ASSUME j = x
        PROVE  /\ After(j) \in 1..(Len(t) + 1) /\ After(j) + m <= Len(t) + 1
               /\ \A k \in 1..m : t[After(j) + k - 1] = new[k]
    <3>1. After(j) = Len(text2) + 1
      <4>1. x \in 1..(x + n - 1)
        BY <1>1
      <4>2. QED
        BY <1>3, <1>8, <2>2, <4>1
    <3>2. ASSUME NEW k \in 1..m PROVE t[After(j) + k - 1] = new[k]
      <4>1. After(j) + k - 1 = Len(text2) + k
        BY <1>1, <1>3, <3>1
      <4>2. QED
        BY <1>7, <4>1
    <3>3. QED
      BY <1>1, <1>3, <1>6, <3>1, <3>2
  <2>3. QED
    BY <2>1, <2>2
<1>16. ASSUME NEW y \in 1..(x + n - 1), Spared(y, T, n)
       PROVE  After(y) \in 1..Len(t) /\ t[After(y)] = lines[y]
  <2>1. y < x
    <3>1. y < x \/ x + n <= y
      BY <1>16 DEF Spared
    <3>2. QED
      BY <1>1, <3>1
  <2>2. y \in 1..(x - 1) /\ Spared(y, S, n)
    BY <1>1, <1>16, <2>1 DEF Spared
  <2>3. To(y) \in 1..Len(text2) /\ text2[To(y)] = lines[y] /\ After(y) = To(y)
    BY <1>5, <1>8, <2>2
  <2>4. QED
    BY <1>1, <1>3, <1>6, <2>3
<1>17. MadeUpTo(lines, old, new, x + n, t, T)
  <2>1. Len(t) + 1 = MovedTo(x + Len(old), T, Len(old), Len(new))
    BY <1>14 DEF After, n, m
  <2>2. \A j \in T : /\ MovedTo(j, T, Len(old), Len(new)) \in 1..(Len(t) + 1)
                     /\ MovedTo(j, T, Len(old), Len(new)) + Len(new) <= Len(t) + 1
                     /\ \A k \in 1..Len(new) :
                          t[MovedTo(j, T, Len(old), Len(new)) + k - 1] = new[k]
    BY <1>15 DEF After, n, m
  <2>3. \A y \in 1..(x + Len(old) - 1) : Spared(y, T, Len(old)) =>
             /\ MovedTo(y, T, Len(old), Len(new)) \in 1..Len(t)
             /\ t[MovedTo(y, T, Len(old), Len(new))] = lines[y]
    BY <1>16 DEF After, n, m
  <2> HIDE DEF T
  <2>4. QED
    BY <2>1, <2>2, <2>3 DEF MadeUpTo, n
<1>18. QED
  BY <1>13, <1>17 DEF n, t

\* A line at which there is no place is kept.
LEMMA ScanPasses ==
    ASSUME NEW lines \in Seq(Texts), NEW old \in Seq(Texts), old # <<>>, NEW new \in Seq(Texts),
           NEW loosely, NEW x \in 1..Len(lines), NEW text2 \in Seq(Texts), NEW S,
           Settled(lines, old, loosely, x, S), MadeUpTo(lines, old, new, x, text2, S),
           x \notin Places(lines, old, loosely)
    PROVE  /\ Settled(lines, old, loosely, x + 1, S)
           /\ MadeUpTo(lines, old, new, x + 1, Append(text2, lines[x]), S)
<1> DEFINE n == Len(old)
           m == Len(new)
           l == Len(lines)
           t == Append(text2, lines[x])
           found == Places(lines, old, loosely)
           To(y) == MovedTo(y, S, n, m)
<1>1. n \in Nat \ {0} /\ m \in Nat /\ l \in Nat /\ x \in 1..l /\ found \subseteq 1..l
  BY PlacesFit
<1>2. /\ S \subseteq found /\ Apart(S, n) /\ \A j \in S : j + n <= x
      /\ \A y \in 1..(x - 1) : y \in S \/ y \notin found \/ \E j \in S : j < y /\ y < j + n
  BY DEF Settled
<1>3. Len(text2) \in Nat /\ Len(text2) + 1 = To(x)
  BY DEF MadeUpTo
<1>4. \A j \in S : /\ To(j) \in 1..(Len(text2) + 1) /\ To(j) + m <= Len(text2) + 1
                   /\ \A k \in 1..m : text2[To(j) + k - 1] = new[k]
  BY DEF MadeUpTo
<1>5. \A y \in 1..(x - 1) : Spared(y, S, n) =>
             To(y) \in 1..Len(text2) /\ text2[To(y)] = lines[y]
  BY DEF MadeUpTo
<1>6. /\ Len(t) = Len(text2) + 1 /\ \A k \in 1..Len(text2) : t[k] = text2[k]
      /\ t[Len(text2) + 1] = lines[x]
  BY <1>1
<1>7. x \notin found
  OBVIOUS
<1> HIDE DEF n, m, l, t, found
<1>8. To(x + 1) = To(x) + 1
  <2>1. S \in SUBSET (1..l) /\ S \subseteq Nat /\ x \in Nat /\ m \in Nat /\ n \in Nat
    BY <1>1, <1>2
  <2>2. IsFiniteSet(S) /\ Cardinality(S) \in Nat
    BY <1>1, <2>1, PlacesFinite
  <2>3. \A j \in S : j + n <= x
    BY <1>2
  <2>4. QED
    BY <2>1, <2>2, <2>3, OneMoreLine
<1> HIDE DEF To
<1>9. \A j \in S : j + n <= x + 1
  BY <1>1, <1>2
<1>10. \A y \in 1..x : y \in S \/ y \notin found \/ \E j \in S : j < y /\ y < j + n
  BY <1>1, <1>2, <1>7
<1>11. x + 1 - 1 = x
  BY <1>1
<1>12. Settled(lines, old, loosely, x + 1, S)
  BY <1>2, <1>9, <1>10, <1>11 DEF Settled, n, found
<1>13. Len(t) + 1 = To(x + 1)
  BY <1>3, <1>6, <1>8
<1>14. ASSUME NEW j \in S
       PROVE  /\ To(j) \in 1..(Len(t) + 1) /\ To(j) + m <= Len(t) + 1
              /\ \A k \in 1..m : t[To(j) + k - 1] = new[k]
  <2>1. To(j) \in 1..(Len(text2) + 1) /\ To(j) + m <= Len(text2) + 1
    BY <1>4
  <2>2. ASSUME NEW k \in 1..m PROVE t[To(j) + k - 1] = new[k]
    <3>1. To(j) + k - 1 \in 1..Len(text2)
      <4>1. m \in Nat /\ k \in 1..m
        BY <1>1
      <4>2. QED
        BY <1>3, <2>1, <4>1
    <3>2. QED
      BY <1>4, <1>6, <3>1
  <2>3. QED
    BY <1>1, <1>3, <1>6, <2>1, <2>2
<1>15. ASSUME NEW y \in 1..x, Spared(y, S, n)
       PROVE  To(y) \in 1..Len(t) /\ t[To(y)] = lines[y]
  <2>1. CASE y = x
    BY <1>3, <1>6, <2>1
  <2>2. CASE y # x
    <3>1. y \in 1..(x - 1)
      BY <1>1, <2>2
    <3>2. To(y) \in 1..Len(text2) /\ text2[To(y)] = lines[y]
      BY <1>5, <1>15, <3>1
    <3>3. QED
      BY <1>3, <1>6, <3>2
  <2>3. QED
    BY <2>1, <2>2
<1>16. MadeUpTo(lines, old, new, x + 1, t, S)
  BY <1>11, <1>13, <1>14, <1>15 DEF MadeUpTo, To, n, m
<1>17. QED
  BY <1>12, <1>16 DEF t

\* A line more.
LEMMA ScanKeeps ==
    ASSUME NEW lines \in Seq(Texts), NEW old \in Seq(Texts), old # <<>>, NEW new \in Seq(Texts),
           NEW loosely, NEW i \in 1..Len(lines), NEW r, NEW S,
           ScanOK(lines, old, new, loosely, i - 1, r, S)
    PROVE  \E T : ScanOK(lines, old, new, loosely, i,
                         ReplaceLine(lines, old, new, loosely, r, i), T)
<1> DEFINE s == ReplaceLine(lines, old, new, loosely, r, i)
           n == Len(old)
<1>1. /\ r \in Scans /\ i - 1 < r.next /\ r.next <= Len(lines) + 1
      /\ Settled(lines, old, loosely, r.next, S) /\ MadeUpTo(lines, old, new, r.next, r.text, S)
  BY DEF ScanOK
<1>2. r.text \in Seq(Texts) /\ r.next \in Nat /\ i \in Nat /\ Len(lines) \in Nat /\ n \in Nat
  BY <1>1 DEF Scans
<1>3. s \in Scans
  BY <1>1, ScanTyped
<1>4. CASE i < r.next
  <2>1. s = r
    BY <1>4 DEF ReplaceLine
  <2> HIDE DEF s
  <2>2. ScanOK(lines, old, new, loosely, i, s, S)
    BY <1>1, <1>4, <2>1 DEF ScanOK
  <2>3. QED
    BY <2>2 DEF s
<1>5. CASE ~(i < r.next)
  <2>1. r.next = i
    BY <1>1, <1>2, <1>5
  <2>2. ASSUME i \in Places(lines, old, loosely)
        PROVE  \E T : ScanOK(lines, old, new, loosely, i, s, T)
    <3>1. s = [text |-> r.text \o new, next |-> i + n]
      BY <1>5, <2>2 DEF ReplaceLine, Places
    <3>2. i < i + n /\ i + n <= Len(lines) + 1
      <4>1. i + n - 1 <= Len(lines)
        BY <2>2, PlacesFit
      <4>2. n # 0
        BY <1>2
      <4>3. QED
        BY <1>2, <4>1, <4>2
    <3> HIDE DEF s
    <3>3. s.text = r.text \o new /\ s.next = i + n
      BY <3>1
    <3>4. /\ Settled(lines, old, loosely, i + n, S \cup {i})
          /\ MadeUpTo(lines, old, new, i + n, r.text \o new, S \cup {i})
      BY <1>1, <1>2, <2>1, <2>2, ScanReplaces
    <3> DEFINE T == S \cup {i}
    <3> HIDE DEF T, n
    <3>5. ScanOK(lines, old, new, loosely, i, s, T)
      BY <1>3, <3>2, <3>3, <3>4 DEF ScanOK, T
    <3>6. QED
      BY <3>5
  <2>3. ASSUME i \notin Places(lines, old, loosely)
        PROVE  \E T : ScanOK(lines, old, new, loosely, i, s, T)
    <3>1. s = [text |-> Append(r.text, lines[i]), next |-> i + 1]
      BY <1>5, <2>3 DEF ReplaceLine, Places
    <3> HIDE DEF s
    <3>2. s.text = Append(r.text, lines[i]) /\ s.next = i + 1
      BY <3>1
    <3>3. /\ Settled(lines, old, loosely, i + 1, S)
          /\ MadeUpTo(lines, old, new, i + 1, Append(r.text, lines[i]), S)
      BY <1>1, <1>2, <2>1, <2>3, ScanPasses
    <3>4. i < i + 1 /\ i + 1 <= Len(lines) + 1
      BY <1>2
    <3>5. ScanOK(lines, old, new, loosely, i, s, S)
      BY <1>3, <3>2, <3>3, <3>4 DEF ScanOK
    <3>6. QED
      BY <3>5
  <2>4. QED
    BY <2>2, <2>3 DEF s
<1>6. QED
  BY <1>4, <1>5

\* The whole of the text.
LEMMA ScanIsOK ==
    ASSUME NEW lines \in Seq(Texts), NEW old \in Seq(Texts), old # <<>>, NEW new \in Seq(Texts),
           NEW loosely
    PROVE  \E S : ScanOK(lines, old, new, loosely, Len(lines),
                         Replacing(lines, old, new, loosely)[Len(lines)], S)
<1> DEFINE n == Len(lines)
           g == Replacing(lines, old, new, loosely)
           P == {i \in 0..n : \E S : ScanOK(lines, old, new, loosely, i, g[i], S)}
<1>1. /\ n \in Nat /\ g[0] = NoScan
      /\ \A i \in 1..n : g[i] = ReplaceLine(lines, old, new, loosely, g[i - 1], i)
  BY ScanRuns
<1>2. ScanOK(lines, old, new, loosely, 0, NoScan, {})
  <2>1. NoScan \in Scans /\ NoScan.next = 1 /\ NoScan.text = <<>>
    BY DEF NoScan, Scans
  <2>2. Settled(lines, old, loosely, 1, {})
    BY DEF Settled, Apart
  <2>3. MovedTo(1, {}, Len(old), Len(new)) = 1
    <3>1. IsFiniteSet({}) /\ Cardinality({}) = 0
      BY FS_EmptySet
    <3>2. MovedTo(1, {}, Len(old), Len(new)) = 1 + Cardinality({}) * (Len(new) - Len(old))
      BY <3>1, MovedBehind
    <3>3. 0 * (Len(new) - Len(old)) = 0
      OBVIOUS
    <3>4. QED
      BY <3>1, <3>2, <3>3
  <2>4. MadeUpTo(lines, old, new, 1, <<>>, {})
    <3>1. Len(<<>>) + 1 = 1
      OBVIOUS
    <3>2. QED
      BY <2>3, <3>1 DEF MadeUpTo
  <2>5. QED
    BY <1>1, <2>1, <2>2, <2>4 DEF ScanOK
<1>3. 0 \in P
  BY <1>1, <1>2
<1>4. ASSUME NEW i \in 1..n, i - 1 \in P PROVE i \in P
  <2>1. i \in 0..n
    OBVIOUS
  <2>2. PICK S : ScanOK(lines, old, new, loosely, i - 1, g[i - 1], S)
    BY <1>4
  <2> HIDE DEF g
  <2>3. \E T : ScanOK(lines, old, new, loosely, i,
                      ReplaceLine(lines, old, new, loosely, g[i - 1], i), T)
    BY <2>2, ScanKeeps
  <2>4. QED
    BY <1>1, <2>1, <2>3
<1> HIDE DEF P
<1>5. \A i \in 0..n : i \in P
  BY <1>1, <1>3, <1>4, StepByStep
<1>6. QED
  BY <1>1, <1>5 DEF P

\* An edit of every place.
LEMMA EachReplaces ==
    ASSUME NEW lines \in Seq(Texts), NEW old \in Seq(Texts), old # <<>>, NEW new \in Seq(Texts),
           NEW loosely
    PROVE  LET found == Places(lines, old, loosely)
               t == ReplaceEach(lines, old, new, loosely)
           IN  /\ found = {} => t = Unfound
               /\ found # {} =>
                    /\ t \in Seq(Texts)
                    /\ \E S \in (SUBSET found) \ {{}} :
                         /\ Apart(S, Len(old))
                         /\ \A i \in found \ S : ~Apart(S \cup {i}, Len(old))
                         /\ Replaces(lines, S, old, new, t)
<1> DEFINE found == Places(lines, old, loosely)
           t == ReplaceEach(lines, old, new, loosely)
           r == Replacing(lines, old, new, loosely)[Len(lines)]
           n == Len(old)
           l == Len(lines)
<1>1. CASE found = {}
  BY <1>1 DEF ReplaceEach
<1>2. CASE found # {}
  <2>1. t = r.text
    BY <1>2 DEF ReplaceEach
  <2>2. PICK S : ScanOK(lines, old, new, loosely, l, r, S)
    BY ScanIsOK
  <2>3. l \in Nat /\ n \in Nat \ {0} /\ found \subseteq 1..l
    BY PlacesFit
  <2> HIDE DEF t, r
  <2>4. /\ r \in Scans /\ l < r.next /\ r.next <= l + 1
        /\ Settled(lines, old, loosely, r.next, S) /\ MadeUpTo(lines, old, new, r.next, r.text, S)
    BY <2>2 DEF ScanOK
  <2>5. r.text \in Seq(Texts) /\ r.next = l + 1
    BY <2>3, <2>4 DEF Scans
  <2>6. /\ S \subseteq found /\ Apart(S, n) /\ \A j \in S : j + n <= l + 1
        /\ \A x \in 1..l : x \in S \/ x \notin found \/ \E j \in S : j < x /\ x < j + n
    <3> DEFINE y == l + 1
    <3>1. y - 1 = l /\ y = l + 1
      BY <2>3
    <3>2. Settled(lines, old, loosely, y, S)
      BY <2>4, <2>5
    <3> HIDE DEF y, l
    <3>3. /\ S \subseteq found /\ Apart(S, n) /\ \A j \in S : j + n <= y
          /\ \A x \in 1..(y - 1) : x \in S \/ x \notin found \/ \E j \in S : j < x /\ x < j + n
      BY <3>2 DEF Settled
    <3> HIDE DEF found, n
    <3>4. QED
      BY <3>1, <3>3
  <2>7. Replaces(lines, S, old, new, t)
    <3>1. MadeUpTo(lines, old, new, l + 1, t, S)
      BY <2>1, <2>4, <2>5
    <3>2. Len(t) + 1 = MovedTo(l + 1, S, n, Len(new))
      BY <3>1 DEF MadeUpTo
    <3>3. \A j \in S, k \in DOMAIN new : t[MovedTo(j, S, n, Len(new)) + k - 1] = new[k]
      <4>1. DOMAIN new = 1..Len(new)
        OBVIOUS
      <4>2. QED
        BY <3>1, <4>1 DEF MadeUpTo
    <3>4. \A x \in 1..l : Spared(x, S, n) => t[MovedTo(x, S, n, Len(new))] = lines[x]
      <4>1. 1..l = 1..(l + 1 - 1)
        BY <2>3
      <4>2. QED
        BY <3>1, <4>1 DEF MadeUpTo
    <3>5. DOMAIN lines = 1..l
      OBVIOUS
    <3>6. QED
      BY <3>2, <3>3, <3>4, <3>5 DEF Replaces, Spared
  <2> HIDE DEF found, n
  <2>8. ASSUME NEW i \in found \ S PROVE ~Apart(S \cup {i}, n)
    <3>1. PICK j \in S : j < i /\ i < j + n
      BY <2>3, <2>6
    <3>2. i \in Nat /\ j \in Nat
      BY <2>3, <2>6
    <3>3. QED
      BY <2>3, <3>1, <3>2 DEF Apart
  <2>9. S # {}
    <3>1. PICK x \in found : TRUE
      BY <1>2
    <3>2. QED
      BY <2>3, <2>6, <3>1
  <2>10. t \in Seq(Texts)
    BY <2>1, <2>5
  <2>11. S \in (SUBSET found) \ {{}}
    <3>1. S \in SUBSET found /\ S \notin {{}}
      BY <2>6, <2>9
    <3>2. QED
      BY <3>1, Zenon
  <2>12. QED
    BY <1>2, <2>6, <2>7, <2>8, <2>10, <2>11 DEF found, n, t
<1>3. QED
  BY <1>1, <1>2

\* One edit.
LEMMA EditIs ==
    ASSUME NEW lines \in Seq(Texts), NEW e \in AnEdit, e.old # <<>>, ~IsRefused(e),
           EditOnce(lines, e) # Unfound
    PROVE  EditOnce(lines, e) \in Seq(Texts) /\ Makes(lines, e, EditOnce(lines, e))
<1> DEFINE t == EditOnce(lines, e)
           n == Len(e.old)
           loosely == Loosely(lines, e)
           found == Places(lines, e.old, loosely)
<1>1. /\ e.old \in Seq(Texts) /\ e.new \in Seq(Texts)
      /\ e.how \in {"first", "all", "regex", "regexAll"}
  BY DEF AnEdit, IsRefused
<1>2. ASSUME e.how \in {"first", "regex"}, found # {},
             t = ReplaceFirst(lines, e.old, e.new, loosely)
      PROVE  t \in Seq(Texts) /\ Makes(lines, e, t)
  <2>1. found \subseteq Nat
    BY <1>1, PlacesFit
  <2> HIDE DEF t, loosely
  <2>2. t \in Seq(Texts) /\ \E i \in found : Replaces(lines, {i}, e.old, e.new, t)
    BY <1>1, <1>2, FirstReplaces
  <2> HIDE DEF found
  <2>3. PICK i \in found : Replaces(lines, {i}, e.old, e.new, t)
    BY <2>2
  <2> DEFINE S == {i}
  <2>4. S \in SUBSET found /\ S \notin {{}}
    OBVIOUS
  <2>5. Cardinality(S) = 1
    BY FS_Singleton
  <2>6. Apart(S, n)
    BY <2>1 DEF Apart
  <2>7. Replaces(lines, S, e.old, e.new, t)
    BY <2>3
  <2> HIDE DEF S
  <2>8. \E places \in (SUBSET found) \ {{}} :
          /\ Apart(places, n)
          /\ IF e.how \in {"first", "regex"} THEN Cardinality(places) = 1
             ELSE \A j \in found \ places : ~Apart(places \cup {j}, n)
          /\ Replaces(lines, places, e.old, e.new, t)
    BY <1>2, <2>4, <2>5, <2>6, <2>7
  <2>9. QED
    BY <2>2, <2>8 DEF Makes, found, loosely
<1>3. ASSUME e.how \in {"all", "regexAll"}, found # {},
             t = ReplaceEach(lines, e.old, e.new, loosely)
      PROVE  t \in Seq(Texts) /\ Makes(lines, e, t)
  <2> HIDE DEF t, loosely
  <2>1. /\ t \in Seq(Texts)
        /\ \E S \in (SUBSET found) \ {{}} :
             /\ Apart(S, n)
             /\ \A i \in found \ S : ~Apart(S \cup {i}, n)
             /\ Replaces(lines, S, e.old, e.new, t)
    BY <1>1, <1>3, EachReplaces
  <2> HIDE DEF found
  <2>2. e.how \notin {"first", "regex"}
    BY <1>3
  <2>3. \E places \in (SUBSET found) \ {{}} :
          /\ Apart(places, n)
          /\ IF e.how \in {"first", "regex"} THEN Cardinality(places) = 1
             ELSE \A j \in found \ places : ~Apart(places \cup {j}, n)
          /\ Replaces(lines, places, e.old, e.new, t)
    BY <2>1, <2>2
  <2>4. QED
    BY <2>1, <2>3 DEF Makes, found, loosely
<1>4. ASSUME e.how = "first"
      PROVE  t \in Seq(Texts) /\ Makes(lines, e, t)
  <2> DEFINE exact == ReplaceFirst(lines, e.old, e.new, FALSE)
  <2>1. t = IF exact # Unfound THEN exact ELSE ReplaceFirst(lines, e.old, e.new, TRUE)
    BY <1>4 DEF EditOnce
  <2>2. CASE Places(lines, e.old, FALSE) = {}
    <3>1. exact = Unfound
      BY <2>2 DEF ReplaceFirst
    <3>2. t = ReplaceFirst(lines, e.old, e.new, TRUE)
      BY <2>1, <3>1
    <3>3. Places(lines, e.old, TRUE) # {}
      BY <3>2 DEF ReplaceFirst
    <3>4. loosely = TRUE
      BY <1>4, <2>2 DEF Loosely
    <3>5. QED
      BY <1>2, <1>4, <3>2, <3>3, <3>4
  <2>3. CASE Places(lines, e.old, FALSE) # {}
    <3>1. exact # Unfound
      BY <1>1, <2>3, FirstReplaces
    <3>2. t = ReplaceFirst(lines, e.old, e.new, FALSE)
      BY <2>1, <3>1
    <3>3. loosely = FALSE
      BY <1>4, <2>3 DEF Loosely
    <3>4. QED
      BY <1>2, <1>4, <2>3, <3>2, <3>3
  <2>4. QED
    BY <2>2, <2>3
<1>5. ASSUME e.how = "all"
      PROVE  t \in Seq(Texts) /\ Makes(lines, e, t)
  <2> DEFINE all == ReplaceEach(lines, e.old, e.new, FALSE)
  <2>1. t = IF all = lines THEN Unfound ELSE all
    BY <1>5 DEF EditOnce
  <2>2. t = all /\ all # Unfound
    BY <2>1
  <2>3. Places(lines, e.old, FALSE) # {}
    BY <2>2 DEF ReplaceEach
  <2>4. loosely = FALSE
    BY <1>5 DEF Loosely
  <2>5. QED
    BY <1>3, <1>5, <2>2, <2>3, <2>4
<1>6. ASSUME e.how = "regex"
      PROVE  t \in Seq(Texts) /\ Makes(lines, e, t)
  <2>1. t = ReplaceFirst(lines, e.old, e.new, TRUE)
    BY <1>6 DEF EditOnce
  <2>2. Places(lines, e.old, TRUE) # {}
    BY <2>1 DEF ReplaceFirst
  <2>3. loosely = TRUE
    BY <1>6 DEF Loosely
  <2>4. QED
    BY <1>2, <1>6, <2>1, <2>2, <2>3
<1>7. ASSUME e.how = "regexAll"
      PROVE  t \in Seq(Texts) /\ Makes(lines, e, t)
  <2>1. t = ReplaceEach(lines, e.old, e.new, TRUE)
    BY <1>7 DEF EditOnce
  <2>2. Places(lines, e.old, TRUE) # {}
    BY <2>1 DEF ReplaceEach
  <2>3. loosely = TRUE
    BY <1>7 DEF Loosely
  <2>4. QED
    BY <1>3, <1>7, <2>1, <2>2, <2>3
<1>8. QED
  BY <1>1, <1>4, <1>5, <1>6, <1>7

\* Whether all edits so far were made, and what they made.
Results == [ok : BOOLEAN, text : Seq(Texts)]

\* One edit of several.
LEMMA MakeEditTyped ==
    ASSUME NEW r \in Results, NEW e \in AnEdit
    PROVE  MakeEdit(r, e) \in Results
           /\ (MakeEdit(r, e).ok => r.ok /\ Makes(r.text, e, MakeEdit(r, e).text))
<1> DEFINE s == MakeEdit(r, e)
           next == EditOnce(r.text, e)
<1>1. r.ok \in BOOLEAN /\ r.text \in Seq(Texts) /\ r = [ok |-> r.ok, text |-> r.text]
  BY DEF Results
<1>2. ASSUME ~r.ok \/ e.old = <<>> \/ IsRefused(e) \/ next = Unfound
      PROVE  s \in Results /\ (s.ok => r.ok /\ Makes(r.text, e, s.text))
  <2>1. s = [ok |-> FALSE, text |-> r.text]
    BY <1>1, <1>2 DEF MakeEdit
  <2> HIDE DEF s
  <2>2. s \in Results
    <3>1. FALSE \in BOOLEAN
      BY Zenon
    <3>2. QED
      BY <1>1, <2>1, <3>1, Zenon DEF Results
  <2>3. ~s.ok
    BY <2>1
  <2>4. QED
    BY <2>2, <2>3
<1>3. ASSUME ~(~r.ok \/ e.old = <<>> \/ IsRefused(e) \/ next = Unfound)
      PROVE  s \in Results /\ (s.ok => r.ok /\ Makes(r.text, e, s.text))
  <2>1. s = [ok |-> TRUE, text |-> next]
    BY <1>3 DEF MakeEdit
  <2>2. next \in Seq(Texts) /\ Makes(r.text, e, next)
    BY <1>1, <1>3, EditIs
  <2> HIDE DEF next, s
  <2>3. s \in Results
    BY <2>1, <2>2, Zenon DEF Results
  <2>4. s.text = next /\ r.ok
    BY <1>3, <2>1
  <2>5. QED
    BY <2>2, <2>3, <2>4
<1>4. QED
  BY <1>2, <1>3

\* The edits, one after the other.
LEMMA EditsRun ==
    ASSUME NEW lines \in Seq(Texts), NEW edits \in Seq(AnEdit)
    PROVE  LET g == EditsMade(lines, edits) IN
           /\ g[0] = [ok |-> TRUE, text |-> lines] /\ \A i \in 0..Len(edits) : g[i] \in Results
           /\ \A i \in 1..Len(edits) : g[i] = MakeEdit(g[i - 1], edits[i])
<1> DEFINE n == Len(edits)
           First == [ok |-> TRUE, text |-> lines]
           step == [is \in (1..n) \X Results |-> MakeEdit(is[2], edits[is[1]])]
           IsIt(g) == g = [i \in 0..n |-> IF i = 0 THEN First ELSE MakeEdit(g[i - 1], edits[i])]
           h == EditsMade(lines, edits)
<1>1. n \in Nat /\ First \in Results /\ \A i \in 1..n : edits[i] \in AnEdit
  <2>1. First \in Results
    BY Zenon DEF Results
  <2>2. QED
    BY <2>1
<1>2. step \in [(1..n) \X Results -> Results]
  <2>1. \A i \in 1..n, r \in Results : MakeEdit(r, edits[i]) \in Results
    BY <1>1, MakeEditTyped
  <2>2. QED
    BY <2>1
<1>3. PICK g : IsRun(g, n, Results, First, step)
  BY <1>1, <1>2, RunExists
<1>4. IsIt(g)
  <2>1. /\ g \in [0..n -> Results] /\ g[0] = First
        /\ \A i \in 1..n : g[i] = step[<<i, g[i - 1]>>]
    BY <1>3 DEF IsRun
  <2>2. ASSUME NEW i \in 1..n PROVE g[i] = MakeEdit(g[i - 1], edits[i])
    <3>1. i - 1 \in 0..n /\ i \in 1..n
      BY <1>1
    <3> HIDE DEF n, step
    <3>2. g[i - 1] \in Results /\ g[i] = step[<<i, g[i - 1]>>]
      BY <2>1, <3>1
    <3>3. QED
      BY <3>2 DEF step
  <2>3. \A i \in 0..n : i = 0 \/ i \in 1..n
    BY <1>1
  <2> HIDE DEF step, First
  <2>4. g = [i \in 0..n |-> g[i]]
    BY <2>1
  <2>5. \A i \in 0..n : g[i] = IF i = 0 THEN First ELSE MakeEdit(g[i - 1], edits[i])
    BY <2>1, <2>2, <2>3
  <2>6. QED
    BY <2>4, <2>5
<1>5. h = CHOOSE g2 : IsIt(g2)
  BY DEF EditsMade
<1>6. IsIt(h)
  BY <1>4, <1>5
<1> HIDE DEF h, step, First
<1>7. h[0] = First
  BY <1>1, <1>6
<1>8. ASSUME NEW i \in 1..n PROVE h[i] = MakeEdit(h[i - 1], edits[i])
  <2>1. i \in 0..n /\ i # 0
    OBVIOUS
  <2>2. QED
    BY <1>6, <2>1
<1> HIDE DEF IsIt
<1>9. \A i \in 0..n : h[i] \in Results
  <2> DEFINE P == {i \in 0..n : h[i] \in Results}
  <2>1. 0 \in P
    BY <1>1, <1>7
  <2>2. ASSUME NEW i \in 1..n, i - 1 \in P PROVE i \in P
    <3>1. h[i - 1] \in Results /\ edits[i] \in AnEdit
      BY <1>1, <2>2
    <3>2. h[i] \in Results
      BY <1>8, <3>1, MakeEditTyped
    <3>3. QED
      BY <3>2
  <2> HIDE DEF P
  <2>3. \A i \in 0..n : i \in P
    BY <1>1, <2>1, <2>2, StepByStep
  <2>4. QED
    BY <2>3 DEF P
<1>10. QED
  BY <1>7, <1>8, <1>9 DEF h, First

\* When all of them were made, each was.
LEMMA EditsAre ==
    ASSUME NEW lines \in Seq(Texts), NEW edits \in Seq(AnEdit)
    PROVE  LET made == EditsMade(lines, edits) IN
           /\ ApplyEdits(lines, edits) \in Results
           /\ made[0].text = lines
           /\ ApplyEdits(lines, edits).ok =>
                \A k \in DOMAIN edits : Makes(made[k - 1].text, edits[k], made[k].text)
<1> DEFINE n == Len(edits)
           made == EditsMade(lines, edits)
           P == {i \in 0..n : made[i].ok =>
                    \A k \in 1..i : Makes(made[k - 1].text, edits[k], made[k].text)}
<1>1. n \in Nat /\ DOMAIN edits = 1..n /\ \A i \in 1..n : edits[i] \in AnEdit
  OBVIOUS
<1>2. /\ made[0] = [ok |-> TRUE, text |-> lines] /\ \A i \in 0..n : made[i] \in Results
      /\ \A i \in 1..n : made[i] = MakeEdit(made[i - 1], edits[i])
  BY EditsRun
<1>3. ApplyEdits(lines, edits) = made[n] /\ made[0].text = lines
  BY <1>2 DEF ApplyEdits
<1> HIDE DEF made
<1>4. 0 \in P
  BY <1>1
<1>5. ASSUME NEW i \in 1..n, i - 1 \in P PROVE i \in P
  <2>1. i \in 0..n /\ i - 1 \in 0..n /\ \A k \in 1..i : k = i \/ k \in 1..(i - 1)
    BY <1>1
  <2>2. made[i].ok => made[i - 1].ok /\ Makes(made[i - 1].text, edits[i], made[i].text)
    BY <1>1, <1>2, <2>1, MakeEditTyped
  <2>3. made[i - 1].ok => \A k \in 1..(i - 1) : Makes(made[k - 1].text, edits[k], made[k].text)
    BY <1>5
  <2>4. QED
    BY <2>1, <2>2, <2>3
<1> HIDE DEF P
<1>6. \A i \in 0..n : i \in P
  BY <1>1, <1>4, <1>5, StepByStep
<1>7. made[n].ok => \A k \in 1..n : Makes(made[k - 1].text, edits[k], made[k].text)
  BY <1>1, <1>6 DEF P
<1>8. made[n] \in Results
  BY <1>1, <1>2
<1>9. QED
  BY <1>1, <1>3, <1>7, <1>8 DEF made

---------------------------------------------------------------------------------
(* The calls, and what the properties say of them. *)

\* A call that has not begun or has ended, and one that has begun.
AtRest == [phase : Phases \ {"asking", "allowed"}]
UnderWay == [phase : {"asking", "allowed"}, file : Targets, from : FileStates, edits : Seq(AnEdit),
             to : Seq(Texts), append : BOOLEAN, asked : BOOLEAN]

\* What a call would write is what its edits make of what it read.
Computed(r) ==
    LET made == EditsMade(LossyText(r.from), r.edits) IN
    /\ made[0].text = LossyText(r.from)
    /\ \A k \in DOMAIN r.edits : Makes(made[k - 1].text, r.edits[k], made[k].text)
    /\ r.to = made[Len(r.edits)].text

\* The types, and what each call that has begun would write.
EditsInv == ToolsTypeOK /\ \A c \in EditCalls : Begun(c) => Computed(change[c])

\* Short sequences, and pairs.
LEMMA ShortSequences ==
    ASSUME NEW A, NEW B, NEW S, A \subseteq S, B \subseteq S, NEW n \in Nat
    PROVE  BoundedSeq(A, n) \subseteq Seq(S) /\ A \X B \subseteq Seq(S)
<1>1. ASSUME NEW t \in BoundedSeq(A, n) PROVE t \in Seq(S)
  <2>1. PICK m \in 0..n : t \in [1..m -> A]
    BY DEF BoundedSeq, SeqOf
  <2>2. m \in Nat /\ t \in [1..m -> S]
    BY <2>1
  <2>3. QED
    BY <2>2
<1>2. ASSUME NEW t \in A \X B PROVE t \in Seq(S)
  <2>1. PICK x \in A, y \in B : t = <<x, y>>
    OBVIOUS
  <2>2. x \in S /\ y \in S
    OBVIOUS
  <2>3. <<x, y>> \in Seq(S)
    BY <2>2
  <2>4. QED
    BY <2>1, <2>3
<1>3. QED
  BY <1>1, <1>2

\* What the model's inputs are.
LEMMA InputsTyped ==
    /\ SomeTexts \subseteq Seq(Texts)
    /\ EditLists \subseteq Seq(AnEdit)
<1>1. SomeTexts \subseteq Seq(Texts)
  <2> DEFINE A == {"a", " a", "b"}
             B == {"long", "wide", "bytes"}
             C == {"a", "long"}
  <2>1. A \subseteq Texts /\ B \subseteq Texts /\ C \subseteq Texts
    BY DEF Texts
  <2>2. SomeTexts = BoundedSeq(A, FileLines) \cup (B \X C)
    BY DEF SomeTexts
  <2> HIDE DEF A, B, C
  <2>3. BoundedSeq(A, FileLines) \subseteq Seq(Texts) /\ B \X C \subseteq Seq(Texts)
    BY <2>1, ShortSequences, ToolsAssumption
  <2>4. QED
    BY <2>2, <2>3
<1>2. "a" \in Texts /\ " a" \in Texts /\ "b" \in Texts
  BY DEF Texts
<1>3. /\ <<>> \in Seq(Texts) /\ <<"a">> \in Seq(Texts) /\ <<" a">> \in Seq(Texts)
      /\ <<"b">> \in Seq(Texts) /\ <<"a", "b">> \in Seq(Texts)
  <2>1. \A x \in Texts : <<x>> \in Seq(Texts)
    OBVIOUS
  <2>2. \A x, y \in Texts : <<x, y>> \in Seq(Texts)
    OBVIOUS
  <2>3. <<>> \in Seq(Texts)
    OBVIOUS
  <2>4. QED
    BY <1>2, <2>1, <2>2, <2>3
<1>4. Edits \subseteq AnEdit
  BY <1>3 DEF Edits, AnEdit
<1>5. ShortEdits \subseteq AnEdit
  BY <1>3 DEF ShortEdits, AnEdit
<1>6. ASSUME NEW edits \in EditLists PROVE edits \in Seq(AnEdit)
  <2>1. edits \in {<<e>> : e \in Edits} \/ edits \in ShortEdits \X ShortEdits
    BY DEF EditLists
  <2>2. ASSUME edits \in {<<e>> : e \in Edits}
        PROVE  edits \in Seq(AnEdit)
    <3>1. PICK e \in Edits : edits = <<e>>
      BY <2>2
    <3>2. e \in AnEdit
      BY <1>4
    <3> HIDE DEF AnEdit
    <3>3. <<e>> \in Seq(AnEdit)
      BY <3>2
    <3>4. QED
      BY <3>1, <3>3
  <2>3. ShortEdits \X ShortEdits \subseteq Seq(AnEdit)
    BY <1>5, ShortSequences, ToolsAssumption
  <2>4. QED
    BY <2>1, <2>2, <2>3
<1>7. QED
  BY <1>1, <1>6

\* A step of one call.
LEMMA OneCallKept ==
    ASSUME EditsInv, NEW c \in ToolCalls, NEW r \in AtRest \cup UnderWay,
           r \in UnderWay /\ c \in EditCalls => Computed(r),
           change' = [change EXCEPT ![c] = r], text' \in [Targets -> FileStates],
           granted' \subseteq {"edit", "editOutside"}
    PROVE  EditsInv'
<1>1. change \in [ToolCalls -> AtRest \cup UnderWay]
  BY DEF EditsInv, ToolsTypeOK, AtRest, UnderWay
<1>2. change' \in [ToolCalls -> AtRest \cup UnderWay]
      /\ \A d \in ToolCalls : change'[d] = IF d = c THEN r ELSE change[d]
  BY <1>1
<1>3. ToolsTypeOK'
  BY <1>2 DEF ToolsTypeOK, AtRest, UnderWay
<1>4. ASSUME NEW d \in EditCalls, Begun(d)'
      PROVE  Computed(change'[d])
  <2>1. d \in ToolCalls
    BY DEF ToolCalls
  <2>2. CASE d = c
    <3>1. r.phase \in {"asking", "allowed"}
      BY <1>2, <1>4, <2>1, <2>2 DEF Begun
    <3>2. r \in UnderWay
      BY <3>1 DEF AtRest
    <3>3. QED
      BY <1>2, <2>1, <2>2, <3>2
  <2>3. CASE d # c
    <3>1. change'[d] = change[d] /\ Begun(d)
      BY <1>2, <1>4, <2>1, <2>3 DEF Begun
    <3>2. QED
      BY <3>1 DEF EditsInv
  <2>4. QED
    BY <2>2, <2>3
<1>5. QED
  BY <1>3, <1>4 DEF EditsInv, Computed

\* A call that ends.
LEMMA EndKept ==
    ASSUME EditsInv, NEW c \in ToolCalls, NEW phase \in {"done", "refused", "failed"},
           Ends(c, phase), text' \in [Targets -> FileStates], granted' = granted
    PROVE  EditsInv'
<1>1. [phase |-> phase] \in AtRest
  BY DEF AtRest, Phases
<1>2. [phase |-> phase] \notin UnderWay
  <2>1. ASSUME [phase |-> phase] \in UnderWay
        PROVE  FALSE
    <3>1. [phase |-> phase].phase \in {"asking", "allowed"}
      BY <2>1 DEF UnderWay
    <3>2. QED
      BY <3>1
  <2>2. QED
    BY <2>1
<1>3. granted' \subseteq {"edit", "editOutside"}
  BY DEF EditsInv, ToolsTypeOK
<1>4. QED
  BY <1>1, <1>2, <1>3, OneCallKept DEF Ends

\* A call that has computed what to write.
LEMMA AskKept ==
    ASSUME EditsInv, NEW c \in ToolCalls, NEW f \in Targets, NEW edits \in Seq(AnEdit),
           NEW to \in Seq(Texts), NEW append \in BOOLEAN, AsksFor(c, f, edits, to, append),
           c \in EditCalls => \A r \in UnderWay :
               r.from = text[f] /\ r.edits = edits /\ r.to = to => Computed(r)
    PROVE  EditsInv'
<1> DEFINE phase == IF ActionOf(f) \in granted THEN "allowed" ELSE "asking"
           asked == ActionOf(f) \notin granted
           r == [phase |-> phase, file |-> f, from |-> text[f], edits |-> edits, to |-> to,
                 append |-> append, asked |-> asked]
<1>1. /\ text[f] \in FileStates /\ text \in [Targets -> FileStates]
       /\ text' = text /\ granted' = granted
      /\ granted \subseteq {"edit", "editOutside"}
  BY DEF EditsInv, ToolsTypeOK, AsksFor
<1>2. change' = [change EXCEPT ![c] = r]
  BY DEF AsksFor
<1>3. phase \in {"asking", "allowed"}
  OBVIOUS
<1>4. asked \in BOOLEAN
  BY Zenon
<1> HIDE DEF phase, asked
<1>5. r \in UnderWay
  BY <1>1, <1>3, <1>4, Zenon DEF UnderWay
<1>6. r.from = text[f] /\ r.edits = edits /\ r.to = to
  OBVIOUS
<1> HIDE DEF r
<1>7. c \in EditCalls => Computed(r)
  BY <1>5, <1>6
<1>8. QED
  BY <1>1, <1>2, <1>5, <1>7, OneCallKept

\* What the edits make is what a call would write.
LEMMA EditsComputed ==
    ASSUME NEW before \in Seq(Texts), NEW edits \in Seq(AnEdit),
           ApplyEdits(LossyText(before), edits).ok
    PROVE  /\ ApplyEdits(LossyText(before), edits).text \in Seq(Texts)
           /\ \A r : r.from = before /\ r.edits = edits
                     /\ r.to = ApplyEdits(LossyText(before), edits).text => Computed(r)
<1>1. LossyText(before) \in Seq(Texts)
  BY LossyTyped
<1>2. /\ ApplyEdits(LossyText(before), edits) \in Results
      /\ EditsMade(LossyText(before), edits)[0].text = LossyText(before)
      /\ \A k \in DOMAIN edits : Makes(EditsMade(LossyText(before), edits)[k - 1].text, edits[k],
                                       EditsMade(LossyText(before), edits)[k].text)
  BY <1>1, EditsAre
<1>3. ApplyEdits(LossyText(before), edits).text
        = EditsMade(LossyText(before), edits)[Len(edits)].text
  BY DEF ApplyEdits
<1>4. QED
  BY <1>2, <1>3 DEF Computed, Results

\* The invariant.
LEMMA EditsInvariant == ToolsSpec => []EditsInv
<1>1. ToolsInit => EditsInv
  <2> SUFFICES ASSUME ToolsInit PROVE EditsInv
    OBVIOUS
  <2>1. text \in [Targets -> FileStates]
    BY InputsTyped DEF ToolsInit, FileStates
  <2>2. NoChange \in AtRest
    BY DEF NoChange, AtRest, Phases
  <2>3. change \in [ToolCalls -> AtRest \cup UnderWay] /\ \A c \in ToolCalls : change[c] = NoChange
    BY <2>2 DEF ToolsInit
  <2>4. \A c \in EditCalls : ~Begun(c)
    BY <2>3 DEF Begun, NoChange, ToolCalls
  <2>5. QED
    BY <2>1, <2>3, <2>4 DEF ToolsInit, EditsInv, ToolsTypeOK, AtRest, UnderWay
<1>2. EditsInv /\ [ToolsNext]_changeVars => EditsInv'
  <2> SUFFICES ASSUME EditsInv, [ToolsNext]_changeVars PROVE EditsInv'
    OBVIOUS
  <2>0. /\ text \in [Targets -> FileStates] /\ granted \subseteq {"edit", "editOutside"}
        /\ EditCalls \subseteq ToolCalls /\ WriteCalls \subseteq ToolCalls
        /\ change \in [ToolCalls -> AtRest \cup UnderWay]
    BY DEF EditsInv, ToolsTypeOK, ToolCalls, AtRest, UnderWay
  <2>1. ASSUME NEW c \in EditCalls, NEW f \in Targets, NEW edits \in EditLists, NEW shape,
               StrReplaceFile(c, f, edits, shape)
        PROVE  EditsInv'
    <3> DEFINE result == ApplyEdits(LossyText(text[f]), edits)
    <3>1. Fails(c) \/ (text[f] # Absent /\ result.ok /\ AsksFor(c, f, edits, result.text, FALSE))
      BY <2>1 DEF StrReplaceFile
    <3>2. ASSUME Fails(c)
          PROVE  EditsInv'
      BY <2>0, <3>2, EndKept DEF Fails
    <3>3. ASSUME text[f] # Absent, result.ok, AsksFor(c, f, edits, result.text, FALSE)
          PROVE  EditsInv'
      <4>1. text[f] \in Seq(Texts) /\ edits \in Seq(AnEdit) /\ c \in ToolCalls
        BY <2>0, <3>3, InputsTyped DEF FileStates
      <4>2. /\ result.text \in Seq(Texts)
            /\ \A r : r.from = text[f] /\ r.edits = edits /\ r.to = result.text => Computed(r)
        BY <3>3, <4>1, EditsComputed
      <4>3. FALSE \in BOOLEAN
        BY Zenon
      <4> DEFINE to == result.text
      <4> HIDE DEF to
      <4>4. AsksFor(c, f, edits, to, FALSE) /\ to \in Seq(Texts)
            /\ \A r \in UnderWay : r.from = text[f] /\ r.edits = edits /\ r.to = to => Computed(r)
        BY <3>3, <4>2 DEF to
      <4>5. QED
        BY <4>1, <4>3, <4>4, AskKept
    <3>4. QED
      BY <3>1, <3>2, <3>3
  <2>2. ASSUME NEW c \in WriteCalls, NEW f \in Targets, NEW append \in BOOLEAN, NEW shape,
               WriteFile(c, f, <<"b">>, append, shape)
        PROVE  EditsInv'
    <3>1. Fails(c) \/ AsksFor(c, f, <<>>, <<"b">>, append)
      BY <2>2 DEF WriteFile
    <3>2. ASSUME Fails(c)
          PROVE  EditsInv'
      BY <2>0, <3>2, EndKept DEF Fails
    <3>3. ASSUME AsksFor(c, f, <<>>, <<"b">>, append)
          PROVE  EditsInv'
      <4>1. <<>> \in Seq(AnEdit) /\ <<"b">> \in Seq(Texts) /\ c \notin EditCalls /\ c \in ToolCalls
        BY <2>0, ToolsAssumption DEF Texts
      <4> DEFINE none == <<>>
                 to == <<"b">>
      <4> HIDE DEF none, to
      <4>2. none \in Seq(AnEdit) /\ to \in Seq(Texts) /\ AsksFor(c, f, none, to, append)
        BY <3>3, <4>1 DEF none, to
      <4>3. c \in EditCalls => \A r \in UnderWay :
               r.from = text[f] /\ r.edits = none /\ r.to = to => Computed(r)
        BY <4>1
      <4>4. QED
        BY <4>1, <4>2, <4>3, AskKept
    <3>4. QED
      BY <3>1, <3>2, <3>3
  <2>3. ASSUME NEW c \in ToolCalls, Approve(c)
        PROVE  EditsInv'
    <3> DEFINE r == [change[c] EXCEPT !.phase = "allowed"]
    <3>1. change[c] \in UnderWay /\ Begun(c)
      BY <2>0, <2>3 DEF Approve, Begun, AtRest
    <3>2. /\ change' = [change EXCEPT ![c] = r] /\ text' = text
          /\ granted' \subseteq {"edit", "editOutside"}
      BY <2>0, <2>3 DEF Approve, ActionOf
    <3>3. /\ r \in UnderWay /\ r.from = change[c].from
          /\ r.edits = change[c].edits /\ r.to = change[c].to
      BY <3>1 DEF UnderWay
    <3>4. c \in EditCalls => Computed(r)
      BY <3>1, <3>3 DEF EditsInv, Computed
    <3> HIDE DEF r
    <3>5. QED
      BY <2>0, <3>2, <3>3, <3>4, OneCallKept
  <2>4. ASSUME NEW c \in ToolCalls, Reject(c) \/ WriteFails(c)
        PROVE  EditsInv'
    BY <2>0, <2>4, EndKept DEF Reject, WriteFails, Fails
  <2>5. ASSUME NEW c \in ToolCalls, WriteOut(c)
        PROVE  EditsInv'
    <3> DEFINE f == change[c].file
               new == IF change[c].append /\ text[f] # Absent THEN text[f] \o change[c].to
                      ELSE change[c].to
    <3>1. change[c] \in UnderWay
      BY <2>0, <2>5 DEF WriteOut, AtRest
    <3>2. f \in Targets /\ change[c].to \in Seq(Texts) /\ text[f] \in FileStates
      BY <2>0, <3>1 DEF UnderWay
    <3>3. text' = [text EXCEPT ![f] = new]
      BY <2>0, <2>5 DEF WriteOut
    <3>4. new \in FileStates
      <4>1. CASE change[c].append /\ text[f] # Absent
        <5>1. text[f] \in Seq(Texts)
          BY <3>2, <4>1 DEF FileStates
        <5>2. text[f] \o change[c].to \in Seq(Texts)
          BY <3>2, <5>1, ConcatProperties
        <5>3. QED
          BY <4>1, <5>2 DEF FileStates
      <4>2. CASE ~(change[c].append /\ text[f] # Absent)
        BY <3>2, <4>2 DEF FileStates
      <4>3. QED
        BY <4>1, <4>2
    <3> HIDE DEF f, new
    <3>5. text' \in [Targets -> FileStates]
      BY <2>0, <3>2, <3>3, <3>4
    <3>6. QED
      BY <2>5, <3>5, EndKept DEF WriteOut
  <2>6. ASSUME NEW f \in Targets, OtherChange(f)
        PROVE  EditsInv'
    <3>1. text' \in [Targets -> FileStates] /\ change' = change /\ granted' = granted
      BY <2>0, <2>6 DEF OtherChange, FileStates
    <3>2. QED
      BY <3>1 DEF EditsInv, ToolsTypeOK, Begun, Computed
  <2>7. CASE UNCHANGED changeVars
    BY <2>7 DEF changeVars, EditsInv, ToolsTypeOK, Begun, Computed
  <2>8. QED
    BY <2>1, <2>2, <2>3, <2>4, <2>5, <2>6, <2>7 DEF ToolsNext
<1>3. QED
  BY <1>1, <1>2, PTL DEF ToolsSpec

\* replace.rs, write.rs: files, calls and approvals keep their types: a file is lines or is
\* gone, and a call that has begun knows its file, what it read there and what it would write.
THEOREM ToolsTypeCorrect == ToolsSpec => []ToolsTypeOK
<1>1. EditsInv => ToolsTypeOK
  BY DEF EditsInv
<1>2. QED
  BY <1>1, EditsInvariant, PTL

\* replace.rs:615-660: what an edit would write is the text it read with each of its edits made
\* where it matches, one place or all that can be, and every other line as it was.
THEOREM EditsAreExact == ToolsSpec => []EditsTouchOnlyTheMatch
<1>1. EditsInv => EditsTouchOnlyTheMatch
  BY DEF EditsInv, EditsTouchOnlyTheMatch, Computed
<1>2. QED
  BY <1>1, EditsInvariant, PTL

\* read.rs:235-360, grep.rs:280-345: wherever reading a file breaks off, a page of it is its
\* lines from where it says, some whenever one was read there, with none of those read held
\* back behind the end; and a search shows every match with the lines around it, up to its
\* limit.
THEOREM ReadersShowAll == ToolsSpec => []ReadersMissNothing
<1>1. ToolsTypeOK => ReadersMissNothing
  <2> SUFFICES ASSUME ToolsTypeOK PROVE ReadersMissNothing
    OBVIOUS
  <2>1. ASSUME NEW f \in Targets, text[f] \notin {Absent, <<>>}
        PROVE  text[f] \in Seq(Texts) /\ LossyText(text[f]) \in Seq(Texts)
    <3>1. text[f] \in Seq(Texts)
      BY <2>1 DEF ToolsTypeOK, FileStates
    <3>2. QED
      BY <3>1, LossyTyped
  <2>2. ASSUME NEW f \in Targets, text[f] \notin {Absent, <<>>},
               NEW read \in 0..Len(text[f]), NEW n \in 1..(MaxLines + 1),
               NEW offset \in (-MaxLines..(FileLines + 1)) \ {0}
        PROVE  LET page == ReadFile(text[f], read, offset, n) IN
             page.panicked \/
             /\ page.lines = SubSeq(LossyText(text[f]), page.start,
                                     page.start + Len(page.lines) - 1)
             /\ page.lines = <<>> => page.start > read
             /\ page.eof => page.start + Len(page.lines) > read
             /\ Len(page.lines) <= Least(n, MaxLines)
             /\ offset < 0 /\ n >= -offset => page.start + Len(page.lines) = read + 1
    <3>1. PageOK(ReadFile(text[f], read, offset, n), LossyText(text[f]), read, offset, n)
      BY <2>1, <2>2, ReadersOfOne
    <3>2. QED
      BY <3>1 DEF PageOK
  <2>3. ASSUME NEW f \in Targets, text[f] \notin {Absent, <<>>},
               NEW before \in 0..1, NEW after \in 0..1, NEW limit \in 0..(FileLines + 1)
        PROVE  LET lines == LossyText(text[f])
                   found == Grep(lines, "a", before, after, limit)
                   wanted == {i \in DOMAIN lines : \E m \in DOMAIN lines :
                                 Unpadded(lines[m]) = "a" /\ m - before <= i /\ i <= m + after}
               IN  /\ \A i, j \in DOMAIN found.shown : i < j => found.shown[i] < found.shown[j]
                   /\ ToSet(found.shown) \subseteq wanted
                   /\ \A i \in wanted \ ToSet(found.shown) :
                         found.truncated /\ \A j \in ToSet(found.shown) : j < i
    <3> DEFINE lines == LossyText(text[f])
               found == Grep(lines, "a", before, after, limit)
               wanted == {i \in DOMAIN lines : \E m \in DOMAIN lines :
                             Unpadded(lines[m]) = "a" /\ m - before <= i /\ i <= m + after}
    <3>1. lines \in Seq(Texts) /\ before \in Nat /\ after \in Nat /\ limit \in Nat
      BY <2>1, <2>3, ToolsAssumption
    <3> HIDE DEF lines
    <3>2. /\ Rises(found.shown) /\ ToSet(found.shown) \subseteq wanted
          /\ \A i \in wanted \ ToSet(found.shown) :
                found.truncated /\ \A j \in ToSet(found.shown) : j < i
      BY <3>1, GrepMissesNothing
    <3> HIDE DEF found, wanted
    <3>3. \A i, j \in DOMAIN found.shown : i < j => found.shown[i] < found.shown[j]
      BY <3>2 DEF Rises
    <3>4. QED
      BY <3>2, <3>3 DEF found, wanted, lines
  <2>4. QED
    BY <2>2, <2>3, KindsAreShown DEF ReadersMissNothing, KindsAreTold
<1>2. QED
  BY <1>1, ToolsTypeCorrect, PTL
=================================================================================
