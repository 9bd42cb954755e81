-------------------------------- MODULE FileTools --------------------------------
(***************************************************************************)
(* The tools that read and change files:                                   *)
(*                                                                         *)
(*   server/dvadva-agent/src/tools/file/{mod,read,read_media}.rs  reading  *)
(*   server/dvadva-agent/src/tools/file/grep.rs            searching       *)
(*   server/dvadva-agent/src/tools/file/{replace,write}.rs changing        *)
(*                                                                         *)
(* A file is its lines.  A line is known by its text, which may be padded, *)
(* too long to be shown, too long and cut inside a character, or bytes     *)
(* that are no UTF-8.  A pattern matches lines; that it may match a part   *)
(* of one is left out.  The calls of a step run side by side, and what a   *)
(* call computed waits for the user before it is written.                  *)
(***************************************************************************)
EXTENDS Integers, FiniteSets, SequencesExt

CONSTANTS
    EditCalls,      \* calls of StrReplaceFile
    WriteCalls,     \* calls of WriteFile
    Targets,        \* files the calls may name
    Outside,        \* those of them outside of the working directory
    FileLines,      \* bound: lines of a file that is read or searched
    MaxLines,       \* MAX_LINES
    MaxLineLength,  \* MAX_LINE_LENGTH
    MaxBytes        \* MAX_BYTES

ASSUME ToolsAssumption ==
    /\ FileLines \in Nat /\ MaxLines \in Nat \ {0}
    /\ MaxLineLength \in Nat \ {0, 1} /\ MaxBytes \in Nat /\ MaxLineLength < MaxBytes
    /\ EditCalls \cap WriteCalls = {}

Texts == {"a", " a", "b", "long", "wide", "bytes", "garbled"}
Unpadded(line) == IF line = " a" THEN "a" ELSE line
LengthOf(line) ==
    IF line \in {"long", "wide"} THEN MaxLineLength + 1 ELSE IF line = " a" THEN 2 ELSE 1
\* read_text_lossy: what is not UTF-8 is not what it was.
Lossy(line) == IF line = "bytes" THEN "garbled" ELSE line
LossyText(lines) == [i \in DOMAIN lines |-> Lossy(lines[i])]

Least(a, b) == IF a <= b THEN a ELSE b
Sums(sizes) ==
    LET sum[i \in 0..Len(sizes)] == IF i = 0 THEN 0 ELSE sum[i - 1] + sizes[i] IN sum
SumOf(sizes) == Sums(sizes)[Len(sizes)]

---------------------------------------------------------------------------------
(* Reading. *)

\* truncate_line counts bytes, and cutting inside a character is a panic.
Kept(line) == Least(LengthOf(line), MaxLineLength)
Panics(line) == line = "wide"

\* A line that was read.  Reading goes on behind what is shown, to count the lines.
TakeLine(offset, n, r, line) ==
    LET at == r.total + 1
        kept == Append(r.lines, line)
        bytes == r.bytes + Kept(line)
    IN  IF at < offset \/ r.stop # "no" THEN [r EXCEPT !.total = at]
        ELSE [r EXCEPT !.total = at, !.lines = kept, !.bytes = bytes,
                       !.panicked = @ \/ Panics(line),
                       !.stop = IF Len(kept) >= n THEN "asked"
                                ELSE IF Len(kept) >= MaxLines THEN "lines"
                                ELSE IF bytes >= MaxBytes THEN "bytes" ELSE "no"]

NothingRead == [lines |-> <<>>, bytes |-> 0, total |-> 0, stop |-> "no", panicked |-> FALSE]
\* After each of the lines.  The loop ends behind the last of them, or breaks at the first
\* that cannot be read, with nothing noted of it: `read` lines are all there is to it.
LinesTaken(text, offset, n) ==
    LET taken[i \in 0..Len(text)] ==
          IF i = 0 THEN NothingRead ELSE TakeLine(offset, n, taken[i - 1], text[i])
    IN  taken

ReadForward(text, read, offset, n) ==
    LET r == LinesTaken(text, offset, n)[read]
    IN  [lines |-> r.lines, start |-> offset, total |-> r.total, panicked |-> r.panicked,
         eof |-> r.stop = "no"]

\* Mutant: the bytes are counted from the oldest line on.
ReadTailFromTheTop(text, read, count, n) ==
    LET first == read - Least(count, read) + 1
        candidates == SubSeq(text, first, Least(first + Least(n, MaxLines) - 1, read))
        sizes == [i \in DOMAIN candidates |-> Kept(candidates[i])]
        fits == {k \in 0..Len(candidates) : SumOf(SubSeq(sizes, 1, k)) <= MaxBytes}
        kept == CHOOSE k \in fits : \A j \in fits : k >= j
    IN  [lines |-> SubSeq(candidates, 1, kept), start |-> first, total |-> read,
         panicked |-> \E i \in 1..read : Panics(text[i]), eof |-> FALSE]

\* The last of the lines that could be read, of them the first that were asked for, of
\* them the newest that fit.
ReadTail(text, read, count, n) ==
    LET first == read - Least(count, read) + 1
        candidates == SubSeq(text, first, Least(first + Least(n, MaxLines) - 1, read))
        sizes == [i \in DOMAIN candidates |-> Kept(candidates[i])]
        fits == {k \in 0..Len(candidates) :
                    SumOf(SubSeq(sizes, Len(sizes) - k + 1, Len(sizes))) <= MaxBytes}
        kept == Len(candidates) - CHOOSE k \in fits : \A j \in fits : k >= j
        shown == SubSeq(candidates, kept + 1, Len(candidates))
    IN  [lines |-> shown, start |-> IF shown = <<>> THEN read + 1 ELSE first + kept,
         total |-> read, panicked |-> \E i \in 1..read : Panics(text[i]), eof |-> FALSE]

ReadFile(lines, read, offset, n) ==
    IF offset < 0 THEN ReadTail(LossyText(lines), read, -offset, n)
                  ELSE ReadForward(LossyText(lines), read, offset, n)

\* What the suffix says, for one of each sort, what the first bytes do, and what is
\* known to be no text.
FileSuffixes == {".png", ".mp4", ".svg", ".zip", ".rs", ""}
Headers == {"image", "video", "zero", "plain"}
Hint(suffix) ==
    CASE suffix = ".png" -> "image" [] suffix = ".mp4" -> "video" [] suffix = ".svg" -> "text"
      [] OTHER -> "none"
Sniffed(header) == IF header \in {"image", "video"} THEN header ELSE "none"
IsNonText(suffix) == suffix = ".zip"

\* detect_file_type: the suffix of a medium is believed, the others are not.
FileKind(suffix, header) ==
    LET hint == Hint(suffix) IN
    CASE hint \in {"image", "video"} -> hint
      [] hint \in {"text", "none"} /\ Sniffed(header) # "none" ->
           IF hint = "none" THEN Sniffed(header) ELSE "unknown"
      [] hint \in {"text", "none"} /\ header = "zero" -> "unknown"
      [] hint = "none" /\ header = "plain" /\ IsNonText(suffix) -> "unknown"
      [] OTHER -> "text"

\* Which of the tools shows a file to a model that sees some sorts of media.
ShownByReadFile(kind) == kind = "text"
ShownByReadMedia(kind, size, sees) == kind \in {"image", "video"} \cap sees /\ size = "fits"

---------------------------------------------------------------------------------
(* Searching. *)

\* One line of run_grep in content mode: before holds line numbers, shown too.
GrepLine(pattern, before, after, r, line) ==
    LET at == r.at + 1 IN
    IF Unpadded(line) = pattern
    THEN [at |-> at, held |-> <<>>, left |-> after, shown |-> Append(r.shown \o r.held, at)]
    ELSE IF r.left > 0
    THEN [at |-> at, held |-> <<>>, left |-> r.left - 1, shown |-> Append(r.shown, at)]
    ELSE [r EXCEPT !.at = at,
          !.held = LET held == Append(@, at)
                   IN  IF before = 0 THEN <<>>
                       ELSE IF Len(held) > before THEN Tail(held) ELSE held]

LinesSearched(lines, pattern, before, after) ==
    LET searched[i \in 0..Len(lines)] ==
          IF i = 0 THEN [at |-> 0, held |-> <<>>, left |-> 0, shown |-> <<>>]
          ELSE GrepLine(pattern, before, after, searched[i - 1], lines[i])
    IN  searched

\* A limit of nothing shows a line all the same.
Grep(lines, pattern, before, after, limit) ==
    LET found == LinesSearched(lines, pattern, before, after)[Len(lines)].shown
        cut == IF limit = 0 THEN 1 ELSE limit
    IN  [shown |-> SubSeq(found, 1, Least(cut, Len(found))), truncated |-> Len(found) >= cut]

---------------------------------------------------------------------------------
(* What an edit makes of a text. *)

MatchesAt(text, old, i, loosely) ==
    /\ i + Len(old) - 1 <= Len(text)
    /\ \A k \in DOMAIN old : LET line == text[i + k - 1] IN
         line = old[k] \/ (loosely /\ Unpadded(line) = Unpadded(old[k]))
Places(text, old, loosely) == {i \in DOMAIN text : MatchesAt(text, old, i, loosely)}
Spliced(text, i, n, new) == SubSeq(text, 1, i - 1) \o new \o SubSeq(text, i + n, Len(text))

Unfound == <<"unfound">>
ReplaceFirst(text, old, new, loosely) ==
    LET places == Places(text, old, loosely) IN
    IF places = {} THEN Unfound
    ELSE Spliced(text, CHOOSE i \in places : \A j \in places : i <= j, Len(old), new)

\* From left to right, going on behind what was replaced.
ReplaceLine(text, old, new, loosely, r, i) ==
    IF i < r.next THEN r
    ELSE IF MatchesAt(text, old, i, loosely)
    THEN [text |-> r.text \o new, next |-> i + Len(old)]
    ELSE [text |-> Append(r.text, text[i]), next |-> i + 1]
Replacing(text, old, new, loosely) ==
    LET upTo[i \in 0..Len(text)] ==
          IF i = 0 THEN [text |-> <<>>, next |-> 1]
          ELSE ReplaceLine(text, old, new, loosely, upTo[i - 1], i)
    IN  upTo

ReplaceEach(text, old, new, loosely) ==
    IF Places(text, old, loosely) = {} THEN Unfound
    ELSE Replacing(text, old, new, loosely)[Len(text)].text

\* A regular expression is taken to allow for padding.  Replacing every exact match by
\* itself counts as finding none; only a single exact edit is looked for again loosely.
EditOnce(text, e) ==
    CASE e.how = "first" ->
           LET exact == ReplaceFirst(text, e.old, e.new, FALSE) IN
           IF exact # Unfound THEN exact ELSE ReplaceFirst(text, e.old, e.new, TRUE)
      [] e.how = "all" ->
           LET all == ReplaceEach(text, e.old, e.new, FALSE) IN
           IF all = text THEN Unfound ELSE all
      [] e.how = "regex" -> ReplaceFirst(text, e.old, e.new, TRUE)
      [] e.how = "regexAll" -> ReplaceEach(text, e.old, e.new, TRUE)

\* A bad expression, or a replacement that refers to a group the expression has not.
IsRefused(e) == e.how = "badRegex"

\* Mutant: an edit whose text is not found is passed over.
MakeEditFound(r, e) ==
    LET next == EditOnce(r.text, e) IN
    IF ~r.ok \/ e.old = <<>> \/ IsRefused(e) THEN [r EXCEPT !.ok = FALSE]
    ELSE IF next = Unfound THEN r ELSE [ok |-> TRUE, text |-> next]
\* An empty search, a refused edit and a text that is not found end it.
MakeEdit(r, e) ==
    LET next == EditOnce(r.text, e) IN
    IF ~r.ok \/ e.old = <<>> \/ IsRefused(e) \/ next = Unfound THEN [r EXCEPT !.ok = FALSE]
    ELSE [ok |-> TRUE, text |-> next]

EditsMade(text, edits) ==
    LET made[k \in 0..Len(edits)] ==
          IF k = 0 THEN [ok |-> TRUE, text |-> text] ELSE MakeEdit(made[k - 1], edits[k])
    IN  made
\* All of the edits or none.
ApplyEdits(text, edits) == EditsMade(text, edits)[Len(edits)]

\* The arguments as the model wrote them: JSON in one of three shapes, or JSON but for
\* line breaks, or but for quotes.  Line breaks are seen through.
UnderstoodEdit(shape) == shape # "quotes"
UnderstoodWrite(shape) == shape \in {"flat", "lineBreaks"}

---------------------------------------------------------------------------------
(* The calls that change files. *)

VARIABLES
    text,       \* of each file, or Absent
    change,     \* each call: its phase, its file, what it was computed from and what to
    granted     \* the actions approved for the session

changeVars == <<text, change, granted>>

Absent == <<"absent">>
ToolCalls == EditCalls \cup WriteCalls
NoChange == [phase |-> "none"]
Phases == {"none", "asking", "allowed", "done", "refused", "failed"}
Begun(c) == change[c].phase \in {"asking", "allowed"}

SomeTexts ==
    BoundedSeq({"a", " a", "b"}, FileLines) \cup ({"long", "wide", "bytes"} \X {"a", "long"})
Edits == [old : {<<>>, <<"a">>, <<" a">>, <<"b">>, <<"a", "b">>}, new : {<<>>, <<"b">>},
          how : {"first", "all", "regex", "regexAll", "badRegex"}]
ShortEdits == [old : {<<"a">>, <<"b">>}, new : {<<>>, <<"b">>}, how : {"first"}]
EditLists == {<<e>> : e \in Edits} \cup (ShortEdits \X ShortEdits)

FileStates == Seq(Texts) \cup {Absent}
AnEdit == [old : Seq(Texts), new : Seq(Texts),
           how : {"first", "all", "regex", "regexAll", "badRegex"}]
ToolsTypeOK ==
    /\ text \in [Targets -> FileStates]
    /\ change \in [ToolCalls ->
          [phase : Phases \ {"asking", "allowed"}]
          \cup [phase : {"asking", "allowed"}, file : Targets, from : FileStates,
                edits : Seq(AnEdit), to : Seq(Texts), append : BOOLEAN, asked : BOOLEAN]]
    /\ granted \subseteq {"edit", "editOutside"}

ToolsInit ==
    /\ text \in [Targets -> SomeTexts \cup {Absent}]
    /\ change = [c \in ToolCalls |-> NoChange] /\ granted = {}

\* Mutant: where the file lies makes no difference.
ActionOfAny(f) == IF f \in Targets THEN "edit" ELSE "editOutside"
ActionOf(f) == IF f \in Outside THEN "editOutside" ELSE "edit"

AsksFor(c, f, edits, to, append) ==
    /\ change' = [change EXCEPT ![c] =
         [phase |-> IF ActionOf(f) \in granted THEN "allowed" ELSE "asking",
          file |-> f, from |-> text[f], edits |-> edits, to |-> to, append |-> append,
          asked |-> ActionOf(f) \notin granted]]
    /\ UNCHANGED <<text, granted>>

Ends(c, phase) == change' = [change EXCEPT ![c] = [phase |-> phase]]
Fails(c) == Ends(c, "failed") /\ UNCHANGED <<text, granted>>

\* A text that the edits leave as it was is an error as well.
StrReplaceFile(c, f, edits, shape) ==
    /\ change[c] = NoChange
    /\ LET original == LossyText(text[f]) result == ApplyEdits(original, edits) IN
         IF ~UnderstoodEdit(shape) \/ text[f] = Absent \/ ~result.ok \/ result.text = original
         THEN Fails(c) ELSE AsksFor(c, f, edits, result.text, FALSE)

WriteFile(c, f, content, append, shape) ==
    /\ change[c] = NoChange
    /\ IF UnderstoodWrite(shape) THEN AsksFor(c, f, <<>>, content, append) ELSE Fails(c)

\* The user's answer, as the broker hands it on.
Approve(c) ==
    /\ change[c].phase = "asking"
    /\ change' = [change EXCEPT ![c].phase = "allowed"]
    /\ granted' \in {granted, granted \cup {ActionOf(change[c].file)}}
    /\ text' = text
Reject(c) == change[c].phase = "asking" /\ Ends(c, "refused") /\ UNCHANGED <<text, granted>>

\* An edit writes the whole of what it computed; what is appended goes behind what is
\* there by now.
WriteOut(c) ==
    /\ change[c].phase = "allowed" /\ Ends(c, "done")
    /\ LET f == change[c].file IN
         text' = [text EXCEPT ![f] = IF change[c].append /\ @ # Absent
                                     THEN @ \o change[c].to ELSE change[c].to]
    /\ granted' = granted

WriteFails(c) == change[c].phase = "allowed" /\ Fails(c)

\* Somebody else, or a command, changes or removes the file.
OtherChange(f) ==
    /\ text[f] # Absent
    /\ text' = [text EXCEPT ![f] = Absent]
    /\ UNCHANGED <<change, granted>>

ToolsNext ==
    \/ \E c \in EditCalls, f \in Targets, edits \in EditLists :
          \E shape \in {"list", "quotes"} : StrReplaceFile(c, f, edits, shape)
    \/ \E c \in WriteCalls, f \in Targets, append \in BOOLEAN :
          \E shape \in {"flat", "list"} : WriteFile(c, f, <<"b">>, append, shape)
    \/ \E c \in ToolCalls : Approve(c) \/ Reject(c) \/ WriteOut(c) \/ WriteFails(c)
    \/ \E f \in Targets : OtherChange(f)

ToolsSpec == ToolsInit /\ [][ToolsNext]_changeVars

---------------------------------------------------------------------------------
(* What one edit may make of a text: with a single edit one place that matches is
   replaced, with the others all of them that can be, and nothing else changes. *)

\* Where line i comes to lie when n lines at each of some places give way to m others.
MovedTo(i, places, n, m) == i + Cardinality({j \in places : j + n <= i}) * (m - n)
Apart(places, n) == \A i, j \in places : i < j => i + n <= j

Replaces(before, places, old, new, after) ==
    LET To(i) == MovedTo(i, places, Len(old), Len(new)) IN
    /\ Len(after) + 1 = To(Len(before) + 1)
    /\ \A i \in places, k \in DOMAIN new : after[To(i) + k - 1] = new[k]
    /\ \A i \in DOMAIN before : (\A j \in places : i < j \/ j + Len(old) <= i)
                                   => after[To(i)] = before[i]

\* A single exact edit looks loosely where it finds nothing otherwise.
Loosely(before, e) ==
    e.how \in {"regex", "regexAll"} \/ (e.how = "first" /\ Places(before, e.old, FALSE) = {})
Makes(before, e, after) ==
    LET found == Places(before, e.old, Loosely(before, e)) IN
    \E places \in (SUBSET found) \ {{}} :
        /\ Apart(places, Len(e.old))
        /\ IF e.how \in {"first", "regex"} THEN Cardinality(places) = 1
           ELSE \A i \in found \ places : ~Apart(places \cup {i}, Len(e.old))
        /\ Replaces(before, places, e.old, e.new, after)

(* replace.rs:615-660, 292-296: what a call would write is its file's text with every one
   of its edits made, one after the other, each where it matches and nowhere else. *)
EditsTouchOnlyTheMatch ==
    \A c \in EditCalls : Begun(c) =>
        LET made == EditsMade(LossyText(change[c].from), change[c].edits) IN
        /\ made[0].text = LossyText(change[c].from)
        /\ \A k \in DOMAIN change[c].edits :
              Makes(made[k - 1].text, change[c].edits[k], made[k].text)
        /\ change[c].to = made[Len(change[c].edits)].text

(* write.rs:113-142, replace.rs:229-257: a file is changed only into what a call computed,
   or into what there was by then with that behind it, and only after the user was asked for
   it, or has approved of the like for the session: an approval of edits is none of edits
   outside of the working directory. *)
ChangedOnlyAsAllowed ==
    [][\A f \in Targets : text'[f] \notin {text[f], Absent} =>
        \E c \in ToolCalls :
            /\ change[c].phase = "allowed" /\ change[c].file = f
            /\ \/ text'[f] = change[c].to
               \/ c \in WriteCalls /\ text[f] # Absent /\ text'[f] = text[f] \o change[c].to
            /\ \/ change[c].asked
               \/ (IF f \in Outside THEN "editOutside" ELSE "edit") \in granted]_changeVars

\* Every file is shown by the tool that can.
KindsAreTold ==
    \A suffix \in FileSuffixes, header \in Headers : LET kind == FileKind(suffix, header) IN
       /\ ShownByReadFile(kind) => header = "plain" /\ ~ShownByReadMedia(kind, "fits", Headers)
       /\ header \in {"image", "video"} /\ Hint(suffix) = "none" =>
            ShownByReadMedia(kind, "fits", {header})

(* read.rs:235-360, grep.rs:280-345: however a file is asked for, and wherever reading it
   breaks off, what is shown are its lines from the one that the answer says it starts at,
   some line whenever one was read there; nothing that was read is held back when the end is
   said to be reached, and the last lines go to the last that was read.  A search shows every
   match and the lines around it, each once and in order, up to its limit.  What begins like
   no text is shown as none (mod.rs:137-215). *)
ReadersMissNothing ==
  /\ KindsAreTold
  /\ \A f \in Targets : text[f] \notin {Absent, <<>>} =>
        /\ \A read \in 0..Len(text[f]), n \in 1..(MaxLines + 1),
              offset \in (-MaxLines..(FileLines + 1)) \ {0} :
             LET page == ReadFile(text[f], read, offset, n) IN
             page.panicked \/
             /\ page.lines = SubSeq(LossyText(text[f]), page.start,
                                     page.start + Len(page.lines) - 1)
             /\ page.lines = <<>> => page.start > read
             /\ page.eof => page.start + Len(page.lines) > read
             /\ Len(page.lines) <= Least(n, MaxLines)
             /\ offset < 0 /\ n >= -offset => page.start + Len(page.lines) = read + 1
        /\ \A before, after \in 0..1, limit \in 0..(FileLines + 1) :
             LET lines == LossyText(text[f])
                 found == Grep(lines, "a", before, after, limit)
                 wanted == {i \in DOMAIN lines : \E m \in DOMAIN lines :
                               Unpadded(lines[m]) = "a" /\ m - before <= i /\ i <= m + after}
             IN  /\ \A i, j \in DOMAIN found.shown : i < j => found.shown[i] < found.shown[j]
                 /\ ToSet(found.shown) \subseteq wanted
                 /\ \A i \in wanted \ ToSet(found.shown) :
                       found.truncated /\ \A j \in ToSet(found.shown) : j < i

(* Does not hold, replace.md:4 "otherwise `old` must appear exactly once.": the first of
   several is replaced. *)
OnlyWhereItIsOnce ==
    \A c \in EditCalls : Begun(c) /\ Len(change[c].edits) = 1 /\ change[c].edits[1].how = "first"
        => Cardinality(Places(LossyText(change[c].from), change[c].edits[1].old, FALSE)) <= 1

(* Does not hold, replace.rs:292-296 "Everything outside the matched block (...) is
   preserved verbatim": bytes that are no UTF-8 are replaced, wherever they are. *)
OutsideIsVerbatim ==
    \A c \in EditCalls :
        Begun(c) /\ "bytes" \in ToSet(change[c].from) => "bytes" \in ToSet(change[c].to)

(* Does not hold, read.rs:217 " Total lines in file: {total_lines}." and :224 " End of file
   reached.": what breaks the reading off is dropped (read.rs:251, 300), the lines before it
   are the total and their end is that of the file. *)
EndIsTheEnd ==
    \A f \in Targets : text[f] # Absent => \A read \in 0..Len(text[f]) :
        LET page == ReadFile(text[f], read, 1, MaxLines)
        IN  page.total = Len(text[f]) /\ (page.eof => Len(page.lines) = Len(text[f]))

(* Does not hold, read.md:3 "truncates any line longer than ${MAX_LINE_LENGTH} characters":
   bytes are cut, and a cut inside a character ends the call, for a tail wherever the line
   is in the file. *)
LongLinesAreCut ==
    \A f \in Targets : text[f] # Absent => ~ReadFile(text[f], Len(text[f]), -1, 1).panicked

(* Does not hold: two calls of a step that change one file both succeed, and the later
   writes what it computed before the other's change. *)
NoChangeIsLost ==
    [][\A c \in EditCalls : change[c].phase = "allowed" /\ change'[c].phase = "done" =>
        LossyText(text[change[c].file]) = LossyText(change[c].from)]_changeVars
=================================================================================
