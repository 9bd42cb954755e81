------------------------------- MODULE HubWindow -------------------------------
(***************************************************************************)
(* The desktop client's window: client/inkvizitor/src/app.rs.  Tabs are    *)
(* the window's, each pane chooses one of them, and the overlays stack over *)
(* the panes.  Keys go to the topmost overlay only; the mouse reaches what *)
(* it sees.                                                                *)
(*                                                                         *)
(* Two machines, this one and a remote, each with the sessions on its      *)
(* disk.  The light of the remote (RemoteLink) and whether an agent can be *)
(* reached are chosen freely, wherever they are looked at.  Indices count  *)
(* from 0 as in the code.                                                  *)
(***************************************************************************)
EXTENDS Naturals, Sequences, SequencesExt, FiniteSets

CONSTANTS
    Saved,          \* the sessions on each machine's disk
    MaxTabs,        \* bound: tabs at a time
    MaxTabIds,      \* bound: tabs ever opened
    MaxPanes        \* bound: panes at a time

ASSUME WindowAssumption ==
    /\ {MaxTabs, MaxTabIds, MaxPanes} \subseteq Nat \ {0}
    /\ Saved \subseteq Nat \ {0} /\ IsFiniteSet(Saved)

VARIABLES
    tabs,           \* sessions: id, the machine, the session (0: made up), and how it is held
    panes,          \* the tab each pane has open
    focused,
    nextTab,        \* next_session_id
    error,          \* there is something to be told
    confirm,        \* close_confirm: the tab asked about, or 0
    paletteOpen,
    resumeOpen, cursor,
    rows,           \* resume_sessions
    source,         \* resume_source
    listing,        \* resume_listing: the machine asked, or "none"
    picking,        \* folder_pick
    live            \* sessions of this machine that have a listening agent

overlayVars == <<error, confirm, paletteOpen, resumeOpen>>
resumeVars == <<cursor, rows, source, listing>>
hubVars == <<tabs, panes, focused, nextTab, overlayVars, resumeVars, picking, live>>

Machines == {"here", "remote"}
Row(at, s) == [at |-> at, session |-> s]
Tab(at, s, held) == [id |-> nextTab, at |-> at, session |-> s, held |-> held]

Active == panes[focused + 1]
Has(i) == i < Len(tabs)
ActiveTarget == IF Has(Active) THEN tabs[Active + 1].at ELSE "here"

HubTypeOK ==
    /\ Len(tabs) <= MaxTabs /\ Len(panes) \in 1..MaxPanes /\ focused < Len(panes)
    /\ \A p \in DOMAIN panes : IF tabs = <<>> THEN panes[p] = 0 ELSE Has(panes[p])
    /\ nextTab \in 1..MaxTabIds + 1 /\ confirm \in 0..nextTab - 1
    /\ source \in Machines /\ listing \in Machines \cup {"none"}

\* The first tab is open and its machine has been asked for its past sessions.
HubInit ==
    /\ \E at \in Machines :
         /\ tabs = <<[id |-> 1, at |-> at, session |-> 0,
                      held |-> IF at = "here" THEN "child" ELSE "attached"]>>
         /\ source = at /\ listing = at
    /\ panes = <<0>> /\ focused = 0 /\ nextTab = 2
    /\ error = FALSE /\ confirm = 0 /\ paletteOpen = FALSE /\ resumeOpen = FALSE
    /\ cursor = 0 /\ rows = <<>> /\ picking = FALSE
    /\ live \in SUBSET Saved

FocusOwner ==
    CASE error -> "error"
      [] ~error /\ confirm # 0 -> "confirm"
      [] ~error /\ confirm = 0 /\ resumeOpen -> "resume"
      [] ~error /\ confirm = 0 /\ ~resumeOpen /\ paletteOpen -> "palette"
      [] OTHER -> "session"

---------------------------------------------------------------------------------
(* Opening a tab.  "s" is the session to rejoin, or 0 for a new one. *)

\* A live session here is joined; what nobody hosts gets an agent of this window's own.
Held(at, s) == IF at = "remote" THEN "attached" ELSE IF s \in live THEN "joined" ELSE "child"

Opens(at, s) ==
    /\ nextTab <= MaxTabIds /\ Len(tabs) < MaxTabs
    /\ nextTab' = nextTab + 1
    /\ \/ error' = TRUE /\ UNCHANGED <<tabs, panes>>
       \/ /\ error' = error
          /\ tabs' = Append(tabs, Tab(at, s, Held(at, s)))
          /\ panes' = [panes EXCEPT ![focused' + 1] = Len(tabs)]

\* With a remote tab in front there is no folder to pick.
StartFolderPick ==
    IF ActiveTarget = "remote"
    THEN Opens("remote", 0) /\ UNCHANGED picking
    ELSE picking' = TRUE /\ UNCHANGED <<tabs, panes, nextTab, error>>

FolderPicked ==
    /\ picking /\ picking' = FALSE /\ UNCHANGED focused
    /\ Opens("here", 0) \/ UNCHANGED <<tabs, panes, nextTab, error>>
    /\ UNCHANGED <<confirm, paletteOpen, resumeOpen, resumeVars, live>>

\* Only a light that is green means anything.
OpenRemoteSession ==
    \/ Opens("remote", 0)
    \/ error' = TRUE /\ UNCHANGED <<tabs, panes, nextTab>>

ConnectRemote == Opens("remote", 0) \/ UNCHANGED <<tabs, panes, nextTab, error>>

---------------------------------------------------------------------------------
(* Closing one. *)

Without(i) == RemoveAt(tabs, i + 1)

\* Mutant: the tabs after the closed one are not counted down.
ShiftNothing(active, removed) ==
    IF active < Len(tabs) - 1 THEN active ELSE IF Len(tabs) = 1 THEN 0 ELSE Len(tabs) - 2

ShiftActive(active, removed) ==
    LET shifted == IF active > removed THEN active - 1 ELSE active
        last == IF Len(tabs) = 1 THEN 0 ELSE Len(tabs) - 2
    IN  IF shifted < last THEN shifted ELSE last

CloseSession(i) ==
    /\ tabs' = Without(i)
    /\ panes' = [p \in DOMAIN panes |-> ShiftActive(panes[p], i)]

IndexOf(id) == {i \in 0..Len(tabs) - 1 : tabs[i + 1].id = id}

RequestClose(i) == confirm' = IF Has(i) THEN tabs[i + 1].id ELSE confirm

ConfirmClose ==
    /\ confirm # 0 /\ confirm' = 0
    /\ IF IndexOf(confirm) = {} THEN UNCHANGED <<tabs, panes>>
       ELSE \E i \in IndexOf(confirm) : CloseSession(i)
    /\ UNCHANGED <<focused, nextTab, error, paletteOpen, resumeOpen, resumeVars, picking, live>>

\* An agent that is not this window's own goes only when it is asked to.
StopAgentOf(i) ==
    /\ confirm' = 0
    /\ CloseSession(i)
    /\ live' = IF tabs[i + 1].held = "joined" THEN live \ {tabs[i + 1].session} ELSE live

StopButton ==
    /\ confirm # 0
    /\ \E i \in IndexOf(confirm) : tabs[i + 1].held # "child" /\ StopAgentOf(i)
    /\ UNCHANGED <<focused, nextTab, error, paletteOpen, resumeOpen, resumeVars, picking>>

\* Cancelled, or the tab has gone underneath the question.
DropQuestion ==
    /\ confirm # 0 /\ confirm' = 0
    /\ UNCHANGED <<tabs, panes, focused, nextTab, error, paletteOpen, resumeOpen, resumeVars,
                   picking, live>>

---------------------------------------------------------------------------------
(* The list of past sessions. *)

ShowRows(at) ==
    /\ resumeOpen' = TRUE /\ cursor' = 0
    /\ IF at = source THEN rows' = rows /\ source' = source ELSE rows' = <<>> /\ source' = at
    /\ listing' = IF at # source \/ listing = "none" THEN at ELSE listing

OpenResumeMenu == ShowRows(ActiveTarget) /\ UNCHANGED <<error>>

OpenRemoteResumeMenu ==
    \/ ShowRows("remote") /\ error' = error
    \/ error' = TRUE /\ UNCHANGED <<resumeOpen, resumeVars>>

ListingLands ==
    /\ listing # "none" /\ listing' = "none"
    /\ \/ rows' = rows
       \/ \E S \in SUBSET Saved : rows' = SetToSeq({Row(listing, s) : s \in S})
    /\ UNCHANGED <<tabs, panes, focused, nextTab, overlayVars, cursor, source, picking, live>>

ResumeStep ==
    /\ FocusOwner = "resume" /\ rows # <<>>
    /\ \/ cursor' = IF cursor + 1 < Len(rows) THEN cursor + 1 ELSE Len(rows) - 1
       \/ cursor' = IF cursor = 0 THEN 0 ELSE cursor - 1
    /\ UNCHANGED <<tabs, panes, focused, nextTab, overlayVars, rows, source, listing, picking,
                   live>>

\* A row is opened on the machine the list is of.
ResumeSession(i) == Opens(source, rows[i].session)

\* The row the highlight is on, or while the list is shown any row that is clicked.
ResumeRow ==
    /\ resumeOpen /\ rows # <<>> /\ resumeOpen' = FALSE
    /\ UNCHANGED focused
    /\ \/ /\ FocusOwner = "resume"
          /\ LET i == IF cursor < Len(rows) THEN cursor ELSE Len(rows) - 1
             IN  ResumeSession(i + 1)
       \/ listing = "none" /\ \E i \in DOMAIN rows : ResumeSession(i)
    /\ UNCHANGED <<confirm, paletteOpen, resumeVars, picking, live>>

ResumeCancel ==
    /\ FocusOwner = "resume" /\ resumeOpen' = FALSE
    /\ UNCHANGED <<tabs, panes, focused, nextTab, error, confirm, paletteOpen, resumeVars, picking,
                   live>>

---------------------------------------------------------------------------------
(* Panes. *)

SplitPane ==
    /\ Len(panes) < MaxPanes
    /\ panes' = InsertAt(panes, focused + 2, Active) /\ focused' = focused + 1
    /\ UNCHANGED <<tabs, error>>

CloseSplit ==
    /\ IF Len(panes) = 1 THEN error' = TRUE /\ UNCHANGED <<panes, focused>>
       ELSE /\ panes' = RemoveAt(panes, focused + 1) /\ error' = error
            /\ focused' = IF focused < Len(panes) - 1 THEN focused ELSE Len(panes) - 2
    /\ UNCHANGED tabs

---------------------------------------------------------------------------------
(* Keys, commands and clicks. *)

Shortcut ==
    /\ FocusOwner = "session"
    /\ UNCHANGED <<tabs, nextTab, confirm, live>>
    /\ \/ /\ tabs # <<>> /\ UNCHANGED <<focused, paletteOpen, resumeOpen, resumeVars, error, picking>>
          /\ \E step \in {1, Len(tabs) - 1} :
               panes' = [panes EXCEPT ![focused + 1] = (@ + step) % Len(tabs)]
       \/ /\ UNCHANGED <<panes, paletteOpen, resumeOpen, resumeVars, error, picking>>
          /\ \E step \in {1, Len(panes) - 1} : focused' = (focused + step) % Len(panes)
       \/ paletteOpen' = TRUE /\ UNCHANGED <<panes, focused, resumeOpen, resumeVars, error, picking>>
       \/ OpenResumeMenu /\ UNCHANGED <<panes, focused, paletteOpen, picking>>

ShortcutOpens ==
    /\ FocusOwner = "session" /\ UNCHANGED focused /\ StartFolderPick
    /\ UNCHANGED <<confirm, paletteOpen, resumeOpen, resumeVars, live>>

ShortcutCloses ==
    /\ FocusOwner = "session" /\ RequestClose(Active)
    /\ UNCHANGED <<tabs, panes, focused, nextTab, error, paletteOpen, resumeOpen, resumeVars, picking,
                   live>>

PaletteCancel ==
    /\ FocusOwner = "palette" /\ paletteOpen' = FALSE
    /\ UNCHANGED <<tabs, panes, focused, nextTab, error, confirm, resumeOpen, resumeVars, picking,
                   live>>

\* A command goes once the palette is away.
RunOpening ==
    /\ paletteOpen /\ paletteOpen' = FALSE /\ UNCHANGED focused
    /\ \/ StartFolderPick
       \/ (OpenRemoteSession \/ ConnectRemote) /\ UNCHANGED picking
    /\ UNCHANGED <<confirm, resumeOpen, resumeVars, live>>

RunListing ==
    /\ paletteOpen /\ paletteOpen' = FALSE
    /\ OpenResumeMenu \/ OpenRemoteResumeMenu
    /\ UNCHANGED <<tabs, panes, focused, nextTab, confirm, picking, live>>

RunClosing ==
    /\ paletteOpen /\ paletteOpen' = FALSE
    /\ \/ RequestClose(Active) /\ UNCHANGED <<tabs, panes, live>>
       \/ Has(Active) /\ StopAgentOf(Active)
    /\ UNCHANGED <<focused, nextTab, error, resumeOpen, resumeVars, picking>>

RunSplitting ==
    /\ paletteOpen /\ paletteOpen' = FALSE
    /\ SplitPane \/ CloseSplit
    /\ UNCHANGED <<nextTab, confirm, resumeOpen, resumeVars, picking, live>>

\* A click on a pane's strip is a click in that pane.
ClickTab ==
    /\ \E p \in DOMAIN panes, i \in 0..Len(tabs) - 1 :
         focused' = p - 1 /\ panes' = [panes EXCEPT ![p] = i]
    /\ UNCHANGED <<tabs, nextTab, overlayVars, resumeVars, picking, live>>

\* Anywhere else in a pane.
ClickPane ==
    /\ focused' \in 0..Len(panes) - 1
    /\ UNCHANGED <<tabs, panes, nextTab, overlayVars, resumeVars, picking, live>>

ClickClose ==
    /\ focused' \in 0..Len(panes) - 1
    /\ \E i \in 0..Len(tabs) - 1 : RequestClose(i)
    /\ UNCHANGED <<tabs, panes, nextTab, error, paletteOpen, resumeOpen, resumeVars, picking, live>>

ClickPlus ==
    /\ \E p \in DOMAIN panes :
         /\ focused' = p - 1
         /\ LET target == IF Has(panes[p]) THEN tabs[panes[p] + 1].at ELSE "here"
            IN  IF target = "remote" THEN Opens("remote", 0) /\ UNCHANGED picking
                ELSE picking' = TRUE /\ UNCHANGED <<tabs, panes, nextTab, error>>
    /\ UNCHANGED <<confirm, paletteOpen, resumeOpen, resumeVars, live>>

ClickBook ==
    /\ \E p \in DOMAIN panes :
         /\ focused' = p - 1
         /\ IF resumeOpen THEN resumeOpen' = FALSE /\ UNCHANGED resumeVars
            ELSE ShowRows(IF Has(panes[p]) THEN tabs[panes[p] + 1].at ELSE "here")
    /\ UNCHANGED <<tabs, panes, nextTab, error, confirm, paletteOpen, picking, live>>

ClickLink ==
    /\ focused' \in 0..Len(panes) - 1 /\ ConnectRemote
    /\ UNCHANGED <<confirm, paletteOpen, resumeOpen, resumeVars, picking, live>>

ErrorRead ==
    /\ error /\ error' = FALSE
    /\ UNCHANGED <<tabs, panes, focused, nextTab, confirm, paletteOpen, resumeOpen, resumeVars, picking,
                   live>>

HubNext ==
    \/ FolderPicked \/ ConfirmClose \/ StopButton \/ DropQuestion \/ ListingLands \/ ResumeStep
    \/ ResumeRow \/ ResumeCancel \/ Shortcut \/ ShortcutOpens \/ ShortcutCloses \/ PaletteCancel
    \/ RunOpening \/ RunListing \/ RunClosing \/ RunSplitting \/ ClickTab \/ ClickPane \/ ClickClose
    \/ ClickPlus \/ ClickBook \/ ClickLink \/ ErrorRead

HubSpec == HubInit /\ [][HubNext]_hubVars

---------------------------------------------------------------------------------
(* app.rs:500-505: "Every pane indexes the same list, so they all shift": a pane nobody
   acts in keeps the tab it shows for as long as that is open, whichever tabs close. *)
Shown(p) == tabs[panes[p] + 1].id

PanesKeepTheirTab ==
    [][Len(panes') = Len(panes) =>
         \A p \in DOMAIN panes \ {focused' + 1} :
            Has(panes[p]) /\ (\E i \in DOMAIN tabs' : tabs'[i].id = Shown(p)) =>
                Shown(p)' = Shown(p)]_hubVars

(* Does not hold, app.rs:369-370: "A live local session is joined, never re-spawned: two
   agents on one session's files would be two writers of one transcript." *)
OneWriterHere ==
    \A s \in Saved :
        LET children == {i \in DOMAIN tabs : tabs[i].session = s /\ tabs[i].held = "child"}
        IN  Cardinality(children) + (IF s \in live THEN 1 ELSE 0) <= 1
=================================================================================
