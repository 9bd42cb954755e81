-------------------------------- MODULE MCClients --------------------------------
(***************************************************************************)
(* The parts of the clients, and the sessions on disk, for TLC: one of them *)
(* in each behaviour.  They share no state with one another.               *)
(***************************************************************************)
EXTENDS ClientSession, RemoteLink, Transcript, HubWindow, AndroidSession, SessionStore, TLC

CONSTANTS d1, d2, i1

VARIABLE part

vars == <<part, clientVars, linkVars, foldVars, hubVars, androidVars, storeVars>>

Init ==
    /\ part \in {"tab", "link", "fold", "window", "phone", "store"}
    /\ TabInit /\ LinkInit /\ FoldInit /\ HubInit /\ AndroidInit /\ StoreInit
    \* A part that stays out of it starts in one way, and a window with a tab here and
    \* agents to join.
    /\ part = "tab" \/ (wayBack = "none" /\ ~named)
    /\ part = "link" \/ ~answers
    /\ source = "here" /\ live = (IF part = "window" THEN Saved ELSE {})
    /\ meta[d2] = NoEntry /\ \A s \in Sessions : s # <<d1, i1>> => stored[s] = Nothing
    \* One directory has a session of an earlier version, or no session has.
    /\ meta[d1] = (IF stored[<<d1, i1>>].legacy THEN i1 ELSE NoEntry)
    /\ part = "store" \/ meta[d1] = NoEntry

\* Bound: of what can lie over the panes, two at a time.
OverlaysKept ==
    LET over == <<error, confirm # 0, paletteOpen, resumeOpen, picking>>
    IN  Cardinality({i \in DOMAIN over : over[i]}) <= 2

\* Bound: with two connections, the agents say one thing of each sort that is shown.
SortsKept ==
    AndroidLast > 1 =>
        \A c \in Dialled : \A line \in ToSet(spoken[c].said) :
            line.kind \in {"text", "call", "result", "ask", "response", "refusal", "eof"}

\* Which directory is the first where all are alike does not matter, and of processes that
\* are dead nothing more is to be seen.
FirstHere == (\A a \in Agents : agent[a] = Unbegun) /\ meta[d1] = NoEntry =>
    \A a \in Agents : agent'[a] # Unbegun => agent'[a].dir = d1
OneLives == \E a \in Agents : agent[a].at # "dead"

TabMove ==
    TabNext /\ UNCHANGED <<part, linkVars, foldVars, hubVars, androidVars, storeVars>>
LinkMove ==
    LinkNext /\ UNCHANGED <<part, clientVars, foldVars, hubVars, androidVars, storeVars>>
FoldMove ==
    FoldNext /\ UNCHANGED <<part, clientVars, linkVars, hubVars, androidVars, storeVars>>
WindowMove ==
    HubNext /\ OverlaysKept' /\ UNCHANGED <<part, clientVars, linkVars, foldVars, androidVars, storeVars>>
PhoneMove ==
    AndroidNext /\ SortsKept' /\ UNCHANGED <<part, clientVars, linkVars, foldVars, hubVars, storeVars>>
StoreMove ==
    StoreNext /\ FirstHere /\ OneLives' /\ UNCHANGED <<part, clientVars, linkVars, foldVars, hubVars, androidVars>>

Next ==
    \/ part = "tab" /\ TabMove
    \/ part = "link" /\ LinkMove
    \/ part = "fold" /\ FoldMove
    \/ part = "window" /\ WindowMove
    \/ part = "phone" /\ PhoneMove
    \/ part = "store" /\ StoreMove

Spec == Init /\ [][Next]_vars

Symmetry == Permutations(Agents)

\* Every part's variables keep to their types: session.rs:17-45, remote_link.rs:76-91,
\* transcript.rs, and in app.rs:70-140 every pane's index is that of a tab that is open.
TypeOK == TabTypeOK /\ LinkTypeOK /\ FoldTypeOK /\ HubTypeOK /\ StoreTypeOK
          /\ AndroidTypeOK
=================================================================================
