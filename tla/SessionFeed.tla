------------------------------- MODULE SessionFeed -------------------------------
(***************************************************************************)
(* What the fan-out promises the clients of one session: the session's     *)
(* facts are numbered in the order they are published, and a client sees   *)
(* the facts published from the moment it joined, every one, once, in      *)
(* order.  It may see fewer than were published (it lags, or it left), and *)
(* never one out of turn.                                                  *)
(***************************************************************************)
EXTENDS Naturals

CONSTANTS Clients

VARIABLES
    published,   \* how many facts the session has published
    joined,      \* the clients that ever joined
    seen         \* the last fact each client has seen

feedVars == <<published, joined, seen>>

Init ==
    /\ published = 0
    /\ joined = {}
    /\ seen = [c \in Clients |-> 0]

Publish ==
    /\ published' = published + 1
    /\ UNCHANGED <<joined, seen>>

\* A client starts at the present: what was published before is not for it.
Join(c) ==
    /\ c \notin joined
    /\ joined' = joined \cup {c}
    /\ seen' = [seen EXCEPT ![c] = published]
    /\ UNCHANGED published

See(c) ==
    /\ c \in joined
    /\ seen[c] < published
    /\ seen' = [seen EXCEPT ![c] = @ + 1]
    /\ UNCHANGED <<published, joined>>

Next == Publish \/ \E c \in Clients : Join(c) \/ See(c)

Spec == Init /\ [][Next]_feedVars
=================================================================================
