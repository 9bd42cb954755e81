------------------------------- MODULE RemoteLink -------------------------------
(***************************************************************************)
(* The light of one configured remote: client/inkvizitor/src/remote_link.rs *)
(* over the probe of client/wire-client/src/bridge.rs and the tunnel of     *)
(* client/wire-client/src/tunnel.rs.                                       *)
(*                                                                         *)
(* Time is what is due: a probe is set for "later", and later becomes now. *)
(***************************************************************************)
EXTENDS Naturals

VARIABLES
    wanted,         \* the user has asked to be connected
    lit,            \* version is set: the light is green
    probe,          \* none, out, or what it has come back with
    nextProbe,      \* next_probe: none, later or now
    tunnel,         \* none, up, or exited and not yet looked at
    answers,        \* the daemon is there
    left            \* history: the user has disconnected since connecting

linkVars == <<wanted, lit, probe, nextProbe, tunnel, answers, left>>

LinkTypeOK ==
    /\ {wanted, lit, answers, left} \subseteq BOOLEAN
    /\ probe \in {"none", "out", "good", "bad", "lost"}
    /\ nextProbe \in {"none", "later", "now"}
    /\ tunnel \in {"none", "up", "exited"}

LinkInit ==
    /\ wanted = FALSE /\ lit = FALSE /\ probe = "none" /\ nextProbe = "none"
    /\ tunnel = "none" /\ answers \in BOOLEAN /\ left = FALSE

Light == IF lit THEN "connected" ELSE IF wanted THEN "trying" ELSE "blank"

\* There may be no tunnel to bring up, or none that starts: it is probed all the same.
Connect ==
    /\ wanted' = TRUE /\ nextProbe' = "now" /\ left' = FALSE
    /\ tunnel' \in IF tunnel = "none" THEN {"none", "up"} ELSE {tunnel}
    /\ UNCHANGED <<lit, probe, answers>>

\* Mutant: the probe that is out is left to land.
DisconnectProbing ==
    /\ wanted' = FALSE /\ lit' = FALSE /\ nextProbe' = "none" /\ left' = TRUE
    /\ tunnel' = "none"
    /\ UNCHANGED <<probe, answers>>

Disconnect ==
    /\ wanted' = FALSE /\ lit' = FALSE /\ nextProbe' = "none" /\ left' = TRUE
    /\ probe' = "none" /\ tunnel' = "none"
    /\ UNCHANGED answers

\* A click on the chain: green opens a session, which is the window's business.
ClickChain == Light # "connected" /\ Connect

Landed == probe \in {"good", "bad", "lost"}

(* A frame: a probe that has landed is collected, a tunnel that has exited takes the
   connection with it, and the next probe goes out when it is due. *)
Poll ==
    LET exited == tunnel = "exited"
        still == wanted /\ ~exited
        free == Landed \/ probe = "none"
        due == CASE exited -> "none" [] ~exited /\ Landed -> "later" [] OTHER -> nextProbe
        starts == still /\ free /\ due = "now"
    IN  /\ wanted' = still
        /\ lit' = (~exited /\ (probe = "good" \/ (lit /\ probe # "bad")))
        /\ tunnel' = IF exited THEN "none" ELSE tunnel
        /\ nextProbe' = IF starts THEN "none" ELSE due
        /\ probe' = CASE starts -> "out" [] ~starts /\ Landed -> "none" [] OTHER -> probe
        /\ UNCHANGED <<answers, left>>

ProbeLands ==
    /\ probe = "out"
    /\ probe' \in {IF answers THEN "good" ELSE "bad", "lost"}
    /\ UNCHANGED <<wanted, lit, nextProbe, tunnel, answers, left>>

ProbeFallsDue ==
    /\ nextProbe = "later" /\ nextProbe' = "now"
    /\ UNCHANGED <<wanted, lit, probe, tunnel, answers, left>>

TunnelExits ==
    /\ tunnel = "up" /\ tunnel' = "exited"
    /\ UNCHANGED <<wanted, lit, probe, nextProbe, answers, left>>

DaemonComesOrGoes ==
    /\ answers' = ~answers
    /\ UNCHANGED <<wanted, lit, probe, nextProbe, tunnel, left>>

LinkNext ==
    \/ ClickChain \/ Disconnect \/ Poll \/ ProbeLands \/ ProbeFallsDue
    \/ TunnelExits \/ DaemonComesOrGoes

LinkSpec == LinkInit /\ [][LinkNext]_linkVars

(* remote_link.rs:85-87, 138-150: a remote the user has left stays dark, whatever
   probe was out; one that is wanted is always going to be probed again. *)
LinkFollowsTheUser ==
    /\ left => Light = "blank"
    /\ wanted => probe # "none" \/ nextProbe # "none"
=================================================================================
