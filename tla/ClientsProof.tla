------------------------------ MODULE ClientsProof ------------------------------
(***************************************************************************)
(* What RemoteLink and ClientSession keep, for every number of turns, of   *)
(* connections and of automatic attempts; what SessionStore keeps, for any *)
(* agents, directories and sessions; what HubWindow keeps, for any number  *)
(* of tabs and panes; and what Transcript shows, for any fragments.        *)
(***************************************************************************)
EXTENDS RemoteLink, ClientSession, SessionStore, HubWindow, Transcript,
    SequenceTheorems, FiniteSetTheorems, TLAPS

---------------------------------------------------------------------------------
(* The light of a remote. *)

\* Disconnecting leaves nothing behind that could light it again, and who wants to be
\* connected has a probe out, landed or set.
LinkInv ==
    /\ LinkTypeOK
    /\ left => ~wanted /\ ~lit /\ probe = "none"
    /\ wanted => probe # "none" \/ nextProbe # "none"

LEMMA LinkInvariant == LinkSpec => []LinkInv
<1>1. LinkInit => LinkInv
  BY DEF LinkInit, LinkInv, LinkTypeOK
<1>2. LinkInv /\ [LinkNext]_linkVars => LinkInv'
  <2> SUFFICES ASSUME LinkInv, [LinkNext]_linkVars PROVE LinkInv'
    OBVIOUS
  <2> USE DEF LinkInv, LinkTypeOK
  <2>1. CASE ClickChain
    BY <2>1 DEF ClickChain, Connect
  <2>2. CASE Disconnect
    BY <2>2 DEF Disconnect
  <2>3. CASE Poll
    BY <2>3 DEF Poll, Landed
  <2>4. CASE ProbeLands
    BY <2>4 DEF ProbeLands
  <2>5. CASE ProbeFallsDue
    BY <2>5 DEF ProbeFallsDue
  <2>6. CASE TunnelExits
    BY <2>6 DEF TunnelExits
  <2>7. CASE DaemonComesOrGoes
    BY <2>7 DEF DaemonComesOrGoes
  <2>8. CASE UNCHANGED linkVars
    BY <2>8 DEF linkVars
  <2>9. QED
    BY <2>1, <2>2, <2>3, <2>4, <2>5, <2>6, <2>7, <2>8 DEF LinkNext
<1>3. QED
  BY <1>1, <1>2, PTL DEF LinkSpec

(* remote_link.rs:76-91: what each field of a remote may hold. *)
THEOREM LinkTypeCorrect == LinkSpec => []LinkTypeOK
<1>1. LinkInv => LinkTypeOK
  BY DEF LinkInv
<1>2. QED
  BY <1>1, LinkInvariant, PTL

(* remote_link.rs:85-87, 138-150: whatever probe or tunnel is still under way when the user
   disconnects, the light stays dark; and who has asked to be connected is probed again. *)
THEOREM LightFollowsTheUser == LinkSpec => []LinkFollowsTheUser
<1>1. LinkInv => LinkFollowsTheUser
  BY DEF LinkInv, LinkFollowsTheUser, Light
<1>2. QED
  BY <1>1, LinkInvariant, PTL

---------------------------------------------------------------------------------
(* A tab and its connection. *)

Messages ==
    [kind : {"initialized", "replayed", "end", "answer", "request", "resolved", "exited"},
     of : Nat]
Plain == {"end", "answer", "request", "resolved"}
Places(q, kind) == {i \in DOMAIN q : q[i].kind = kind}
Known(q, n) == \A i \in DOMAIN q : q[i].kind = "request" => q[i].of \in 1..n

Walks(n) == [on : BOOLEAN, running : BOOLEAN, open : SUBSET (1..n), staged : Seq(Messages)]

TabTypes ==
    /\ phase \in Connected \cup {"detached", "failed", "closed"}
    /\ wayBack \in {"remote", "local", "none"}
    /\ {named, due, prompt, linked, alive, asks} \subseteq BOOLEAN
    /\ at \in Nat /\ fresh \in Nat /\ at < fresh /\ session \in 0..fresh - 1
    /\ attempts \in 0..Attempts
    /\ dialing \in [st : {"none", "out", "failed", "got"}, at : 0..fresh - 1]
    /\ turn \in {"none", "ours", "theirs"} /\ turns \in 0..MaxTurns /\ dials \in 0..MaxDials
    /\ asked \in 0..turns
    /\ armed \cup rearm \cup held \subseteq 1..turns
    /\ inbound \in Seq(Messages)
    /\ walk \in Walks(turns)

\* An attempt that is set is one of those allowed; a turn that asks is the one that runs.
CountInv ==
    /\ due => attempts < Attempts
    /\ asks => turn # "none" /\ asked = turns
    /\ turn # "none" => turns > 0
    /\ Known(inbound, turns) /\ Known(walk.staged, turns)

(* What is on its way: the greeting first, while the tab waits for it; one end of the replay,
   for a tab that replays; the end of the connection last.  What is staged is none of these. *)
LineInv ==
    /\ Places(inbound, "initialized") # {} =>
         Places(inbound, "initialized") = {1} /\ phase = "initializing"
    /\ Places(inbound, "replayed") # {} => phase = "replaying" /\ ~walk.on
    /\ \A i, j \in Places(inbound, "replayed") : i = j
    /\ Places(inbound, "exited") \subseteq {Len(inbound)}
    /\ \A i \in DOMAIN walk.staged : walk.staged[i].kind \in Plain
    /\ walk.on => phase = "replaying"

(* A connection that is gone has nothing more to say, and has said so to a tab that counts
   on it; a tab without one waits for nothing. *)
GoneInv ==
    /\ linked => Places(inbound, "exited") = {}
    /\ ~linked => rearm = {} /\ held = {} /\ ~walk.on
    /\ phase \in Connected /\ ~linked => Places(inbound, "exited") # {}
    /\ phase \in {"detached", "closed"} => inbound = <<>> /\ armed = {} /\ ~prompt /\ ~linked
    /\ dialing.st # "none" => phase = "detached"
    /\ prompt => phase = "running"

TabInv == TabTypes /\ CountInv /\ LineInv /\ GoneInv /\ PromptIsAnswered
\* What the connection brings besides its own beginning and end goes behind all the rest.
LEMMA PlainAppended ==
    ASSUME NEW q \in Seq(Messages), NEW ms \in Seq(Messages), NEW n \in Nat,
           \A i \in DOMAIN ms : ms[i].kind \in Plain, Known(q, n), Known(ms, n)
    PROVE  /\ q \o ms \in Seq(Messages) /\ Known(q \o ms, n)
           /\ \A k \in {"initialized", "replayed", "exited"} : Places(q \o ms, k) = Places(q, k)
           /\ Places(q, "answer") \subseteq Places(q \o ms, "answer")
           /\ Places(ms, "answer") # {} => Places(q \o ms, "answer") # {}
<1>1. q \o ms \in Seq(Messages) /\ Len(q \o ms) = Len(q) + Len(ms)
  OBVIOUS
<1>2. \A i \in DOMAIN (q \o ms) :
          (i \in DOMAIN q /\ (q \o ms)[i] = q[i]) \/
          (i - Len(q) \in DOMAIN ms /\ (q \o ms)[i] = ms[i - Len(q)])
  OBVIOUS
<1>3. \A i \in DOMAIN q : i \in DOMAIN (q \o ms) /\ (q \o ms)[i] = q[i]
  OBVIOUS
<1>4. Known(q \o ms, n)
  BY <1>2 DEF Known
<1>5. ASSUME NEW k \in {"initialized", "replayed", "exited"}
      PROVE  Places(q \o ms, k) = Places(q, k)
  BY <1>2, <1>3 DEF Places, Plain
<1>6. Places(ms, "answer") # {} => Places(q \o ms, "answer") # {}
  <2> SUFFICES ASSUME NEW i \in DOMAIN ms, ms[i].kind = "answer"
               PROVE  Places(q \o ms, "answer") # {}
    BY DEF Places
  <2>1. i + Len(q) \in DOMAIN (q \o ms) /\ (q \o ms)[i + Len(q)] = ms[i]
    OBVIOUS
  <2>2. QED
    BY <2>1 DEF Places
<1>7. Places(q, "answer") \subseteq Places(q \o ms, "answer")
  BY <1>3 DEF Places
<1>8. QED
  BY <1>1, <1>4, <1>5, <1>6, <1>7

\* A message that is taken leaves the others, one place further on.
LEMMA HeadTaken ==
    ASSUME NEW q \in Seq(Messages), q # <<>>, NEW n \in Nat, Known(q, n)
    PROVE  /\ Tail(q) \in Seq(Messages) /\ Known(Tail(q), n) /\ Len(Tail(q)) = Len(q) - 1
           /\ Head(q) \in Messages /\ Head(q) = q[1] /\ 1 \in DOMAIN q
           /\ \A k : Places(Tail(q), k) = {i \in 1..(Len(q) - 1) : i + 1 \in Places(q, k)}
<1>1. /\ Tail(q) \in Seq(Messages) /\ Len(Tail(q)) = Len(q) - 1
      /\ Head(q) \in Messages /\ Head(q) = q[1] /\ 1 \in DOMAIN q
  OBVIOUS
<1>2. \A i \in 1..(Len(q) - 1) : Tail(q)[i] = q[i + 1] /\ i + 1 \in DOMAIN q
  OBVIOUS
<1>3. DOMAIN Tail(q) = 1..(Len(q) - 1)
  BY <1>1
<1>4. ASSUME NEW k PROVE Places(Tail(q), k) = {i \in 1..(Len(q) - 1) : i + 1 \in Places(q, k)}
  BY <1>2, <1>3 DEF Places
<1>5. Known(Tail(q), n)
  BY <1>2, <1>3 DEF Known
<1>6. QED
  BY <1>1, <1>4, <1>5

\* A tab that waits for its prompt, and what it waits for.
Awaited(q) == Places(q, "answer") # {} \/ Places(q, "exited") # {}
LEMMA AwaitedIs ==
    PromptIsAnswered <=> (prompt => (linked /\ turn = "ours") \/ Awaited(inbound))
BY DEF PromptIsAnswered, Awaited, Places

---------------------------------------------------------------------------------
(* What the agent sends. *)

\* It reaches the tab, or what is staged for it, or nobody.
LEMMA ToldKeeps ==
    ASSUME TabInv, NEW ms \in Seq(Messages), \A i \in DOMAIN ms : ms[i].kind \in Plain,
           Known(ms, turns), Told(ms)
    PROVE  /\ inbound' \in Seq(Messages) /\ Known(inbound', turns)
           /\ \A k \in {"initialized", "replayed", "exited"} : Places(inbound', k) = Places(inbound, k)
           /\ Places(inbound, "answer") \subseteq Places(inbound', "answer")
           /\ linked /\ ~walk.on /\ Places(ms, "answer") # {} => Places(inbound', "answer") # {}
           /\ ~linked => inbound' = inbound
           /\ walk' \in Walks(turns) /\ walk'.on = walk.on /\ Known(walk'.staged, turns)
           /\ \A i \in DOMAIN walk'.staged : walk'.staged[i].kind \in Plain
<1>1. /\ inbound \in Seq(Messages) /\ Known(inbound, turns) /\ turns \in Nat
      /\ walk \in Walks(turns) /\ Known(walk.staged, turns) /\ walk.staged \in Seq(Messages)
      /\ \A i \in DOMAIN walk.staged : walk.staged[i].kind \in Plain
  BY DEF TabInv, TabTypes, CountInv, LineInv, Walks
<1>2. /\ inbound' = IF linked /\ ~walk.on THEN inbound \o ms ELSE inbound
      /\ walk' = IF walk.on THEN [walk EXCEPT !.staged = walk.staged \o ms] ELSE walk
  BY DEF Told
<1>3. /\ inbound \o ms \in Seq(Messages) /\ Known(inbound \o ms, turns)
      /\ \A k \in {"initialized", "replayed", "exited"} :
           Places(inbound \o ms, k) = Places(inbound, k)
      /\ Places(inbound, "answer") \subseteq Places(inbound \o ms, "answer")
      /\ Places(ms, "answer") # {} => Places(inbound \o ms, "answer") # {}
  BY <1>1, PlainAppended
<1>4. walk.staged \o ms \in Seq(Messages) /\ Known(walk.staged \o ms, turns)
  BY <1>1, PlainAppended
<1>5. \A i \in DOMAIN (walk.staged \o ms) : (walk.staged \o ms)[i].kind \in Plain
  BY <1>1
<1>6. /\ walk' \in Walks(turns) /\ walk'.on = walk.on /\ Known(walk'.staged, turns)
      /\ \A i \in DOMAIN walk'.staged : walk'.staged[i].kind \in Plain
  <2>1. CASE walk.on
    <3>1. /\ walk' \in Walks(turns) /\ walk'.on = walk.on
          /\ walk'.staged = walk.staged \o ms
      BY <1>1, <1>2, <1>4, <2>1 DEF Walks
    <3>2. QED
      BY <1>4, <1>5, <3>1
  <2>2. CASE ~walk.on
    BY <1>1, <1>2, <2>2
  <2>3. QED
    BY <2>1, <2>2
<1>7. QED
  BY <1>1, <1>2, <1>3, <1>6

\* Whatever it says of its turn and of its requests: a turn of the tab's that is over is
\* answered for.
LEMMA SaidKeeps ==
    ASSUME TabInv, NEW ms \in Seq(Messages), \A i \in DOMAIN ms : ms[i].kind \in Plain,
           Known(ms, turns), Told(ms),
           UNCHANGED <<phase, wayBack, named, session, attempts, due, dialing, prompt, linked,
                       dials, at, fresh, alive, turns, rearm, held>>,
           armed' \subseteq armed, turn' \in {turn, "none"}, asks' \in BOOLEAN, asked' \in 0..turns,
           asks' => turn' # "none" /\ asked' = turns,
           turn = "ours" /\ turn' # turn => Places(ms, "answer") # {}
    PROVE  TabInv'
<1> USE DEF TabInv
<1>1. /\ inbound' \in Seq(Messages) /\ Known(inbound', turns)
      /\ \A k \in {"initialized", "replayed", "exited"} : Places(inbound', k) = Places(inbound, k)
      /\ Places(inbound, "answer") \subseteq Places(inbound', "answer")
      /\ linked /\ ~walk.on /\ Places(ms, "answer") # {} => Places(inbound', "answer") # {}
      /\ ~linked => inbound' = inbound
      /\ walk' \in Walks(turns) /\ walk'.on = walk.on /\ Known(walk'.staged, turns)
      /\ \A i \in DOMAIN walk'.staged : walk'.staged[i].kind \in Plain
  BY ToldKeeps
<1>2. TabTypes'
  BY <1>1 DEF TabTypes
<1>3. CountInv'
  BY <1>1 DEF CountInv
<1>4. LineInv'
  <2>1. Places(inbound', "exited") \subseteq {Len(inbound')}
    BY <1>1 DEF LineInv, GoneInv
  <2>2. QED
    BY <1>1, <2>1 DEF LineInv
<1>5. GoneInv'
  BY <1>1 DEF GoneInv
<1>6. PromptIsAnswered'
  <2>1. prompt => (linked /\ turn = "ours") \/ Awaited(inbound)
    BY AwaitedIs
  <2>2. prompt => ~walk.on
    BY DEF LineInv, GoneInv
  <2>3. prompt' => (linked' /\ turn' = "ours") \/ Awaited(inbound')
    BY <1>1, <2>1, <2>2 DEF Awaited
  <2>4. QED
    BY <2>3 DEF PromptIsAnswered, Awaited, Places
<1>7. QED
  BY <1>2, <1>3, <1>4, <1>5, <1>6

\* The steps of the agent, and those of the tab that are answered at once.
LEMMA AgentSteps ==
    ASSUME TabInv, AgentAsks \/ SomebodyAnswers \/ TurnEnds \/ TurnStops \/ ResolveApproval
    PROVE  TabInv'
<1>1. /\ turns \in Nat /\ asked \in 0..turns /\ asks \in BOOLEAN
      /\ asks => turn # "none" /\ asked = turns
      /\ turn \in {"none", "ours", "theirs"}
  BY TabAssumption DEF TabInv, TabTypes, CountInv
<1>4. CASE AgentAsks
  <2> DEFINE ms == <<About("request", turns)>>
  <2>1. /\ ms \in Seq(Messages) /\ Known(ms, turns)
        /\ \A i \in DOMAIN ms : ms[i].kind \in Plain
    BY <1>1, <1>4 DEF AgentAsks, Known, About, Plain, Messages
  <2> HIDE DEF ms
  <2>2. /\ Told(ms) /\ turn # "none" /\ asks' = TRUE /\ asked' = turns
        /\ UNCHANGED <<tabVars, linked, dials, at, fresh, alive, turn, turns, rearm, held>>
    BY <1>4 DEF AgentAsks, ms
  <2>3. /\ UNCHANGED <<phase, wayBack, named, session, attempts, due, dialing, prompt, linked,
                       dials, at, fresh, alive, turns, rearm, held>>
        /\ armed' \subseteq armed /\ turn' \in {turn, "none"} /\ asks' \in BOOLEAN
        /\ asked' \in 0..turns /\ (asks' => turn' # "none" /\ asked' = turns) /\ turn' = turn
    BY <1>1, <2>2 DEF tabVars
  <2>4. QED
    BY <2>1, <2>2, <2>3, SaidKeeps
<1>5. /\ Resolves \in Seq(Messages) /\ Known(Resolves, turns)
      /\ \A i \in DOMAIN Resolves : Resolves[i].kind \in Plain
  <2>1. CASE asks
    BY <1>1, <2>1 DEF Resolves, Known, About, Plain, Messages
  <2>2. CASE ~asks
    BY <1>1, <2>2, EmptySeq DEF Resolves, Known
  <2>3. QED
    BY <1>1, <2>1, <2>2
<1>6. CASE SomebodyAnswers
  BY <1>1, <1>5, <1>6, SaidKeeps DEF SomebodyAnswers, tabVars
<1>7. /\ Answer \in Seq(Messages) /\ Known(Answer, turns) /\ \A i \in DOMAIN Answer : Answer[i].kind \in Plain
      /\ turn = "ours" => Places(Answer, "answer") # {}
  <2>1. CASE turn = "ours"
    <3>1. 1 \in DOMAIN <<Msg("answer")>> /\ <<Msg("answer")>>[1].kind = "answer"
      BY DEF Msg
    <3>2. QED
      BY <2>1, <3>1 DEF Answer, Known, Msg, Plain, Messages, Places
  <2>2. CASE turn # "ours"
    BY <2>2, EmptySeq DEF Answer, Known
  <2>3. QED
    BY <2>1, <2>2
<1>8. CASE TurnEnds
  <2> DEFINE ms == <<Msg("end")>> \o Answer
  <2>1. /\ <<Msg("end")>> \in Seq(Messages) /\ Known(<<Msg("end")>>, turns)
    BY DEF Msg, Messages, Known
  <2>2. /\ ms \in Seq(Messages) /\ Known(ms, turns)
        /\ turn = "ours" => Places(ms, "answer") # {}
    BY <1>1, <1>7, <2>1, PlainAppended
  <2>3. \A i \in DOMAIN ms : ms[i].kind \in Plain
    BY <1>7, <2>1 DEF Msg, Plain
  <2> HIDE DEF ms
  <2>4. /\ Told(ms) /\ turn' = "none" /\ ~asks
        /\ UNCHANGED <<tabVars, linked, dials, at, fresh, alive, turns, asks, asked, rearm, held>>
    BY <1>8 DEF TurnEnds, ms
  <2>5. QED
    BY <1>1, <2>2, <2>3, <2>4, SaidKeeps DEF tabVars
<1>9. CASE TurnStops
  <2> DEFINE ms == Resolves \o Answer
  <2>1. /\ ms \in Seq(Messages) /\ Known(ms, turns)
        /\ turn = "ours" => Places(ms, "answer") # {}
    BY <1>1, <1>5, <1>7, PlainAppended
  <2>2. \A i \in DOMAIN ms : ms[i].kind \in Plain
    BY <1>5, <1>7
  <2> HIDE DEF ms
  <2>3. /\ Told(ms) /\ turn' = "none" /\ asks' = FALSE
        /\ UNCHANGED <<tabVars, linked, dials, at, fresh, alive, turns, asked, rearm, held>>
    BY <1>9 DEF TurnStops, ms
  <2>4. QED
    BY <1>1, <2>1, <2>2, <2>3, SaidKeeps DEF tabVars
<1>10. CASE ResolveApproval
  <2>1. PICK t \in armed :
          /\ armed' = armed \ {t}
          /\ IF linked /\ asks /\ t = turns
             THEN asks' = FALSE /\ Told(Resolves) ELSE UNCHANGED <<asks, inbound, walk>>
    BY <1>10 DEF ResolveApproval
  <2>2. UNCHANGED <<phase, wayBack, named, session, attempts, due, dialing, prompt, linked, dials,
                    at, fresh, alive, turn, turns, asked, rearm, held>>
    BY <1>10 DEF ResolveApproval
  <2>3. CASE linked /\ asks /\ t = turns
    BY <1>1, <1>5, <2>1, <2>2, <2>3, SaidKeeps
  <2>4. CASE ~(linked /\ asks /\ t = turns)
    BY <2>1, <2>2, <2>4 DEF TabInv, TabTypes, CountInv, LineInv, GoneInv, PromptIsAnswered
  <2>5. QED
    BY <2>3, <2>4
<1>11. QED
  BY <1>4, <1>6, <1>8, <1>9, <1>10

\* With a turn more, what was known of the turns before stays so.
LEMMA MoreTurns ==
    ASSUME TabTypes, CountInv, turn = "none", turns < MaxTurns, turns' = turns + 1,
           turn' \in {"ours", "theirs"},
           UNCHANGED <<tabVars, lineVars, at, fresh, alive, asks, asked, walk, rearm, held>>
    PROVE  TabTypes' /\ CountInv'
<1>1. turns \in Nat /\ turns' \in 0..MaxTurns /\ 1..turns \subseteq 1..turns'
  BY TabAssumption DEF TabTypes
<1>2. walk \in Walks(turns')
  BY <1>1 DEF TabTypes, Walks
<1>3. TabTypes'
  BY <1>1, <1>2 DEF TabTypes, tabVars, lineVars
<1>4. CountInv'
  BY <1>1 DEF CountInv, Known, tabVars, lineVars
<1>5. QED
  BY <1>3, <1>4

LEMMA PromptSteps ==
    ASSUME TabInv, SomebodyPrompts
    PROVE  TabInv'
<1>1. /\ turn = "none" /\ turn' = "theirs" /\ turns < MaxTurns /\ turns' = turns + 1
      /\ UNCHANGED <<tabVars, lineVars, at, fresh, alive, asks, asked, walk, rearm, held>>
  BY DEF SomebodyPrompts, TurnBegins
<1>2. QED
  BY <1>1, MoreTurns DEF tabVars, lineVars, TabInv, LineInv, GoneInv, PromptIsAnswered

LEMMA CatchUpEnds ==
    ASSUME TabInv, EndCatchUp
    PROVE  TabInv'
<1> DEFINE last == [kind |-> "replayed", of |-> IF walk.running THEN 1 ELSE 0]
           caught == inbound \o walk.staged
<1>1. /\ linked /\ walk.on /\ inbound' = Append(caught, last)
      /\ rearm' = walk.open /\ walk' = Off
      /\ UNCHANGED <<tabVars, linked, dials, at, fresh, alive, turn, turns, asks, asked, held>>
  BY DEF EndCatchUp, TabInv, TabTypes, Walks
<1>2. /\ inbound \in Seq(Messages) /\ walk \in Walks(turns) /\ turns \in Nat
      /\ walk.staged \in Seq(Messages) /\ walk.open \subseteq 1..turns
  BY DEF TabInv, TabTypes, Walks
<1>3. last \in Messages /\ last.kind = "replayed"
  BY DEF Messages
<1>4. /\ caught \in Seq(Messages) /\ Known(caught, turns)
      /\ \A k \in {"initialized", "replayed", "exited"} : Places(caught, k) = Places(inbound, k)
      /\ Places(inbound, "answer") \subseteq Places(caught, "answer")
  BY <1>2, PlainAppended DEF TabInv, CountInv, LineInv
<1> HIDE DEF last, caught
<1>5. /\ phase = "replaying" /\ Places(caught, "initialized") = {}
      /\ Places(caught, "replayed") = {} /\ Places(caught, "exited") = {}
  BY <1>1, <1>4 DEF TabInv, LineInv, GoneInv
<1>6. /\ inbound' \in Seq(Messages) /\ Known(inbound', turns)
      /\ Places(inbound', "initialized") = {} /\ Places(inbound', "exited") = {}
      /\ Places(inbound', "replayed") \subseteq {Len(inbound')}
  BY <1>1, <1>3, <1>4, <1>5 DEF Known, Places
<1>7. Off \in Walks(turns) /\ ~Off.on /\ Known(Off.staged, turns) /\ DOMAIN Off.staged = {}
  BY <1>2, EmptySeq DEF Off, Walks, Known
<1>8. TabTypes' /\ CountInv'
  BY <1>1, <1>2, <1>6, <1>7 DEF TabInv, TabTypes, CountInv, tabVars
<1>9. LineInv' /\ GoneInv'
  BY <1>1, <1>5, <1>6, <1>7 DEF TabInv, LineInv, GoneInv, tabVars
<1>10. PromptIsAnswered'
  BY <1>1, <1>5 DEF TabInv, GoneInv, PromptIsAnswered, tabVars
<1>11. QED
  BY <1>8, <1>9, <1>10 DEF TabInv

LEMMA HandOverSteps ==
    ASSUME TabInv, LookBeforeHandOver \/ HandOver
    PROVE  TabInv'
<1>1. CASE LookBeforeHandOver
  BY <1>1 DEF LookBeforeHandOver, tabVars, lineVars, TabInv, TabTypes, CountInv, LineInv,
     GoneInv, PromptIsAnswered
<1>2. CASE HandOver
  <2>1. PICK t \in held : inbound' = Append(inbound, About("request", t))
    BY <1>2 DEF HandOver
  <2> DEFINE ms == <<About("request", t)>>
  <2>2. /\ t \in 1..turns /\ linked /\ turns \in Nat /\ inbound \in Seq(Messages)
        /\ Known(inbound, turns)
    BY DEF TabInv, TabTypes, GoneInv, CountInv
  <2>3. /\ ms \in Seq(Messages) /\ Known(ms, turns)
        /\ \A i \in DOMAIN ms : ms[i].kind \in Plain
    BY <2>2 DEF Known, About, Plain, Messages
  <2>4. inbound' = inbound \o ms
    BY <2>1, <2>2 DEF About, Messages
  <2> HIDE DEF ms
  <2>5. /\ inbound' \in Seq(Messages) /\ Known(inbound', turns)
        /\ \A k \in {"initialized", "replayed", "exited"} : Places(inbound', k) = Places(inbound, k)
        /\ Places(inbound, "answer") \subseteq Places(inbound', "answer")
    BY <2>2, <2>3, <2>4, PlainAppended
  <2>6. /\ held' = {}
        /\ UNCHANGED <<tabVars, linked, dials, at, fresh, alive, turn, turns, asks, asked, walk, rearm>>
    BY <1>2 DEF HandOver
  <2>7. TabTypes' /\ CountInv' /\ LineInv' /\ GoneInv'
    BY <2>2, <2>5, <2>6 DEF TabInv, TabTypes, CountInv, LineInv, GoneInv, tabVars
  <2>8. PromptIsAnswered'
    <3>1. prompt => (linked /\ turn = "ours") \/ Awaited(inbound)
      BY AwaitedIs DEF TabInv
    <3>2. prompt' => (linked' /\ turn' = "ours") \/ Awaited(inbound')
      BY <2>5, <2>6, <3>1 DEF Awaited, tabVars
    <3>3. QED
      BY <3>2 DEF PromptIsAnswered, Awaited, Places
  <2>9. QED
    BY <2>7, <2>8 DEF TabInv
<1>3. QED
  BY <1>1, <1>2

\* A connection that ends tells the tab so, behind all that was on its way.
LEMMA UnlinkSteps ==
    ASSUME TabInv, LineBreaks \/ AgentGoes
    PROVE  TabInv'
<1>1. /\ linked' = FALSE /\ walk' = Off /\ rearm' = {} /\ held' = {}
      /\ inbound' = IF linked THEN Append(inbound, Msg("exited")) ELSE inbound
      /\ UNCHANGED <<tabVars, dials, at, fresh, turns, asked>>
  BY DEF LineBreaks, AgentGoes, Unlinks
<1>2. /\ alive' \in BOOLEAN /\ asks' \in BOOLEAN /\ turn' \in {"none", "theirs"}
      /\ (asks' => asks /\ turn' # "none") /\ (turn' # "none" => turn # "none")
  BY DEF LineBreaks, AgentGoes, Unlinks, TabInv, TabTypes, CountInv
<1>3. Msg("exited") \in Messages /\ Msg("exited").kind = "exited"
  BY DEF Msg, Messages
<1>4. /\ inbound \in Seq(Messages) /\ Known(inbound, turns) /\ turns \in Nat
      /\ (linked => Places(inbound, "exited") = {})
  BY DEF TabInv, TabTypes, CountInv, GoneInv
<1>5. /\ inbound' \in Seq(Messages) /\ Known(inbound', turns)
      /\ \A k \in {"initialized", "replayed"} : Places(inbound', k) = Places(inbound, k)
      /\ Places(inbound', "exited") = IF linked THEN {Len(inbound')} ELSE Places(inbound, "exited")
  BY <1>1, <1>3, <1>4 DEF Known, Places
<1>6. Off \in Walks(turns) /\ ~Off.on /\ Known(Off.staged, turns) /\ DOMAIN Off.staged = {}
  BY <1>4, EmptySeq DEF Off, Walks, Known
<1>7. TabTypes' /\ CountInv'
  BY <1>1, <1>2, <1>4, <1>5, <1>6 DEF TabInv, TabTypes, CountInv, tabVars
<1>8. LineInv'
  BY <1>1, <1>5, <1>6 DEF TabInv, LineInv, tabVars
<1>9. GoneInv'
  BY <1>1, <1>5, <1>6 DEF TabInv, GoneInv, tabVars
<1>10. PromptIsAnswered'
  <2>1. prompt' => Awaited(inbound')
    BY <1>1, <1>5 DEF TabInv, GoneInv, Awaited, Connected, tabVars
  <2>2. QED
    BY <2>1 DEF PromptIsAnswered, Awaited, Places
<1>11. QED
  BY <1>7, <1>8, <1>9, <1>10 DEF TabInv

---------------------------------------------------------------------------------
(* What the tab makes of it. *)

\* What is left when a message is taken.
LEMMA TakenKeeps ==
    ASSUME TabInv, NEW kind, Receives(kind)
    PROVE  /\ inbound' \in Seq(Messages) /\ Known(inbound', turns) /\ Head(inbound) \in Messages
           /\ Head(inbound).kind = kind /\ (kind = "request" => Head(inbound).of \in 1..turns)
           /\ Places(inbound', "initialized") = {}
           /\ (kind = "initialized" => phase = "initializing" /\ Places(inbound', "replayed") = {})
           /\ (Places(inbound', "replayed") # {} => Places(inbound, "replayed") # {})
           /\ (\A i, j \in Places(inbound', "replayed") : i = j)
           /\ (kind = "replayed" => phase = "replaying" /\ ~walk.on /\ Places(inbound', "replayed") = {})
           /\ Places(inbound', "exited") \subseteq {Len(inbound')}
           /\ (kind = "exited" => inbound' = <<>> /\ ~linked)
           /\ (kind # "exited" /\ Places(inbound, "exited") # {} => Places(inbound', "exited") # {})
           /\ (Places(inbound, "exited") = {} => Places(inbound', "exited") = {})
           /\ (kind # "answer" /\ Places(inbound, "answer") # {} => Places(inbound', "answer") # {})
           /\ phase \notin {"detached", "closed"}
<1> DEFINE q == inbound
<1>1. /\ q \in Seq(Messages) /\ q # <<>> /\ Known(q, turns) /\ turns \in Nat /\ Head(q).kind = kind
      /\ inbound' = Tail(q)
  BY DEF Receives, TabInv, TabTypes, CountInv
<1>2. /\ Places(q, "initialized") # {} => Places(q, "initialized") = {1} /\ phase = "initializing"
      /\ Places(q, "replayed") # {} => phase = "replaying" /\ ~walk.on
      /\ \A i, j \in Places(q, "replayed") : i = j
      /\ Places(q, "exited") \subseteq {Len(q)}
      /\ linked => Places(q, "exited") = {}
      /\ phase \notin {"detached", "closed"}
  BY <1>1 DEF TabInv, LineInv, GoneInv
<1> HIDE DEF q
<1>3. /\ Tail(q) \in Seq(Messages) /\ Known(Tail(q), turns) /\ Len(Tail(q)) = Len(q) - 1
      /\ Head(q) \in Messages /\ Head(q) = q[1] /\ 1 \in DOMAIN q
      /\ \A k : Places(Tail(q), k) = {i \in 1..(Len(q) - 1) : i + 1 \in Places(q, k)}
  BY <1>1, HeadTaken
<1>4. /\ 1 \in Places(q, kind) /\ Len(q) \in Nat /\ (kind = "request" => Head(q).of \in 1..turns)
      /\ \A k : Places(q, k) \subseteq 1..Len(q)
      /\ \A k : 1 \in Places(q, k) => k = kind
  BY <1>1, <1>3 DEF Places, Known
<1>5. \A k : k # kind /\ Places(q, k) # {} => Places(Tail(q), k) # {}
  <2> SUFFICES ASSUME NEW k, k # kind, NEW i \in Places(q, k) PROVE Places(Tail(q), k) # {}
    OBVIOUS
  <2>1. i \in 1..Len(q) /\ i # 1
    BY <1>4
  <2>2. i - 1 \in 1..(Len(q) - 1) /\ (i - 1) + 1 = i
    BY <1>4, <2>1
  <2>3. QED
    BY <1>3, <2>2
<1>6. \A k : Places(q, k) = {} => Places(Tail(q), k) = {}
  BY <1>3
<1>7. Places(Tail(q), "initialized") = {}
  BY <1>2, <1>3
<1>8. /\ \A i, j \in Places(Tail(q), "replayed") : i = j
      /\ kind = "replayed" => Places(Tail(q), "replayed") = {}
  <2>1. ASSUME NEW i \in Places(Tail(q), "replayed"), NEW j \in Places(Tail(q), "replayed")
        PROVE  i = j
    <3>1. i \in Nat /\ j \in Nat /\ {i + 1, j + 1} \subseteq Places(q, "replayed")
      BY <1>3
    <3>2. i + 1 = j + 1
      BY <1>2, <3>1
    <3>3. QED
      BY <3>1, <3>2
  <2>2. ASSUME kind = "replayed", NEW i \in Places(Tail(q), "replayed")
        PROVE  FALSE
    <3>1. i \in Nat /\ i >= 1 /\ i + 1 \in Places(q, "replayed") /\ 1 \in Places(q, "replayed")
      BY <1>3, <1>4, <2>2
    <3>2. i + 1 = 1
      BY <1>2, <3>1
    <3>3. QED
      BY <3>1, <3>2
  <2>3. QED
    BY <2>1, <2>2
<1>9. Places(Tail(q), "exited") \subseteq {Len(Tail(q))}
  BY <1>2, <1>3, <1>4
<1>10. kind = "exited" => Tail(q) = <<>> /\ ~linked
  <2> SUFFICES ASSUME kind = "exited" PROVE Tail(q) = <<>> /\ ~linked
    OBVIOUS
  <2>1. Len(q) = 1 /\ ~linked
    BY <1>2, <1>4
  <2>2. Tail(q) \in Seq(Messages) /\ Len(Tail(q)) = 0
    BY <1>3, <2>1
  <2>3. QED
    BY <2>1, <2>2, EmptySeq
<1>11. kind = "initialized" => phase = "initializing" /\ Places(Tail(q), "replayed") = {}
  BY <1>2, <1>4, <1>6
<1>12. QED
  BY <1>1, <1>2, <1>3, <1>4, <1>5, <1>6, <1>7, <1>8, <1>9, <1>10, <1>11 DEF q

\* The greeting, and the end of the replay, find a tab that waits for no prompt.
LEMMA GreetingSteps ==
    ASSUME TabInv, Initialized \/ NotUnderstood \/ Replayed
    PROVE  TabInv'
<1>1. CASE Initialized
  <2>1. /\ Receives("initialized") /\ phase' = "replaying" /\ session' = at
        /\ walk' = IF linked THEN [on |-> TRUE, running |-> turn # "none", staged |-> <<>>,
                                   open |-> IF asks THEN {turns} ELSE {}]
                             ELSE Off
        /\ UNCHANGED <<attempts, due, prompt, armed, at, fresh, alive, turn, turns, asks, asked,
                       rearm, held, wayBack, named, dialing, linked, dials>>
    BY <1>1 DEF Initialized, Keeps
  <2>2. /\ inbound' \in Seq(Messages) /\ Known(inbound', turns)
        /\ phase = "initializing" /\ Places(inbound', "initialized") = {}
        /\ Places(inbound', "replayed") = {} /\ Places(inbound', "exited") \subseteq {Len(inbound')}
        /\ (Places(inbound, "exited") # {} => Places(inbound', "exited") # {})
        /\ (Places(inbound, "exited") = {} => Places(inbound', "exited") = {})
    BY <2>1, TakenKeeps
  <2>3. turns \in Nat /\ asked \in 0..turns /\ (asks => turns \in 1..turns) /\ ~prompt
    BY <2>2 DEF TabInv, TabTypes, CountInv, GoneInv
  <2>4. /\ walk' \in Walks(turns) /\ Known(walk'.staged, turns) /\ DOMAIN walk'.staged = {}
        /\ (~linked => ~walk'.on)
    <3>1. <<>> \in Seq(Messages) /\ DOMAIN <<>> = {}
      OBVIOUS
    <3>2. CASE linked
      BY <2>1, <2>3, <3>1, <3>2 DEF Walks, Known
    <3>3. CASE ~linked
      BY <2>1, <2>3, <3>1, <3>3 DEF Walks, Known, Off
    <3>4. QED
      BY <3>2, <3>3
  <2>5. TabTypes' /\ CountInv'
    BY <2>1, <2>2, <2>3, <2>4 DEF TabInv, TabTypes, CountInv, Connected
  <2>6. LineInv' /\ GoneInv' /\ PromptIsAnswered'
    BY <2>1, <2>2, <2>3, <2>4 DEF TabInv, LineInv, GoneInv, PromptIsAnswered, Connected
  <2>7. QED
    BY <2>5, <2>6 DEF TabInv
<1>2. CASE NotUnderstood
  <2>1. /\ Receives("initialized") /\ phase' = "failed"
        /\ UNCHANGED <<session, attempts, due, prompt, armed, agentVars, wayBack, named, dialing,
                       linked, dials>>
    BY <1>2 DEF NotUnderstood, Keeps
  <2>2. /\ inbound' \in Seq(Messages) /\ Known(inbound', turns)
        /\ phase = "initializing" /\ Places(inbound', "initialized") = {}
        /\ Places(inbound', "replayed") = {} /\ Places(inbound', "exited") \subseteq {Len(inbound')}
        /\ (Places(inbound, "exited") = {} => Places(inbound', "exited") = {})
    BY <2>1, TakenKeeps
  <2>3. ~walk.on /\ ~prompt
    BY <2>2 DEF TabInv, LineInv, GoneInv
  <2>4. TabTypes' /\ CountInv'
    BY <2>1, <2>2 DEF TabInv, TabTypes, CountInv, agentVars
  <2>5. LineInv' /\ GoneInv' /\ PromptIsAnswered'
    BY <2>1, <2>2, <2>3 DEF TabInv, LineInv, GoneInv, PromptIsAnswered, Connected, agentVars
  <2>6. QED
    BY <2>4, <2>5 DEF TabInv
<1>3. CASE Replayed
  <2>1. /\ Receives("replayed") /\ phase' \in {"running", "ready"}
        /\ attempts' = 0 /\ due' = FALSE
        /\ UNCHANGED <<session, prompt, armed, agentVars, wayBack, named, dialing, linked, dials>>
    BY <1>3 DEF Replayed, Keeps
  <2>2. /\ inbound' \in Seq(Messages) /\ Known(inbound', turns)
        /\ phase = "replaying" /\ ~walk.on /\ Places(inbound', "initialized") = {}
        /\ Places(inbound', "replayed") = {} /\ Places(inbound', "exited") \subseteq {Len(inbound')}
        /\ (Places(inbound, "exited") # {} => Places(inbound', "exited") # {})
        /\ (Places(inbound, "exited") = {} => Places(inbound', "exited") = {})
    BY <2>1, TakenKeeps
  <2>3. ~prompt
    BY <2>2 DEF TabInv, GoneInv
  <2>4. TabTypes' /\ CountInv'
    <3>1. attempts' \in 0..Attempts /\ phase' \in Connected
      BY <2>1, TabAssumption DEF Connected
    <3>2. TabTypes'
      BY <2>1, <2>2, <3>1 DEF TabInv, TabTypes, agentVars
    <3>3. CountInv'
      BY <2>1, <2>2 DEF TabInv, CountInv, agentVars
    <3>4. QED
      BY <3>2, <3>3
  <2>5. LineInv' /\ GoneInv' /\ PromptIsAnswered'
    BY <2>1, <2>2, <2>3 DEF TabInv, LineInv, GoneInv, PromptIsAnswered, Connected, agentVars
  <2>6. QED
    BY <2>4, <2>5 DEF TabInv
<1>4. QED
  BY <1>1, <1>2, <1>3

\* What is said of a turn and of its requests moves a tab only between ready and running.
LEMMA HeardSteps ==
    ASSUME TabInv, EndHeard \/ Answered \/ Requested \/ Resolved
    PROVE  TabInv'
<1>1. PICK kind \in Plain : Receives(kind) /\ (kind = "answer" => Answered)
  BY DEF EndHeard, Answered, Requested, Resolved, Plain
<1>2. /\ inbound' \in Seq(Messages) /\ Known(inbound', turns)
      /\ Places(inbound', "initialized") = {}
      /\ (Places(inbound', "replayed") # {} => Places(inbound, "replayed") # {})
      /\ (\A i, j \in Places(inbound', "replayed") : i = j)
      /\ Places(inbound', "exited") \subseteq {Len(inbound')}
      /\ (Places(inbound, "exited") # {} => Places(inbound', "exited") # {})
      /\ (Places(inbound, "exited") = {} => Places(inbound', "exited") = {})
      /\ (kind # "answer" /\ Places(inbound, "answer") # {} => Places(inbound', "answer") # {})
      /\ phase \notin {"detached", "closed"}
  BY <1>1, TakenKeeps DEF Plain
<1>3. /\ UNCHANGED <<session, attempts, due, agentVars, wayBack, named, dialing, linked, dials>>
      /\ prompt' \in BOOLEAN /\ (prompt' => prompt /\ phase' = phase /\ kind # "answer")
      /\ (phase' = phase \/ (phase = "running" /\ phase' = "ready" /\ ~prompt'))
  <2>1. prompt \in BOOLEAN /\ (prompt => phase = "running")
    BY DEF TabInv, TabTypes, GoneInv
  <2>2. CASE EndHeard
    BY <1>1, <2>1, <2>2 DEF EndHeard, Keeps, Receives
  <2>3. CASE Answered
    BY <1>1, <2>1, <2>3 DEF Answered, Keeps, Receives
  <2>4. CASE Requested
    BY <1>1, <2>1, <2>4 DEF Requested, Keeps, Receives
  <2>5. CASE Resolved
    BY <1>1, <2>1, <2>5 DEF Resolved, Keeps, Receives
  <2>6. QED
    BY <2>2, <2>3, <2>4, <2>5
<1>4. armed' \subseteq 1..turns
  <2>1. armed \subseteq 1..turns
    BY DEF TabInv, TabTypes
  <2>2. CASE Requested
    <3>1. Head(inbound).of \in 1..turns
      BY <2>2, TakenKeeps DEF Requested
    <3>2. QED
      BY <2>1, <2>2, <3>1 DEF Requested
  <2>3. CASE ~Requested
    BY <2>1, <2>3 DEF EndHeard, Answered, Resolved, Keeps
  <2>4. QED
    BY <2>2, <2>3
<1>5. TabTypes' /\ CountInv'
  BY <1>2, <1>3, <1>4 DEF TabInv, TabTypes, CountInv, agentVars, Connected
<1>6. LineInv' /\ GoneInv'
  BY <1>2, <1>3 DEF TabInv, LineInv, GoneInv, Connected, agentVars
<1>7. PromptIsAnswered'
  <2>1. prompt => (linked /\ turn = "ours") \/ Awaited(inbound)
    BY AwaitedIs DEF TabInv
  <2>2. prompt' => (linked' /\ turn' = "ours") \/ Awaited(inbound')
    BY <1>2, <1>3, <2>1 DEF Awaited, agentVars
  <2>3. QED
    BY <2>2 DEF PromptIsAnswered, Awaited, Places
<1>8. QED
  BY <1>5, <1>6, <1>7 DEF TabInv

\* The end of a connection is the last of it.
LEMMA EndSteps ==
    ASSUME TabInv, ConnectionEnded \/ EndIgnored
    PROVE  TabInv'
<1>1. inbound' = <<>> /\ ~linked /\ ~walk.on /\ Receives("exited")
  BY TakenKeeps DEF ConnectionEnded, EndIgnored, TabInv, GoneInv
<1>2. /\ UNCHANGED <<session, attempts, agentVars, wayBack, named, dialing, linked, dials>>
      /\ armed' \subseteq armed /\ ~prompt' /\ prompt' \in BOOLEAN
      /\ due' \in BOOLEAN /\ (due' => attempts < Attempts)
      /\ phase' \in {"failed", "detached"} /\ (phase' = "detached" => armed' = {})
      /\ (phase = "failed" => phase' = "failed")
  <2>1. {due, prompt} \subseteq BOOLEAN /\ (due => attempts < Attempts) /\ (prompt => phase = "running")
    BY DEF TabInv, TabTypes, CountInv, GoneInv
  <2>2. attempts \in Nat /\ Attempts \in Nat
    BY TabAssumption DEF TabInv, TabTypes
  <2>3. CASE ConnectionEnded
    <3>1. due' = (wayBack # "none" /\ attempts < Attempts)
      BY <2>3 DEF ConnectionEnded
    <3>2. QED
      BY <2>3, <3>1 DEF ConnectionEnded, Keeps
  <2>4. CASE EndIgnored
    BY <2>1, <2>4 DEF EndIgnored, Keeps
  <2>5. QED
    BY <2>3, <2>4
<1>3. phase # "detached"
  BY TakenKeeps, <1>1
<1>4. /\ inbound' \in Seq(Messages) /\ Known(inbound', turns)
      /\ \A k : Places(inbound', k) = {}
  BY <1>1 DEF Known, Places
<1>5. TabTypes' /\ CountInv'
  BY <1>2, <1>4 DEF TabInv, TabTypes, CountInv, agentVars
<1>6. LineInv' /\ GoneInv' /\ PromptIsAnswered'
  BY <1>1, <1>2, <1>3, <1>4 DEF TabInv, LineInv, GoneInv, PromptIsAnswered, agentVars, Connected
<1>7. QED
  BY <1>5, <1>6 DEF TabInv

\* A prompt is refused at once, or begins a turn, or finds that the connection has ended.
LEMMA SubmitSteps ==
    ASSUME TabInv, Submit
    PROVE  TabInv'
<1>1. /\ phase = "ready" /\ phase' = "running" /\ prompt' = TRUE
      /\ UNCHANGED <<wayBack, named, session, attempts, due, dialing, armed, linked, dials,
                     at, fresh, alive, asks, asked, walk, rearm, held>>
  BY DEF Submit
<1>2. /\ Places(inbound, "initialized") = {} /\ Places(inbound, "replayed") = {} /\ ~walk.on
      /\ (~linked => Places(inbound, "exited") # {})
  BY <1>1 DEF TabInv, LineInv, GoneInv, Connected
<1>3. /\ inbound \in Seq(Messages) /\ turns \in Nat /\ turn \in {"none", "ours", "theirs"}
      /\ Known(inbound, turns) /\ (asks => turn # "none")
  BY DEF TabInv, TabTypes, CountInv
<1>4. CASE linked /\ turn = "none"
  <2>1. /\ turns < MaxTurns /\ turn' = "ours" /\ turns' = turns + 1 /\ inbound' = inbound
    BY <1>4 DEF Submit, TurnBegins
  <2>2. turns' \in 0..MaxTurns /\ 1..turns \subseteq 1..turns' /\ Known(inbound, turns')
    BY <1>3, <2>1, TabAssumption DEF Known
  <2>3. walk \in Walks(turns') /\ Known(walk.staged, turns') /\ asked \in 0..turns'
    BY <1>3, <2>1, <2>2 DEF TabInv, TabTypes, CountInv, Walks, Known
  <2>4. TabTypes' /\ CountInv'
    <3>1. TabTypes'
      BY <1>1, <1>3, <2>1, <2>2, <2>3 DEF TabInv, TabTypes, Connected
    <3>2. CountInv'
      BY <1>1, <1>3, <1>4, <2>1, <2>2, <2>3 DEF TabInv, CountInv
    <3>3. QED
      BY <3>1, <3>2
  <2>5. LineInv' /\ GoneInv' /\ PromptIsAnswered'
    BY <1>1, <1>2, <1>4, <2>1 DEF TabInv, LineInv, GoneInv, PromptIsAnswered, Connected
  <2>6. QED
    BY <2>4, <2>5 DEF TabInv
<1>5. CASE ~(linked /\ turn = "none")
  <2> DEFINE ms == <<Msg("answer")>>
  <2>1. inbound' = (IF linked THEN Append(inbound, Msg("answer")) ELSE inbound)
        /\ UNCHANGED <<turn, turns>>
    BY <1>5 DEF Submit
  <2>2. ms \in Seq(Messages) /\ Known(ms, turns) /\ \A i \in DOMAIN ms : ms[i].kind \in Plain
    BY DEF Msg, Messages, Known, Plain
  <2>3. Places(ms, "answer") # {}
    <3>1. 1 \in DOMAIN ms /\ ms[1].kind = "answer"
      BY DEF Msg
    <3>2. QED
      BY <3>1 DEF Places
  <2>4. linked => inbound' = inbound \o ms
    BY <1>3, <2>1 DEF Msg, Messages
  <2> HIDE DEF ms
  <2>5. /\ inbound' \in Seq(Messages) /\ Known(inbound', turns)
        /\ \A k \in {"initialized", "replayed", "exited"} : Places(inbound', k) = Places(inbound, k)
        /\ Awaited(inbound')
        /\ (~linked => inbound' = inbound)
    <3>1. CASE linked
      <4>1. /\ inbound \o ms \in Seq(Messages) /\ Known(inbound \o ms, turns)
            /\ \A k \in {"initialized", "replayed", "exited"} :
                 Places(inbound \o ms, k) = Places(inbound, k)
            /\ Places(inbound \o ms, "answer") # {}
        BY <1>3, <2>2, <2>3, PlainAppended
      <4>2. QED
        BY <2>4, <3>1, <4>1 DEF Awaited
    <3>2. CASE ~linked
      BY <1>2, <1>3, <2>1, <3>2 DEF Awaited
    <3>3. QED
      BY <3>1, <3>2
  <2>6. TabTypes' /\ CountInv'
    BY <1>1, <2>1, <2>5 DEF TabInv, TabTypes, CountInv, Connected
  <2>7. LineInv' /\ GoneInv'
    BY <1>1, <1>2, <2>1, <2>5 DEF TabInv, LineInv, GoneInv, Connected
  <2>8. PromptIsAnswered'
    BY <2>5 DEF PromptIsAnswered, Awaited, Places
  <2>9. QED
    BY <2>6, <2>7, <2>8 DEF TabInv
<1>6. QED
  BY <1>4, <1>5

---------------------------------------------------------------------------------
(* The way back. *)

\* A tab that dials is detached: it waits for nothing.
LEMMA DialSteps ==
    ASSUME TabInv, Attempt \/ Button \/ Dial \/ DialFailed
    PROVE  TabInv'
<1>1. UNCHANGED <<phase, wayBack, named, session, prompt, armed, linked, inbound, turn, turns,
                  asks, asked, walk, rearm, held>>
  BY DEF Attempt, Button, Dials, Dial, DialFailed, TabInv, GoneInv, lineVars, agentVars
<1>2. phase = "detached" /\ dialing' \in [st : {"none", "out", "failed", "got"}, at : 0..fresh' - 1]
  <2>1. fresh \in Nat /\ at \in Nat /\ at < fresh /\ session \in 0..fresh - 1
    BY DEF TabInv, TabTypes
  <2>2. CASE Attempt \/ Button
    BY <2>1, <2>2 DEF Attempt, Button, Dials, Thread, agentVars
  <2>3. CASE Dial
    BY <2>1, <2>3 DEF Dial, DialFails, AttachLive, AttachTcp, Thread, Got, TabInv, GoneInv
  <2>4. CASE DialFailed
    BY <2>1, <2>4 DEF DialFailed, Thread, agentVars, TabInv, GoneInv
  <2>5. QED
    BY <2>2, <2>3, <2>4
<1>3. /\ at' \in Nat /\ fresh' \in Nat /\ at' < fresh' /\ session' \in 0..fresh' - 1
      /\ alive' \in BOOLEAN
  <2>1. fresh \in Nat /\ at \in Nat /\ at < fresh /\ session \in 0..fresh - 1 /\ alive \in BOOLEAN
    BY DEF TabInv, TabTypes
  <2>2. CASE Attempt \/ Button \/ DialFailed
    BY <1>1, <2>1, <2>2 DEF Attempt, Button, Dials, DialFailed, agentVars
  <2>3. CASE Dial
    <3>1. session' = session
      BY <1>1
    <3>2. CASE DialFails \/ AttachLive
      BY <2>1, <3>1, <3>2 DEF DialFails, AttachLive
    <3>3. CASE AttachTcp
      <4>1. session \in Nat /\ session < fresh
        BY <2>1
      <4>2. /\ at' \in Nat /\ fresh' \in Nat /\ at' < fresh' /\ fresh <= fresh'
            /\ alive' = TRUE
        BY <2>1, <3>3, <4>1 DEF AttachTcp
      <4>3. \A u, n, m \in Nat : u < n /\ n <= m => u \in 0..m - 1
        OBVIOUS
      <4>4. session \in 0..fresh' - 1
        BY <2>1, <4>1, <4>2, <4>3
      <4>5. QED
        BY <3>1, <4>2, <4>4
    <3>4. QED
      BY <2>3, <3>2, <3>3 DEF Dial
  <2>4. QED
    BY <2>2, <2>3
<1>4. /\ attempts' \in 0..Attempts /\ due' \in BOOLEAN /\ (due' => attempts' < Attempts)
      /\ dials' \in 0..MaxDials
  <2>1. /\ attempts \in 0..Attempts /\ due \in BOOLEAN /\ (due => attempts < Attempts)
        /\ dials \in 0..MaxDials /\ Attempts \in Nat /\ MaxDials \in Nat
    BY TabAssumption DEF TabInv, TabTypes, CountInv
  <2>2. CASE Attempt \/ Button
    <3>1. /\ due' = FALSE /\ dials < MaxDials /\ dials' = dials + 1
          /\ (attempts' = 0 \/ (attempts < Attempts /\ attempts' = attempts + 1))
      BY <2>1, <2>2 DEF Attempt, Button, Dials
    <3>2. attempts' \in 0..Attempts /\ dials' \in 0..MaxDials
      BY <2>1, <3>1
    <3>3. QED
      BY <3>1, <3>2
  <2>4. CASE Dial
    BY <2>1, <2>4 DEF Dial, lineVars
  <2>5. CASE DialFailed
    <3>1. due' = (attempts < Attempts) /\ attempts' = attempts /\ dials' = dials
      BY <2>5 DEF DialFailed, lineVars
    <3>2. QED
      BY <2>1, <3>1
  <2>6. QED
    BY <2>2, <2>4, <2>5
<1>5. TabTypes'
  BY <1>1, <1>2, <1>3, <1>4 DEF TabInv, TabTypes
<1>6. CountInv'
  BY <1>1, <1>4 DEF TabInv, CountInv
<1>7. LineInv' /\ GoneInv' /\ PromptIsAnswered'
  BY <1>1, <1>2 DEF TabInv, LineInv, GoneInv, PromptIsAnswered, Connected
<1>8. QED
  BY <1>5, <1>6, <1>7 DEF TabInv

LEMMA AdoptSteps ==
    ASSUME TabInv, Adopt
    PROVE  TabInv'
<1>1. /\ dialing.st = "got" /\ dialing' = Thread("none") /\ session' = dialing.at
      /\ phase' = "initializing" /\ linked' = alive
      /\ inbound' = (IF alive THEN <<Msg("initialized")>> ELSE <<Msg("exited")>>)
      /\ UNCHANGED <<wayBack, named, attempts, due, prompt, armed, dials, agentVars>>
  BY DEF Adopt
<1>2. /\ ~prompt /\ ~walk.on /\ rearm = {} /\ held = {} /\ alive \in BOOLEAN
  BY <1>1 DEF TabInv, GoneInv, TabTypes
<1>3. /\ dialing' \in [st : {"none", "out", "failed", "got"}, at : 0..fresh - 1] /\ dialing'.st = "none"
      /\ session' \in 0..fresh - 1
  BY <1>1 DEF TabInv, TabTypes, Thread
<1>4. /\ inbound' \in Seq(Messages) /\ Len(inbound') = 1 /\ Known(inbound', turns)
      /\ inbound'[1] = IF alive THEN Msg("initialized") ELSE Msg("exited")
  <2>1. CASE alive
    BY <1>1, <2>1 DEF Msg, Messages, Known
  <2>2. CASE ~alive
    BY <1>1, <2>2 DEF Msg, Messages, Known
  <2>3. QED
    BY <2>1, <2>2
<1>5. /\ Places(inbound', "initialized") = (IF alive THEN {1} ELSE {})
      /\ Places(inbound', "exited") = (IF alive THEN {} ELSE {1})
      /\ Places(inbound', "replayed") = {}
  BY <1>4 DEF Places, Msg
<1>6. TabTypes' /\ CountInv'
  <2>1. TabTypes'
    BY <1>1, <1>2, <1>3, <1>4 DEF TabInv, TabTypes, agentVars, Connected
  <2>2. CountInv'
    BY <1>1, <1>4 DEF TabInv, CountInv, agentVars
  <2>3. QED
    BY <2>1, <2>2
<1>7. LineInv' /\ GoneInv' /\ PromptIsAnswered'
  BY <1>1, <1>2, <1>3, <1>4, <1>5 DEF TabInv, LineInv, GoneInv, PromptIsAnswered, agentVars
<1>8. QED
  BY <1>6, <1>7 DEF TabInv

LEMMA CloseSteps ==
    ASSUME TabInv, CloseTab
    PROVE  TabInv'
<1>1. /\ phase' = "closed" /\ inbound' = <<>> /\ armed' = {} /\ prompt' = FALSE
      /\ due' = FALSE /\ dialing' = Thread("none")
      /\ linked' = FALSE /\ walk' = Off /\ rearm' = {} /\ held' = {}
      /\ UNCHANGED <<named, session, attempts, dials, at, fresh, turns, asked>>
  BY DEF CloseTab, HangUp
<1>2. /\ wayBack' \in {"remote", "local", "none"} /\ alive' \in BOOLEAN /\ asks' \in BOOLEAN
      /\ turn' \in {"none", "theirs"} /\ (asks' => asks /\ turn' # "none")
      /\ (turn' # "none" => turn # "none")
  BY DEF CloseTab, LeaveAgent, StopAgent, TabInv, TabTypes, CountInv
<1>3. /\ turns \in Nat /\ inbound' \in Seq(Messages) /\ Known(inbound', turns)
      /\ \A k : Places(inbound', k) = {}
  BY <1>1 DEF Known, Places, TabInv, TabTypes
<1>4. Off \in Walks(turns) /\ ~Off.on /\ Known(Off.staged, turns) /\ DOMAIN Off.staged = {}
  BY <1>3, EmptySeq DEF Off, Walks, Known
<1>5. dialing' \in [st : {"none", "out", "failed", "got"}, at : 0..fresh - 1] /\ dialing'.st = "none"
  BY <1>1 DEF TabInv, TabTypes, Thread
<1>6. TabTypes' /\ CountInv'
  <2>1. TabTypes'
    BY <1>1, <1>2, <1>3, <1>4, <1>5 DEF TabInv, TabTypes
  <2>2. CountInv'
    BY <1>1, <1>2, <1>3, <1>4 DEF TabInv, CountInv
  <2>3. QED
    BY <2>1, <2>2
<1>7. LineInv' /\ GoneInv' /\ PromptIsAnswered'
  BY <1>1, <1>3, <1>4, <1>5 DEF TabInv, LineInv, GoneInv, PromptIsAnswered, Connected
<1>8. QED
  BY <1>6, <1>7 DEF TabInv

LEMMA TabInvariant == TabSpec => []TabInv
<1>1. TabInit => TabInv
  <2> SUFFICES ASSUME TabInit PROVE TabInv
    OBVIOUS
  <2>1. /\ inbound = <<Msg("initialized")>> /\ inbound \in Seq(Messages) /\ Len(inbound) = 1
        /\ inbound[1].kind = "initialized"
    BY DEF TabInit, Msg, Messages
  <2>2. /\ Places(inbound, "initialized") = {1} /\ Places(inbound, "exited") = {}
        /\ Places(inbound, "replayed") = {} /\ Known(inbound, 0)
    BY <2>1 DEF Places, Known
  <2>3. Off \in Walks(0) /\ ~Off.on /\ Known(Off.staged, 0) /\ DOMAIN Off.staged = {}
    BY EmptySeq DEF Off, Walks, Known
  <2>4. TabTypes
    <3>1. /\ session \in 0..fresh - 1 /\ at \in Nat /\ fresh \in Nat /\ at < fresh
          /\ dialing \in [st : {"none", "out", "failed", "got"}, at : 0..fresh - 1]
      BY DEF TabInit, Thread
    <3>2. attempts \in 0..Attempts /\ turns \in 0..MaxTurns /\ dials \in 0..MaxDials
      BY TabAssumption DEF TabInit
    <3>3. {named, due, prompt, linked, alive, asks} \subseteq BOOLEAN
      BY DEF TabInit
    <3>4. QED
      BY <2>1, <2>3, <3>1, <3>2, <3>3 DEF TabInit, TabTypes, Connected
  <2>5. CountInv /\ LineInv /\ GoneInv /\ PromptIsAnswered
    BY <2>1, <2>2, <2>3 DEF TabInit, CountInv, LineInv, GoneInv, PromptIsAnswered, Thread
  <2>6. QED
    BY <2>4, <2>5 DEF TabInv
<1>2. TabInv /\ [TabNext]_clientVars => TabInv'
  <2> SUFFICES ASSUME TabInv, [TabNext]_clientVars PROVE TabInv'
    OBVIOUS
  <2>1. CASE UNCHANGED clientVars
    BY <2>1 DEF clientVars, tabVars, lineVars, agentVars, TabInv, TabTypes, CountInv, LineInv,
       GoneInv, PromptIsAnswered
  <2>2. CASE TabNext
    BY <2>2, AgentSteps, PromptSteps, CatchUpEnds, HandOverSteps, UnlinkSteps, GreetingSteps,
       HeardSteps, EndSteps, SubmitSteps, DialSteps, AdoptSteps, CloseSteps DEF TabNext, Cancel
  <2>3. QED
    BY <2>1, <2>2
<1>3. QED
  BY <1>1, <1>2, PTL DEF TabSpec

(* session.rs:17-45: what each field of a tab may hold; one that is detached or closed has no
   message on its way, no dialog up and no prompt out. *)
THEOREM TabTypeCorrect == TabSpec => []TabTypeOK
<1>1. TabInv => TabTypeOK
  BY DEF TabInv, TabTypes, CountInv, GoneInv, TabTypeOK
<1>2. QED
  BY <1>1, TabInvariant, PTL

(* session.rs:353-357: a tab that waits for the end of its own prompt is going to hear of it,
   or of the end of its connection, however connections break, are made again and catch up. *)
THEOREM PromptsAreAnswered == TabSpec => []PromptIsAnswered
<1>1. TabInv => PromptIsAnswered
  BY DEF TabInv
<1>2. QED
  BY <1>1, TabInvariant, PTL
---------------------------------------------------------------------------------
(* Any number of agents, in the sessions of one user. *)

Ids == SessionIds \cup SubIds
Hows == {"new", "named", "continue", "context"}

\* A process that has not loaded kimi.json to save it yet, and one that has.
Arrived == [at : {"looking", "opening", "migrating", "creating", "running", "clearing", "dead"},
            dir : WorkDirs, how : Hows, id : Ids, known : Ids \cup {NoLast}, fd : {"none"}]
Settled == [at : {"saving", "writing", "renaming", "running", "clearing", "ending", "deleting",
                  "dead", "ended"},
            dir : WorkDirs, how : Hows, id : Ids, known : Ids \cup {NoLast},
            fd : {"none", "tmp", "real", "gone"}, then : {"running", "ended"}, seen : Metadata]

OnDisk == [legacy : BOOLEAN, dir : BOOLEAN, context : {"absent", "empty", "full"},
           wire : {"empty", "full"}]

StoreTypeInv ==
    /\ meta \in Metadata \cup {Torn} /\ tmp \in Metadata \cup {Torn, NoFile}
    /\ stored \in [Sessions -> OnDisk]
    /\ agent \in [Agents -> {Unbegun} \cup Arrived \cup Settled]
    /\ recorded.in \subseteq Sessions /\ shared \subseteq Sessions /\ overlapped \in BOOLEAN

Occupies(a) == agent[a].at \in Inside \cup {"deleting"} \cup Loaded
Sees(a) == agent[a].at \in Loaded \cup {"ending", "deleting"}
Knows(a) == agent[a].at \notin {"unbegun", "dead", "ended"}

\* What was said in a session nobody shared is there, in a directory.
DiskOf(s) ==
    /\ stored[s].legacy => s[2] \in SessionIds /\ s \in recorded.in
    /\ ~IsEmpty(s) => s \in recorded.in
    /\ s \notin shared => (stored[s].context # "absent" \/ stored[s].wire = "full" => stored[s].dir)
    /\ s \in recorded.in \ shared => HeldOf(s)
DiskInv == \A s \in Sessions : DiskOf(s)

\* Two in one session share it, and who is alone in one knows what is there.
AloneOf(a) ==
    /\ agent[a].at \in {"running", "ending", "deleting"} => stored[Here(a)].context # "absent"
    /\ agent[a].at \in Loaded /\ agent[a].then = "running" => stored[Here(a)].context # "absent"
    /\ agent[a].at \in {"ending", "deleting"} => agent[a].then = "ended"
    /\ agent[a].at = "deleting" => IsEmpty(Here(a))
    /\ agent[a].at = "clearing" => stored[Here(a)].wire = "full"
AloneInv ==
    /\ \A a, b \in Agents : a # b /\ Occupies(a) /\ Occupies(b) /\ Here(a) = Here(b) =>
         Here(a) \in shared
    /\ \A a \in Agents : Occupies(a) /\ Here(a) \notin shared => AloneOf(a)

\* What is in kimi.json of a directory, or may come to be: it is in the file beside it, or
\* with a process that writes it.
Holds(d, last) ==
    \/ meta[d] = last \/ tmp[d] = last
    \/ \E a \in Agents : Sees(a) /\ agent[a].seen[d] = last
Pointed(s) ==
    \/ Holds(s[1], s[2])
    \/ \E a \in Agents : Knows(a) /\ agent[a].dir = s[1] /\ agent[a].known = s[2]

\* It is a session in which something was said, and that is cleared at most.
Continues(s) ==
    s \in shared \/ (s \in recorded.in /\ (stored[s].context = "absent" \/ ~IsEmpty(s)))
PointedInv == \A s \in WorkDirs \X SessionIds : Pointed(s) => Continues(s)

\* A directory had an entry all along, and nothing makes a session there anew that is.
Untouched(s) == Legacy(s) /\ stored[s].wire # "full"
Entered(d) ==
    /\ ~Holds(d, NoEntry)
    /\ \A a \in Agents : agent[a].at = "creating" /\ agent[a].dir = d => ~stored[Here(a)].legacy

\* If not, no session of an earlier version is its last: one that is made anew is empty.
EntryInv ==
    \A d \in WorkDirs :
        \/ Entered(d)
        \/ \A id \in SessionIds :
              Untouched(<<d, id>>) /\ Pointed(<<d, id>>) => <<d, id>> \in shared

\* Who saves alone has the file beside kimi.json for itself.
SaveInv ==
    ~overlapped =>
        /\ meta # Torn
        /\ \A a, b \in Agents : Saving(a) /\ Saving(b) => a = b
        /\ \A a \in Agents : Saving(a) => agent[a].fd = "tmp"
        /\ \A a \in Agents : agent[a].at = "writing" => tmp = Torn
        /\ \A a \in Agents : agent[a].at = "renaming" => tmp \in Metadata

\* No mark is an identifier, and no file of marks is metadata.
LEMMA MarksDiffer ==
    /\ \A id \in Ids : id # "noEntry" /\ id # "noLast" /\ id # "torn" /\ id # "noFile"
    /\ Torn \notin Metadata /\ NoFile \notin Metadata /\ Torn # NoFile
    /\ \A d \in WorkDirs : Torn[d] = "torn" /\ NoFile[d] = "noFile"
<1>1. PICK d : d \in WorkDirs
  BY StoreAssumption
<1>2. \A id \in Ids : id # "noEntry" /\ id # "noLast" /\ id # "torn" /\ id # "noFile"
  BY StoreAssumption DEF Ids
<1>3. \A e \in WorkDirs : Torn[e] = "torn" /\ NoFile[e] = "noFile"
  BY DEF Torn, NoFile
<1>4. \A m \in Metadata : m[d] \in {"noEntry", "noLast"} \cup Ids
  BY <1>1 DEF Metadata, Ids, NoEntry, NoLast
<1>5. QED
  BY <1>1, <1>2, <1>3, <1>4

\* Who is inside is in a session.
LEMMA HereIsOne ==
    ASSUME StoreTypeInv, NEW a \in Agents, agent[a].at # "unbegun"
    PROVE  /\ agent[a] \in Arrived \cup Settled
           /\ agent[a].dir \in WorkDirs /\ agent[a].id \in Ids /\ Here(a) \in Sessions
           /\ Here(a)[1] = agent[a].dir /\ Here(a)[2] = agent[a].id
           /\ agent[a].known \in Ids \cup {NoLast}
           /\ Occupies(a) /\ agent[a].at \notin {"running", "clearing"} => agent[a] \in Settled
           /\ Sees(a) => agent[a] \in Settled /\ agent[a].seen \in Metadata
<1>1. agent[a] \in Arrived \cup Settled
  BY DEF StoreTypeInv, Unbegun
<1>2. agent[a].dir \in WorkDirs /\ agent[a].id \in Ids /\ agent[a].known \in Ids \cup {NoLast}
  BY <1>1 DEF Arrived, Settled
<1>3. Here(a) = <<agent[a].dir, agent[a].id>>
  BY DEF Here
<1>4. /\ Occupies(a) /\ agent[a].at \notin {"running", "clearing"} => agent[a] \in Settled
      /\ Sees(a) => agent[a] \in Settled
  BY <1>1 DEF Arrived, Settled, Occupies, Sees, Inside, Loaded
<1>5. Sees(a) => agent[a].seen \in Metadata
  BY <1>4 DEF Settled
<1>6. QED
  BY <1>1, <1>2, <1>3, <1>4, <1>5 DEF Sessions, Ids

\* One process has gone on, the others are where they were.
LEMMA OneGoesOn ==
    ASSUME StoreTypeInv, NEW a \in Agents, NEW r \in {Unbegun} \cup Arrived \cup Settled,
           agent' = [agent EXCEPT ![a] = r]
    PROVE  agent' \in [Agents -> {Unbegun} \cup Arrived \cup Settled]
BY DEF StoreTypeInv

LEMMA StoreTypeNext ==
    ASSUME StoreTypeInv, [StoreNext]_storeVars
    PROVE  StoreTypeInv'
<1> DEFINE AgentsOK == agent' \in [Agents -> {Unbegun} \cup Arrived \cup Settled]
<1> USE DEF KeepsFiles, KeepsStore, metaVars, storeVars, To, Panics
<1>1. ASSUME NEW a \in Agents, NEW d \in WorkDirs, NEW how \in Hows, NEW s \in Ids,
             Start(a, d, how, s)
      PROVE  StoreTypeInv'
  BY <1>1 DEF Start, StoreTypeInv, Arrived, Unbegun
<1>2. ASSUME NEW a \in Agents, Look(a) PROVE StoreTypeInv'
  <2>1. agent[a] \in Arrived
    BY <1>2 DEF Look, StoreTypeInv, Unbegun, Arrived, Settled
  <2>2. meta \in Metadata => meta[agent[a].dir] \in {NoEntry, NoLast} \cup Ids
    BY <2>1 DEF Metadata, Arrived, Ids
  <2> DEFINE last == meta[agent[a].dir]
             went == [agent[a] EXCEPT !.at = "opening", !.known = last,
                                      !.id = IF agent[a].how = "continue" THEN last ELSE @]
  <2>3. CASE agent' = [agent EXCEPT ![a] = went] /\ meta \in Metadata /\ last # NoEntry
             /\ ~(agent[a].how = "continue" /\ last = NoLast)
    <3>1. went \in Arrived
      BY <2>1, <2>2, <2>3 DEF Arrived
    <3>2. AgentsOK
      BY <2>3, <3>1 DEF StoreTypeInv
    <3>3. QED
      BY <1>2, <3>2 DEF Look, StoreTypeInv
  <2>4. CASE \E goes \in {"dead", "creating"} : agent' = [agent EXCEPT ![a].at = goes]
    <3>1. AgentsOK
      BY <2>1, <2>4 DEF Arrived, StoreTypeInv
    <3>2. QED
      BY <1>2, <3>1 DEF Look, StoreTypeInv
  <2>5. \/ \E goes \in {"dead", "creating"} : agent' = [agent EXCEPT ![a].at = goes]
        \/ /\ agent' = [agent EXCEPT ![a] = went] /\ meta \in Metadata /\ last # NoEntry
           /\ ~(agent[a].how = "continue" /\ last = NoLast)
    <3>1. CASE meta = Torn \/ last = NoEntry \/ (agent[a].how = "continue" /\ last = NoLast)
      BY <1>2, <3>1 DEF Look, NotFound
    <3>2. CASE ~(meta = Torn \/ last = NoEntry \/ (agent[a].how = "continue" /\ last = NoLast))
      <4>1. agent' = [agent EXCEPT ![a].at = "opening", ![a].known = last,
                                   ![a].id = IF agent[a].how = "continue" THEN last ELSE @]
        BY <1>2, <3>2 DEF Look
      <4>2. agent' = [agent EXCEPT ![a] = went]
        BY <2>1, <4>1 DEF StoreTypeInv, Arrived
      <4>3. QED
        BY <3>2, <4>2 DEF StoreTypeInv
    <3>3. QED
      BY <3>1, <3>2
  <2>6. QED
    BY <2>3, <2>4, <2>5
<1>3. ASSUME NEW a \in Agents, Open(a) PROVE StoreTypeInv'
  <2>1. agent[a] \in Arrived /\ Here(a) \in Sessions
    BY <1>3, HereIsOne DEF Open, StoreTypeInv, Unbegun, Arrived, Settled
  <2>2. Here(a)[2] = agent[a].id /\ agent[a].id \in Ids
    BY <2>1 DEF Here, Arrived
  <2>3. AgentsOK /\ stored' = stored /\ shared' \subseteq shared \cup {Here(a)}
    BY <1>3, <2>1, <2>2 DEF Open, NotFound, Enters, Arrived, StoreTypeInv
  <2>4. QED
    BY <1>3, <2>1, <2>3 DEF Open, StoreTypeInv
<1>4. ASSUME NEW a \in Agents, Migrate(a) PROVE StoreTypeInv'
  <2>1. agent[a] \in Arrived /\ Here(a) \in Sessions
    BY <1>4, HereIsOne DEF Migrate, StoreTypeInv, Unbegun, Arrived, Settled
  <2>2. Here(a)[2] = agent[a].id /\ agent[a].id \in Ids
    BY <2>1 DEF Here, Arrived
  <2>3. AgentsOK /\ shared' \subseteq shared \cup {Here(a)}
    BY <1>4, <2>1, <2>2 DEF Migrate, Enters, Arrived, StoreTypeInv
  <2>4. stored' \in [Sessions -> OnDisk]
    <3>1. stored[Here(a)] \in OnDisk
      BY <2>1 DEF StoreTypeInv
    <3>2. [stored[Here(a)] EXCEPT !.legacy = FALSE, !.dir = TRUE, !.context = "full"] \in OnDisk
      BY <3>1 DEF OnDisk
    <3>3. QED
      BY <1>4, <2>1, <3>2 DEF Migrate, StoreTypeInv
  <2>5. QED
    BY <1>4, <2>1, <2>3, <2>4 DEF Migrate, StoreTypeInv
<1>5. ASSUME NEW a \in Agents, CreateSession(a) PROVE StoreTypeInv'
  <2>1. agent[a] \in Arrived /\ Here(a) \in Sessions
    BY <1>5, HereIsOne DEF CreateSession, StoreTypeInv, Unbegun, Arrived, Settled
  <2>2. meta \in Metadata => meta[agent[a].dir] \in {NoEntry, NoLast} \cup Ids
    BY <2>1 DEF Metadata, Arrived, Ids
  <2>3. meta \in Metadata =>
          [meta EXCEPT ![agent[a].dir] = IF @ = NoEntry THEN NoLast ELSE @] \in Metadata
    BY <2>1, <2>2 DEF Metadata
  <2>4. AgentsOK
    BY <1>5, <2>1, <2>2, <2>3 DEF CreateSession, Arrived, Settled, StoreTypeInv
  <2>5. stored' \in [Sessions -> OnDisk]
    <3>1. stored[Here(a)] \in OnDisk
      BY <2>1 DEF StoreTypeInv
    <3>2. Create(stored[Here(a)]) \in OnDisk
      BY <3>1 DEF Create, OnDisk
    <3>3. QED
      BY <1>5, <2>1, <3>2 DEF CreateSession, StoreTypeInv
  <2>6. shared' \subseteq shared \cup {Here(a)}
    BY <1>5 DEF CreateSession
  <2>7. QED
    BY <1>5, <2>1, <2>4, <2>5, <2>6 DEF CreateSession, StoreTypeInv
<1>6. ASSUME NEW a \in Agents, OpenTmp(a) PROVE StoreTypeInv'
  <2>1. agent[a] \in Settled
    BY <1>6 DEF OpenTmp, StoreTypeInv, Unbegun, Arrived
  <2>2. AgentsOK
    BY <1>6, <2>1 DEF OpenTmp, Settled, StoreTypeInv
  <2>3. QED
    BY <1>6, <2>2 DEF OpenTmp, StoreTypeInv
<1>7. ASSUME NEW a \in Agents, WriteTmp(a) PROVE StoreTypeInv'
  <2>1. agent[a] \in Settled
    BY <1>7 DEF WriteTmp, StoreTypeInv, Unbegun, Arrived
  <2>2. AgentsOK
    BY <1>7, <2>1 DEF WriteTmp, Settled, StoreTypeInv
  <2>3. agent[a].seen \in Metadata
    BY <2>1 DEF Settled
  <2>4. QED
    BY <1>7, <2>2, <2>3 DEF WriteTmp, Written, StoreTypeInv
<1>8. ASSUME NEW a \in Agents, RenameTmp(a) PROVE StoreTypeInv'
  <2>1. agent[a] \in Settled /\ agent[a].then \in {"running", "ended"}
    BY <1>8 DEF RenameTmp, StoreTypeInv, Unbegun, Arrived, Settled
  <2>2. /\ [agent[a] EXCEPT !.at = agent[a].then, !.fd = "none"] \in Settled
        /\ [agent[a] EXCEPT !.at = agent[a].then] \in Settled
    BY <2>1 DEF Settled
  <2>3. ASSUME NEW b \in Agents, Saving(b) PROVE [agent[b] EXCEPT !.fd = Follows(@)] \in Settled
    <3>1. agent[b] \in Settled
      BY <2>3 DEF Saving, StoreTypeInv, Unbegun, Arrived
    <3>2. Follows(agent[b].fd) \in {"none", "tmp", "real", "gone"}
      BY <3>1 DEF Follows, Settled
    <3>3. QED
      BY <3>1, <3>2 DEF Settled
  <2>4. AgentsOK
    <3>1. CASE tmp = NoFile
      BY <1>8, <2>2, <3>1 DEF RenameTmp, StoreTypeInv
    <3>2. CASE tmp # NoFile
      BY <1>8, <2>2, <2>3, <3>2 DEF RenameTmp, StoreTypeInv
    <3>3. QED
      BY <3>1, <3>2
  <2>5. QED
    BY <1>8, <2>4 DEF RenameTmp, StoreTypeInv
<1>9. ASSUME NEW a \in Agents, SaveFails(a) PROVE StoreTypeInv'
  <2>1. agent[a] \in Settled
    BY <1>9 DEF SaveFails, StoreTypeInv, Unbegun, Arrived
  <2>2. AgentsOK
    BY <1>9, <2>1 DEF SaveFails, Settled, StoreTypeInv
  <2>3. QED
    BY <1>9, <2>2 DEF SaveFails, StoreTypeInv
<1>10. ASSUME NEW a \in Agents, NEW both \in BOOLEAN, Record(a, both) PROVE StoreTypeInv'
  <2>1. Here(a) \in Sessions
    BY <1>10, HereIsOne DEF Record
  <2>2. stored' \in [Sessions -> OnDisk]
    <3>1. stored[Here(a)] \in OnDisk
      BY <2>1 DEF StoreTypeInv
    <3>2. [stored[Here(a)] EXCEPT !.wire = "full", !.dir = TRUE,
                                  !.context = IF both THEN "full" ELSE @] \in OnDisk
      BY <3>1 DEF OnDisk
    <3>3. QED
      BY <1>10, <2>1, <3>2 DEF Record, StoreTypeInv
  <2>3. QED
    BY <1>10, <2>1, <2>2 DEF Record, StoreTypeInv
<1>11. ASSUME NEW a \in Agents, Clear(a) \/ Cleared(a) PROVE StoreTypeInv'
  <2>1. agent[a] \in Arrived \cup Settled /\ Here(a) \in Sessions
    BY <1>11, HereIsOne DEF Clear, Cleared
  <2>2. AgentsOK
    BY <1>11, <2>1 DEF Clear, Cleared, Arrived, Settled, StoreTypeInv
  <2>3. stored' \in [Sessions -> OnDisk]
    BY <1>11, <2>1 DEF Clear, Cleared, OnDisk, StoreTypeInv
  <2>4. QED
    BY <1>11, <2>2, <2>3 DEF Clear, Cleared, StoreTypeInv
<1>12. ASSUME NEW a \in Agents, LoadToEnd(a) PROVE StoreTypeInv'
  <2>1. agent[a] \in Arrived \cup Settled
    BY <1>12, HereIsOne DEF LoadToEnd
  <2>2. AgentsOK
    BY <1>12, <2>1 DEF LoadToEnd, Arrived, Settled, StoreTypeInv
  <2>3. QED
    BY <1>12, <2>2 DEF LoadToEnd, StoreTypeInv
<1>13. ASSUME NEW a \in Agents, Judge(a) PROVE StoreTypeInv'
  <2> DEFINE last == IF agent[a].seen[agent[a].dir] = NoEntry THEN agent[a].known
                     ELSE agent[a].seen[agent[a].dir]
             said == [agent[a].seen EXCEPT ![agent[a].dir] = agent[a].id]
             none == [agent[a].seen EXCEPT ![agent[a].dir] =
                        IF last = agent[a].id THEN NoLast ELSE last]
  <2>1. /\ agent[a] \in Settled /\ agent[a].seen \in Metadata /\ agent[a].dir \in WorkDirs
        /\ agent[a].id \in Ids /\ agent[a].known \in Ids \cup {NoLast}
    BY <1>13, HereIsOne DEF Judge, Sees
  <2>2. last \in {NoEntry, NoLast} \cup Ids
    BY <2>1 DEF Metadata, Ids
  <2>3. said \in Metadata /\ none \in Metadata
    BY <2>1, <2>2 DEF Metadata, Ids
  <2>4. \/ agent' = [agent EXCEPT ![a] = [agent[a] EXCEPT !.at = "saving", !.seen = said]]
        \/ agent' = [agent EXCEPT ![a] = [agent[a] EXCEPT !.at = "deleting", !.seen = none]]
    <3>1. CASE ~IsEmpty(Here(a))
      <4>1. agent' = [agent EXCEPT ![a].at = "saving", ![a].seen[agent[a].dir] = agent[a].id]
        BY <1>13, <3>1 DEF Judge
      <4>2. agent' = [agent EXCEPT ![a] = [agent[a] EXCEPT !.at = "saving", !.seen = said]]
        BY <2>1, <4>1 DEF Settled, StoreTypeInv
      <4>3. QED
        BY <4>2
    <3>2. CASE IsEmpty(Here(a))
      <4>1. agent' = [agent EXCEPT ![a].at = "deleting",
                                   ![a].seen[agent[a].dir] = IF last = agent[a].id THEN NoLast
                                                             ELSE last]
        BY <1>13, <3>2 DEF Judge
      <4>2. agent' = [agent EXCEPT ![a] = [agent[a] EXCEPT !.at = "deleting", !.seen = none]]
        BY <2>1, <4>1 DEF Settled, StoreTypeInv
      <4>3. QED
        BY <4>2
    <3>3. QED
      BY <3>1, <3>2
  <2> HIDE DEF said, none
  <2>5. ASSUME NEW goes \in {"saving", "deleting"}, NEW m \in Metadata
        PROVE  [agent[a] EXCEPT !.at = goes, !.seen = m] \in Settled
    BY <2>1, <2>5 DEF Settled
  <2>6. AgentsOK
    BY <2>3, <2>4, <2>5 DEF StoreTypeInv
  <2>7. QED
    BY <1>13, <2>6 DEF Judge, StoreTypeInv
<1>14. ASSUME NEW a \in Agents, Delete(a) PROVE StoreTypeInv'
  <2>1. agent[a] \in Settled /\ Here(a) \in Sessions
    BY <1>14, HereIsOne DEF Delete, Sees
  <2>2. AgentsOK
    BY <1>14, <2>1 DEF Delete, Settled, StoreTypeInv
  <2>3. stored' \in [Sessions -> OnDisk]
    BY <1>14, <2>1 DEF Delete, OnDisk, Nothing, StoreTypeInv
  <2>4. QED
    BY <1>14, <2>2, <2>3 DEF Delete, StoreTypeInv
<1>15. ASSUME NEW a \in Agents, Crash(a) PROVE StoreTypeInv'
  <2>1. agent[a] \in Arrived \cup Settled
    BY <1>15, HereIsOne DEF Crash
  <2>2. AgentsOK
    BY <1>15, <2>1 DEF Crash, Arrived, Settled, StoreTypeInv
  <2>3. QED
    BY <1>15, <2>2 DEF Crash, StoreTypeInv
<1>16. CASE UNCHANGED storeVars
  BY <1>16 DEF StoreTypeInv
<1>17. QED
  BY <1>1, <1>2, <1>3, <1>4, <1>5, <1>6, <1>7, <1>8, <1>9, <1>10, <1>11, <1>12, <1>13, <1>14,
     <1>15, <1>16 DEF StoreNext, Ids, Hows

\* A step of one process, in the session here: the others stay where they are, nothing else
\* changes on the disk, and where it comes to, or changes something, it is alone or shares it.
Goes(a, here) ==
    /\ here \in Sessions
    /\ \A b \in Agents \ {a} :
         /\ agent'[b].at = agent[b].at
         /\ Occupies(b) => Here(b)' = Here(b)
         /\ agent[b].at = "creating" => agent'[b] = agent[b]
         /\ Sees(b) => agent'[b].then = agent[b].then
    /\ Occupies(a)' \/ agent'[a].at = "creating" => Here(a)' = here
    /\ \A s \in Sessions \ {here} : stored'[s] = stored[s]
    /\ stored'[here].legacy => stored[here].legacy
    /\ recorded.in \subseteq recorded'.in /\ recorded'.in \subseteq recorded.in \cup {here}
    /\ shared \subseteq shared'
    /\ \/ stored'[here] = stored[here] /\ (Occupies(a)' => Occupies(a) /\ Here(a) = here)
       \/ here \in shared'
       \/ \A b \in Agents \ {a} : Occupies(b) => Here(b) # here

LEMMA DiskKept ==
    ASSUME DiskInv, NEW a \in Agents, NEW here \in Sessions, Goes(a, here), DiskOf(here)'
    PROVE  DiskInv'
<1> SUFFICES ASSUME NEW s \in Sessions, s # here PROVE DiskOf(s)'
  BY DEF DiskInv, Sessions
<1>1. DiskOf(s) /\ stored'[s] = stored[s]
  BY DEF DiskInv, Goes
<1>2. QED
  BY <1>1 DEF DiskOf, Goes, HeldOf, IsEmpty

LEMMA AloneKept ==
    ASSUME StoreTypeInv, AloneInv, NEW a \in Agents, NEW here \in Sessions, Goes(a, here),
           (Occupies(a) /\ Here(a) = here /\ here \notin shared => AloneOf(a)) =>
               (Occupies(a) /\ here \notin shared => AloneOf(a))'
    PROVE  AloneInv'
<1>1. ASSUME NEW b \in Agents \ {a}, Occupies(b)'
      PROVE  /\ Occupies(b) /\ Here(b)' = Here(b) /\ agent'[b].at = agent[b].at
             /\ Sees(b) => agent'[b].then = agent[b].then
             /\ Here(b) \in Sessions
  <2>1. Occupies(b)
    BY <1>1 DEF Goes, Occupies
  <2>2. QED
    BY <1>1, <2>1, HereIsOne DEF Goes, Occupies, Inside, Loaded
<1>2. ASSUME NEW b \in Agents \ {a}, Occupies(b)', Occupies(a)', Here(b)' = Here(a)'
      PROVE  here \in shared'
  BY <1>1, <1>2 DEF Goes, AloneInv
<1>3. ASSUME NEW b \in Agents \ {a}, NEW c \in Agents \ {a}, b # c, Occupies(b)', Occupies(c)',
             Here(b)' = Here(c)'
      PROVE  Here(b)' \in shared'
  BY <1>1, <1>3 DEF Goes, AloneInv
<1>4. ASSUME NEW b \in Agents \ {a}, Occupies(b)', Here(b)' \notin shared'
      PROVE  AloneOf(b)'
  <2>1. AloneOf(b)
    BY <1>1, <1>4 DEF AloneInv, Goes
  <2>2. stored'[Here(b)] = stored[Here(b)]
    BY <1>1, <1>4 DEF Goes
  <2>3. QED
    BY <1>1, <1>4, <2>1, <2>2 DEF AloneOf, IsEmpty, Sees
<1>5. Occupies(a)' => Here(a)' = here
  BY DEF Goes
<1>6. Occupies(a)' /\ here \notin shared' => AloneOf(a)'
  <2>1. Occupies(a) /\ Here(a) = here /\ here \notin shared => AloneOf(a)
    BY DEF AloneInv
  <2>2. QED
    BY <2>1
<1>7. QED
  BY <1>2, <1>3, <1>4, <1>5, <1>6 DEF AloneInv

LEMMA PointedKept ==
    ASSUME StoreTypeInv, PointedInv, NEW a \in Agents, NEW here \in Sessions, Goes(a, here),
           \A s \in WorkDirs \X SessionIds : Pointed(s)' => Pointed(s) \/ Continues(s)',
           Pointed(here) /\ Continues(here) => Continues(here)'
    PROVE  PointedInv'
<1> SUFFICES ASSUME NEW s \in WorkDirs \X SessionIds, Pointed(s), s # here PROVE Continues(s)'
  BY DEF PointedInv
<1>1. Continues(s) /\ stored'[s] = stored[s]
  BY DEF PointedInv, Goes, Sessions
<1>2. QED
  BY <1>1 DEF Continues, Goes, IsEmpty

LEMMA EntryKept ==
    ASSUME StoreTypeInv, EntryInv, NEW a \in Agents, NEW here \in Sessions, Goes(a, here),
           \A d \in WorkDirs : Holds(d, NoEntry)' => Holds(d, NoEntry),
           \A s \in WorkDirs \X SessionIds : Pointed(s)' => Pointed(s) \/ ~Untouched(s)',
           Untouched(here)' => Untouched(here) \/ ~Pointed(here) \/ here \in shared',
           agent'[a].at = "creating" =>
               \/ agent[a].at = "creating" /\ Here(a) = here
               \/ ~stored'[here].legacy \/ Holds(here[1], NoEntry)
    PROVE  EntryInv'
<1> SUFFICES ASSUME NEW d \in WorkDirs
             PROVE  \/ Entered(d)'
                    \/ \A id \in SessionIds :
                          Untouched(<<d, id>>)' /\ Pointed(<<d, id>>)' => <<d, id>> \in shared'
  BY DEF EntryInv
<1>1. CASE Entered(d)
  <2>1. ~Holds(d, NoEntry)'
    BY <1>1 DEF Entered
  <2>2. ASSUME NEW b \in Agents, agent'[b].at = "creating", agent'[b].dir = d
        PROVE  ~stored'[Here(b)'].legacy
    <3>1. CASE b = a
      <4>1. Here(a)' = here /\ here[1] = d
        BY <2>2, <3>1 DEF Goes, Here
      <4>2. QED
        BY <1>1, <2>2, <3>1, <4>1 DEF Entered, Goes, Here
    <3>2. CASE b # a
      <4>1. agent[b].at = "creating" /\ agent'[b] = agent[b] /\ Here(b)' = Here(b)
        BY <2>2, <3>2 DEF Goes, Here
      <4>2. Here(b) \in Sessions /\ ~stored[Here(b)].legacy
        BY <1>1, <2>2, <4>1, HereIsOne DEF Entered
      <4>3. QED
        BY <4>1, <4>2 DEF Goes
    <3>3. QED
      BY <3>1, <3>2
  <2>3. QED
    BY <2>1, <2>2 DEF Entered
<1>2. CASE ~Entered(d)
  <2> SUFFICES ASSUME NEW id \in SessionIds, Untouched(<<d, id>>)', Pointed(<<d, id>>)'
               PROVE  <<d, id>> \in shared'
    OBVIOUS
  <2> DEFINE s == <<d, id>>
  <2>1. s \in WorkDirs \X SessionIds /\ s \in Sessions
    BY DEF Sessions
  <2>2. Untouched(s) /\ Pointed(s) => s \in shared
    BY <1>2 DEF EntryInv
  <2> HIDE DEF s
  <2>3. Pointed(s)
    BY <2>1 DEF s
  <2>4. Untouched(s) \/ s \in shared'
    BY <2>1, <2>3 DEF s, Goes, Untouched, Legacy
  <2>5. QED
    BY <2>2, <2>3, <2>4 DEF s, Goes
<1>3. QED
  BY <1>1, <1>2

\* The files and the processes hold what they held, or what this process brings.
Brings(a, d, last) ==
    /\ meta'[d] = last => Holds(d, last)
    /\ tmp'[d] = last => Holds(d, last)
    /\ Sees(a)' /\ agent'[a].seen[d] = last => Holds(d, last)
    /\ \A b \in Agents \ {a} : Sees(b)' => Sees(b) /\ agent'[b].seen = agent[b].seen
    /\ \A b \in Agents \ {a} : Knows(b)' =>
         Knows(b) /\ agent'[b].known = agent[b].known /\ agent'[b].dir = agent[b].dir
    /\ Knows(a)' /\ agent'[a].known = last /\ agent'[a].dir = d =>
         Holds(d, last) \/ (Knows(a) /\ agent[a].known = last /\ agent[a].dir = d)

LEMMA PointsKept ==
    ASSUME NEW a \in Agents, NEW d \in WorkDirs, NEW last, Brings(a, d, last)
    PROVE  /\ Holds(d, last)' => Holds(d, last)
           /\ Pointed(<<d, last>>)' => Pointed(<<d, last>>)
<1>1. Holds(d, last)' => Holds(d, last)
  <2>1. ASSUME NEW b \in Agents, Sees(b)', agent'[b].seen[d] = last PROVE Holds(d, last)
    BY <2>1 DEF Brings, Holds
  <2>2. QED
    BY <2>1 DEF Brings, Holds
<1>2. ASSUME NEW b \in Agents, Knows(b)', agent'[b].known = last, agent'[b].dir = d
      PROVE  Pointed(<<d, last>>)
  BY <1>2 DEF Brings, Pointed
<1>3. QED
  BY <1>1, <1>2 DEF Pointed

\* What a process does that only goes on,
LEMMA AtChanges ==
    ASSUME StoreTypeInv, NEW a \in Agents, agent[a].at # "unbegun", NEW goes, To(a, goes)
    PROVE  /\ agent'[a].at = goes /\ agent'[a].dir = agent[a].dir /\ agent'[a].id = agent[a].id
           /\ agent'[a].known = agent[a].known /\ agent'[a].fd = agent[a].fd
           /\ agent[a] \in Settled =>
                agent'[a].then = agent[a].then /\ agent'[a].seen = agent[a].seen
           /\ Here(a)' = Here(a)
           /\ \A b \in Agents \ {a} : agent'[b] = agent[b]
<1>1. agent[a] \in Arrived \cup Settled /\ DOMAIN agent = Agents
  BY HereIsOne DEF StoreTypeInv
<1>2. /\ agent'[a] = [agent[a] EXCEPT !.at = goes]
      /\ \A b \in Agents \ {a} : agent'[b] = agent[b]
  BY <1>1 DEF To
<1>3. CASE agent[a] \in Arrived
  <2>1. /\ agent'[a].at = goes /\ agent'[a].dir = agent[a].dir /\ agent'[a].id = agent[a].id
        /\ agent'[a].known = agent[a].known /\ agent'[a].fd = agent[a].fd
    BY <1>2, <1>3 DEF Arrived
  <2>2. agent[a] \notin Settled
    BY <1>3 DEF Arrived, Settled
  <2>3. QED
    BY <1>2, <2>1, <2>2 DEF Here
<1>4. CASE agent[a] \in Settled
  <2>1. /\ agent'[a].at = goes /\ agent'[a].dir = agent[a].dir /\ agent'[a].id = agent[a].id
        /\ agent'[a].known = agent[a].known /\ agent'[a].fd = agent[a].fd
        /\ agent'[a].then = agent[a].then /\ agent'[a].seen = agent[a].seen
    BY <1>2, <1>4 DEF Settled
  <2>2. QED
    BY <1>2, <2>1 DEF Here
<1>5. QED
  BY <1>1, <1>3, <1>4

\* one that enters the session it found,
LEMMA EntersDoes ==
    ASSUME StoreTypeInv, NEW a \in Agents, agent[a].at \in {"opening", "migrating"},
           Enters(a, Here(a))
    PROVE  /\ agent'[a].at = "running" /\ agent'[a].dir = agent[a].dir
           /\ agent'[a].id = agent[a].id /\ agent'[a].known = agent[a].known
           /\ Here(a)' = Here(a)
           /\ \A b \in Agents \ {a} : agent'[b] = agent[b]
<1>1. agent[a] \in Arrived /\ DOMAIN agent = Agents
  BY DEF StoreTypeInv, Unbegun, Settled
<1>2. Here(a)[2] = agent[a].id
  BY DEF Here
<1>3. /\ agent'[a] = [agent[a] EXCEPT !.at = "running", !.id = agent[a].id]
      /\ \A b \in Agents \ {a} : agent'[b] = agent[b]
  BY <1>1, <1>2 DEF Enters
<1>4. QED
  BY <1>1, <1>3 DEF Arrived, Here

\* one that looks for a session,
LEMMA LookDoes ==
    ASSUME StoreTypeInv, NEW a \in Agents, Look(a)
    PROVE  /\ \A b \in Agents \ {a} : agent'[b] = agent[b]
           /\ \/ agent'[a].at = "dead"
              \/ /\ agent'[a].at = "creating" /\ meta[agent[a].dir] = NoEntry
                 /\ agent'[a].dir = agent[a].dir /\ agent'[a].known = agent[a].known
                 /\ Here(a)' = Here(a)
              \/ /\ agent'[a].at = "opening" /\ agent'[a].dir = agent[a].dir
                 /\ agent'[a].known = meta[agent[a].dir]
<1>1. agent[a] \in Arrived /\ DOMAIN agent = Agents /\ agent[a].at = "looking"
  BY DEF Look, StoreTypeInv, Unbegun, Settled
<1> DEFINE last == meta[agent[a].dir]
<1>2. CASE meta = Torn \/ last = NoEntry \/ (agent[a].how = "continue" /\ last = NoLast)
  <2>1. To(a, "dead") \/ (To(a, "creating") /\ last = NoEntry)
    BY <1>2 DEF Look, NotFound, Panics
  <2>2. agent[a].at # "unbegun"
    BY <1>1
  <2>3. CASE To(a, "dead")
    BY <2>2, <2>3, AtChanges
  <2>4. CASE To(a, "creating") /\ last = NoEntry
    BY <2>2, <2>4, AtChanges
  <2>5. QED
    BY <2>1, <2>3, <2>4
<1>3. CASE ~(meta = Torn \/ last = NoEntry \/ (agent[a].how = "continue" /\ last = NoLast))
  <2>1. agent' = [agent EXCEPT ![a].at = "opening", ![a].known = last,
                               ![a].id = IF agent[a].how = "continue" THEN last ELSE @]
    BY <1>3 DEF Look
  <2>2. QED
    BY <1>1, <2>1 DEF Arrived
<1>4. QED
  BY <1>2, <1>3

\* one that makes a session, or that ends,
LEMMA CreateDoes ==
    ASSUME StoreTypeInv, NEW a \in Agents, CreateSession(a), meta # Torn
    PROVE  /\ agent'[a].at = "saving" /\ agent'[a].then = "running"
           /\ agent'[a].dir = agent[a].dir /\ agent'[a].id = agent[a].id
           /\ agent'[a].known \in {meta[agent[a].dir], NoLast}
           /\ \A d \in WorkDirs : agent'[a].seen[d] \in {meta[d], NoLast}
           /\ agent'[a].seen[agent[a].dir] # NoEntry
           /\ \A d \in WorkDirs \ {agent[a].dir} : agent'[a].seen[d] = meta[d]
           /\ Here(a)' = Here(a) /\ agent[a].at = "creating"
           /\ \A b \in Agents \ {a} : agent'[b] = agent[b]
<1>1. /\ DOMAIN agent = Agents /\ meta \in [WorkDirs -> {NoEntry, NoLast} \cup SessionIds \cup SubIds]
      /\ NoEntry # NoLast
  BY DEF StoreTypeInv, Metadata, NoEntry, NoLast
<1>2. agent[a].at = "creating" /\ agent[a].dir \in WorkDirs
  BY HereIsOne DEF CreateSession
<1> DEFINE d == agent[a].dir
           seen == [meta EXCEPT ![d] = IF @ = NoEntry THEN NoLast ELSE @]
           saving == [at |-> "saving", dir |-> d, how |-> agent[a].how, id |-> agent[a].id,
                      fd |-> "none", known |-> IF meta[d] = NoEntry THEN NoLast ELSE meta[d],
                      then |-> "running", seen |-> seen]
<1>3. agent' = [agent EXCEPT ![a] = saving]
  BY DEF CreateSession
<1>4. /\ \A e \in WorkDirs : seen[e] \in {meta[e], NoLast}
      /\ seen[d] # NoEntry /\ \A e \in WorkDirs \ {d} : seen[e] = meta[e]
  BY <1>1, <1>2
<1> HIDE DEF seen
<1>5. /\ agent'[a] = saving /\ \A b \in Agents \ {a} : agent'[b] = agent[b]
  BY <1>1, <1>3
<1>6. QED
  BY <1>2, <1>4, <1>5 DEF Here

LEMMA LoadDoes ==
    ASSUME StoreTypeInv, NEW a \in Agents, LoadToEnd(a), meta # Torn
    PROVE  /\ agent'[a].at = "ending" /\ agent'[a].then = "ended"
           /\ agent'[a].dir = agent[a].dir /\ agent'[a].id = agent[a].id
           /\ agent'[a].known = agent[a].known /\ agent'[a].seen = meta
           /\ Here(a)' = Here(a) /\ agent[a].at = "running"
           /\ \A b \in Agents \ {a} : agent'[b] = agent[b]
BY DEF LoadToEnd, Here, StoreTypeInv

\* one that judges what it leaves,
LEMMA JudgeDoes ==
    ASSUME StoreTypeInv, NEW a \in Agents, Judge(a)
    PROVE  /\ agent[a].at = "ending" /\ agent'[a].dir = agent[a].dir
           /\ agent'[a].id = agent[a].id /\ agent'[a].known = agent[a].known
           /\ agent'[a].then = agent[a].then /\ Here(a)' = Here(a)
           /\ \/ ~IsEmpty(Here(a)) /\ agent'[a].at = "saving"
                 /\ agent'[a].seen[agent[a].dir] = agent[a].id
              \/ IsEmpty(Here(a)) /\ agent'[a].at = "deleting"
                 /\ \/ agent'[a].seen[agent[a].dir] \in {NoLast, agent[a].known}
                    \/ /\ agent[a].seen[agent[a].dir] # NoEntry
                       /\ agent'[a].seen[agent[a].dir] = agent[a].seen[agent[a].dir]
           /\ \A d \in WorkDirs \ {agent[a].dir} : agent'[a].seen[d] = agent[a].seen[d]
           /\ \A b \in Agents \ {a} : agent'[b] = agent[b]
<1>1. agent[a].at = "ending" /\ DOMAIN agent = Agents
  BY DEF Judge, StoreTypeInv
<1>2. agent[a] \in Settled /\ agent[a].dir \in WorkDirs /\ agent[a].seen \in Metadata
  BY <1>1, HereIsOne DEF Sees
<1>3. DOMAIN agent[a].seen = WorkDirs
  BY <1>2 DEF Metadata
<1> DEFINE last == IF agent[a].seen[agent[a].dir] = NoEntry THEN agent[a].known
                   ELSE agent[a].seen[agent[a].dir]
<1>4. ASSUME NEW goes, NEW to,
             agent' = [agent EXCEPT ![a].at = goes, ![a].seen[agent[a].dir] = to]
      PROVE  /\ agent'[a].at = goes /\ agent'[a].dir = agent[a].dir
             /\ agent'[a].id = agent[a].id /\ agent'[a].known = agent[a].known
             /\ agent'[a].then = agent[a].then /\ Here(a)' = Here(a)
             /\ agent'[a].seen[agent[a].dir] = to
             /\ \A d \in WorkDirs \ {agent[a].dir} : agent'[a].seen[d] = agent[a].seen[d]
             /\ \A b \in Agents \ {a} : agent'[b] = agent[b]
  BY <1>1, <1>2, <1>3, <1>4 DEF Settled, Here
<1>5. CASE ~IsEmpty(Here(a))
  <2>1. agent' = [agent EXCEPT ![a].at = "saving", ![a].seen[agent[a].dir] = agent[a].id]
    BY <1>5 DEF Judge
  <2>2. QED
    BY <1>1, <1>4, <1>5, <2>1
<1>6. CASE IsEmpty(Here(a))
  <2>1. PICK to : to = IF last = agent[a].id THEN NoLast ELSE last
    OBVIOUS
  <2>2. agent' = [agent EXCEPT ![a].at = "deleting", ![a].seen[agent[a].dir] = to]
    BY <1>6, <2>1 DEF Judge
  <2>3. to = NoLast \/ to = agent[a].known \/ (agent[a].seen[agent[a].dir] # NoEntry
                                            /\ to = agent[a].seen[agent[a].dir])
    BY <2>1
  <2>4. /\ agent'[a].at = "deleting" /\ agent'[a].dir = agent[a].dir
        /\ agent'[a].id = agent[a].id /\ agent'[a].known = agent[a].known
        /\ agent'[a].then = agent[a].then /\ Here(a)' = Here(a)
        /\ agent'[a].seen[agent[a].dir] = to
        /\ \A d \in WorkDirs \ {agent[a].dir} : agent'[a].seen[d] = agent[a].seen[d]
        /\ \A b \in Agents \ {a} : agent'[b] = agent[b]
    BY <1>4, <2>2
  <2> HIDE DEF last
  <2>5. QED
    BY <1>1, <1>6, <2>3, <2>4
<1>7. QED
  BY <1>5, <1>6

\* and one that gives the file beside kimi.json its name, or finds that another has.
LEMMA RenameDoes ==
    ASSUME StoreTypeInv, NEW a \in Agents, RenameTmp(a)
    PROVE  /\ agent[a].at = "renaming" /\ agent'[a].at = agent[a].then
           /\ agent[a].then \in {"running", "ended"} /\ agent'[a].then = agent[a].then
           /\ agent'[a].known = agent[a].known
           /\ \A b \in Agents : /\ agent'[b].dir = agent[b].dir /\ Here(b)' = Here(b)
           /\ \A b \in Agents \ {a} :
                /\ agent'[b].at = agent[b].at /\ agent'[b].known = agent[b].known
                /\ Saving(b) \/ agent'[b] = agent[b]
                /\ Saving(b) => agent'[b].then = agent[b].then /\ agent'[b].seen = agent[b].seen
           /\ UNCHANGED <<stored, recorded, shared, overlapped>>
           /\ \/ tmp = NoFile /\ UNCHANGED <<meta, tmp>>
              \/ tmp # NoFile /\ meta' = tmp /\ tmp' = NoFile
<1>1. /\ agent[a].at = "renaming" /\ DOMAIN agent = Agents
      /\ UNCHANGED <<stored, recorded, shared, overlapped>>
  BY DEF RenameTmp, StoreTypeInv, KeepsStore
<1>2. agent[a] \in Settled
  BY <1>1 DEF StoreTypeInv, Unbegun, Arrived
<1>3. agent[a].then \in {"running", "ended"}
  BY <1>2 DEF Settled
<1>4. CASE tmp = NoFile
  <2>1. To(a, agent[a].then) /\ UNCHANGED <<meta, tmp>>
    BY <1>4 DEF RenameTmp
  <2>2. QED
    BY <1>1, <1>2, <1>3, <1>4, <2>1, AtChanges DEF Here
<1>5. CASE tmp # NoFile
  <2>1. /\ meta' = tmp /\ tmp' = NoFile
        /\ agent'[a] = [agent[a] EXCEPT !.at = agent[a].then, !.fd = "none"]
        /\ \A b \in Agents \ {a} :
             agent'[b] = IF Saving(b) THEN [agent[b] EXCEPT !.fd = Follows(@)] ELSE agent[b]
    BY <1>5 DEF RenameTmp
  <2>2. /\ agent'[a].at = agent[a].then /\ agent'[a].then = agent[a].then
        /\ agent'[a].dir = agent[a].dir /\ agent'[a].id = agent[a].id
        /\ agent'[a].known = agent[a].known
    BY <1>2, <2>1 DEF Settled
  <2>3. ASSUME NEW b \in Agents \ {a}, Saving(b)
        PROVE  /\ agent'[b].at = agent[b].at /\ agent'[b].dir = agent[b].dir
               /\ agent'[b].id = agent[b].id /\ agent'[b].known = agent[b].known
               /\ agent'[b].then = agent[b].then /\ agent'[b].seen = agent[b].seen
    <3>1. agent[b] \in Settled
      BY <2>3 DEF Saving, StoreTypeInv, Unbegun, Arrived
    <3>2. QED
      BY <2>1, <2>3, <3>1 DEF Settled
  <2>4. QED
    BY <1>1, <1>3, <1>5, <2>1, <2>2, <2>3 DEF Here
<1>6. QED
  BY <1>4, <1>5

\* Whatever happens, what is a last session, or no entry, was one, until a process judges the
\* session it is in.
LEMMA BringsNothing ==
    ASSUME StoreTypeInv, NEW a \in Agents, NEW d \in WorkDirs,
           NEW last \in SessionIds \cup {NoEntry},
           \/ \E e \in WorkDirs, how \in Hows, s \in Ids : Start(a, e, how, s)
           \/ Look(a) \/ Open(a) \/ Migrate(a) \/ CreateSession(a)
           \/ OpenTmp(a) \/ WriteTmp(a) \/ RenameTmp(a) \/ SaveFails(a)
           \/ \E both \in BOOLEAN : Record(a, both)
           \/ Clear(a) \/ Cleared(a) \/ LoadToEnd(a) \/ Delete(a) \/ Crash(a)
    PROVE  Brings(a, d, last)
<1> USE DEF KeepsFiles, KeepsStore, metaVars
<1>1. last # NoLast /\ last # "torn" /\ last # "noFile"
  BY MarksDiffer DEF Ids, NoEntry, NoLast
<1>2. Torn[d] = "torn" /\ NoFile[d] = "noFile"
  BY MarksDiffer
<1>3. agent[a].at # "unbegun" /\ Sees(a) => agent[a] \in Settled
  BY HereIsOne
\* A process that only goes on brings nothing.
<1>4. ASSUME NEW goes, agent[a].at # "unbegun", To(a, goes), UNCHANGED <<meta, tmp>>,
             goes \in {"dead", "ended"} \/ Knows(a),
             goes \in Loaded \cup {"ending", "deleting"} => Sees(a)
      PROVE  Brings(a, d, last)
  BY <1>3, <1>4, AtChanges DEF Brings, Holds, Sees, Knows
<1>5. ASSUME NEW e \in WorkDirs, NEW how \in Hows, NEW s \in Ids, Start(a, e, how, s)
      PROVE  Brings(a, d, last)
  BY <1>1, <1>5 DEF StoreTypeInv, Start, Brings, Holds, Sees, Knows, Loaded
<1>6. CASE Look(a)
  <2>1. UNCHANGED <<meta, tmp>> /\ agent[a].at = "looking"
    BY <1>6 DEF Look
  <2>2. QED
    BY <1>1, <1>6, <2>1, LookDoes DEF Brings, Holds, Sees, Knows, Loaded
<1>7. CASE Open(a)
  <2>1. UNCHANGED <<meta, tmp>> /\ agent[a].at = "opening"
    BY <1>7 DEF Open
  <2>2. CASE Enters(a, Here(a))
    BY <2>1, <2>2, EntersDoes DEF Brings, Holds, Sees, Knows, Loaded
  <2>3. CASE \E goes \in {"dead", "creating", "migrating"} : To(a, goes)
    BY <1>4, <2>1, <2>3 DEF Knows, Loaded
  <2>4. QED
    BY <1>7, <2>2, <2>3 DEF Open, NotFound
<1>8. CASE Migrate(a)
  <2>1. UNCHANGED <<meta, tmp>> /\ agent[a].at = "migrating"
    BY <1>8 DEF Migrate
  <2>2. CASE Enters(a, Here(a))
    BY <2>1, <2>2, EntersDoes DEF Brings, Holds, Sees, Knows, Loaded
  <2>3. CASE To(a, "dead")
    BY <1>4, <2>1, <2>3 DEF Loaded
  <2>4. QED
    BY <1>8, <2>2, <2>3 DEF Migrate, Panics
<1>9. CASE CreateSession(a)
  <2>1. UNCHANGED <<meta, tmp>>
    BY <1>9 DEF CreateSession
  <2>2. CASE meta = Torn
    BY <1>4, <1>9, <2>1, <2>2 DEF CreateSession, Panics, Loaded
  <2>3. CASE meta # Torn
    BY <1>1, <1>9, <2>1, <2>3, CreateDoes DEF Brings, Holds, Sees, Knows, Loaded
  <2>4. QED
    BY <2>2, <2>3
<1>10. CASE OpenTmp(a)
  <2>1. /\ agent' = [agent EXCEPT ![a] = [agent[a] EXCEPT !.at = "writing", !.fd = "tmp"]]
        /\ agent[a] \in Settled /\ Sees(a) /\ Knows(a) /\ tmp' = Torn /\ meta' = meta
    BY <1>3, <1>10 DEF OpenTmp, Sees, Knows, Loaded
  <2>2. /\ agent'[a].seen = agent[a].seen /\ agent'[a].dir = agent[a].dir
        /\ agent'[a].known = agent[a].known
        /\ \A b \in Agents \ {a} : agent'[b] = agent[b]
    BY <2>1 DEF Settled, StoreTypeInv
  <2>3. QED
    BY <1>1, <1>2, <2>1, <2>2 DEF Brings, Holds, Sees, Knows
<1>11. CASE WriteTmp(a)
  <2>1. /\ agent[a].at = "writing" /\ To(a, "renaming") /\ Sees(a) /\ Knows(a)
        /\ tmp' \in {tmp, Torn, agent[a].seen} /\ meta' \in {meta, Torn, agent[a].seen}
    BY <1>11 DEF WriteTmp, Written, Sees, Knows, Loaded
  <2>2. agent[a] \in Settled
    BY <1>3, <2>1
  <2>3. QED
    BY <1>1, <1>2, <2>1, <2>2, AtChanges DEF Brings, Holds, Sees, Knows
<1>12. CASE RenameTmp(a)
  BY <1>1, <1>2, <1>12, RenameDoes DEF Brings, Holds, Sees, Knows, Loaded
<1>13. CASE SaveFails(a)
  <2>1. /\ agent[a].at \in {"saving", "writing"} /\ To(a, agent[a].then)
        /\ UNCHANGED <<meta, tmp>> /\ Sees(a) /\ Knows(a)
    BY <1>13 DEF SaveFails, Sees, Knows, Loaded
  <2>2. QED
    BY <1>4, <2>1
<1>14. CASE \E both \in BOOLEAN : Record(a, both)
  BY <1>14 DEF Record, Brings, Holds, Sees, Knows
<1>15. CASE Clear(a) \/ Cleared(a)
  BY <1>4, <1>15 DEF Clear, Cleared, Knows, Loaded
<1>16. CASE LoadToEnd(a)
  <2>1. UNCHANGED <<meta, tmp>>
    BY <1>16 DEF LoadToEnd
  <2>2. CASE meta = Torn
    BY <1>4, <1>16, <2>1, <2>2 DEF LoadToEnd, Panics, Loaded
  <2>3. CASE meta # Torn
    BY <1>16, <2>1, <2>3, LoadDoes DEF Brings, Holds, Sees, Knows, Loaded
  <2>4. QED
    BY <2>2, <2>3
<1>17. CASE Delete(a)
  BY <1>4, <1>17 DEF Delete, Sees, Knows, Loaded
<1>18. CASE Crash(a)
  BY <1>4, <1>18 DEF Crash, Panics, Loaded
<1>19. QED
  BY <1>5, <1>6, <1>7, <1>8, <1>9, <1>10, <1>11, <1>12, <1>13, <1>14, <1>15, <1>16, <1>17, <1>18

\* What can be a last session after a step in the session here.
Points(here) ==
    /\ \A d \in WorkDirs : Holds(d, NoEntry)' => Holds(d, NoEntry)
    /\ \A s \in WorkDirs \X SessionIds :
         Pointed(s)' => Pointed(s) \/ (s = here /\ ~IsEmpty(here)')

LEMMA BroughtPoints ==
    ASSUME NEW a \in Agents, NEW here,
           \A d \in WorkDirs : \A last \in SessionIds \cup {NoEntry} : Brings(a, d, last)
    PROVE  Points(here)
<1>1. ASSUME NEW d \in WorkDirs, Holds(d, NoEntry)' PROVE Holds(d, NoEntry)
  <2>1. Brings(a, d, NoEntry)
    OBVIOUS
  <2>2. QED
    BY <1>1, <2>1, PointsKept
<1>2. ASSUME NEW s \in WorkDirs \X SessionIds, Pointed(s)' PROVE Pointed(s)
  <2>1. PICK d \in WorkDirs, id \in SessionIds : s = <<d, id>>
    OBVIOUS
  <2>2. Brings(a, d, id)
    OBVIOUS
  <2>3. Pointed(<<d, id>>)'
    BY <1>2, <2>1
  <2>4. QED
    BY <2>1, <2>2, <2>3, PointsKept
<1>3. QED
  BY <1>1, <1>2 DEF Points

SessionsInv == DiskInv /\ AloneInv /\ PointedInv /\ EntryInv

LEMMA SessionsKept ==
    ASSUME StoreTypeInv, SessionsInv, NEW a \in Agents, NEW here \in Sessions,
           Goes(a, here), Points(here), DiskOf(here)',
           (Occupies(a) /\ Here(a) = here /\ here \notin shared => AloneOf(a)) =>
               (Occupies(a) /\ here \notin shared => AloneOf(a))',
           Pointed(here) /\ Continues(here) => Continues(here)',
           Untouched(here)' => Untouched(here) \/ ~Pointed(here) \/ here \in shared',
           agent'[a].at = "creating" =>
               \/ agent[a].at = "creating" /\ Here(a) = here
               \/ ~stored'[here].legacy \/ Holds(here[1], NoEntry)
    PROVE  SessionsInv'
<1>1. DiskInv'
  BY DiskKept DEF SessionsInv
<1>2. AloneInv'
  BY AloneKept DEF SessionsInv
<1>3. ~IsEmpty(here)' => Continues(here)' /\ ~Untouched(here)'
  BY DEF DiskOf, Continues, Untouched, Legacy, IsEmpty
<1>4. PointedInv'
  <2>1. \A s \in WorkDirs \X SessionIds : Pointed(s)' => Pointed(s) \/ Continues(s)'
    BY <1>3 DEF Points
  <2>2. QED
    BY <2>1, PointedKept DEF SessionsInv
<1>5. EntryInv'
  <2>1. \A s \in WorkDirs \X SessionIds : Pointed(s)' => Pointed(s) \/ ~Untouched(s)'
    BY <1>3 DEF Points
  <2>2. \A d \in WorkDirs : Holds(d, NoEntry)' => Holds(d, NoEntry)
    BY DEF Points
  <2>3. QED
    BY <2>1, <2>2, EntryKept DEF SessionsInv
<1>6. QED
  BY <1>1, <1>2, <1>4, <1>5 DEF SessionsInv

\* A step that changes nothing on the disk, and enters no session.
LEMMA QuietKept ==
    ASSUME StoreTypeInv, SessionsInv, NEW a \in Agents, NEW here \in Sessions, Points(here),
           UNCHANGED <<stored, recorded, shared>>,
           \A b \in Agents \ {a} : agent'[b] = agent[b],
           Occupies(a)' => /\ Occupies(a) /\ Here(a) = here /\ Here(a)' = here
                           /\ here \notin shared /\ AloneOf(a) => AloneOf(a)',
           agent'[a].at = "creating" =>
               Here(a)' = here /\ (~stored[here].legacy \/ Holds(here[1], NoEntry))
    PROVE  SessionsInv'
<1>1. Goes(a, here)
  BY DEF Goes, Here
<1>2. DiskOf(here) /\ DiskOf(here)'
  BY DEF SessionsInv, DiskInv, DiskOf, HeldOf, IsEmpty
<1>3. Continues(here) => Continues(here)'
  BY DEF Continues, IsEmpty
<1>4. Untouched(here)' => Untouched(here)
  BY DEF Untouched, Legacy
<1>5. agent'[a].at = "creating" => ~stored'[here].legacy \/ Holds(here[1], NoEntry)
  OBVIOUS
<1>6. (Occupies(a) /\ Here(a) = here /\ here \notin shared => AloneOf(a)) =>
        (Occupies(a) /\ here \notin shared => AloneOf(a))'
  OBVIOUS
<1>7. QED
  BY <1>1, <1>2, <1>3, <1>4, <1>5, <1>6, SessionsKept

\* A process that goes on, and enters no session.
LEMMA GoesOnKept ==
    ASSUME StoreTypeInv, SessionsInv, NEW a \in Agents, NEW goes, To(a, goes),
           agent[a].at # "unbegun", UNCHANGED <<stored, recorded, shared>>,
           \A here \in Sessions : Points(here),
           goes = "creating" =>
               ~stored[Here(a)].legacy \/ Holds(Here(a)[1], NoEntry),
           goes \in Inside \cup {"deleting"} \cup Loaded =>
               Occupies(a) /\ (Here(a) \notin shared /\ AloneOf(a) => AloneOf(a)')
    PROVE  SessionsInv'
<1> PICK here : here = Here(a)
  OBVIOUS
<1>1. /\ agent'[a].at = goes /\ Here(a)' = here /\ here \in Sessions
      /\ \A b \in Agents \ {a} : agent'[b] = agent[b]
  BY AtChanges, HereIsOne
<1>2. Occupies(a)' => goes \in Inside \cup {"deleting"} \cup Loaded
  BY <1>1 DEF Occupies
<1>3. Occupies(a)' => /\ Occupies(a) /\ Here(a) = here /\ Here(a)' = here
                      /\ here \notin shared /\ AloneOf(a) => AloneOf(a)'
  BY <1>1, <1>2
<1>4. agent'[a].at = "creating" =>
        Here(a)' = here /\ (~stored[here].legacy \/ Holds(here[1], NoEntry))
  BY <1>1
<1>5. Points(here)
  BY <1>1
<1>6. QED
  BY <1>1, <1>3, <1>4, <1>5, QuietKept

\* A process that looks for its session, and goes in.
LEMMA ArrivingKept ==
    ASSUME StoreTypeInv, SessionsInv, NEW a \in Agents,
           \/ \E e \in WorkDirs, how \in Hows, s \in Ids : Start(a, e, how, s)
           \/ Look(a) \/ Open(a) \/ Migrate(a)
    PROVE  SessionsInv'
<1>1. \A here : Points(here)
  BY BringsNothing, BroughtPoints
<1>2. ASSUME NEW e \in WorkDirs, NEW how \in Hows, NEW s \in Ids, Start(a, e, how, s)
      PROVE  SessionsInv'
  <2> DEFINE here == <<e, s>>
  <2>1. here \in Sessions
    BY DEF Sessions, Ids
  <2>2. /\ UNCHANGED <<stored, recorded, shared>> /\ agent'[a].at \in {"creating", "looking"}
        /\ agent'[a].dir = e /\ agent'[a].id = s
        /\ \A b \in Agents \ {a} : agent'[b] = agent[b]
    BY <1>2 DEF Start, StoreTypeInv
  <2>3. ~Occupies(a)' /\ Here(a)' = here
    BY <2>2 DEF Occupies, Inside, Loaded, Here
  <2>4. ASSUME agent'[a].at = "creating" PROVE ~stored[here].legacy
    <3>1. how \in {"new", "context"}
      BY <1>2, <2>4 DEF Start, StoreTypeInv
    <3>2. CASE how = "new"
      BY <1>2, <3>2 DEF Start, Nothing
    <3>3. CASE how = "context"
      BY <1>2, <2>1, <3>3, StoreAssumption DEF Start, SessionsInv, DiskInv, DiskOf
    <3>4. QED
      BY <3>1, <3>2, <3>3
  <2> HIDE DEF here
  <2>5. QED
    BY <1>1, <2>1, <2>2, <2>3, <2>4, QuietKept
<1>3. CASE Look(a)
  <2> PICK here : here = Here(a)
    OBVIOUS
  <2>1. here \in Sessions /\ here[1] = agent[a].dir /\ UNCHANGED <<stored, recorded, shared>>
    BY <1>3, HereIsOne DEF Look, KeepsFiles
  <2>2. /\ \A b \in Agents \ {a} : agent'[b] = agent[b]
        /\ ~Occupies(a)'
        /\ agent'[a].at = "creating" => Here(a)' = here /\ Holds(here[1], NoEntry)
    BY <1>3, <2>1, LookDoes DEF Occupies, Inside, Loaded, Holds
  <2>3. QED
    BY <1>1, <2>1, <2>2, QuietKept
<1>4. ASSUME agent[a].at \in {"opening", "migrating"}, Enters(a, Here(a)), recorded' = recorded,
             \/ stored' = stored /\ stored[Here(a)].context # "absent"
             \/ /\ stored[Here(a)].legacy
                /\ stored' = [stored EXCEPT ![Here(a)].legacy = FALSE, ![Here(a)].dir = TRUE,
                                            ![Here(a)].context = "full"]
      PROVE  SessionsInv'
  <2> PICK here : here = Here(a)
    OBVIOUS
  <2>1. here \in Sessions
    BY <1>4, HereIsOne
  <2>2. /\ agent'[a].at = "running" /\ Here(a)' = here
        /\ \A b \in Agents \ {a} : agent'[b] = agent[b]
    BY <1>4, EntersDoes
  <2>3. /\ shared \subseteq shared'
        /\ here \in shared' \/ \A b \in Agents \ {a} : Occupies(b) => Here(b) # here
    BY <1>4 DEF Enters, Occupies
  <2>4. stored[here] \in OnDisk /\ DiskOf(here)
    BY <2>1 DEF StoreTypeInv, SessionsInv, DiskInv
  <2>5. /\ \A s \in Sessions \ {here} : stored'[s] = stored[s]
        /\ \/ stored'[here] = stored[here] /\ stored[here].context # "absent"
           \/ /\ stored[here].legacy /\ ~stored'[here].legacy /\ stored'[here].dir
              /\ stored'[here].context = "full"
    BY <1>4, <2>1, <2>4 DEF OnDisk, StoreTypeInv
  <2>6. Goes(a, here)
    BY <1>4, <2>1, <2>2, <2>3, <2>5 DEF Goes, Here
  <2>7. DiskOf(here)'
    BY <1>4, <2>1, <2>3, <2>4, <2>5 DEF DiskOf, HeldOf, IsEmpty
  <2>8. (Occupies(a) /\ here \notin shared => AloneOf(a))'
    BY <2>2, <2>5 DEF AloneOf, Loaded
  <2>9. Continues(here) => Continues(here)'
    BY <1>4, <2>3, <2>4, <2>5 DEF Continues, IsEmpty, DiskOf
  <2>10. ~Untouched(here)'
    BY <2>5 DEF Untouched, Legacy
  <2>11. Points(here) /\ agent'[a].at # "creating"
    BY <1>1, <2>2
  <2>12. QED
    BY <2>1, <2>6, <2>7, <2>8, <2>9, <2>10, <2>11, SessionsKept
<1>5. CASE Open(a)
  <2>1. /\ agent[a].at = "opening" /\ recorded' = recorded /\ Here(a) \in Sessions
        /\ Here(a)[2] \in Ids
    BY <1>5, HereIsOne DEF Open
  <2>2. stored[Here(a)].legacy => Here(a)[2] \in SessionIds
    BY <2>1 DEF SessionsInv, DiskInv, DiskOf
  <2>3. ASSUME NEW goes \in {"dead", "creating", "migrating"}, To(a, goes), stored' = stored,
               shared' = shared, goes = "creating" => ~stored[Here(a)].legacy
        PROVE  SessionsInv'
    BY <1>1, <2>1, <2>3, GoesOnKept DEF Inside, Loaded
  <2>4. CASE Here(a)[2] \in SubIds
    BY <1>5, <2>2, <2>3, <2>4, StoreAssumption DEF Open, NotFound
  <2>5. CASE Here(a)[2] \notin SubIds /\ Legacy(Here(a))
    BY <1>5, <2>3, <2>5 DEF Open
  <2>6. CASE Here(a)[2] \notin SubIds /\ ~Legacy(Here(a)) /\ stored[Here(a)].context = "absent"
    BY <1>5, <2>3, <2>6 DEF Open, NotFound, Legacy
  <2>7. CASE Here(a)[2] \notin SubIds /\ stored[Here(a)].context # "absent"
    BY <1>4, <1>5, <2>1, <2>7 DEF Open, Legacy
  <2>8. QED
    BY <2>4, <2>5, <2>6, <2>7
<1>6. CASE Migrate(a)
  <2>1. agent[a].at = "migrating" /\ recorded' = recorded
    BY <1>6 DEF Migrate
  <2>2. CASE stored[Here(a)].legacy
    BY <1>4, <1>6, <2>1, <2>2 DEF Migrate
  <2>3. CASE ~stored[Here(a)].legacy
    BY <1>1, <1>6, <2>1, <2>3, GoesOnKept DEF Migrate, Panics, Inside, Loaded
  <2>4. QED
    BY <2>2, <2>3
<1>7. QED
  BY <1>2, <1>3, <1>5, <1>6

\* A process that saves kimi.json.
LEMMA SavingKept ==
    ASSUME StoreTypeInv, SessionsInv, NEW a \in Agents,
           OpenTmp(a) \/ WriteTmp(a) \/ RenameTmp(a) \/ SaveFails(a)
    PROVE  SessionsInv'
<1>1. \A here \in Sessions : Points(here)
  BY BringsNothing, BroughtPoints
<1>2. PICK here : here = Here(a)
  OBVIOUS
<1>3. /\ UNCHANGED <<stored, recorded, shared>> /\ agent[a].at \in Loaded /\ Occupies(a)
      /\ agent[a] \in Settled /\ here \in Sessions /\ agent[a].then \in {"running", "ended"}
      /\ DOMAIN agent = Agents
  <2>1. UNCHANGED <<stored, recorded, shared>> /\ agent[a].at \in Loaded
    BY DEF OpenTmp, WriteTmp, RenameTmp, SaveFails, KeepsStore, Loaded
  <2>2. Occupies(a) /\ agent[a].at \notin {"unbegun", "running", "clearing"}
    BY <2>1 DEF Occupies, Loaded
  <2>3. agent[a] \in Settled /\ here \in Sessions
    BY <1>2, <2>2, HereIsOne
  <2>4. QED
    BY <2>1, <2>2, <2>3 DEF StoreTypeInv, Settled
<1>4. CASE OpenTmp(a)
  <2>1. /\ agent'[a].at = "writing" /\ agent'[a].then = agent[a].then /\ Here(a)' = here
        /\ \A b \in Agents \ {a} : agent'[b] = agent[b]
    <3>1. agent' = [agent EXCEPT ![a] = [agent[a] EXCEPT !.at = "writing", !.fd = "tmp"]]
      BY <1>3, <1>4 DEF OpenTmp
    <3>2. QED
      BY <1>2, <1>3, <3>1 DEF Settled, Here
  <2>2. AloneOf(a) => AloneOf(a)'
    BY <1>2, <1>3, <2>1 DEF AloneOf, Loaded
  <2>3. QED
    BY <1>1, <1>2, <1>3, <2>1, <2>2, QuietKept
<1>5. CASE WriteTmp(a)
  <2>1. To(a, "renaming") /\ agent[a].at # "unbegun"
    BY <1>3, <1>5 DEF WriteTmp, Loaded
  <2>2. AloneOf(a) => AloneOf(a)'
    BY <1>3, <2>1, AtChanges DEF AloneOf, Loaded
  <2>3. QED
    BY <1>1, <1>3, <2>1, <2>2, GoesOnKept
<1>6. CASE SaveFails(a)
  <2>1. To(a, agent[a].then) /\ agent[a].at # "unbegun"
    BY <1>3, <1>6 DEF SaveFails, Loaded
  <2>2. AloneOf(a) => AloneOf(a)'
    BY <1>3, <2>1, AtChanges DEF AloneOf, Loaded
  <2>3. PICK goes \in {"running", "ended"} : goes = agent[a].then
    BY <1>3
  <2>4. To(a, goes)
    BY <2>1, <2>3 DEF To
  <2>5. QED
    BY <1>1, <1>3, <2>1, <2>2, <2>4, GoesOnKept
<1>7. CASE RenameTmp(a)
  <2>1. /\ agent'[a].at = agent[a].then /\ agent'[a].then = agent[a].then
        /\ agent'[a].dir = agent[a].dir /\ Here(a)' = here
    BY <1>2, <1>7, RenameDoes
  <2>2. ASSUME NEW b \in Agents \ {a}
        PROVE  /\ agent'[b].at = agent[b].at /\ Here(b)' = Here(b)
               /\ agent[b].at = "creating" => agent'[b] = agent[b]
               /\ Sees(b) => agent'[b].then = agent[b].then
    BY <1>7, <2>2, RenameDoes DEF Saving
  <2>3. Goes(a, here)
    BY <1>2, <1>3, <2>1, <2>2 DEF Goes
  <2>4. AloneOf(a) => AloneOf(a)'
    BY <1>2, <1>3, <2>1 DEF AloneOf, Loaded
  <2>5. DiskOf(here)'
    BY <1>3 DEF SessionsInv, DiskInv, DiskOf, HeldOf, IsEmpty
  <2>6. (Continues(here) => Continues(here)') /\ (Untouched(here)' => Untouched(here))
    BY <1>3 DEF Continues, IsEmpty, Untouched, Legacy
  <2>7. agent'[a].at # "creating"
    BY <1>3, <2>1
  <2>8. (Occupies(a) /\ Here(a) = here /\ here \notin shared => AloneOf(a)) =>
          (Occupies(a) /\ here \notin shared => AloneOf(a))'
    BY <1>2, <1>3, <2>4
  <2>9. Points(here)
    BY <1>1, <1>3
  <2>10. QED
    BY <1>3, <2>3, <2>5, <2>6, <2>7, <2>8, <2>9, SessionsKept
<1>8. QED
  BY <1>4, <1>5, <1>6, <1>7

\* A process in its session, which is its own or shared.
LEMMA InsideKept ==
    ASSUME StoreTypeInv, SessionsInv, NEW a \in Agents,
           \/ \E both \in BOOLEAN : Record(a, both)
           \/ Clear(a) \/ Cleared(a) \/ Delete(a)
    PROVE  SessionsInv'
<1>1. \A here \in Sessions : Points(here)
  BY BringsNothing, BroughtPoints
<1>2. PICK here : here = Here(a)
  OBVIOUS
<1>3. /\ agent[a].at \in {"running", "clearing", "deleting"} /\ Occupies(a)
      /\ here \in Sessions /\ shared' = shared /\ stored[here] \in OnDisk /\ DiskOf(here)
      /\ here[2] = agent[a].id
  <2>1. agent[a].at \in {"running", "clearing", "deleting"} /\ shared' = shared
    BY DEF Record, Clear, Cleared, Delete
  <2>2. Occupies(a) /\ here \in Sessions /\ here[2] = agent[a].id
    BY <1>2, <2>1, HereIsOne DEF Occupies, Inside
  <2>3. QED
    BY <2>1, <2>2 DEF StoreTypeInv, SessionsInv, DiskInv
<1>4. /\ here \in shared \/ \A b \in Agents \ {a} : Occupies(b) => Here(b) # here
      /\ here \in shared \/ AloneOf(a)
  BY <1>2, <1>3 DEF SessionsInv, AloneInv
<1>5. Points(here)
  BY <1>1, <1>3
\* What it leaves in the session is what must be there.
<1>6. ASSUME NEW goes \in {"running", "clearing", "saving"}, NEW r,
             stored' = [stored EXCEPT ![here] = r],
             recorded'.in = recorded.in \/ recorded'.in = recorded.in \cup {here},
             agent'[a].at = goes, Here(a)' = here,
             \A b \in Agents \ {a} : agent'[b] = agent[b],
             r.legacy = stored[here].legacy,
             DiskOf(here)', here \notin shared => AloneOf(a)',
             Pointed(here) /\ Continues(here) => Continues(here)',
             Untouched(here)' => Untouched(here) \/ ~Pointed(here) \/ here \in shared
      PROVE  SessionsInv'
  <2>1. Goes(a, here)
    BY <1>2, <1>3, <1>4, <1>6 DEF Goes, StoreTypeInv, Here
  <2>2. (Occupies(a) /\ here \notin shared => AloneOf(a))'
    BY <1>3, <1>6
  <2>3. agent'[a].at # "creating"
    BY <1>6
  <2>4. QED
    BY <1>3, <1>5, <1>6, <2>1, <2>2, <2>3, SessionsKept
<1>7. ASSUME NEW both \in BOOLEAN, Record(a, both) PROVE SessionsInv'
  <2> DEFINE r == [stored[here] EXCEPT !.wire = "full", !.dir = TRUE,
                                       !.context = IF both THEN "full" ELSE @]
  <2>1. PICK stays : stays = r
    OBVIOUS
  <2>2. /\ stays.wire = "full" /\ stays.dir /\ stays.legacy = stored[here].legacy
        /\ stays.context = IF both THEN "full" ELSE stored[here].context
    BY <1>3, <2>1 DEF OnDisk
  <2>3. stored' = [stored EXCEPT ![here] = stays] /\ stored'[here] = stays
    BY <1>2, <1>3, <1>7, <2>1 DEF Record, StoreTypeInv
  <2>4. /\ agent' = agent /\ recorded'.in = recorded.in \cup {here} /\ agent[a].at = "running"
        /\ Here(a)' = here
    BY <1>2, <1>7 DEF Record, Here
  <2> HIDE DEF r
  <2>5. DiskOf(here)'
    BY <1>3, <2>2, <2>3, <2>4 DEF DiskOf, HeldOf, IsEmpty
  <2>6. here \notin shared => AloneOf(a)'
    BY <1>2, <1>4, <2>2, <2>3, <2>4 DEF AloneOf, Loaded
  <2>7. Continues(here)' /\ ~Untouched(here)'
    BY <2>2, <2>3, <2>4 DEF Continues, IsEmpty, Untouched
  <2>8. QED
    BY <1>6, <2>2, <2>3, <2>4, <2>5, <2>6, <2>7
<1>8. ASSUME Clear(a) \/ Cleared(a) PROVE SessionsInv'
  <2>1. PICK context \in {"absent", "empty"}, goes \in {"clearing", "running"} :
          /\ stored' = [stored EXCEPT ![here].context = context] /\ To(a, goes)
          /\ goes = "clearing" => context = "absent"
          /\ goes = "running" => context = "empty"
          /\ here \notin shared \/ goes = "clearing" => stored[here].wire = "full"
    <3>1. CASE Clear(a)
      BY <1>2, <3>1 DEF Clear
    <3>2. CASE Cleared(a)
      BY <1>2, <1>4, <3>2 DEF Cleared, AloneOf
    <3>3. QED
      BY <1>8, <3>1, <3>2
  <2>2. PICK stays : stays = [stored[here] EXCEPT !.context = context]
    OBVIOUS
  <2>3. /\ stays.wire = stored[here].wire /\ stays.dir = stored[here].dir
        /\ stays.legacy = stored[here].legacy /\ stays.context = context
    BY <1>3, <2>2 DEF OnDisk
  <2>4. stored' = [stored EXCEPT ![here] = stays] /\ stored'[here] = stays
    BY <1>3, <2>1, <2>2 DEF StoreTypeInv
  <2>5. /\ recorded' = recorded /\ agent'[a].at = goes /\ Here(a)' = here
        /\ \A b \in Agents \ {a} : agent'[b] = agent[b]
    BY <1>2, <1>3, <1>8, <2>1, AtChanges DEF Clear, Cleared
  <2>6. DiskOf(here)'
    BY <1>3, <2>1, <2>3, <2>4, <2>5 DEF DiskOf, HeldOf, IsEmpty
  <2>7. here \notin shared => AloneOf(a)'
    BY <2>1, <2>3, <2>4, <2>5 DEF AloneOf, Loaded
  <2>8. Continues(here) => Continues(here)'
    BY <1>3, <2>1, <2>3, <2>4, <2>5 DEF Continues, IsEmpty, DiskOf
  <2>9. Untouched(here)' => here \in shared
    BY <2>1, <2>3, <2>4 DEF Untouched, Legacy
  <2>10. QED
    BY <1>6, <2>3, <2>4, <2>5, <2>6, <2>7, <2>8, <2>9
<1>9. ASSUME Delete(a) PROVE SessionsInv'
  <2>1. /\ agent'[a].at = "saving" /\ Here(a)' = here /\ recorded' = recorded
        /\ agent'[a].then = agent[a].then /\ agent[a].at = "deleting"
        /\ \A b \in Agents \ {a} : agent'[b] = agent[b]
    <3>1. agent[a].at = "deleting" /\ To(a, "saving") /\ recorded' = recorded
      BY <1>9 DEF Delete
    <3>2. agent[a] \in Settled
      BY <1>3, <3>1, HereIsOne
    <3>3. QED
      BY <1>2, <3>1, <3>2, AtChanges
  <2>2. here \notin shared => AloneOf(a)'
    BY <1>4, <2>1 DEF AloneOf
  <2>3. here \notin shared => IsEmpty(here) /\ stored[here].context # "absent"
    BY <1>2, <1>4, <2>1 DEF AloneOf
  <2>4. CASE agent[a].id \in SubIds
    <3>1. stored' = stored /\ stored' = [stored EXCEPT ![here] = stored[here]]
      BY <1>3, <1>9, <2>4 DEF Delete, StoreTypeInv
    <3>2. DiskOf(here)' /\ (Continues(here) => Continues(here)')
          /\ (Untouched(here)' => Untouched(here))
      BY <1>3, <2>1, <3>1 DEF DiskOf, HeldOf, IsEmpty, Continues, Untouched, Legacy
    <3>3. PICK stays : stays = stored[here]
      OBVIOUS
    <3>4. QED
      BY <1>6, <2>1, <2>2, <3>1, <3>2, <3>3
  <2>5. CASE agent[a].id \notin SubIds
    <3>1. PICK stays : stays = [Nothing EXCEPT !.legacy = stored[here].legacy]
      OBVIOUS
    <3>2. /\ stays.legacy = stored[here].legacy /\ stays.context = "absent"
          /\ stays.wire = "empty" /\ stays.dir = FALSE
      BY <3>1 DEF Nothing
    <3>3. stored' = [stored EXCEPT ![here] = stays] /\ stored'[here] = stays
      BY <1>2, <1>3, <1>9, <2>5, <3>1 DEF Delete, StoreTypeInv
    <3>4. DiskOf(here)'
      BY <1>3, <2>1, <2>3, <3>2, <3>3 DEF DiskOf, HeldOf, IsEmpty
    <3>5. here \in shared \/ ~Continues(here) \/ Continues(here)'
      BY <2>1, <2>3 DEF Continues
    <3>6. here \notin shared => ~Pointed(here)
      <4>1. CASE here \in WorkDirs \X SessionIds
        BY <2>3, <4>1 DEF SessionsInv, PointedInv, Continues
      <4>2. CASE here \notin WorkDirs \X SessionIds
        BY <1>3, <2>5, <4>2 DEF Sessions
      <4>3. QED
        BY <4>1, <4>2
    <3>7. Pointed(here) /\ Continues(here) => Continues(here)'
      BY <1>3, <3>6 DEF Continues
    <3>8. QED
      BY <1>6, <2>1, <2>2, <3>2, <3>3, <3>4, <3>6, <3>7
  <2>6. QED
    BY <2>4, <2>5
<1>10. QED
  BY <1>7, <1>8, <1>9

\* A process that makes a session never empties one in which something was said.
LEMMA CreatingKept ==
    ASSUME StoreTypeInv, SessionsInv, NEW a \in Agents, CreateSession(a)
    PROVE  SessionsInv'
<1>1. \A here \in Sessions : Points(here)
  BY BringsNothing, BroughtPoints
<1>2. PICK here : here = Here(a)
  OBVIOUS
<1>3. /\ agent[a].at = "creating" /\ recorded' = recorded /\ here \in Sessions
      /\ stored[here] \in OnDisk /\ DiskOf(here)
      /\ here[1] = agent[a].dir /\ here[1] \in WorkDirs /\ here[2] = agent[a].id
      /\ here = <<here[1], here[2]>>
  <2>1. agent[a].at = "creating" /\ recorded' = recorded
    BY DEF CreateSession
  <2>2. /\ here \in Sessions /\ here[1] = agent[a].dir /\ here[1] \in WorkDirs
        /\ here[2] = agent[a].id /\ here = <<here[1], here[2]>>
    BY <1>2, <2>1, HereIsOne DEF Here
  <2>3. QED
    BY <2>1, <2>2 DEF StoreTypeInv, SessionsInv, DiskInv
<1>4. CASE meta = Torn
  <2>1. To(a, "dead") /\ UNCHANGED <<stored, recorded, shared>>
    BY <1>4 DEF CreateSession, Panics
  <2>2. QED
    BY <1>1, <1>3, <2>1, GoesOnKept DEF Inside, Loaded
<1>5. CASE meta # Torn
  <2>1. /\ agent'[a].at = "saving" /\ Here(a)' = here
        /\ \A b \in Agents \ {a} : agent'[b] = agent[b]
    BY <1>2, <1>5, CreateDoes
  <2>2. PICK made : made = Create(stored[here])
    OBVIOUS
  <2>3. /\ made.legacy = stored[here].legacy /\ made.dir /\ made.wire = stored[here].wire
        /\ made.context = IF stored[here].context = "absent" THEN "empty" ELSE stored[here].context
    BY <1>3, <2>2 DEF Create, OnDisk
  <2>4. stored' = [stored EXCEPT ![here] = made] /\ stored'[here] = made
    BY <1>2, <1>3, <1>5, <2>2 DEF CreateSession, StoreTypeInv
  <2>5. /\ shared \subseteq shared'
        /\ here \in shared' \/ \A b \in Agents \ {a} : Occupies(b) => Here(b) # here
    BY <1>2, <1>5 DEF CreateSession, Occupies
  <2>6. Goes(a, here)
    BY <1>2, <1>3, <2>1, <2>3, <2>4, <2>5 DEF Goes, StoreTypeInv, Here
  <2>7. DiskOf(here)'
    BY <1>3, <2>3, <2>4, <2>5 DEF DiskOf, HeldOf, IsEmpty
  <2>8. (Occupies(a) /\ here \notin shared => AloneOf(a))'
    BY <2>1, <2>3, <2>4 DEF AloneOf
  \* What is continued, and is made anew, was cleared, or was never migrated: of that the
  \* directory would have had an entry.
  <2>9. ASSUME Pointed(here), Continues(here), here \notin shared' PROVE Continues(here)'
    <3>1. here \in recorded.in /\ here \notin shared
      BY <2>5, <2>9 DEF Continues
    <3>2. CASE stored[here].context # "absent"
      BY <1>3, <2>3, <2>4, <2>9, <3>1, <3>2 DEF Continues, IsEmpty
    <3>3. CASE stored[here].context = "absent" /\ stored[here].wire = "full"
      BY <1>3, <2>3, <2>4, <3>1, <3>3 DEF Continues, IsEmpty
    <3>4. CASE stored[here].context = "absent" /\ stored[here].wire # "full"
      <4>1. stored[here].legacy
        BY <1>3, <3>1, <3>4 DEF DiskOf, HeldOf, IsEmpty
      <4>2. Untouched(here) /\ here[2] \in SessionIds
        BY <1>3, <3>4, <4>1 DEF Untouched, Legacy, DiskOf
      <4>3. ~Entered(here[1])
        BY <1>2, <1>3, <4>1 DEF Entered
      <4>4. here \in shared
        BY <1>3, <2>9, <4>2, <4>3 DEF SessionsInv, EntryInv
      <4>5. QED
        BY <3>1, <4>4
    <3>5. QED
      BY <3>2, <3>3, <3>4
  <2>10. Pointed(here) /\ Continues(here) => Continues(here)'
    BY <2>9 DEF Continues
  <2>11. ~Untouched(here)' /\ agent'[a].at # "creating" /\ Points(here)
    BY <1>1, <1>3, <2>1, <2>3, <2>4 DEF Untouched, Legacy
  <2>12. QED
    BY <1>3, <2>6, <2>7, <2>8, <2>10, <2>11, SessionsKept
<1>6. QED
  BY <1>4, <1>5

\* A process that ends, and judges whether it leaves something.
LEMMA EndingKept ==
    ASSUME StoreTypeInv, SessionsInv, NEW a \in Agents, LoadToEnd(a) \/ Judge(a) \/ Crash(a)
    PROVE  SessionsInv'
<1>1. PICK here : here = Here(a)
  OBVIOUS
<1>2. UNCHANGED <<stored, recorded, shared>> /\ here \in Sessions /\ agent[a].at # "unbegun"
  BY <1>1, HereIsOne DEF LoadToEnd, Judge, Crash, KeepsFiles
<1>3. CASE Crash(a)
  <2>1. \A s \in Sessions : Points(s)
    BY <1>3, BringsNothing, BroughtPoints
  <2>2. QED
    BY <1>2, <1>3, <2>1, GoesOnKept DEF Crash, Panics, Inside, Loaded
<1>4. CASE LoadToEnd(a)
  <2>1. \A s \in Sessions : Points(s)
    BY <1>4, BringsNothing, BroughtPoints
  <2>2. CASE meta = Torn
    BY <1>2, <1>4, <2>1, <2>2, GoesOnKept DEF LoadToEnd, Panics, Inside, Loaded
  <2>3. CASE meta # Torn
    <3>1. /\ agent'[a].at = "ending" /\ agent'[a].then = "ended" /\ Here(a)' = here
          /\ agent[a].at = "running" /\ \A b \in Agents \ {a} : agent'[b] = agent[b]
      BY <1>1, <1>4, <2>3, LoadDoes
    <3>2. Occupies(a) /\ (AloneOf(a) => AloneOf(a)')
      BY <1>1, <1>2, <3>1 DEF AloneOf, Occupies, Inside, Loaded
    <3>3. QED
      BY <1>1, <1>2, <2>1, <3>1, <3>2, QuietKept
  <2>4. QED
    BY <2>2, <2>3
<1>5. CASE Judge(a)
  <2>1. /\ agent[a].at = "ending" /\ agent'[a].at \in {"saving", "deleting"} /\ Here(a)' = here
        /\ agent'[a].at = "deleting" => IsEmpty(here)
        /\ agent'[a].then = agent[a].then
        /\ \A b \in Agents \ {a} : agent'[b] = agent[b]
    BY <1>1, <1>5, JudgeDoes
  <2>2. Occupies(a) /\ (AloneOf(a) => AloneOf(a)')
    BY <1>1, <1>2, <2>1 DEF AloneOf, Occupies, Inside, Loaded, IsEmpty
  <2>3. UNCHANGED <<meta, tmp>> /\ Sees(a) /\ Knows(a)
    BY <1>5, <2>1 DEF Judge, KeepsFiles, metaVars, Sees, Knows
  <2>4. ASSUME NEW d \in WorkDirs, NEW last \in SessionIds \cup {NoEntry}, Holds(d, last)'
        PROVE  \/ Holds(d, last)
               \/ d = agent[a].dir /\ last = agent[a].id /\ ~IsEmpty(here)
               \/ d = agent[a].dir /\ last = agent[a].known
    <3>1. last # NoLast
      BY MarksDiffer DEF Ids, NoEntry, NoLast
    <3>2. ASSUME agent'[a].seen[d] = last
          PROVE  \/ agent[a].seen[d] = last
                 \/ d = agent[a].dir /\ last = agent[a].id /\ ~IsEmpty(here)
                 \/ d = agent[a].dir /\ last = agent[a].known
      BY <1>1, <1>5, <3>1, <3>2, JudgeDoes
    <3>3. QED
      BY <2>1, <2>3, <2>4, <3>2 DEF Holds, Sees
  <2>5. agent[a].known # NoEntry /\ agent[a].id # NoEntry /\ here = <<agent[a].dir, agent[a].id>>
    BY <1>1, <1>2, HereIsOne, MarksDiffer DEF NoEntry, NoLast, Here
  <2>6. ASSUME NEW s \in WorkDirs \X SessionIds, Pointed(s)'
        PROVE  Pointed(s) \/ (s = here /\ ~IsEmpty(here))
    <3>1. s[1] \in WorkDirs /\ s[2] \in SessionIds /\ s = <<s[1], s[2]>>
      OBVIOUS
    <3>2. CASE Holds(s[1], s[2])'
      BY <2>3, <2>4, <2>5, <3>1, <3>2 DEF Pointed
    <3>3. CASE \E b \in Agents : (Knows(b) /\ agent[b].dir = s[1] /\ agent[b].known = s[2])'
      BY <1>5, <2>1, <2>3, <3>3, JudgeDoes DEF Pointed, Knows
    <3>4. QED
      BY <2>6, <3>2, <3>3 DEF Pointed
  <2>7. Points(here)
    BY <1>2, <2>4, <2>5, <2>6 DEF Points, IsEmpty
  <2>8. QED
    BY <1>1, <1>2, <2>1, <2>2, <2>7, QuietKept
<1>6. QED
  BY <1>3, <1>4, <1>5

\* Who does not save leaves the file beside kimi.json to who does.
LEMMA SaveQuiet ==
    ASSUME SaveInv, NEW a \in Agents, UNCHANGED metaVars,
           \A b \in Agents \ {a} : agent'[b] = agent[b], ~Saving(a)'
    PROVE  SaveInv'
<1>1. \A b \in Agents : Saving(b)' => Saving(b) /\ agent'[b] = agent[b]
  BY DEF Saving
<1>2. QED
  BY <1>1 DEF SaveInv, Saving, metaVars

LEMMA SaveNext ==
    ASSUME StoreTypeInv, SaveInv, [StoreNext]_storeVars
    PROVE  SaveInv'
<1>1. ASSUME NEW a \in Agents, NEW goes, To(a, goes), UNCHANGED metaVars,
             agent[a].at # "unbegun", goes \notin {"writing", "renaming"}
      PROVE  SaveInv'
  BY <1>1, AtChanges, SaveQuiet DEF Saving
<1>2. ASSUME NEW a \in Agents, NEW d \in WorkDirs, NEW how \in Hows, NEW s \in Ids,
             Start(a, d, how, s)
      PROVE  SaveInv'
  <2>1. /\ agent'[a].at \in {"creating", "looking"} /\ UNCHANGED metaVars
        /\ \A b \in Agents \ {a} : agent'[b] = agent[b]
    BY <1>2 DEF Start, StoreTypeInv
  <2>2. QED
    BY <2>1, SaveQuiet DEF Saving
<1>3. ASSUME NEW a \in Agents, Look(a) PROVE SaveInv'
  BY <1>3, LookDoes, SaveQuiet DEF Look, KeepsFiles, Saving
<1>4. ASSUME NEW a \in Agents, Open(a) \/ Migrate(a) PROVE SaveInv'
  <2>1. UNCHANGED metaVars /\ agent[a].at \in {"opening", "migrating"}
    BY <1>4 DEF Open, Migrate
  <2>2. CASE Enters(a, Here(a))
    BY <2>1, <2>2, EntersDoes, SaveQuiet DEF Saving
  <2>3. CASE \E goes \in {"dead", "creating", "migrating"} : To(a, goes)
    BY <1>1, <2>1, <2>3
  <2>4. QED
    BY <1>4, <2>2, <2>3 DEF Open, Migrate, NotFound, Panics
<1>5. ASSUME NEW a \in Agents, CreateSession(a) PROVE SaveInv'
  <2>1. UNCHANGED metaVars /\ agent[a].at = "creating"
    BY <1>5 DEF CreateSession
  <2>2. CASE meta = Torn
    BY <1>1, <1>5, <2>1, <2>2 DEF CreateSession, Panics
  <2>3. CASE meta # Torn
    BY <1>5, <2>1, <2>3, CreateDoes, SaveQuiet DEF Saving
  <2>4. QED
    BY <2>2, <2>3
<1>6. ASSUME NEW a \in Agents, OpenTmp(a) PROVE SaveInv'
  <2>1. agent[a] \in Settled
    BY <1>6, HereIsOne DEF OpenTmp, Sees, Loaded
  <2>2. /\ agent'[a].at = "writing" /\ agent'[a].fd = "tmp" /\ tmp' = Torn /\ meta' = meta
        /\ \A b \in Agents \ {a} : agent'[b] = agent[b]
        /\ overlapped' = (overlapped \/ \E b \in Agents \ {a} : Saving(b))
    BY <1>6, <2>1 DEF OpenTmp, Settled, StoreTypeInv
  <2>3. ~overlapped' => ~overlapped /\ \A b \in Agents \ {a} : ~Saving(b)
    BY <2>2
  <2>4. QED
    BY <2>2, <2>3 DEF SaveInv, Saving
<1>7. ASSUME NEW a \in Agents, WriteTmp(a) PROVE SaveInv'
  <2>1. /\ agent[a].at = "writing" /\ To(a, "renaming") /\ overlapped' = overlapped
        /\ agent[a].fd = "tmp" /\ tmp = Torn => tmp' = agent[a].seen /\ meta' = meta
    BY <1>7 DEF WriteTmp, Written
  <2>2. agent[a].seen \in Metadata
    BY <2>1, HereIsOne DEF Sees, Loaded
  <2>3. /\ agent'[a].at = "renaming" /\ agent'[a].fd = agent[a].fd
        /\ \A b \in Agents \ {a} : agent'[b] = agent[b]
    BY <2>1, AtChanges
  <2>4. CASE ~overlapped
    <3>1. /\ agent[a].fd = "tmp" /\ tmp = Torn /\ meta # Torn
          /\ \A b \in Agents \ {a} : ~Saving(b)
      BY <2>1, <2>4 DEF SaveInv, Saving
    <3>2. QED
      BY <2>1, <2>2, <2>3, <2>4, <3>1 DEF SaveInv, Saving
  <2>5. QED
    BY <2>1, <2>4 DEF SaveInv
<1>8. ASSUME NEW a \in Agents, RenameTmp(a) PROVE SaveInv'
  <2>1. agent[a].at = "renaming" /\ agent'[a].at \in {"running", "ended"} /\ overlapped' = overlapped
        /\ (tmp # NoFile => meta' = tmp) /\ (tmp = NoFile => meta' = meta)
        /\ \A b \in Agents \ {a} : Saving(b) \/ agent'[b] = agent[b]
    BY <1>8, RenameDoes
  <2>2. CASE ~overlapped
    <3>1. /\ tmp \in Metadata /\ \A b \in Agents \ {a} : ~Saving(b)
      BY <2>1, <2>2 DEF SaveInv, Saving
    <3>2. meta' # Torn
      BY <2>1, <2>2, <3>1, MarksDiffer DEF SaveInv
    <3>3. \A b \in Agents : ~Saving(b)'
      BY <2>1, <3>1 DEF Saving
    <3>4. QED
      BY <2>1, <3>2, <3>3 DEF SaveInv, Saving
  <2>3. QED
    BY <2>1, <2>2 DEF SaveInv
<1>9. ASSUME NEW a \in Agents, SaveFails(a) PROVE SaveInv'
  <2>1. /\ agent[a].at \in {"saving", "writing"} /\ To(a, agent[a].then) /\ UNCHANGED metaVars
    BY <1>9 DEF SaveFails
  <2>2. agent[a] \in Settled
    BY <2>1, HereIsOne DEF Sees, Loaded
  <2>3. agent[a].then \notin {"writing", "renaming"}
    BY <2>2 DEF Settled
  <2>4. QED
    BY <1>1, <2>1, <2>3
<1>10. ASSUME NEW a \in Agents, \E both \in BOOLEAN : Record(a, both) PROVE SaveInv'
  BY <1>10 DEF Record, SaveInv, Saving, metaVars
<1>11. ASSUME NEW a \in Agents, Clear(a) \/ Cleared(a) \/ Delete(a) \/ Crash(a) PROVE SaveInv'
  BY <1>1, <1>11 DEF Clear, Cleared, Delete, Crash, Panics, KeepsFiles
<1>12. ASSUME NEW a \in Agents, LoadToEnd(a) PROVE SaveInv'
  <2>1. UNCHANGED metaVars /\ agent[a].at = "running"
    BY <1>12 DEF LoadToEnd, KeepsFiles
  <2>2. CASE meta = Torn
    BY <1>1, <1>12, <2>1, <2>2 DEF LoadToEnd, Panics
  <2>3. CASE meta # Torn
    BY <1>12, <2>1, <2>3, LoadDoes, SaveQuiet DEF Saving
  <2>4. QED
    BY <2>2, <2>3
<1>13. ASSUME NEW a \in Agents, Judge(a) PROVE SaveInv'
  <2>1. UNCHANGED metaVars
    BY <1>13 DEF Judge, KeepsFiles
  <2>2. QED
    BY <1>13, <2>1, JudgeDoes, SaveQuiet DEF Saving
<1>14. CASE UNCHANGED storeVars
  BY <1>14 DEF storeVars, metaVars, SaveInv, Saving
<1>15. QED
  BY <1>2, <1>3, <1>4, <1>5, <1>6, <1>7, <1>8, <1>9, <1>10, <1>11, <1>12, <1>13, <1>14
     DEF StoreNext, Ids, Hows

LEMMA SessionsNext ==
    ASSUME StoreTypeInv, SessionsInv, [StoreNext]_storeVars
    PROVE  SessionsInv'
<1>1. CASE UNCHANGED storeVars
  <2> USE <1>1 DEF storeVars, metaVars
  <2>1. \A s \in Sessions : DiskOf(s) => DiskOf(s)'
    BY DEF DiskOf, HeldOf, IsEmpty
  <2>2. AloneInv => AloneInv'
    BY DEF AloneInv, AloneOf, IsEmpty, Occupies, Here
  <2>3. \A d, last : Holds(d, last)' <=> Holds(d, last)
    BY DEF Holds, Sees
  <2>4. \A s : Pointed(s)' <=> Pointed(s)
    BY <2>3 DEF Pointed, Knows
  <2>5. PointedInv => PointedInv'
    BY <2>4 DEF PointedInv, Continues, IsEmpty
  <2>6. EntryInv => EntryInv'
    BY <2>3, <2>4 DEF EntryInv, Entered, Untouched, Legacy, Here
  <2>7. QED
    BY <2>1, <2>2, <2>5, <2>6 DEF SessionsInv, DiskInv, Sessions
<1>2. ASSUME NEW a \in Agents, NEW d \in WorkDirs, NEW how \in Hows, NEW s \in Ids,
             Start(a, d, how, s)
      PROVE  SessionsInv'
  BY <1>2, ArrivingKept
<1>3. ASSUME NEW a \in Agents, Look(a) \/ Open(a) \/ Migrate(a) PROVE SessionsInv'
  BY <1>3, ArrivingKept
<1>4. ASSUME NEW a \in Agents, CreateSession(a) PROVE SessionsInv'
  BY <1>4, CreatingKept
<1>5. ASSUME NEW a \in Agents, OpenTmp(a) \/ WriteTmp(a) \/ RenameTmp(a) \/ SaveFails(a)
      PROVE  SessionsInv'
  BY <1>5, SavingKept
<1>6. ASSUME NEW a \in Agents,
             (\E both \in BOOLEAN : Record(a, both)) \/ Clear(a) \/ Cleared(a) \/ Delete(a)
      PROVE  SessionsInv'
  BY <1>6, InsideKept
<1>7. ASSUME NEW a \in Agents, LoadToEnd(a) \/ Judge(a) \/ Crash(a) PROVE SessionsInv'
  BY <1>7, EndingKept
<1>8. QED
  BY <1>1, <1>2, <1>3, <1>4, <1>5, <1>6, <1>7 DEF StoreNext, Ids, Hows

StoreInv == StoreTypeInv /\ SessionsInv /\ SaveInv

LEMMA StoreInvAlways == StoreSpec => []StoreInv
<1>1. StoreInit => StoreInv
  <2> SUFFICES ASSUME StoreInit PROVE StoreInv
    OBVIOUS
  <2>1. /\ meta \in Metadata /\ tmp = NoFile /\ agent = [a \in Agents |-> Unbegun]
        /\ stored \in [Sessions -> {Nothing, [Nothing EXCEPT !.legacy = TRUE]}]
        /\ \A s \in Sessions : stored[s].legacy => s[2] \in SessionIds
        /\ recorded.in = {s \in Sessions : stored[s].legacy} /\ shared = {} /\ overlapped = FALSE
    BY DEF StoreInit
  <2>2. ASSUME NEW s \in Sessions
        PROVE  stored[s] \in OnDisk /\ stored[s].context = "absent" /\ stored[s].wire = "empty"
    <3>1. stored[s] = Nothing \/ stored[s] = [Nothing EXCEPT !.legacy = TRUE]
      BY <2>1
    <3>2. CASE stored[s] = Nothing
      BY <3>2 DEF Nothing, OnDisk
    <3>3. CASE stored[s] = [Nothing EXCEPT !.legacy = TRUE]
      BY <3>3 DEF Nothing, OnDisk
    <3>4. QED
      BY <3>1, <3>2, <3>3
  <2>3. StoreTypeInv
    BY <2>1, <2>2 DEF StoreTypeInv
  <2>4. \A a \in Agents : agent[a].at = "unbegun"
    BY <2>1 DEF Unbegun
  <2>5. DiskInv /\ AloneInv /\ SaveInv
    <3>1. DiskInv
      BY <2>1, <2>2 DEF DiskInv, DiskOf, HeldOf, IsEmpty, Sessions
    <3>2. AloneInv
      BY <2>4 DEF AloneInv, Occupies, Inside, Loaded
    <3>3. SaveInv
      BY <2>1, <2>4, MarksDiffer DEF SaveInv, Saving
    <3>4. QED
      BY <3>1, <3>2, <3>3
  <2>6. ASSUME NEW d \in WorkDirs, NEW last \in SessionIds \cup {NoEntry}, Holds(d, last)
        PROVE  meta[d] = last
    BY <2>1, <2>4, <2>6, MarksDiffer DEF Holds, Sees, Loaded, Ids, NoEntry
  <2>7. ASSUME NEW d \in WorkDirs, NEW id \in SessionIds, Pointed(<<d, id>>)
        PROVE  meta[d] = id /\ stored[<<d, id>>].legacy
    <3>1. Holds(d, id)
      BY <2>4, <2>7 DEF Pointed, Knows
    <3>2. meta[d] = id
      BY <2>6, <3>1
    <3>3. QED
      BY <3>2 DEF StoreInit
  <2>8. PointedInv
    <3> SUFFICES ASSUME NEW d \in WorkDirs, NEW id \in SessionIds, Pointed(<<d, id>>)
                 PROVE  Continues(<<d, id>>)
      BY DEF PointedInv
    <3>1. <<d, id>> \in Sessions /\ stored[<<d, id>>].legacy
      BY <2>7 DEF Sessions
    <3>2. QED
      BY <2>1, <2>2, <3>1 DEF Continues
  <2>9. EntryInv
    <3> SUFFICES ASSUME NEW d \in WorkDirs, NEW id \in SessionIds, Pointed(<<d, id>>)
                 PROVE  Entered(d)
      BY DEF EntryInv
    <3>1. meta[d] = id /\ id # NoEntry
      BY <2>7, MarksDiffer DEF Ids, NoEntry
    <3>2. ~Holds(d, NoEntry)
      BY <2>6, <3>1
    <3>3. QED
      BY <2>4, <3>2 DEF Entered
  <2>10. QED
    BY <2>3, <2>5, <2>8, <2>9 DEF StoreInv, SessionsInv
<1>2. StoreInv /\ [StoreNext]_storeVars => StoreInv'
  BY StoreTypeNext, SessionsNext, SaveNext DEF StoreInv
<1>3. QED
  BY <1>1, <1>2, PTL DEF StoreSpec

\* metadata.rs:171-177: kimi.json is whole as long as one process at a time saves it,
\* whichever of them dies on the way or finds the disk full.
THEOREM MetadataIsWhole == StoreSpec => [](~overlapped => meta \in Metadata)
<1>1. StoreInv => (~overlapped => meta \in Metadata)
  BY DEF StoreInv, StoreTypeInv, SaveInv
<1>2. QED
  BY <1>1, StoreInvAlways, PTL

\* session.rs:135-155, cli/mod.rs:538-575: what was said in a session stays, and the session
\* that --continue goes for is one of those, unless two processes were in it at once; and
\* kimi.json is whole while one process at a time saves.
THEOREM SessionsCorrect == StoreSpec => []SessionsAreKept
<1>1. StoreInv => SessionsAreKept
  <2> SUFFICES ASSUME StoreInv PROVE SessionsAreKept
    OBVIOUS
  <2>1. \A s \in recorded.in \ shared : HeldOf(s)
    BY DEF StoreInv, StoreTypeInv, SessionsInv, DiskInv, DiskOf
  <2>2. ASSUME NEW d \in WorkDirs, meta # Torn, meta[d] \in SessionIds,
               <<d, meta[d]>> \notin shared
        PROVE  /\ <<d, meta[d]>> \in recorded.in
               /\ stored[<<d, meta[d]>>].context = "absent" \/ meta[d] \in Listed(d)
    <3> DEFINE s == <<d, meta[d]>>
    <3>1. Continues(s)
      <4>1. s \in WorkDirs \X SessionIds /\ Pointed(s)
        BY <2>2 DEF Pointed, Holds
      <4>2. QED
        BY <4>1 DEF StoreInv, SessionsInv, PointedInv
    <3>2. DiskOf(s)
      BY <2>2 DEF StoreInv, SessionsInv, DiskInv, Sessions
    <3>3. meta[d] # NoEntry
      BY <2>2, MarksDiffer DEF Ids, NoEntry
    <3>4. s \in recorded.in
      BY <2>2, <3>1 DEF Continues
    <3>5. CASE stored[s].context = "absent"
      BY <3>4, <3>5
    <3>6. CASE stored[s].context # "absent"
      <4>1. ~IsEmpty(s) /\ stored[s].dir
        BY <2>2, <3>1, <3>2, <3>6 DEF Continues, DiskOf
      <4>2. meta[d] \in Listed(d)
        BY <2>2, <3>3, <3>6, <4>1 DEF Listed
      <4>3. QED
        BY <3>4, <4>2
    <3>7. QED
      BY <3>5, <3>6
  <2>3. ~overlapped => meta # Torn
    BY DEF StoreInv, SaveInv
  <2>4. QED
    BY <2>1, <2>2, <2>3 DEF SessionsAreKept
<1>2. QED
  BY <1>1, StoreInvAlways, PTL

---------------------------------------------------------------------------------
(* The window. *)

Tabs == [id : Nat, at : Machines, session : Nat, held : {"attached", "joined", "child"}]
Rows == [at : Machines, session : Saved]

HubTypes ==
    /\ tabs \in Seq(Tabs) /\ panes \in Seq(Nat) /\ focused \in Nat /\ nextTab \in Nat
    /\ rows \in Seq(Rows) /\ cursor \in Nat
    /\ HubTypeOK

\* No two tabs have one id, and ids are not given twice.
OwnIds ==
    /\ \A i \in DOMAIN tabs : tabs[i].id \in 1 .. nextTab - 1
    /\ \A i, j \in DOMAIN tabs : tabs[i].id = tabs[j].id => i = j

HubInv == HubTypes /\ OwnIds

\* One sequence behind another.
LEMMA Joined ==
    ASSUME NEW S, NEW s \in Seq(S), NEW t \in Seq(S)
    PROVE  /\ s \o t \in Seq(S) /\ Len(s \o t) = Len(s) + Len(t)
           /\ \A j \in 1 .. Len(s) : (s \o t)[j] = s[j]
           /\ \A j \in Len(s) + 1 .. Len(s) + Len(t) : (s \o t)[j] = t[j - Len(s)]
  OBVIOUS

\* What is left of a sequence without one of its elements.
LEMMA RemovedAt ==
    ASSUME NEW S, NEW s \in Seq(S), NEW i \in 1 .. Len(s)
    PROVE  /\ RemoveAt(s, i) \in Seq(S) /\ Len(RemoveAt(s, i)) = Len(s) - 1
           /\ \A j \in 1 .. i - 1 : RemoveAt(s, i)[j] = s[j]
           /\ \A j \in i .. Len(s) - 1 : RemoveAt(s, i)[j] = s[j + 1]
<1> DEFINE front == SubSeq(s, 1, i - 1)
           back == SubSeq(s, i + 1, Len(s))
<1>1. /\ front \in Seq(S) /\ Len(front) = i - 1
      /\ \A j \in 1 .. i - 1 : front[j] = s[j]
  OBVIOUS
<1>2. /\ back \in Seq(S) /\ Len(back) = Len(s) - i
      /\ \A j \in 1 .. Len(s) - i : back[j] = s[j + i]
  OBVIOUS
<1>3. RemoveAt(s, i) = front \o back
  BY DEF RemoveAt
<1> HIDE DEF front, back
<1>4. /\ RemoveAt(s, i) \in Seq(S) /\ Len(RemoveAt(s, i)) = i - 1 + (Len(s) - i)
      /\ \A j \in 1 .. i - 1 : RemoveAt(s, i)[j] = front[j]
      /\ \A j \in i - 1 + 1 .. i - 1 + (Len(s) - i) : RemoveAt(s, i)[j] = back[j - (i - 1)]
  <2>1. /\ front \o back \in Seq(S) /\ Len(front \o back) = Len(front) + Len(back)
        /\ \A j \in 1 .. Len(front) : (front \o back)[j] = front[j]
        /\ \A j \in Len(front) + 1 .. Len(front) + Len(back) :
              (front \o back)[j] = back[j - Len(front)]
    BY <1>1, <1>2, Joined
  <2>2. QED
    BY <2>1, <1>1, <1>2, <1>3
<1>5. ASSUME NEW j \in i .. Len(s) - 1
      PROVE  RemoveAt(s, i)[j] = s[j + 1]
  <2>1. j - (i - 1) \in 1 .. Len(s) - i /\ j - (i - 1) + i = j + 1
    OBVIOUS
  <2>2. RemoveAt(s, i)[j] = back[j - (i - 1)]
    BY <1>4
  <2>3. back[j - (i - 1)] = s[j - (i - 1) + i]
    BY <1>2, <2>1
  <2>4. QED
    BY <2>1, <2>2, <2>3
<1>6. QED
  BY <1>1, <1>4, <1>5

\* A sequence with one element more at some place.
LEMMA InsertedAt ==
    ASSUME NEW S, NEW s \in Seq(S), NEW i \in 1 .. Len(s) + 1, NEW e \in S
    PROVE  /\ InsertAt(s, i, e) \in Seq(S) /\ Len(InsertAt(s, i, e)) = Len(s) + 1
<1> DEFINE front == SubSeq(s, 1, i - 1)
           back == SubSeq(s, i, Len(s))
<1>1. front \in Seq(S) /\ Len(front) = i - 1
  OBVIOUS
<1>2. back \in Seq(S) /\ Len(back) = Len(s) - i + 1
  OBVIOUS
<1>3. InsertAt(s, i, e) = (front \o <<e>>) \o back
  BY DEF InsertAt
<1> HIDE DEF front, back
<1>4. front \o <<e>> \in Seq(S) /\ Len(front \o <<e>>) = i
  BY <1>1
<1> DEFINE head == front \o <<e>>
<1> HIDE DEF head
<1>5. head \o back \in Seq(S) /\ Len(head \o back) = Len(s) + 1
  BY <1>2, <1>4 DEF head
<1>6. QED
  BY <1>3, <1>5 DEF head

\* The elements of a finite set, in some order.
LEMMA SomeOrder ==
    ASSUME NEW S, IsFiniteSet(S)
    PROVE  SetToSeq(S) \in Seq(S)
<1>1. Cardinality(S) \in Nat /\ ExistsBijection(1 .. Cardinality(S), S)
  BY FS_CardinalityType
<1>2. PICK f : f \in [1 .. Cardinality(S) -> S] /\ IsInjective(f)
  BY <1>1 DEF ExistsBijection, Bijection, Injection, IsInjective
<1>3. SetToSeq(S) \in [1 .. Cardinality(S) -> S]
  BY <1>2 DEF SetToSeq
<1>4. QED
  BY <1>1, <1>3

\* Counted from 1 instead of 0.
LEMMA FromOne ==
    ASSUME NEW n \in Nat, NEW k \in Nat, k < n
    PROVE  k + 1 \in 1 .. n /\ n > 0 /\ (n > 1 \/ n = 1) /\ k + 2 \in 1 .. n + 1
  OBVIOUS

\* What is below a number is below a greater one.
LEMMA Below ==
    ASSUME NEW n \in Nat, NEW m \in Nat, n >= 1, n <= m
    PROVE  /\ 0 \in 0 .. m - 1
           /\ \A k \in 0 .. n - 1 : k \in 0 .. m - 1
           /\ \A k \in 1 .. n - 1 : k \in 0 .. m - 1
  OBVIOUS

\* What becomes of a pane's index when one of n tabs closes.
LEMMA Shifts ==
    ASSUME NEW n \in Nat \ {0}, NEW i \in 0 .. n - 1, NEW a \in Nat, NEW b,
           b = LET shifted == IF a > i THEN a - 1 ELSE a
                   last == IF n = 1 THEN 0 ELSE n - 2
               IN  IF shifted < last THEN shifted ELSE last
    PROVE  /\ b \in Nat
           /\ b = 0 \/ b < n - 1
           /\ a < i => b = a
           /\ a > i /\ a < n => b = a - 1
  OBVIOUS

\* What a step may do to the tabs and the panes: nothing, open a tab in the pane that has
\* the focus then, close one, turn to another tab in that pane, or change the panes.
Still == tabs' = tabs /\ panes' = panes /\ nextTab' = nextTab
OpensOne ==
    /\ nextTab <= MaxTabIds /\ Len(tabs) < MaxTabs /\ nextTab' = nextTab + 1
    /\ focused' \in Nat /\ focused' < Len(panes)
    /\ \E t \in Tabs : t.id = nextTab /\ tabs' = Append(tabs, t)
    /\ panes' = [panes EXCEPT ![focused' + 1] = Len(tabs)]
CountsOne ==
    nextTab <= MaxTabIds /\ nextTab' = nextTab + 1 /\ tabs' = tabs /\ panes' = panes
ClosesOne ==
    /\ nextTab' = nextTab
    /\ \E i \in 0 .. Len(tabs) - 1 : CloseSession(i)
TurnsOne ==
    /\ tabs' = tabs /\ nextTab' = nextTab
    /\ focused' \in Nat /\ focused' < Len(panes)
    /\ \E i \in 0 .. Len(tabs) - 1 : panes' = [panes EXCEPT ![focused' + 1] = i]
Splits ==
    /\ tabs' = tabs /\ nextTab' = nextTab /\ Len(panes) < MaxPanes
    /\ panes' = InsertAt(panes, focused + 2, Active)
Unsplits ==
    /\ tabs' = tabs /\ nextTab' = nextTab /\ Len(panes) > 1
    /\ panes' = RemoveAt(panes, focused + 1)

Does == Still \/ OpensOne \/ CountsOne \/ ClosesOne \/ TurnsOne \/ Splits \/ Unsplits

\* Opening a tab opens one, or tells of an error.
LEMMA OpensAt ==
    ASSUME HubTypes, NEW m \in Machines, NEW s \in Nat, Opens(m, s),
           focused' \in Nat, focused' < Len(panes)
    PROVE  OpensOne \/ CountsOne
<1>1. Tab(m, s, Held(m, s)) \in Tabs /\ Tab(m, s, Held(m, s)).id = nextTab
  BY DEF Tab, Held, HubTypes, Tabs
<1>2. QED
  BY <1>1 DEF Opens, OpensOne, CountsOne

\* So does the button for a new one.
LEMMA OpensByPick ==
    ASSUME HubTypes, StartFolderPick, focused' = focused
    PROVE  OpensOne \/ CountsOne \/ Still
<1>1. CASE ActiveTarget = "remote"
  BY <1>1, OpensAt DEF StartFolderPick, HubTypes, HubTypeOK, Machines
<1>2. CASE ActiveTarget # "remote"
  BY <1>2 DEF StartFolderPick, Still
<1>3. QED
  BY <1>1, <1>2

\* Every step does one of these.
LEMMA HubDoes ==
    ASSUME HubTypes, HubNext
    PROVE  Does
<1> USE DEF Does
<1>0. focused \in Nat /\ focused < Len(panes) /\ Len(panes) \in Nat /\ Len(tabs) \in Nat
  BY DEF HubTypes, HubTypeOK
<1>a. "here" \in Machines /\ "remote" \in Machines
  BY DEF Machines
<1>1. CASE FolderPicked
  <2>1. CASE Opens("here", 0)
    BY <1>0, <1>1, <1>a, <2>1, OpensAt DEF FolderPicked
  <2>2. QED
    BY <1>1, <2>1 DEF FolderPicked, Still
<1>2. CASE ConfirmClose
  BY <1>2 DEF ConfirmClose, Still, ClosesOne, IndexOf
<1>3. CASE StopButton
  BY <1>3 DEF StopButton, StopAgentOf, ClosesOne, IndexOf
<1>4. CASE DropQuestion \/ ListingLands \/ ResumeStep \/ ResumeCancel \/ ShortcutCloses
           \/ PaletteCancel \/ ErrorRead \/ ClickPane \/ ClickClose \/ RunListing \/ ClickBook
  BY <1>4 DEF DropQuestion, ListingLands, ResumeStep, ResumeCancel, ShortcutCloses,
       PaletteCancel, ErrorRead, ClickPane, ClickClose, RunListing, ClickBook, Still
<1>5. CASE ResumeRow
  <2>1. PICK i \in DOMAIN rows : ResumeSession(i)
    <3>1. CASE \E i \in DOMAIN rows : ResumeSession(i)
      BY <3>1
    <3>2. CASE ResumeSession((IF cursor < Len(rows) THEN cursor ELSE Len(rows) - 1) + 1)
      <4>1. Len(rows) \in Nat \ {0} /\ cursor \in Nat /\ DOMAIN rows = 1 .. Len(rows)
        BY <1>5 DEF ResumeRow, HubTypes
      <4>2. (IF cursor < Len(rows) THEN cursor ELSE Len(rows) - 1) + 1 \in DOMAIN rows
        BY <4>1
      <4>3. QED
        BY <3>2, <4>2
    <3>3. QED
      BY <1>5, <3>1, <3>2 DEF ResumeRow
  <2>2. rows[i] \in Rows /\ rows[i].session \in Nat /\ source \in Machines
    <3>1. rows[i] \in Rows /\ source \in Machines
      BY DEF HubTypes, HubTypeOK
    <3>2. rows[i].session \in Saved
      BY <3>1 DEF Rows
    <3>3. QED
      BY <3>1, <3>2, WindowAssumption
  <2>3. focused' = focused
    BY <1>5 DEF ResumeRow
  <2>4. QED
    BY <1>0, <2>1, <2>2, <2>3, OpensAt DEF ResumeSession
<1>6. CASE Shortcut
  <2>1. ASSUME tabs # <<>>, focused' = focused, tabs' = tabs, nextTab' = nextTab,
               NEW step \in {1, Len(tabs) - 1},
               panes' = [panes EXCEPT ![focused + 1] = (@ + step) % Len(tabs)]
        PROVE  TurnsOne
    <3>1. Len(tabs) \in Nat \ {0} /\ panes[focused + 1] \in Nat /\ step \in Nat
      BY <1>0, <2>1 DEF HubTypes
    <3>2. (panes[focused + 1] + step) % Len(tabs) \in 0 .. Len(tabs) - 1
      BY <3>1
    <3>3. QED
      BY <1>0, <2>1, <3>2 DEF TurnsOne
  <2>2. QED
    BY <1>6, <2>1 DEF Shortcut, Still
<1>7. CASE ShortcutOpens
  BY <1>7, OpensByPick DEF ShortcutOpens
<1>8. CASE RunOpening
  <2>1. focused' = focused
    BY <1>8 DEF RunOpening
  <2>2. CASE StartFolderPick
    BY <2>1, <2>2, OpensByPick
  <2>3. CASE Opens("remote", 0)
    BY <1>0, <1>a, <2>1, <2>3, OpensAt
  <2>4. QED
    BY <1>8, <2>2, <2>3 DEF RunOpening, OpenRemoteSession, ConnectRemote, Still
<1>9. CASE RunClosing
  <2>1. panes[focused + 1] \in Nat
    BY <1>0 DEF HubTypes
  <2>2. CASE Has(Active) /\ StopAgentOf(Active)
    <3>1. Active \in 0 .. Len(tabs) - 1
      BY <1>0, <2>1, <2>2 DEF Has, Active
    <3>2. CloseSession(Active) /\ nextTab' = nextTab
      BY <1>9, <2>2 DEF StopAgentOf, RunClosing
    <3>3. QED
      BY <3>1, <3>2 DEF ClosesOne
  <2>3. QED
    BY <1>9, <2>2 DEF RunClosing, Still
<1>10. CASE RunSplitting
  <2>1. Len(panes) > 1 \/ Len(panes) = 1
    BY <1>0, FromOne
  <2>2. CASE SplitPane
    BY <1>10, <2>2 DEF RunSplitting, SplitPane, Splits
  <2>3. CASE CloseSplit
    BY <1>10, <2>1, <2>3 DEF RunSplitting, CloseSplit, Unsplits, Still
  <2>4. QED
    BY <1>10, <2>2, <2>3 DEF RunSplitting
<1>11. CASE ClickTab
  <2>1. PICK p \in DOMAIN panes, i \in 0 .. Len(tabs) - 1 :
          focused' = p - 1 /\ panes' = [panes EXCEPT ![p] = i]
    BY <1>11 DEF ClickTab
  <2>2. focused' \in Nat /\ focused' < Len(panes) /\ focused' + 1 = p
    BY <2>1 DEF HubTypes
  <2>3. tabs' = tabs /\ nextTab' = nextTab
    BY <1>11 DEF ClickTab
  <2>4. QED
    BY <2>1, <2>2, <2>3 DEF TurnsOne
<1>12. CASE ClickPlus
  <2>1. PICK p \in DOMAIN panes :
          /\ focused' = p - 1
          /\ LET target == IF Has(panes[p]) THEN tabs[panes[p] + 1].at ELSE "here"
             IN  IF target = "remote" THEN Opens("remote", 0) /\ UNCHANGED picking
                 ELSE picking' = TRUE /\ UNCHANGED <<tabs, panes, nextTab, error>>
    BY <1>12 DEF ClickPlus
  <2>2. focused' \in Nat /\ focused' < Len(panes)
    BY <2>1 DEF HubTypes
  <2>3. CASE Opens("remote", 0)
    BY <1>a, <2>2, <2>3, OpensAt
  <2>4. QED
    BY <2>1, <2>3 DEF Still
<1>13. CASE ClickLink
  <2>1. focused' \in Nat /\ focused' < Len(panes)
    BY <1>0, <1>13 DEF ClickLink
  <2>2. CASE Opens("remote", 0)
    BY <1>a, <2>1, <2>2, OpensAt
  <2>3. QED
    BY <1>13, <2>2 DEF ClickLink, ConnectRemote, Still
<1>14. QED
  BY <1>1, <1>2, <1>3, <1>4, <1>5, <1>6, <1>7, <1>8, <1>9, <1>10, <1>11, <1>12, <1>13
     DEF HubNext

\* The tabs and the panes after a step that closes one: who had a tab has its neighbour's
\* place, or the last.
LEMMA ClosedShift ==
    ASSUME HubTypes, NEW i \in 0 .. Len(tabs) - 1, CloseSession(i)
    PROVE  /\ tabs' \in Seq(Tabs) /\ Len(tabs') = Len(tabs) - 1
           /\ \A j \in 1 .. i : tabs'[j] = tabs[j]
           /\ \A j \in i + 1 .. Len(tabs) - 1 : tabs'[j] = tabs[j + 1]
           /\ panes' \in Seq(Nat) /\ Len(panes') = Len(panes)
           /\ \A p \in DOMAIN panes :
                /\ panes'[p] = 0 \/ panes'[p] < Len(tabs')
                /\ panes[p] < i => panes'[p] = panes[p]
                /\ panes[p] > i /\ panes[p] < Len(tabs) => panes'[p] = panes[p] - 1
<1>1. tabs \in Seq(Tabs) /\ Len(tabs) \in Nat \ {0} /\ i + 1 \in 1 .. Len(tabs)
  BY DEF HubTypes
<1>2. tabs' = RemoveAt(tabs, i + 1)
  BY DEF CloseSession, Without
<1>3. /\ tabs' \in Seq(Tabs) /\ Len(tabs') = Len(tabs) - 1
      /\ \A j \in 1 .. i + 1 - 1 : tabs'[j] = tabs[j]
      /\ \A j \in i + 1 .. Len(tabs) - 1 : tabs'[j] = tabs[j + 1]
  <2> DEFINE k == i + 1
             rest == RemoveAt(tabs, k)
  <2>1. k \in 1 .. Len(tabs) /\ tabs \in Seq(Tabs) /\ tabs' = rest
    BY <1>1, <1>2
  <2>2. /\ rest \in Seq(Tabs) /\ Len(rest) = Len(tabs) - 1
        /\ \A j \in 1 .. k - 1 : rest[j] = tabs[j]
        /\ \A j \in k .. Len(tabs) - 1 : rest[j] = tabs[j + 1]
    <3> HIDE DEF k
    <3>1. QED
      BY <2>1, RemovedAt, Zenon
  <2> HIDE DEF rest
  <2>3. QED
    BY <2>1, <2>2
<1>4. panes \in Seq(Nat) /\ DOMAIN panes = 1 .. Len(panes) /\ Len(panes) \in Nat
  BY DEF HubTypes
<1>5. panes' = [p \in 1 .. Len(panes) |-> ShiftActive(panes[p], i)]
  BY <1>4 DEF CloseSession
<1>6. ASSUME NEW a \in Nat
      PROVE  /\ ShiftActive(a, i) \in Nat
             /\ ShiftActive(a, i) = 0 \/ ShiftActive(a, i) < Len(tabs) - 1
             /\ a < i => ShiftActive(a, i) = a
             /\ a > i /\ a < Len(tabs) => ShiftActive(a, i) = a - 1
  <2> DEFINE n == Len(tabs)
             b == ShiftActive(a, i)
  <2>1. b = LET shifted == IF a > i THEN a - 1 ELSE a
                last == IF n = 1 THEN 0 ELSE n - 2
            IN  IF shifted < last THEN shifted ELSE last
    BY DEF ShiftActive
  <2>2. n \in Nat \ {0}
    BY <1>1
  <2> HIDE DEF n, b
  <2>3. /\ b \in Nat
        /\ b = 0 \/ b < n - 1
        /\ a < i => b = a
        /\ a > i /\ a < n => b = a - 1
    <3>1. i \in 0 .. n - 1
      BY DEF n
    <3>2. QED
      BY <2>1, <2>2, <3>1, Shifts
  <2>4. QED
    BY <2>3 DEF n, b
<1>7. \A p \in 1 .. Len(panes) : panes[p] \in Nat /\ panes'[p] = ShiftActive(panes[p], i)
  BY <1>4, <1>5
<1>8. panes' \in Seq(Nat) /\ Len(panes') = Len(panes)
  BY <1>4, <1>5, <1>6, <1>7
<1>9. ASSUME NEW p \in DOMAIN panes
      PROVE  /\ panes'[p] = 0 \/ panes'[p] < Len(tabs')
             /\ panes[p] < i => panes'[p] = panes[p]
             /\ panes[p] > i /\ panes[p] < Len(tabs) => panes'[p] = panes[p] - 1
  <2>1. panes[p] \in Nat /\ panes'[p] = ShiftActive(panes[p], i)
    BY <1>4, <1>7
  <2>2. QED
    BY <1>3, <1>6, <2>1
<1>10. QED
  BY <1>3, <1>8, <1>9

\* The tabs that are left are the others, each once.
LEMMA ClosedOthers ==
    ASSUME HubInv, NEW i \in 0 .. Len(tabs) - 1, CloseSession(i)
    PROVE  /\ \A j \in DOMAIN tabs' : \E k \in DOMAIN tabs \ {i + 1} : tabs'[j] = tabs[k]
           /\ \A j, m \in DOMAIN tabs' : tabs'[j].id = tabs'[m].id => j = m
<1>1. /\ tabs' \in Seq(Tabs) /\ Len(tabs') = Len(tabs) - 1
      /\ \A j \in 1 .. i : tabs'[j] = tabs[j]
      /\ \A j \in i + 1 .. Len(tabs) - 1 : tabs'[j] = tabs[j + 1]
  BY ClosedShift DEF HubInv
<1>2. /\ DOMAIN tabs' = 1 .. Len(tabs) - 1 /\ DOMAIN tabs = 1 .. Len(tabs) /\ Len(tabs) \in Nat
  BY <1>1 DEF HubInv, HubTypes
<1> DEFINE From(j) == IF j <= i THEN j ELSE j + 1
<1>3. \A j \in DOMAIN tabs' : From(j) \in DOMAIN tabs \ {i + 1} /\ tabs'[j] = tabs[From(j)]
  BY <1>1, <1>2
<1>4. \A j, m \in DOMAIN tabs' : From(j) = From(m) => j = m
  BY <1>2
<1> HIDE DEF From
<1>5. QED
  BY <1>3, <1>4 DEF HubInv, OwnIds

\* The tabs and the panes after a step.
LEMMA HubKeeps ==
    ASSUME HubInv, Does
    PROVE  /\ tabs' \in Seq(Tabs) /\ Len(tabs') <= MaxTabs
           /\ panes' \in Seq(Nat) /\ Len(panes') \in 1 .. MaxPanes
           /\ \A p \in DOMAIN panes' : IF tabs' = <<>> THEN panes'[p] = 0
                                       ELSE panes'[p] < Len(tabs')
           /\ nextTab' \in 1 .. MaxTabIds + 1 /\ nextTab <= nextTab'
           /\ OwnIds'
<1>0. /\ tabs \in Seq(Tabs) /\ Len(tabs) \in Nat /\ Len(tabs) <= MaxTabs
      /\ DOMAIN tabs = 1 .. Len(tabs)
      /\ panes \in Seq(Nat) /\ Len(panes) \in Nat /\ Len(panes) \in 1 .. MaxPanes
      /\ DOMAIN panes = 1 .. Len(panes)
      /\ \A p \in 1 .. Len(panes) : IF tabs = <<>> THEN panes[p] = 0 ELSE panes[p] < Len(tabs)
      /\ focused \in Nat /\ focused < Len(panes)
      /\ nextTab \in 1 .. MaxTabIds + 1
      /\ \A i \in 1 .. Len(tabs) : tabs[i].id \in 1 .. nextTab - 1
      /\ \A i, j \in 1 .. Len(tabs) : tabs[i].id = tabs[j].id => i = j
      /\ MaxTabs \in Nat \ {0} /\ MaxPanes \in Nat \ {0} /\ MaxTabIds \in Nat \ {0}
  <2>1. HubTypes /\ OwnIds /\ HubTypeOK
    BY DEF HubInv, HubTypes
  <2>2. /\ tabs \in Seq(Tabs) /\ Len(tabs) \in Nat /\ DOMAIN tabs = 1 .. Len(tabs)
        /\ panes \in Seq(Nat) /\ Len(panes) \in Nat /\ DOMAIN panes = 1 .. Len(panes)
        /\ focused \in Nat
    BY <2>1 DEF HubTypes
  <2>3. MaxTabs \in Nat \ {0} /\ MaxPanes \in Nat \ {0} /\ MaxTabIds \in Nat \ {0}
    BY WindowAssumption
  <2>4. /\ Len(tabs) <= MaxTabs /\ Len(panes) \in 1 .. MaxPanes /\ focused < Len(panes)
        /\ nextTab \in 1 .. MaxTabIds + 1
        /\ \A p \in DOMAIN panes : IF tabs = <<>> THEN panes[p] = 0 ELSE panes[p] < Len(tabs)
    BY <2>1 DEF HubTypeOK, Has
  <2>5. /\ \A i \in DOMAIN tabs : tabs[i].id \in 1 .. nextTab - 1
        /\ \A i, j \in DOMAIN tabs : tabs[i].id = tabs[j].id => i = j
    BY <2>1 DEF OwnIds
  <2>6. QED
    BY <2>2, <2>3, <2>4, <2>5
<1> USE DEF OwnIds
<1>1. CASE Still
  BY <1>0, <1>1 DEF Still
<1>2. CASE OpensOne
  <2>1. PICK t \in Tabs : t.id = nextTab /\ tabs' = Append(tabs, t)
    BY <1>2 DEF OpensOne
  <2>2. /\ tabs' \in Seq(Tabs) /\ Len(tabs') = Len(tabs) + 1 /\ DOMAIN tabs' = 1 .. Len(tabs) + 1
        /\ tabs'[Len(tabs) + 1] = t
        /\ \A i \in 1 .. Len(tabs) : tabs'[i] = tabs[i]
    BY <1>0, <2>1
  <2>3. nextTab' = nextTab + 1 /\ nextTab <= MaxTabIds /\ Len(tabs) < MaxTabs
    BY <1>2 DEF OpensOne
  <2>4. panes' = [panes EXCEPT ![focused' + 1] = Len(tabs)] /\ focused' + 1 \in 1 .. Len(panes)
    BY <1>2, <1>0, FromOne DEF OpensOne
  <2>5. /\ panes' \in Seq(Nat) /\ Len(panes') = Len(panes) /\ DOMAIN panes' = 1 .. Len(panes)
        /\ \A p \in 1 .. Len(panes) : panes'[p] = Len(tabs) \/ panes'[p] = panes[p]
    BY <1>0, <2>4
  <2>6. ASSUME NEW p \in 1 .. Len(panes) PROVE panes[p] <= Len(tabs)
    <3>1. CASE tabs = <<>>
      BY <1>0, <3>1
    <3>2. CASE tabs # <<>>
      BY <1>0, <3>2
    <3>3. QED
      BY <3>1, <3>2
  <2>7. tabs' # <<>> /\ \A p \in DOMAIN panes' : panes'[p] < Len(tabs')
    <3>1. tabs' # <<>>
      BY <1>0, <2>2
    <3>2. ASSUME NEW p \in 1 .. Len(panes)
          PROVE  panes'[p] < Len(tabs')
      BY <1>0, <2>2, <2>5, <2>6
    <3>3. QED
      BY <2>5, <3>1, <3>2
  <2>8. OwnIds'
    <3>1. \A k \in 1 .. Len(tabs) + 1 : tabs'[k].id \in 1 .. nextTab' - 1
      BY <1>0, <2>1, <2>2, <2>3
    <3>2. ASSUME NEW k \in 1 .. Len(tabs) + 1, NEW m \in 1 .. Len(tabs) + 1,
                 tabs'[k].id = tabs'[m].id
          PROVE  k = m
      <4>1. CASE k \in 1 .. Len(tabs) /\ m \in 1 .. Len(tabs)
        BY <1>0, <2>2, <3>2, <4>1
      <4>2. CASE k = Len(tabs) + 1 /\ m \in 1 .. Len(tabs)
        BY <1>0, <2>1, <2>2, <3>2, <4>2
      <4>3. CASE m = Len(tabs) + 1 /\ k \in 1 .. Len(tabs)
        BY <1>0, <2>1, <2>2, <3>2, <4>3
      <4>4. QED
        BY <1>0, <4>1, <4>2, <4>3
    <3>3. QED
      BY <2>2, <3>1, <3>2
  <2>9. QED
    BY <1>0, <2>2, <2>3, <2>5, <2>7, <2>8
<1>3. CASE CountsOne
  BY <1>0, <1>3 DEF CountsOne
<1>4. CASE ClosesOne
  <2>1. PICK i \in 0 .. Len(tabs) - 1 : CloseSession(i)
    BY <1>4 DEF ClosesOne
  <2>2. /\ tabs' \in Seq(Tabs) /\ Len(tabs') = Len(tabs) - 1
        /\ panes' \in Seq(Nat) /\ Len(panes') = Len(panes)
        /\ \A p \in DOMAIN panes : panes'[p] = 0 \/ panes'[p] < Len(tabs')
    BY <2>1, ClosedShift DEF HubInv
  <2>3. /\ \A j \in DOMAIN tabs' : \E k \in DOMAIN tabs \ {i + 1} : tabs'[j] = tabs[k]
        /\ \A j, m \in DOMAIN tabs' : tabs'[j].id = tabs'[m].id => j = m
    BY <2>1, ClosedOthers
  <2>4. nextTab' = nextTab
    BY <1>4 DEF ClosesOne
  <2>5. OwnIds'
    BY <1>0, <2>3, <2>4
  <2>6. DOMAIN panes' = DOMAIN panes
    BY <1>0, <2>2
  <2>7. \A p \in DOMAIN panes' : IF tabs' = <<>> THEN panes'[p] = 0 ELSE panes'[p] < Len(tabs')
    <3>1. tabs' = <<>> => Len(tabs') = 0
      OBVIOUS
    <3>2. tabs' # <<>> => Len(tabs') > 0
      BY <2>2
    <3>3. \A p \in DOMAIN panes' : panes'[p] \in Nat
      BY <2>2
    <3>4. QED
      BY <2>2, <2>6, <3>1, <3>2, <3>3
  <2>8. QED
    BY <1>0, <2>2, <2>4, <2>5, <2>7
<1>5. CASE TurnsOne
  <2>1. PICK i \in 0 .. Len(tabs) - 1 : panes' = [panes EXCEPT ![focused' + 1] = i]
    BY <1>5 DEF TurnsOne
  <2>2. focused' + 1 \in 1 .. Len(panes) /\ tabs' = tabs /\ nextTab' = nextTab
    BY <1>0, <1>5, FromOne DEF TurnsOne
  <2>3. /\ panes' \in Seq(Nat) /\ Len(panes') = Len(panes) /\ DOMAIN panes' = 1 .. Len(panes)
        /\ \A p \in 1 .. Len(panes) : panes'[p] = i \/ panes'[p] = panes[p]
    BY <1>0, <2>1, <2>2
  <2>4. tabs # <<>> /\ i < Len(tabs)
    BY <1>0, <2>1
  <2>5. ASSUME NEW p \in 1 .. Len(panes)
        PROVE  panes'[p] < Len(tabs)
    BY <1>0, <2>3, <2>4
  <2>6. OwnIds'
    BY <1>0, <2>2
  <2>7. QED
    BY <1>0, <2>2, <2>3, <2>4, <2>5, <2>6
<1>6. CASE Splits
  <2>1. Active \in Nat /\ focused + 2 \in 1 .. Len(panes) + 1 /\ focused + 1 \in 1 .. Len(panes)
    <3>1. focused + 2 \in 1 .. Len(panes) + 1 /\ focused + 1 \in 1 .. Len(panes)
      BY <1>0, FromOne
    <3>2. QED
      BY <1>0, <3>1 DEF Active
  <2>2. panes' \in Seq(Nat) /\ Len(panes') = Len(panes) + 1
    <3>1. /\ InsertAt(panes, focused + 2, Active) \in Seq(Nat)
          /\ Len(InsertAt(panes, focused + 2, Active)) = Len(panes) + 1
      <4>1. panes \in Seq(Nat)
        BY <1>0
      <4>2. QED
        BY <2>1, <4>1, InsertedAt
    <3>2. QED
      BY <1>6, <3>1 DEF Splits
  <2>3. \A p \in DOMAIN panes' : panes'[p] \in {panes[q] : q \in 1 .. Len(panes)}
    <3>1. panes \in Seq({panes[q] : q \in 1 .. Len(panes)})
      BY <1>0
    <3>2. Active \in {panes[q] : q \in 1 .. Len(panes)}
      BY <2>1 DEF Active
    <3>3. panes' \in Seq({panes[q] : q \in 1 .. Len(panes)})
      BY <1>6, <2>1, <3>1, <3>2, InsertedAt DEF Splits
    <3>4. QED
      BY <3>3
  <2>4. tabs' = tabs /\ nextTab' = nextTab /\ Len(panes) < MaxPanes
    BY <1>6 DEF Splits
  <2>5. ASSUME NEW p \in DOMAIN panes'
        PROVE  IF tabs' = <<>> THEN panes'[p] = 0 ELSE panes'[p] < Len(tabs')
    <3>1. PICK q \in 1 .. Len(panes) : panes'[p] = panes[q]
      BY <2>3
    <3>2. QED
      BY <1>0, <2>4, <3>1
  <2>6. Len(panes') \in 1 .. MaxPanes
    BY <1>0, <2>2, <2>4
  <2>7. OwnIds'
    BY <1>0, <2>4
  <2>8. QED
    BY <1>0, <2>2, <2>4, <2>5, <2>6, <2>7
<1>7. CASE Unsplits
  <2>1. focused + 1 \in 1 .. Len(panes)
    BY <1>0, FromOne
  <2>2. panes' \in Seq(Nat) /\ Len(panes') = Len(panes) - 1
    BY <1>0, <1>7, <2>1, RemovedAt DEF Unsplits
  <2>3. \A p \in DOMAIN panes' : panes'[p] \in {panes[q] : q \in 1 .. Len(panes)}
    <3>1. panes \in Seq({panes[q] : q \in 1 .. Len(panes)})
      BY <1>0
    <3>2. panes' \in Seq({panes[q] : q \in 1 .. Len(panes)})
      BY <1>7, <2>1, <3>1, RemovedAt DEF Unsplits
    <3>3. QED
      BY <3>2
  <2>4. tabs' = tabs /\ nextTab' = nextTab /\ Len(panes) > 1
    BY <1>7 DEF Unsplits
  <2>5. ASSUME NEW p \in DOMAIN panes'
        PROVE  IF tabs' = <<>> THEN panes'[p] = 0 ELSE panes'[p] < Len(tabs')
    <3>1. PICK q \in 1 .. Len(panes) : panes'[p] = panes[q]
      BY <2>3
    <3>2. QED
      BY <1>0, <2>4, <3>1
  <2>6. Len(panes') \in 1 .. MaxPanes
    BY <1>0, <2>2, <2>4
  <2>7. OwnIds'
    BY <1>0, <2>4
  <2>8. QED
    BY <1>0, <2>2, <2>4, <2>5, <2>6, <2>7
<1>8. QED
  BY <1>1, <1>2, <1>3, <1>4, <1>5, <1>6, <1>7 DEF Does

\* What else a step leaves in place.
LEMMA HubElse ==
    ASSUME HubInv, HubNext, nextTab <= nextTab', nextTab' \in Nat
    PROVE  /\ rows' \in Seq(Rows) /\ cursor' \in Nat
           /\ confirm' \in 0 .. nextTab' - 1
           /\ source' \in Machines /\ listing' \in Machines \cup {"none"}
<1>0. /\ rows \in Seq(Rows) /\ cursor \in Nat /\ Len(rows) \in Nat
      /\ confirm \in 0 .. nextTab - 1 /\ nextTab \in Nat /\ nextTab >= 1
      /\ source \in Machines /\ listing \in Machines \cup {"none"}
      /\ "here" \in Machines /\ "remote" \in Machines
  BY DEF HubInv, HubTypes, HubTypeOK, Machines
<1>a. \A i \in 0 .. Len(tabs) - 1 :
        tabs[i + 1].id \in 1 .. nextTab - 1 /\ tabs[i + 1].at \in Machines
  <2>1. tabs \in Seq(Tabs) /\ DOMAIN tabs = 1 .. Len(tabs) /\ Len(tabs) \in Nat
    BY DEF HubInv, HubTypes
  <2>2. \A i \in 0 .. Len(tabs) - 1 : i + 1 \in DOMAIN tabs
    BY <2>1
  <2>3. \A i \in DOMAIN tabs : tabs[i].id \in 1 .. nextTab - 1 /\ tabs[i] \in Tabs
    BY <2>1 DEF HubInv, OwnIds
  <2>4. \A t \in Tabs : t.at \in Machines
    BY DEF Tabs
  <2>5. QED
    BY <2>2, <2>3, <2>4
<1>b. \A p \in DOMAIN panes : panes[p] \in Nat
  BY DEF HubInv, HubTypes
<1>c. focused + 1 \in DOMAIN panes /\ Len(tabs) \in Nat
  <2>1. Len(panes) \in Nat /\ focused \in Nat /\ focused < Len(panes) /\ DOMAIN panes = 1 .. Len(panes)
    BY DEF HubInv, HubTypes, HubTypeOK
  <2>2. QED
    BY <2>1, FromOne DEF HubInv, HubTypes
<1>d. \A i \in Nat : Has(i) => i \in 0 .. Len(tabs) - 1
  BY <1>c DEF Has
<1>e. /\ 0 \in 0 .. nextTab' - 1
      /\ \A k \in 0 .. nextTab - 1 : k \in 0 .. nextTab' - 1
      /\ \A k \in 1 .. nextTab - 1 : k \in 0 .. nextTab' - 1
  BY <1>0, Below
<1>1. CASE /\ UNCHANGED <<rows, cursor, source, listing>>
           /\ confirm' \in {0, confirm} \cup {tabs[i + 1].id : i \in 0 .. Len(tabs) - 1}
  <2>1. confirm' \in 0 .. nextTab' - 1
    BY <1>0, <1>1, <1>a, <1>e
  <2>2. QED
    BY <1>0, <1>1, <2>1
<1>2. \A i \in Nat : RequestClose(i) =>
        confirm' \in {0, confirm} \cup {tabs[k + 1].id : k \in 0 .. Len(tabs) - 1}
  BY <1>d DEF RequestClose
<1>3. CASE FolderPicked \/ ConfirmClose \/ StopButton \/ DropQuestion \/ ResumeRow
           \/ ResumeCancel \/ ShortcutOpens \/ PaletteCancel \/ RunOpening \/ RunSplitting
           \/ ClickTab \/ ClickPane \/ ClickPlus \/ ClickLink \/ ErrorRead
  BY <1>1, <1>3
     DEF FolderPicked, ConfirmClose, StopButton, StopAgentOf, DropQuestion, ResumeRow,
       ResumeCancel, ShortcutOpens, PaletteCancel, RunOpening, RunSplitting, ClickTab, ClickPane,
       ClickPlus, ClickLink, ErrorRead, resumeVars, overlayVars
<1>4. CASE ShortcutCloses \/ ClickClose
  <2>1. UNCHANGED <<rows, cursor, source, listing>>
    BY <1>4 DEF ShortcutCloses, ClickClose, resumeVars
  <2>2. Active \in Nat
    BY <1>b, <1>c DEF Active
  <2>3. \E i \in Nat : RequestClose(i)
    BY <1>4, <1>c, <2>2 DEF ShortcutCloses, ClickClose
  <2>4. QED
    BY <1>1, <1>2, <2>1, <2>3
<1>5. CASE RunClosing
  <2>1. UNCHANGED <<rows, cursor, source, listing>>
    BY <1>5 DEF RunClosing, resumeVars
  <2>2. Active \in Nat
    BY <1>b, <1>c DEF Active
  <2>3. RequestClose(Active) \/ confirm' = 0
    BY <1>5 DEF RunClosing, StopAgentOf
  <2>4. QED
    BY <1>1, <1>2, <2>1, <2>2, <2>3
<1>6. ASSUME NEW m \in Machines, ShowRows(m), confirm' = confirm
      PROVE  /\ rows' \in Seq(Rows) /\ cursor' \in Nat
             /\ confirm' \in 0 .. nextTab' - 1
             /\ source' \in Machines /\ listing' \in Machines \cup {"none"}
  <2>1. rows' \in {rows, <<>>} /\ cursor' = 0 /\ source' \in {source, m} /\ listing' \in {listing, m}
    BY <1>6 DEF ShowRows
  <2>2. <<>> \in Seq(Rows)
    OBVIOUS
  <2>3. QED
    BY <1>0, <1>e, <1>6, <2>1, <2>2
<1>7. ActiveTarget \in Machines
  BY <1>0, <1>a, <1>b, <1>c, <1>d DEF ActiveTarget, Active
<1>8. CASE ListingLands
  <2>1. confirm' = confirm /\ UNCHANGED <<cursor, source>> /\ listing' = "none"
    BY <1>8 DEF ListingLands, overlayVars
  <2>2. rows' = rows \/ \E S \in SUBSET Saved : rows' = SetToSeq({Row(listing, t) : t \in S})
    BY <1>8 DEF ListingLands
  <2>3. listing \in Machines
    BY <1>0, <1>8 DEF ListingLands
  <2>4. ASSUME NEW S \in SUBSET Saved
        PROVE  SetToSeq({Row(listing, t) : t \in S}) \in Seq(Rows)
    <3> DEFINE set == {Row(listing, t) : t \in S}
    <3>1. IsFiniteSet(S)
      BY WindowAssumption, FS_Subset
    <3>2. IsFiniteSet(set)
      <4>1. [t \in S |-> Row(listing, t)] \in Surjection(S, set)
        BY DEF Surjection
      <4>2. QED
        BY <3>1, <4>1, FS_Surjection
    <3>3. set \in SUBSET Rows
      BY <2>3 DEF Row, Rows
    <3> HIDE DEF set
    <3>4. SetToSeq(set) \in Seq(set)
      BY <3>2, SomeOrder
    <3>5. QED
      BY <3>3, <3>4 DEF set
  <2>5. QED
    BY <1>0, <1>e, <2>1, <2>2, <2>4
<1>9. CASE ResumeStep
  <2>1. rows # <<>> /\ Len(rows) > 0
    BY <1>0, <1>9 DEF ResumeStep
  <2>2. QED
    BY <1>0, <1>e, <1>9, <2>1 DEF ResumeStep, overlayVars
<1>10. CASE Shortcut
  BY <1>0, <1>1, <1>6, <1>7, <1>10 DEF Shortcut, OpenResumeMenu, resumeVars
<1>11. CASE RunListing
  BY <1>0, <1>1, <1>6, <1>7, <1>11
     DEF RunListing, OpenResumeMenu, OpenRemoteResumeMenu, resumeVars
<1>12. CASE ClickBook
  <2>1. PICK p \in DOMAIN panes :
          IF resumeOpen THEN UNCHANGED resumeVars
          ELSE ShowRows(IF Has(panes[p]) THEN tabs[panes[p] + 1].at ELSE "here")
    BY <1>12 DEF ClickBook
  <2>2. (IF Has(panes[p]) THEN tabs[panes[p] + 1].at ELSE "here") \in Machines
    BY <1>0, <1>a, <1>b, <1>d
  <2>3. confirm' = confirm
    BY <1>12 DEF ClickBook
  <2>4. QED
    BY <1>1, <1>6, <2>1, <2>2, <2>3 DEF resumeVars
<1>13. QED
  BY <1>3, <1>4, <1>5, <1>8, <1>9, <1>10, <1>11, <1>12 DEF HubNext

\* The focus after a step is on a pane.
LEMMA HubFocus ==
    ASSUME HubInv, HubNext
    PROVE  focused' \in Nat /\ focused' < Len(panes')
<1>0. /\ panes \in Seq(Nat) /\ Len(panes) \in Nat /\ DOMAIN panes = 1 .. Len(panes)
      /\ focused \in Nat /\ focused < Len(panes)
  BY DEF HubInv, HubTypes, HubTypeOK
<1>a. ASSUME Len(panes') = Len(panes), focused' \in 0 .. Len(panes) - 1 \cup {focused}
      PROVE  focused' \in Nat /\ focused' < Len(panes')
  BY <1>0, <1>a
<1>b. ASSUME NEW f \in Nat, NEW i, panes' = [panes EXCEPT ![f + 1] = i]
      PROVE  Len(panes') = Len(panes)
  BY <1>0, <1>b
<1>c. ASSUME StartFolderPick, focused' = focused
      PROVE  Len(panes') = Len(panes)
  BY <1>0, <1>b, <1>c DEF StartFolderPick, Opens
<1>d. \A m, s : Opens(m, s) /\ focused' \in Nat => Len(panes') = Len(panes)
  BY <1>b DEF Opens
<1>e. \A i : CloseSession(i) => Len(panes') = Len(panes)
  BY <1>0 DEF CloseSession
<1>1. CASE \/ DropQuestion \/ ListingLands \/ ResumeStep \/ ResumeCancel \/ ShortcutCloses
           \/ PaletteCancel \/ ErrorRead \/ ClickPane \/ ClickClose \/ RunListing
  BY <1>0, <1>1, <1>a DEF DropQuestion, ListingLands, ResumeStep, ResumeCancel, ShortcutCloses,
       PaletteCancel, ErrorRead, ClickPane, ClickClose, RunListing
<1>2. CASE FolderPicked
  BY <1>0, <1>2, <1>a, <1>d DEF FolderPicked
<1>3. CASE ConfirmClose \/ StopButton
  BY <1>0, <1>3, <1>a, <1>e DEF ConfirmClose, StopButton, StopAgentOf
<1>4. CASE ResumeRow
  BY <1>0, <1>4, <1>a, <1>d DEF ResumeRow, ResumeSession
<1>5. CASE Shortcut
  <2>1. ASSUME NEW step \in {1, Len(panes) - 1}
        PROVE  (focused + step) % Len(panes) \in 0 .. Len(panes) - 1
    <3>1. Len(panes) > 0
      BY <1>0, FromOne
    <3>2. ASSUME NEW n \in Nat, n > 0, NEW f \in Nat, NEW k \in {1, n - 1}
          PROVE  (f + k) % n \in 0 .. n - 1
      <4>1. f + k \in Nat
        BY <3>2
      <4>2. QED
        BY <3>2, <4>1
    <3>3. QED
      BY <1>0, <3>1, <3>2
  <2>2. ASSUME NEW step, panes' = [panes EXCEPT ![focused + 1] = (@ + step) % Len(tabs)]
        PROVE  Len(panes') = Len(panes)
    BY <1>0, <2>2
  <2>3. QED
    BY <1>0, <1>5, <1>a, <2>1, <2>2 DEF Shortcut
<1>6. CASE ShortcutOpens
  BY <1>0, <1>6, <1>a, <1>c DEF ShortcutOpens
<1>7. CASE RunOpening
  BY <1>0, <1>7, <1>a, <1>c, <1>d DEF RunOpening, OpenRemoteSession, ConnectRemote
<1>8. CASE RunClosing
  BY <1>0, <1>8, <1>a, <1>e DEF RunClosing, StopAgentOf
<1>9. CASE RunSplitting
  <2>1. CASE SplitPane
    <3>1. InsertAt(panes, focused + 2, Active) \in Seq(Nat)
          /\ Len(InsertAt(panes, focused + 2, Active)) = Len(panes) + 1
      <4>1. focused + 2 \in 1 .. Len(panes) + 1 /\ focused + 1 \in 1 .. Len(panes)
        BY <1>0, FromOne
      <4>2. Active \in Nat
        BY <1>0, <4>1 DEF Active
      <4>3. panes \in Seq(Nat)
        BY <1>0
      <4>4. QED
        BY <4>1, <4>2, <4>3, InsertedAt
    <3>2. QED
      BY <1>0, <2>1, <3>1 DEF SplitPane
  <2>2. CASE CloseSplit /\ Len(panes) # 1
    <3>1. /\ RemoveAt(panes, focused + 1) \in Seq(Nat)
          /\ Len(RemoveAt(panes, focused + 1)) = Len(panes) - 1
      <4>1. focused + 1 \in 1 .. Len(panes) /\ panes \in Seq(Nat)
        BY <1>0, FromOne
      <4>2. QED
        BY <4>1, RemovedAt
    <3>2. Len(panes) > 1
      BY <1>0, <2>2, FromOne
    <3>3. QED
      BY <1>0, <2>2, <3>1, <3>2 DEF CloseSplit
  <2>3. CASE CloseSplit /\ Len(panes) = 1
    BY <1>0, <2>3, <1>a DEF CloseSplit
  <2>4. QED
    BY <1>9, <2>1, <2>2, <2>3 DEF RunSplitting
<1>10. CASE ClickTab
  BY <1>0, <1>10, <1>a DEF ClickTab
<1>11. CASE ClickPlus
  <2>1. focused' \in 0 .. Len(panes) - 1
    BY <1>0, <1>11 DEF ClickPlus
  <2>2. Len(panes') = Len(panes)
    BY <1>11, <1>d, <2>1 DEF ClickPlus
  <2>3. QED
    BY <1>a, <2>1, <2>2
<1>12. CASE ClickBook
  BY <1>0, <1>12, <1>a DEF ClickBook
<1>13. CASE ClickLink
  BY <1>0, <1>13, <1>a, <1>d DEF ClickLink, ConnectRemote
<1>14. QED
  BY <1>1, <1>2, <1>3, <1>4, <1>5, <1>6, <1>7, <1>8, <1>9, <1>10, <1>11, <1>12, <1>13
     DEF HubNext

\* The invariant of the window.
LEMMA HubInvariant == HubSpec => []HubInv
<1>1. HubInit => HubInv
  <2> SUFFICES ASSUME HubInit PROVE HubInv
    OBVIOUS
  <2>1. {MaxTabs, MaxPanes, MaxTabIds} \subseteq Nat \ {0}
    BY WindowAssumption
  <2>2. PICK m \in Machines :
          /\ tabs = <<[id |-> 1, at |-> m, session |-> 0,
                       held |-> IF m = "here" THEN "child" ELSE "attached"]>>
          /\ source = m /\ listing = m
    BY DEF HubInit
  <2>3. tabs \in Seq(Tabs) /\ Len(tabs) = 1 /\ DOMAIN tabs = {1} /\ tabs[1].id = 1 /\ tabs # <<>>
    BY <2>2 DEF Tabs
  <2>4. panes = <<0>> /\ focused = 0 /\ nextTab = 2 /\ confirm = 0 /\ cursor = 0 /\ rows = <<>>
    BY DEF HubInit
  <2>5. panes \in Seq(Nat) /\ Len(panes) = 1 /\ DOMAIN panes = {1} /\ panes[1] = 0
    BY <2>4
  <2>6. HubTypeOK
    BY <2>1, <2>2, <2>3, <2>4, <2>5 DEF HubTypeOK, Has
  <2>7. QED
    BY <2>3, <2>4, <2>5, <2>6 DEF HubInv, HubTypes, OwnIds
<1>2. HubInv /\ [HubNext]_hubVars => HubInv'
  <2> SUFFICES ASSUME HubInv, [HubNext]_hubVars PROVE HubInv'
    OBVIOUS
  <2>1. CASE HubNext
    <3>1. Does
      BY <2>1, HubDoes DEF HubInv
    <3>2. /\ tabs' \in Seq(Tabs) /\ Len(tabs') <= MaxTabs
          /\ panes' \in Seq(Nat) /\ Len(panes') \in 1 .. MaxPanes
          /\ \A p \in DOMAIN panes' : IF tabs' = <<>> THEN panes'[p] = 0
                                      ELSE panes'[p] < Len(tabs')
          /\ nextTab' \in 1 .. MaxTabIds + 1 /\ nextTab <= nextTab'
          /\ OwnIds'
      BY <3>1, HubKeeps
    <3>3. nextTab' \in Nat
      BY <3>2, WindowAssumption
    <3>4. /\ rows' \in Seq(Rows) /\ cursor' \in Nat
          /\ confirm' \in 0 .. nextTab' - 1
          /\ source' \in Machines /\ listing' \in Machines \cup {"none"}
      BY <2>1, <3>2, <3>3, HubElse
    <3>5. focused' \in Nat /\ focused' < Len(panes')
      BY <2>1, HubFocus
    <3>6. HubTypeOK'
      BY <3>2, <3>4, <3>5 DEF HubTypeOK, Has
    <3>7. QED
      BY <3>2, <3>3, <3>4, <3>5, <3>6 DEF HubInv, HubTypes
  <2>2. CASE UNCHANGED hubVars
    BY <2>2 DEF hubVars, overlayVars, resumeVars, HubInv, HubTypes, HubTypeOK, OwnIds, Has
  <2>3. QED
    BY <2>1, <2>2
<1>3. QED
  BY <1>1, <1>2, PTL DEF HubSpec

\* app.rs:70-140: the window's variables keep to their types, and every pane's index is that
\* of a tab that is open.
THEOREM WindowTypeCorrect == HubSpec => []HubTypeOK
<1>1. HubInv => HubTypeOK
  BY DEF HubInv, HubTypes
<1>2. QED
  BY <1>1, HubInvariant, PTL

\* app.rs:500-505: a pane nobody acts in keeps its tab for as long as that is open, whichever
\* tabs open and close.
THEOREM PanesStay == HubSpec => PanesKeepTheirTab
<1>1. HubInv /\ [HubNext]_hubVars =>
        [Len(panes') = Len(panes) =>
          \A p \in DOMAIN panes \ {focused' + 1} :
             Has(panes[p]) /\ (\E i \in DOMAIN tabs' : tabs'[i].id = Shown(p)) =>
                Shown(p)' = Shown(p)]_hubVars
  <2> SUFFICES ASSUME HubInv, HubNext, Len(panes') = Len(panes),
                      NEW p \in DOMAIN panes \ {focused' + 1}, Has(panes[p]),
                      NEW o \in DOMAIN tabs', tabs'[o].id = Shown(p)
               PROVE  tabs'[panes'[p] + 1].id = tabs[panes[p] + 1].id
    BY DEF Shown
  <2>0. /\ tabs \in Seq(Tabs) /\ Len(tabs) \in Nat /\ DOMAIN tabs = 1 .. Len(tabs)
        /\ panes \in Seq(Nat) /\ Len(panes) \in Nat /\ DOMAIN panes = 1 .. Len(panes)
        /\ panes[p] \in Nat /\ panes[p] < Len(tabs) /\ panes[p] + 1 \in 1 .. Len(tabs)
        /\ \A i, j \in 1 .. Len(tabs) : tabs[i].id = tabs[j].id => i = j
    <3>1. /\ tabs \in Seq(Tabs) /\ Len(tabs) \in Nat /\ DOMAIN tabs = 1 .. Len(tabs)
          /\ panes \in Seq(Nat) /\ Len(panes) \in Nat /\ DOMAIN panes = 1 .. Len(panes)
      BY DEF HubInv, HubTypes
    <3>2. panes[p] \in Nat /\ panes[p] < Len(tabs)
      BY <3>1 DEF Has
    <3>3. panes[p] + 1 \in 1 .. Len(tabs)
      BY <3>1, <3>2, FromOne
    <3>4. \A i, j \in 1 .. Len(tabs) : tabs[i].id = tabs[j].id => i = j
      BY <3>1 DEF HubInv, OwnIds
    <3>5. QED
      BY <3>1, <3>2, <3>3, <3>4
  <2>1. Does
    BY HubDoes DEF HubInv
  <2>2. CASE Still \/ CountsOne
    BY <2>2 DEF Still, CountsOne
  <2>3. CASE OpensOne
    <3>1. PICK t \in Tabs : tabs' = Append(tabs, t)
      BY <2>3 DEF OpensOne
    <3>2. panes'[p] = panes[p]
      BY <2>0, <2>3 DEF OpensOne
    <3>3. tabs'[panes[p] + 1] = tabs[panes[p] + 1]
      BY <2>0, <3>1
    <3>4. QED
      BY <3>2, <3>3
  <2>4. CASE ClosesOne
    <3>1. PICK i \in 0 .. Len(tabs) - 1 : CloseSession(i)
      BY <2>4 DEF ClosesOne
    <3>2. /\ \A j \in 1 .. i : tabs'[j] = tabs[j]
          /\ \A j \in i + 1 .. Len(tabs) - 1 : tabs'[j] = tabs[j + 1]
          /\ panes[p] < i => panes'[p] = panes[p]
          /\ panes[p] > i => panes'[p] = panes[p] - 1
      BY <2>0, <3>1, ClosedShift DEF HubInv
    <3>3. \A j \in DOMAIN tabs' : \E k \in DOMAIN tabs \ {i + 1} : tabs'[j] = tabs[k]
      BY <3>1, ClosedOthers
    <3>4. panes[p] # i
      <4>1. PICK k \in DOMAIN tabs \ {i + 1} : tabs'[o] = tabs[k]
        BY <3>3
      <4>2. tabs[k].id = tabs[panes[p] + 1].id
        BY <4>1 DEF Shown
      <4>3. k = panes[p] + 1
        BY <2>0, <4>1, <4>2
      <4>4. QED
        BY <4>1, <4>3
    <3>5. CASE panes[p] < i
      BY <2>0, <3>1, <3>2, <3>5
    <3>6. CASE panes[p] > i
      <4>1. panes[p] \in i + 1 .. Len(tabs) - 1 /\ panes'[p] + 1 = panes[p]
        BY <2>0, <3>1, <3>2, <3>6
      <4>2. QED
        BY <3>2, <4>1
    <3>7. QED
      BY <2>0, <3>1, <3>4, <3>5, <3>6
  <2>5. CASE TurnsOne
    <3>1. panes'[p] = panes[p] /\ tabs' = tabs
      BY <2>0, <2>5 DEF TurnsOne
    <3>2. QED
      BY <3>1
  <2>6. CASE Splits
    <3>1. Len(panes') = Len(panes) + 1
      <4>1. focused + 2 \in 1 .. Len(panes) + 1 /\ focused + 1 \in 1 .. Len(panes)
        <5>1. focused \in Nat /\ focused < Len(panes) /\ Len(panes) \in Nat
          BY <2>0 DEF HubInv, HubTypes, HubTypeOK
        <5>2. QED
          BY <5>1, FromOne
      <4>3. panes \in Seq(Nat)
        BY <2>0
      <4>2. Active \in Nat
        BY <4>1, <4>3 DEF Active
      <4>4. QED
        BY <2>6, <4>1, <4>2, <4>3, InsertedAt DEF Splits
    <3>2. QED
      BY <2>0, <3>1
  <2>7. CASE Unsplits
    <3>1. Len(panes') = Len(panes) - 1
      <4>1. focused + 1 \in 1 .. Len(panes) /\ panes \in Seq(Nat)
        BY <2>0, FromOne DEF HubInv, HubTypes, HubTypeOK
      <4>2. QED
        BY <2>7, <4>1, RemovedAt DEF Unsplits
    <3>2. QED
      BY <2>0, <3>1
  <2>8. QED
    BY <2>1, <2>2, <2>3, <2>4, <2>5, <2>6, <2>7 DEF Does
<1>2. QED
  BY <1>1, HubInvariant, PTL DEF HubSpec, PanesKeepTheirTab
---------------------------------------------------------------------------------
(* What a transcript folds to, whether the fragments were merged before or not. *)

\* FoldTexts as the places their fragments have in the stream, the blocks of a transcript,
\* and the messages of it that may be put together.
FoldTexts == Seq(Nat)
FoldKinds == {"begin", "notice", "end", "interrupted", "text", "think", "call", "approval", "part",
          "result", "approved"}
FoldRows == [kind : FoldKinds, id : Calls \cup {0}, text : FoldTexts, answered : BOOLEAN,
         abandoned : BOOLEAN]
FoldParts == [kind : FoldKinds, id : Calls \cup {0}, text : FoldTexts, sealed : BOOLEAN]

\* A set of places has a newest one.
LEMMA NewestIsLast ==
    ASSUME NEW n \in Nat, NEW found \in SUBSET (1 .. n)
    PROVE  /\ Newest(found) \in {0} \cup found
           /\ \A i \in found : i <= Newest(found)
<1> DEFINE places == {0} \cup found
           P(k) == \E i \in places : \A j \in places : j <= i + k
           K == {k \in Nat : P(k)}
<1>1. n \in K
  <2>1. \A j \in places : j <= 0 + n
    OBVIOUS
  <2>2. QED
    BY <2>1
<1>2. PICK k \in K : \A m \in K : k <= m
  <2> DEFINE R == OpToRel(<, Nat)
  <2>1. IsWellFoundedOn(R, Nat)
    BY NatLessThanWellFounded
  <2>2. R = {ss \in Nat \X Nat : ss[1] < ss[2]}
    BY Zenon DEF OpToRel
  <2>3. K \in SUBSET Nat /\ K # {}
    BY <1>1
  <2> HIDE DEF R, K
  <2>4. PICK k \in K : \A m \in K : ~(<<m, k>> \in R)
    BY <2>1, <2>3, WFMin
  <2>5. \A m \in K : ~(m < k)
    BY <2>2, <2>3, <2>4
  <2>6. QED
    BY <2>3, <2>4, <2>5
<1>3. PICK i \in places : \A j \in places : j <= i + k
  BY <1>2
<1>4. k = 0
  <2> SUFFICES ASSUME k # 0 PROVE FALSE
    OBVIOUS
  <2>1. k \in Nat /\ k - 1 \in Nat
    BY <1>2
  <2>0. ~(k - 1 \in K)
    <3> HIDE DEF K
    <3>1. QED
      BY <1>2, <2>1
  <2>4. ~P(k - 1)
    BY <2>0, <2>1
  <2>2. PICK j \in places : ~(j <= i + (k - 1))
    BY <2>4
  <2>3. j = i + k
    BY <1>3, <2>1, <2>2
  <2>6. \A m \in places : m <= j + 0
    BY <1>3, <2>3, <2>1
  <2>5. 0 \in K
    BY <2>6
  <2> HIDE DEF K
  <2>7. QED
    BY <1>2, <2>1, <2>5
<1>5. \A j \in places : i >= j
  BY <1>3, <1>4
<1>6. Newest(found) = CHOOSE x \in places : \A y \in places : x >= y
  BY DEF Newest, Max
<1> HIDE DEF places
<1>7. Newest(found) \in places /\ \A y \in places : Newest(found) >= y
  BY <1>5, <1>6
<1>8. QED
  BY <1>7 DEF places

\* A block whose text grew is a block.
LEMMA AppendedText ==
    ASSUME NEW r \in FoldRows, NEW t \in FoldTexts
    PROVE  [r EXCEPT !.text = r.text \o t] \in FoldRows
<1>1. r.text \in Seq(Nat) /\ t \in Seq(Nat)
  BY DEF FoldRows, FoldTexts
<1>2. r.text \o t \in FoldTexts
  BY <1>1 DEF FoldTexts
<1> DEFINE u == r.text \o t
<1> HIDE DEF u
<1>3. [r EXCEPT !.text = u] \in FoldRows
  BY <1>2 DEF FoldRows, u
<1>4. QED
  BY <1>3 DEF u

\* What a message begins is a block.
LEMMA NewRow ==
    ASSUME NEW k \in FoldKinds, NEW c \in Calls \cup {0}, NEW t \in FoldTexts
    PROVE  Block(k, c, t) \in FoldRows
  BY DEF Block, FoldRows

\* What is folded stays a sequence of blocks.
LEMMA FoldedBlocks ==
    ASSUME NEW blocks \in Seq(FoldRows), NEW m \in FoldParts
    PROVE  ApplyToBlocks(blocks, m) \in Seq(FoldRows)
<1> DEFINE n == Len(blocks)
           was == {k \in DOMAIN blocks : IsOpen(blocks[k])}
<1>1. n \in Nat /\ DOMAIN blocks = 1 .. n /\ \A i \in 1 .. n : blocks[i] \in FoldRows
  OBVIOUS
<1>2. AbandonOpenCalls(blocks) \in Seq(FoldRows)
  <2>1. \A i \in 1 .. n : AbandonOpenCalls(blocks)[i] \in FoldRows
    BY <1>1 DEF AbandonOpenCalls, FoldRows
  <2>2. AbandonOpenCalls(blocks) = [i \in 1 .. n |-> AbandonOpenCalls(blocks)[i]]
    BY <1>1 DEF AbandonOpenCalls
  <2>3. QED
    BY <2>1, <2>2, <1>1
<1>3. ApplyContent(blocks, m) \in Seq(FoldRows)
  <2>1. m.kind \in FoldKinds /\ m.text \in FoldTexts
    BY DEF FoldParts
  <2>2. Block(m.kind, 0, m.text) \in FoldRows
    BY <2>1, NewRow
  <2> HIDE DEF n
  <2>3. CASE n > 0 /\ blocks[n].kind = m.kind
    <3>0. blocks[n] \in FoldRows
      BY <1>1, <2>3 DEF n
    <3>1. [blocks[n] EXCEPT !.text = blocks[n].text \o m.text] \in FoldRows
      BY <3>0, <2>1, AppendedText
    <3>2. QED
      BY <3>1, <1>1, <2>3 DEF ApplyContent, n
  <2>4. CASE ~(n > 0 /\ blocks[n].kind = m.kind)
    BY <2>2, <2>4 DEF ApplyContent, n
  <2>5. QED
    BY <2>3, <2>4
<1>4. ApplyCallPart(blocks, m) \in Seq(FoldRows)
  <2>1. Newest(was) \in {0} \cup was
    BY <1>1, NewestIsLast
  <2>2. CASE Newest(was) # 0
    <3>1. [blocks[Newest(was)] EXCEPT !.text = blocks[Newest(was)].text \o m.text] \in FoldRows
      BY <1>1, <2>1, <2>2, AppendedText DEF FoldParts
    <3> HIDE DEF was
    <3>2. QED
      BY <3>1, <1>1, <2>1, <2>2 DEF ApplyCallPart, was
  <2>3. QED
    BY <2>2 DEF ApplyCallPart
<1>5. ASSUME NEW kind
      PROVE  ApplyAnswer(blocks, m, kind) \in Seq(FoldRows)
  <2> DEFINE answering == {k \in DOMAIN blocks : blocks[k].kind = kind /\ blocks[k].id = m.id
                                             /\ (kind = "call" => ~blocks[k].answered)}
             i == Newest(answering)
  <2>1. i \in {0} \cup answering
    BY <1>1, NewestIsLast
  <2>2. ApplyAnswer(blocks, m, kind)
          = IF i = 0 THEN blocks ELSE [blocks EXCEPT ![i].answered = TRUE]
    BY DEF ApplyAnswer
  <2>3. i # 0 => [blocks[i] EXCEPT !.answered = TRUE] \in FoldRows
    BY <2>1, <1>1 DEF FoldRows
  <2> HIDE DEF i
  <2>4. QED
    BY <2>1, <2>2, <2>3, <1>1
<1>6. ASSUME NEW k \in FoldKinds, NEW c \in Calls \cup {0}, NEW t \in FoldTexts, NEW bs \in Seq(FoldRows)
      PROVE  Append(bs, Block(k, c, t)) \in Seq(FoldRows)
  <2> DEFINE b == Block(k, c, t)
  <2>1. b \in FoldRows
    BY NewRow
  <2> HIDE DEF b
  <2>2. Append(bs, b) \in Seq(FoldRows)
    BY <2>1
  <2>3. QED
    BY <2>2 DEF b
<1>7. <<>> \in FoldTexts /\ m.text \in FoldTexts /\ "notice" \in FoldKinds
  BY DEF FoldParts, FoldTexts, FoldKinds
<1>9. m.kind \in FoldKinds /\ m.id \in Calls \cup {0}
  BY DEF FoldParts
<1>10. CASE m.kind \in {"begin", "notice"}
  BY <1>10, <1>6, <1>7, <1>9 DEF ApplyToBlocks
<1>11. CASE m.kind \in {"end", "interrupted"}
  BY <1>11, <1>2, <1>6, <1>7 DEF ApplyToBlocks
<1>12. CASE m.kind \in {"text", "think", "part"}
  BY <1>12, <1>3, <1>4 DEF ApplyToBlocks
<1>13. CASE m.kind \in {"call", "approval"}
  BY <1>13, <1>6, <1>7, <1>9 DEF ApplyToBlocks
<1>14. CASE m.kind \in {"result", "approved"}
  BY <1>14, <1>5 DEF ApplyToBlocks
<1>8. QED
  BY <1>9, <1>10, <1>11, <1>12, <1>13, <1>14 DEF FoldKinds

---------------------------------------------------------------------------------
(* Two fragments folded one after the other, or as one. *)

\* A block that is new and gets a text is one begun with that text.
LEMMA LongerBlock ==
    ASSUME NEW k, NEW c, NEW t, NEW u
    PROVE  [Block(k, c, t) EXCEPT !.text = u] = Block(k, c, u)
<1> DEFINE r == Block(k, c, t)
           s == Block(k, c, u)
           q == [r EXCEPT !.text = u]
<1>1. /\ DOMAIN r = {"kind", "id", "text", "answered", "abandoned"} /\ DOMAIN s = DOMAIN r
      /\ r.kind = s.kind /\ r.id = s.id /\ s.text = u
      /\ r.answered = s.answered /\ r.abandoned = s.abandoned
  BY DEF Block
<1>2. s = [x \in DOMAIN s |-> s[x]]
  BY DEF Block
<1> HIDE DEF r, s
<1>3. q = [x \in DOMAIN r |-> IF x = "text" THEN u ELSE r[x]]
  BY <1>1
<1>4. q = s
  BY <1>1, <1>2, <1>3
<1>5. QED
  BY <1>4 DEF r, s

\* Three texts make one, whichever two are joined first.
LEMMA TextsAreJoined ==
    ASSUME NEW x \in Seq(Nat), NEW y \in Seq(Nat), NEW z \in Seq(Nat)
    PROVE  (x \o y) \o z = x \o (y \o z)
  BY ConcatAssociative

\* A block with more text at its end.
Longer(blocks, i, t) == [blocks EXCEPT ![i].text = @ \o t]

\* Of all blocks only the one that grew is another, and it has the text at its end.
LEMMA LongerIs ==
    ASSUME NEW blocks \in Seq(FoldRows), NEW i \in 1 .. Len(blocks), NEW t \in FoldTexts
    PROVE  /\ Longer(blocks, i, t) \in Seq(FoldRows) /\ Len(Longer(blocks, i, t)) = Len(blocks)
           /\ Longer(blocks, i, t)[i] = [blocks[i] EXCEPT !.text = blocks[i].text \o t]
           /\ \A j \in 1 .. Len(blocks) : j # i => Longer(blocks, i, t)[j] = blocks[j]
<1>1. blocks[i] \in FoldRows
  OBVIOUS
<1>2. [blocks[i] EXCEPT !.text = blocks[i].text \o t] \in FoldRows
  BY <1>1, AppendedText
<1> DEFINE row == [blocks[i] EXCEPT !.text = blocks[i].text \o t]
<1>3. Longer(blocks, i, t) = [blocks EXCEPT ![i] = row]
  BY DEF Longer
<1>6. row \in FoldRows
  BY <1>2
<1> HIDE DEF row
<1>4. /\ Longer(blocks, i, t) \in Seq(FoldRows) /\ Len(Longer(blocks, i, t)) = Len(blocks)
      /\ Longer(blocks, i, t)[i] = row
      /\ \A j \in 1 .. Len(blocks) : j # i => Longer(blocks, i, t)[j] = blocks[j]
  BY <1>3, <1>6
<1>5. QED
  BY <1>4 DEF row

\* The same of any blocks at all, for a step that has more than one at hand.
LEMMA AnyGrows ==
    \A t \in FoldTexts : \A bs \in Seq(FoldRows) : \A k \in 1 .. Len(bs) :
       /\ Longer(bs, k, t) \in Seq(FoldRows) /\ Len(Longer(bs, k, t)) = Len(bs)
       /\ Longer(bs, k, t)[k] = [bs[k] EXCEPT !.text = bs[k].text \o t]
       /\ \A j \in 1 .. Len(bs) : j # k => Longer(bs, k, t)[j] = bs[j]
<1> TAKE t \in FoldTexts
<1> TAKE bs \in Seq(FoldRows)
<1> TAKE k \in 1 .. Len(bs)
<1>1. QED
  BY LongerIs

\* Two texts one after the other make a block what the two joined make it.
LEMMA LongerTwice ==
    ASSUME NEW blocks \in Seq(FoldRows), NEW i \in 1 .. Len(blocks), NEW t \in FoldTexts, NEW u \in FoldTexts
    PROVE  Longer(Longer(blocks, i, t), i, u) = Longer(blocks, i, t \o u)
<1> DEFINE r == blocks[i]
           one == Longer(blocks, i, t)
           two == Longer(one, i, u)
           all == Longer(blocks, i, t \o u)
<1>0. r \in FoldRows
  OBVIOUS
<1>1. r \in FoldRows /\ r.text \in FoldTexts
  <2> HIDE DEF r
  <2>1. QED
    BY <1>0 DEF FoldRows
<1>2. t \o u \in FoldTexts
  BY DEF FoldTexts
<1>3. (r.text \o t) \o u = r.text \o (t \o u)
  <2>1. r.text \in Seq(Nat) /\ t \in Seq(Nat) /\ u \in Seq(Nat)
    BY <1>1, Zenon DEF FoldTexts
  <2> HIDE DEF r
  <2>2. QED
    BY <2>1, TextsAreJoined, Zenon
<1>4. /\ one \in Seq(FoldRows) /\ Len(one) = Len(blocks)
      /\ one[i] = [r EXCEPT !.text = r.text \o t]
      /\ \A j \in 1 .. Len(blocks) : j # i => one[j] = blocks[j]
  BY LongerIs
<1>5. /\ two \in Seq(FoldRows) /\ Len(two) = Len(one)
      /\ two[i] = [one[i] EXCEPT !.text = one[i].text \o u]
      /\ \A j \in 1 .. Len(one) : j # i => two[j] = one[j]
  <2> HIDE DEF one
  <2>1. i \in 1 .. Len(one)
    BY <1>4
  <2>2. QED
    <3>1. \A bs \in Seq(FoldRows) : \A k \in 1 .. Len(bs) :
             /\ Longer(bs, k, u) \in Seq(FoldRows) /\ Len(Longer(bs, k, u)) = Len(bs)
             /\ Longer(bs, k, u)[k] = [bs[k] EXCEPT !.text = bs[k].text \o u]
             /\ \A j \in 1 .. Len(bs) : j # k => Longer(bs, k, u)[j] = bs[j]
      BY AnyGrows, Zenon
    <3>2. one \in Seq(FoldRows)
      BY <1>4
    <3>3. QED
      BY <2>1, <3>1, <3>2
<1>6. /\ all \in Seq(FoldRows) /\ Len(all) = Len(blocks)
      /\ all[i] = [r EXCEPT !.text = r.text \o (t \o u)]
      /\ \A j \in 1 .. Len(blocks) : j # i => all[j] = blocks[j]
  BY <1>2, LongerIs
<1>7. one[i].text = r.text \o t
  BY <1>1, <1>4 DEF FoldRows
<1>8. two[i] = all[i]
  <2>1. two[i] = [[r EXCEPT !.text = r.text \o t] EXCEPT !.text = (r.text \o t) \o u]
    BY <1>4, <1>5, <1>7, Zenon
  <2>2. two[i] = [[r EXCEPT !.text = r.text \o t] EXCEPT !.text = r.text \o (t \o u)]
    BY <2>1, <1>3, Zenon
  <2> DEFINE x == r.text \o t
             y == r.text \o (t \o u)
  <2> HIDE DEF x, y, r
  <2>3. [[r EXCEPT !.text = x] EXCEPT !.text = y] = [r EXCEPT !.text = y]
    BY <1>1 DEF FoldRows
  <2>4. QED
    BY <2>2, <2>3, <1>6, Zenon DEF x, y
<1> HIDE DEF two, all, one
<1>9. \A j \in 1 .. Len(blocks) : two[j] = all[j]
  BY <1>4, <1>5, <1>6, <1>8
<1>10. two = all
  BY <1>4, <1>5, <1>6, <1>9, SeqEqual
<1>11. QED
  BY <1>10 DEF two, all, one

\* A block just appended grows as it would have before it was.
LEMMA LongerNew ==
    ASSUME NEW blocks \in Seq(FoldRows), NEW r \in FoldRows, NEW t \in FoldTexts
    PROVE  Longer(Append(blocks, r), Len(blocks) + 1, t)
             = Append(blocks, [r EXCEPT !.text = r.text \o t])
<1> DEFINE more == Append(blocks, r)
           i == Len(blocks) + 1
           row == [r EXCEPT !.text = r.text \o t]
           one == Longer(more, i, t)
           all == Append(blocks, row)
<1>1. row \in FoldRows
  BY AppendedText
<1>2. more \in Seq(FoldRows) /\ Len(more) = i /\ more[i] = r
      /\ \A j \in 1 .. Len(blocks) : more[j] = blocks[j]
  OBVIOUS
<1>3. /\ one \in Seq(FoldRows) /\ Len(one) = Len(more)
      /\ one[i] = [more[i] EXCEPT !.text = more[i].text \o t]
      /\ \A j \in 1 .. Len(more) : j # i => one[j] = more[j]
  <2> HIDE DEF more
  <2>1. i \in 1 .. Len(more)
    BY <1>2
  <2>2. QED
    BY <1>2, <2>1, LongerIs
<1>4. one[i] = row
  BY <1>2, <1>3, Zenon
<1> HIDE DEF row, one, more
<1>5. all \in Seq(FoldRows) /\ Len(all) = i /\ all[i] = row
      /\ \A j \in 1 .. Len(blocks) : all[j] = blocks[j]
  BY <1>1
<1> HIDE DEF all
<1>6. \A j \in 1 .. i : one[j] = all[j]
  BY <1>2, <1>3, <1>4, <1>5
<1>7. one = all
  BY <1>2, <1>3, <1>5, <1>6
<1>8. QED
  BY <1>7 DEF one, all, row, more

\* What Merged makes of two fragments.
LEMMA MergedIs ==
    ASSUME NEW b \in FoldParts, NEW m \in FoldParts
    PROVE  /\ Merged(b, m) \in FoldParts
           /\ Merged(b, m).kind = b.kind /\ Merged(b, m).id = b.id
           /\ Merged(b, m).text = b.text \o m.text
<1>1. b.text \in Seq(Nat) /\ m.text \in Seq(Nat)
  BY DEF FoldParts, FoldTexts
<1> DEFINE t == b.text \o m.text
<1>2. t \in FoldTexts
  BY <1>1 DEF FoldTexts
<1> HIDE DEF t
<1>3. Merged(b, m) = [b EXCEPT !.text = t, !.sealed = b.sealed \/ m.sealed]
  BY DEF Merged, t
<1>4. QED
  BY <1>2, <1>3 DEF FoldParts, t

\* Text to text, and thinking to thinking.
LEMMA ContentMerges ==
    ASSUME NEW blocks \in Seq(FoldRows), NEW b \in FoldParts, NEW m \in FoldParts, b.kind = m.kind
    PROVE  ApplyContent(ApplyContent(blocks, b), m) = ApplyContent(blocks, Merged(b, m))
<1> DEFINE n == Len(blocks)
           one == ApplyContent(blocks, b)
           row == Block(b.kind, 0, b.text)
<1>1. b.text \in FoldTexts /\ m.text \in FoldTexts /\ b.kind \in FoldKinds
  BY DEF FoldParts
<1>2. n \in Nat
  OBVIOUS
<1>3. CASE n > 0 /\ blocks[n].kind = b.kind
  <2>1. n \in 1 .. Len(blocks) /\ n = Len(blocks)
    BY <1>2, <1>3
  <2>2. one = Longer(blocks, n, b.text)
    BY <1>3 DEF ApplyContent, Longer
  <2> HIDE DEF one
  <2>3. /\ one \in Seq(FoldRows) /\ Len(one) = n
        /\ one[n] = [blocks[n] EXCEPT !.text = blocks[n].text \o b.text]
    <3> DEFINE more == Longer(blocks, n, b.text)
    <3> HIDE DEF n
    <3>1. /\ more \in Seq(FoldRows) /\ Len(more) = n
          /\ more[n] = [blocks[n] EXCEPT !.text = blocks[n].text \o b.text]
      BY <1>1, <2>1, LongerIs
    <3>2. QED
      BY <2>2, <3>1, Zenon
  <2>4. one[n].kind = b.kind
    BY <2>1, <2>3, <1>3 DEF FoldRows
  <2>5. ApplyContent(one, m) = Longer(one, n, m.text)
    BY <1>3, <2>3, <2>4 DEF ApplyContent, Longer
  <2>6. ApplyContent(one, m) = Longer(blocks, n, b.text \o m.text)
    BY <1>1, <2>1, <2>2, <2>5, LongerTwice
  <2>7. ApplyContent(blocks, Merged(b, m)) = Longer(blocks, n, b.text \o m.text)
    BY <1>3, MergedIs DEF ApplyContent, Longer
  <2>8. QED
    BY <2>6, <2>7 DEF one
<1>4. CASE ~(n > 0 /\ blocks[n].kind = b.kind)
  <2>1. row \in FoldRows /\ row.kind = b.kind /\ row.text = b.text
    BY <1>1, NewRow DEF Block
  <2>2. one = Append(blocks, row)
    BY <1>4 DEF ApplyContent
  <2>3. [row EXCEPT !.text = row.text \o m.text] = Block(b.kind, 0, b.text \o m.text)
    <3> DEFINE t == b.text \o m.text
    <3>1. row.text \o m.text = t
      BY <2>1, Zenon
    <3> HIDE DEF t
    <3>2. [row EXCEPT !.text = t] = Block(b.kind, 0, t)
      <4>1. ASSUME NEW k, NEW c, NEW x, NEW u
            PROVE  [Block(k, c, x) EXCEPT !.text = u] = Block(k, c, u)
        BY LongerBlock
      <4>2. QED
        BY <4>1
    <3>3. QED
      BY <3>1, <3>2, Zenon DEF t
  <2>4. ApplyContent(blocks, Merged(b, m)) = Append(blocks, Block(b.kind, 0, b.text \o m.text))
    BY <1>4, MergedIs DEF ApplyContent
  <2> HIDE DEF row
  <2>5. one \in Seq(FoldRows) /\ Len(one) = n + 1 /\ one[n + 1] = row
    BY <2>1, <2>2
  <2> HIDE DEF one, n
  <2>6. ApplyContent(one, m) = Longer(one, n + 1, m.text)
    BY <1>2, <2>1, <2>5 DEF ApplyContent, Longer
  <2>7. Longer(one, n + 1, m.text) = Append(blocks, [row EXCEPT !.text = row.text \o m.text])
    BY <1>1, <2>1, <2>2, LongerNew DEF n
  <2>8. QED
    BY <2>3, <2>4, <2>6, <2>7 DEF one
<1>5. QED
  BY <1>3, <1>4

OpenCalls(blocks) == {k \in DOMAIN blocks : IsOpen(blocks[k])}

\* FoldParts of a call's arguments to parts.
LEMMA PartsMerge ==
    ASSUME NEW blocks \in Seq(FoldRows), NEW b \in FoldParts, NEW m \in FoldParts
    PROVE  ApplyCallPart(ApplyCallPart(blocks, b), m) = ApplyCallPart(blocks, Merged(b, m))
<1> DEFINE i == Newest(OpenCalls(blocks))
           one == ApplyCallPart(blocks, b)
<1>1. b.text \in FoldTexts /\ m.text \in FoldTexts
  BY DEF FoldParts
<1>2. OpenCalls(blocks) \in SUBSET (1 .. Len(blocks)) /\ Len(blocks) \in Nat
  BY DEF OpenCalls
<1>3. i \in {0} \cup OpenCalls(blocks)
  BY <1>2, NewestIsLast
<1>4. CASE i = 0
  BY <1>4 DEF ApplyCallPart, OpenCalls
<1>5. CASE i # 0
  <2>1. i \in 1 .. Len(blocks)
    BY <1>2, <1>3, <1>5
  <2>2. one = Longer(blocks, i, b.text)
    BY <1>5 DEF ApplyCallPart, Longer, OpenCalls
  <2> HIDE DEF one, i
  <2>3. /\ one \in Seq(FoldRows) /\ Len(one) = Len(blocks)
        /\ one[i] = [blocks[i] EXCEPT !.text = blocks[i].text \o b.text]
        /\ \A j \in 1 .. Len(blocks) : j # i => one[j] = blocks[j]
    <3> DEFINE more == Longer(blocks, i, b.text)
    <3>1. /\ more \in Seq(FoldRows) /\ Len(more) = Len(blocks)
          /\ more[i] = [blocks[i] EXCEPT !.text = blocks[i].text \o b.text]
          /\ \A j \in 1 .. Len(blocks) : j # i => more[j] = blocks[j]
      BY <1>1, <2>1, LongerIs
    <3>2. QED
      BY <2>2, <3>1, Zenon
  <2>4. IsOpen(one[i]) <=> IsOpen(blocks[i])
    BY <2>1, <2>3 DEF IsOpen, FoldRows
  <2>5. \A j \in 1 .. Len(blocks) : IsOpen(one[j]) <=> IsOpen(blocks[j])
    BY <2>3, <2>4
  <2>6. OpenCalls(one) = OpenCalls(blocks)
    BY <2>3, <2>5 DEF OpenCalls
  <2>7. Newest(OpenCalls(one)) = i
    BY <2>6 DEF i
  <2>8. ApplyCallPart(one, m) = Longer(one, i, m.text)
    BY <1>5, <2>7 DEF ApplyCallPart, Longer, OpenCalls
  <2>9. ApplyCallPart(one, m) = Longer(blocks, i, b.text \o m.text)
    BY <1>1, <2>1, <2>2, <2>8, LongerTwice
  <2>10. ApplyCallPart(blocks, Merged(b, m)) = Longer(blocks, i, b.text \o m.text)
    BY <1>5, MergedIs DEF ApplyCallPart, Longer, OpenCalls, i
  <2>11. QED
    BY <2>9, <2>10 DEF one
<1>6. QED
  BY <1>4, <1>5

\* The first part of a call's arguments to the call.
LEMMA CallTakesPart ==
    ASSUME NEW blocks \in Seq(FoldRows), NEW b \in FoldParts, NEW m \in FoldParts, b.kind = "call"
    PROVE  ApplyCallPart(Append(blocks, Block("call", b.id, b.text)), m)
             = Append(blocks, Block("call", b.id, b.text \o m.text))
<1> DEFINE n == Len(blocks)
           row == Block("call", b.id, b.text)
           one == Append(blocks, row)
<1>1. b.text \in FoldTexts /\ m.text \in FoldTexts /\ b.id \in Calls \cup {0} /\ "call" \in FoldKinds
  BY DEF FoldParts, FoldKinds
<1>2. row \in FoldRows
  BY <1>1, NewRow
<1>3. IsOpen(row) /\ row.text = b.text
  BY DEF IsOpen, Block
<1>4. [row EXCEPT !.text = row.text \o m.text] = Block("call", b.id, b.text \o m.text)
  <2> DEFINE t == b.text \o m.text
  <2>1. row.text \o m.text = t
    BY <1>3, Zenon
  <2> HIDE DEF t
  <2>2. [row EXCEPT !.text = t] = Block("call", b.id, t)
    <3>1. ASSUME NEW k, NEW c, NEW x, NEW u
          PROVE  [Block(k, c, x) EXCEPT !.text = u] = Block(k, c, u)
      BY LongerBlock
    <3>2. QED
      BY <3>1
  <2>3. QED
    BY <2>1, <2>2, Zenon DEF t
<1> HIDE DEF row
<1>5. one \in Seq(FoldRows) /\ Len(one) = n + 1 /\ one[n + 1] = row /\ n \in Nat
  BY <1>2
<1>6. Longer(one, n + 1, m.text) = Append(blocks, [row EXCEPT !.text = row.text \o m.text])
  BY <1>1, <1>2, LongerNew
<1> HIDE DEF one, n
<1>7. OpenCalls(one) \in SUBSET (1 .. n + 1) /\ n + 1 \in OpenCalls(one)
  BY <1>3, <1>5 DEF OpenCalls
<1>8. Newest(OpenCalls(one)) = n + 1
  <2> DEFINE k == Newest(OpenCalls(one))
  <2> DEFINE found == OpenCalls(one)
  <2>0. found \in SUBSET (1 .. n + 1) /\ n + 1 \in found /\ n + 1 \in Nat
    BY <1>5, <1>7
  <2> HIDE DEF found
  <2>4. Newest(found) \in {0} \cup found /\ \A i \in found : i <= Newest(found)
    BY <2>0, NewestIsLast
  <2>1. k \in {0} \cup OpenCalls(one) /\ n + 1 <= k
    BY <2>0, <2>4 DEF found
  <2> HIDE DEF k
  <2>2. k = n + 1
    BY <1>5, <1>7, <2>1
  <2>3. QED
    BY <2>2 DEF k
<1>9. ApplyCallPart(one, m) = Longer(one, n + 1, m.text)
  <2>1. ApplyCallPart(one, m)
          = IF Newest(OpenCalls(one)) = 0 THEN one
            ELSE [one EXCEPT ![Newest(OpenCalls(one))].text = @ \o m.text]
    BY Zenon DEF ApplyCallPart, OpenCalls
  <2>2. n + 1 # 0
    BY <1>5
  <2>3. QED
    BY <1>8, <2>1, <2>2, Zenon DEF Longer
<1>10. QED
  BY <1>4, <1>6, <1>9 DEF one, row

\* What is merged shows what the two would.
LEMMA MergedShowsTheSame ==
    ASSUME NEW blocks \in Seq(FoldRows), NEW b \in FoldParts, NEW m \in FoldParts, MergesInto(b, m)
    PROVE  ApplyToBlocks(ApplyToBlocks(blocks, b), m) = ApplyToBlocks(blocks, Merged(b, m))
<1>1. CASE b.kind \in {"text", "think"}
  <2>1. m.kind = b.kind /\ Merged(b, m).kind = b.kind
    BY <1>1, MergedIs DEF MergesInto
  <2>2. QED
    BY <1>1, <2>1, ContentMerges DEF ApplyToBlocks
<1>2. CASE b.kind = "part"
  <2>1. m.kind = b.kind /\ Merged(b, m).kind = b.kind
    BY <1>2, MergedIs DEF MergesInto
  <2>2. QED
    BY <1>2, <2>1, PartsMerge DEF ApplyToBlocks
<1>3. CASE b.kind = "call"
  <2>1. /\ m.kind = "part" /\ Merged(b, m).kind = "call" /\ Merged(b, m).id = b.id
        /\ Merged(b, m).text = b.text \o m.text
    BY <1>3, MergedIs DEF MergesInto
  <2>2. ApplyToBlocks(blocks, b) = Append(blocks, Block("call", b.id, b.text))
    BY <1>3 DEF ApplyToBlocks
  <2>3. ApplyToBlocks(blocks, Merged(b, m)) = Append(blocks, Block("call", b.id, b.text \o m.text))
    BY <2>1 DEF ApplyToBlocks
  <2> DEFINE one == ApplyToBlocks(blocks, b)
  <2> HIDE DEF one
  <2>4. ApplyToBlocks(one, m) = ApplyCallPart(one, m)
    BY <2>1 DEF ApplyToBlocks
  <2>5. QED
    BY <1>3, <2>2, <2>3, <2>4, CallTakesPart DEF one
<1>4. QED
  BY <1>1, <1>2, <1>3 DEF MergesInto

---------------------------------------------------------------------------------
(* The transcripts. *)

FoldSubs == [blocks : Seq(FoldRows), done : BOOLEAN]
Folded == [blocks : Seq(FoldRows), subs : [Calls -> FoldSubs]]
FoldSubEvents == [kind : {"sub"}, id : Calls, inner : FoldParts]
FoldEvents == FoldParts \cup FoldSubEvents

\* What is folded stays a transcript.
LEMMA FoldedTranscript ==
    ASSUME NEW t \in Folded, NEW m \in FoldEvents
    PROVE  ApplyEvent(t, m) \in Folded
<1>1. CASE m \in FoldParts
  <2> DEFINE blocks == ApplyToBlocks(t.blocks, m)
  <2>1. t.blocks \in Seq(FoldRows)
    BY DEF Folded
  <2>2. blocks \in Seq(FoldRows)
    BY <1>1, <2>1, FoldedBlocks
  <2>3. m.kind \notin {"none", "sub"}
    BY <1>1 DEF FoldParts, FoldKinds
  <2>4. ApplyEvent(t, m) = [t EXCEPT !.blocks = blocks]
    BY <2>3 DEF ApplyEvent
  <2> HIDE DEF blocks
  <2>5. QED
    BY <2>2, <2>4 DEF Folded
<1>2. CASE m \in FoldSubEvents
  <2>1. m.kind = "sub" /\ m.id \in Calls /\ m.inner \in FoldParts
    BY <1>2 DEF FoldSubEvents
  <2> DEFINE c == m.id
             was == t.subs[c]
             now == [blocks |-> ApplyToBlocks(was.blocks, m.inner),
                     done |-> was.done \/ m.inner.kind = "end"]
  <2>2. was \in FoldSubs /\ t.subs \in [Calls -> FoldSubs]
    BY <2>1 DEF Folded
  <2>3. was.blocks \in Seq(FoldRows)
    BY <2>2 DEF FoldSubs
  <2>4. ApplyToBlocks(was.blocks, m.inner) \in Seq(FoldRows)
    BY <2>1, <2>3, FoldedBlocks
  <2> HIDE DEF was
  <2>5. now \in FoldSubs
    BY <2>4 DEF FoldSubs
  <2>6. ApplyEvent(t, m) = [t EXCEPT !.subs[c] = now]
    BY <2>1 DEF ApplyEvent, ApplySubagentEvent, was
  <2> HIDE DEF now, c
  <2>7. [t.subs EXCEPT ![c] = now] \in [Calls -> FoldSubs]
    BY <2>2, <2>5
  <2>8. QED
    BY <2>6, <2>7 DEF Folded
<1>3. QED
  BY <1>1, <1>2 DEF FoldEvents

\* What the merge buffer holds is part of a text or of a call, and it shows with what was
\* recorded all that was sent.
FoldInv ==
    /\ sent \in Nat /\ begun \subseteq Calls
    /\ shown \in Folded /\ replayed \in Folded
    /\ buffer = None \/ buffer \in FoldParts
    /\ ReplayShowsTheSame

\* A message that is sent, whichever way it takes through the buffer.
LEMMA SentIsShown ==
    ASSUME FoldInv, NEW m \in FoldEvents, begun' \in SUBSET Calls, Send(m)
    PROVE  FoldInv'
<1>1. shown' \in Folded /\ sent' \in Nat /\ shown' = ApplyEvent(shown, m)
  BY FoldedTranscript DEF FoldInv, Send
<1>2. \A t : ApplyEvent(t, None) = t
  BY DEF ApplyEvent, None
<1>3. ApplyEvent(replayed, buffer) \in Folded
  BY <1>2, FoldedTranscript DEF FoldInv, FoldEvents
<1>4. CASE MergesInto(buffer, m)
  <2>1. buffer # None /\ buffer \in FoldParts /\ buffer.kind # "none"
    BY <1>4 DEF MergesInto, None, FoldInv
  <2>2. m \in FoldParts
    BY <1>4 DEF MergesInto, FoldEvents, FoldSubEvents
  <2>3. buffer' = Merged(buffer, m) /\ replayed' = replayed
    BY <1>4 DEF Send
  <2>4. buffer' \in FoldParts
    BY <2>1, <2>2, <2>3, MergedIs
  <2>5. /\ m.kind \notin {"none", "sub"} /\ buffer.kind \notin {"none", "sub"}
        /\ Merged(buffer, m).kind \notin {"none", "sub"}
    BY <2>1, <2>2, <2>3, <2>4 DEF FoldParts, FoldKinds
  <2> DEFINE one == ApplyToBlocks(replayed.blocks, buffer)
             two == ApplyToBlocks(one, m)
  <2>6. replayed.blocks \in Seq(FoldRows)
    BY DEF FoldInv, Folded
  <2>7. two = ApplyToBlocks(replayed.blocks, Merged(buffer, m))
    BY <1>4, <2>1, <2>2, <2>6, MergedShowsTheSame
  <2> HIDE DEF two
  <2>8. shown = [replayed EXCEPT !.blocks = one]
    BY <2>5 DEF FoldInv, ReplayShowsTheSame, ApplyEvent
  <2>9. shown.blocks = one
    BY <2>8 DEF FoldInv, Folded
  <2>10. shown' = [shown EXCEPT !.blocks = two]
    BY <1>1, <2>5, <2>9 DEF ApplyEvent, two
  <2> HIDE DEF one
  <2>11. shown' = [replayed EXCEPT !.blocks = two]
    BY <2>8, <2>10 DEF FoldInv, Folded
  <2>12. ApplyEvent(replayed, Merged(buffer, m)) = [replayed EXCEPT !.blocks = two]
    BY <2>5, <2>7 DEF ApplyEvent
  <2>13. ReplayShowsTheSame'
    BY <2>3, <2>11, <2>12 DEF ReplayShowsTheSame
  <2>14. QED
    BY <1>1, <2>3, <2>4, <2>13 DEF FoldInv
<1>5. CASE ~MergesInto(buffer, m) /\ m.kind \in {"text", "think", "call", "part"}
  <2>1. m \in FoldParts
    BY <1>5 DEF FoldEvents, FoldSubEvents
  <2>2. buffer' = m /\ replayed' = ApplyEvent(replayed, buffer)
    BY <1>5 DEF Send
  <2>3. replayed' = shown
    BY <2>2 DEF FoldInv, ReplayShowsTheSame
  <2>4. ReplayShowsTheSame'
    BY <1>1, <2>2, <2>3 DEF ReplayShowsTheSame
  <2>5. QED
    BY <1>1, <2>1, <2>2, <2>3, <2>4 DEF FoldInv
<1>6. CASE ~MergesInto(buffer, m) /\ m.kind \notin {"text", "think", "call", "part"}
  <2>1. buffer' = None /\ replayed' = ApplyEvent(ApplyEvent(replayed, buffer), m)
    BY <1>6 DEF Send
  <2>2. replayed' = shown'
    BY <1>1, <2>1 DEF FoldInv, ReplayShowsTheSame
  <2>3. ReplayShowsTheSame'
    BY <1>2, <2>1, <2>2 DEF ReplayShowsTheSame
  <2>4. QED
    BY <1>1, <2>1, <2>2, <2>3 DEF FoldInv
<1>7. QED
  BY <1>4, <1>5, <1>6

\* What a turn sends is a message that may be put together.
LEMMA MessageIs ==
    ASSUME FoldInv, NEW kind \in FoldKinds, NEW c \in Calls \cup {0}
    PROVE  Message(kind, c) \in FoldParts /\ [Message(kind, c) EXCEPT !.sealed = TRUE] \in FoldParts
<1> DEFINE t == <<sent + 1>>
<1>1. t \in FoldTexts
  BY DEF FoldInv, FoldTexts
<1> HIDE DEF t
<1>2. Message(kind, c) = [kind |-> kind, id |-> c, text |-> t, sealed |-> FALSE]
  BY DEF Message, t
<1> DEFINE m == [kind |-> kind, id |-> c, text |-> t, sealed |-> FALSE]
<1>3. m \in FoldParts
  BY <1>1 DEF FoldParts
<1> HIDE DEF m
<1>4. [m EXCEPT !.sealed = TRUE] \in FoldParts
  BY <1>3 DEF FoldParts
<1>5. QED
  BY <1>2, <1>3, <1>4 DEF m

(* channel.rs:137-165, server.rs:1001-1013: however a turn's fragments, calls and answers
   follow one another and whenever the buffer is flushed, the recorded messages with what
   the buffer still holds show what the messages showed as they were sent. *)
THEOREM ReplayIsFaithful == FoldSpec => []ReplayShowsTheSame
<1>1. FoldInit => FoldInv
  <2> SUFFICES ASSUME FoldInit PROVE FoldInv
    OBVIOUS
  <2>1. Empty \in Folded
    BY DEF Empty, Folded, FoldSubs
  <2>2. QED
    BY <2>1 DEF FoldInit, FoldInv, ReplayShowsTheSame, ApplyEvent, None
<1>2. FoldInv /\ [FoldNext]_foldVars => FoldInv'
  <2> SUFFICES ASSUME FoldInv, [FoldNext]_foldVars PROVE FoldInv'
    OBVIOUS
  <2>1. CASE Streams
    <3>1. begun' \in SUBSET Calls
      BY <2>1 DEF Streams, FoldInv
    <3>2. PICK m \in FoldParts : Send(m)
      <4>1. CASE \E kind \in {"begin", "text", "think", "part", "interrupted", "end"} :
                   Send(Message(kind, 0))
        BY <4>1, MessageIs DEF FoldKinds
      <4>2. CASE Send([Message("think", 0) EXCEPT !.sealed = TRUE])
        BY <4>2, MessageIs DEF FoldKinds
      <4>3. QED
        BY <2>1, <4>1, <4>2 DEF Streams
    <3>3. QED
      BY <3>1, <3>2, SentIsShown DEF FoldEvents
  <2>2. CASE CallsTool
    <3>1. PICK c \in Calls : begun' = begun \cup {c} /\ Send(Message("call", c))
      BY <2>2 DEF CallsTool
    <3>2. begun' \in SUBSET Calls /\ Message("call", c) \in FoldParts
      BY <3>1, MessageIs DEF FoldKinds, FoldInv
    <3>3. QED
      BY <3>1, <3>2, SentIsShown DEF FoldEvents
  <2>3. CASE AfterCall
    <3>1. begun' \in SUBSET Calls
      BY <2>3 DEF AfterCall, FoldInv
    <3>2. PICK m \in FoldEvents : Send(m)
      <4>0. PICK c \in Calls :
              \/ \E kind \in {"approval", "approved", "result"} : Send(Message(kind, c))
              \/ \E kind \in {"text", "end"} :
                    Send([kind |-> "sub", id |-> c, inner |-> Message(kind, 0)])
        BY <2>3 DEF AfterCall, FoldInv
      <4>1. CASE \E kind \in {"approval", "approved", "result"} : Send(Message(kind, c))
        BY <4>1, MessageIs DEF FoldKinds, FoldEvents
      <4>2. ASSUME NEW kind \in {"text", "end"},
                   Send([kind |-> "sub", id |-> c, inner |-> Message(kind, 0)])
            PROVE  \E m \in FoldEvents : Send(m)
        <5>1. Message(kind, 0) \in FoldParts
          BY MessageIs DEF FoldKinds
        <5>2. [kind |-> "sub", id |-> c, inner |-> Message(kind, 0)] \in FoldSubEvents
          BY <5>1 DEF FoldSubEvents
        <5>3. QED
          BY <4>2, <5>2 DEF FoldEvents
      <4>3. QED
        BY <4>0, <4>1, <4>2
    <3>3. QED
      BY <3>1, <3>2, SentIsShown
  <2>4. CASE Flush
    <3>1. replayed' = shown /\ shown' = shown /\ buffer' = None
      BY <2>4 DEF Flush, FoldInv, ReplayShowsTheSame
    <3>2. ReplayShowsTheSame'
      BY <3>1 DEF ReplayShowsTheSame, ApplyEvent, None
    <3>3. QED
      BY <2>4, <3>1, <3>2 DEF Flush, FoldInv
  <2>5. CASE UNCHANGED foldVars
    BY <2>5 DEF foldVars, FoldInv, ReplayShowsTheSame
  <2>6. QED
    BY <2>1, <2>2, <2>3, <2>4, <2>5 DEF FoldNext
<1>3. QED
  BY <1>1, <1>2, PTL DEF FoldSpec, FoldInv
=================================================================================
