----------------------------- MODULE AndroidSession -----------------------------
(***************************************************************************)
(* The phone's client, client/dvadva-android/app/src/main/kotlin/...:      *)
(*                                                                         *)
(*   proto/Bridge.kt, proto/WireClient.kt   a connection through the       *)
(*                                          bridge daemon, and its reader  *)
(*   proto/Wire.kt                          what a line is                 *)
(*   session/SessionViewModel.kt            the session on the screen      *)
(*   session/Transcript.kt                  the blocks it shows            *)
(*                                                                         *)
(* The reader runs on a thread of its own.  Everything else runs on the    *)
(* main thread, up to where it waits for something to be sent.  At the     *)
(* other end is an agent, whose lines are an environment's.                *)
(***************************************************************************)
EXTENDS Integers, FiniteSets, SequencesExt

CONSTANTS
    MaxDialled,     \* bound: connections
    MaxLinesSaid,   \* bound: lines of the agents
    MaxJobs         \* bound: requests of a connection

ASSUME AndroidAssumption == MaxDialled \in Nat /\ MaxLinesSaid \in Nat /\ MaxJobs \in Nat

VARIABLES
    conns,          \* each connection: how far it is, the lines on their way
    heard,          \* of each the requests that have reached its agent, not yet answered
    spoken,         \* history: of each the lines its agent has said, those handled
    screen,         \* UiState, and its transcript
    client,         \* SessionViewModel::client
    ids,            \* initId, replayId and promptId
    jobs,           \* coroutines that wait for a request to be sent
    crossed         \* history: a connection was handled that is not the last one

androidVars == <<conns, heard, spoken, screen, client, ids, jobs, crossed>>

Unused == [at |-> "unused", wire |-> <<>>, buffer |-> <<>>, inbox |-> <<>>, next |-> 1]
Dialled == 1..MaxDialled
AndroidLast == Cardinality({c \in Dialled : conns[c].at # "unused"})
Shows(phase) == [screen EXCEPT !.phase = phase]
Busy == screen.phase \in {"Connecting", "Replaying"}
CanSend == screen.phase \in {"Ready", "Running"}

\* Of a line, its kind and what it is about: a request, a call, a place in the text.
Said(kind, about) == [kind |-> kind, about |-> about]
Ends == {"trailer", "eof"}

Line == [kind : {"ack", "begin", "end", "text", "call", "part", "ask", "tool", "junk",
                 "response", "refusal", "result", "answered"} \cup Ends,
         about : Nat]
Shape == [kind : {"begin", "steer", "compaction", "junk", "text", "think", "call", "ask",
                  "failed"} \cup Ends,
          about : Nat, text : Seq(Nat), answered : BOOLEAN]

Ats == {"unused", "dialing", "failed", "open", "closing", "ended"}
Phases == {"Disconnected", "Connecting", "Replaying", "Ready", "Running", "Failed"}
Whats == {"init", "replay", "prompt", "steer", "cancel", "answer", "refuse"}
Connections == [at : Ats, wire : Seq(Line), buffer : Seq(Line), inbox : Seq(Line), next : Nat]
Histories == [said : Seq(Line), handled : Seq(Line)]
Screens == [phase : Phases, blocks : Seq(Shape), dialogs : SUBSET Nat]
RequestIds == [init : Nat, replay : Nat, prompt : Nat]
Jobs == [conn : Dialled, about : Nat, id : Nat, at : {"sending", "sent"}, what : Whats]

AndroidTypeOK ==
    /\ conns \in [Dialled -> Connections] /\ heard \in [Dialled -> SUBSET Nat]
    /\ spoken \in [Dialled -> Histories] /\ screen \in Screens
    /\ client \in Dialled \cup {0} /\ crossed \in BOOLEAN /\ ids \in RequestIds
    /\ jobs \subseteq Jobs

AndroidInit ==
    /\ conns = [c \in Dialled |-> Unused]
    /\ heard = [c \in Dialled |-> {}]
    /\ spoken = [c \in Dialled |-> [said |-> <<>>, handled |-> <<>>]]
    /\ screen = [phase |-> "Disconnected", blocks |-> <<>>, dialogs |-> {}]
    /\ client = 0 /\ jobs = {} /\ crossed = FALSE
    /\ ids = [init |-> 0, replay |-> 0, prompt |-> 0]

---------------------------------------------------------------------------------
(* A connection, from Bridge.connect to the end of its reader. *)

\* disconnect: the agent is asked to end, and goes on being read.
Closing(c) == IF c = 0 THEN conns ELSE [conns EXCEPT ![c].at = "closing"]

PhoneDisconnects ==
    /\ client' = 0 /\ conns' = Closing(client)
    /\ screen' = IF screen.phase = "Failed" THEN screen
                 ELSE [Shows("Disconnected") EXCEPT !.dialogs = {}]
    /\ UNCHANGED <<heard, spoken, ids, jobs, crossed>>

PhoneConnects ==
    /\ ~Busy /\ AndroidLast < MaxDialled
    /\ client' = 0
    /\ conns' = [Closing(client) EXCEPT ![AndroidLast + 1].at = "dialing"]
    /\ screen' = [phase |-> "Connecting", blocks |-> <<>>, dialogs |-> {}]
    /\ UNCHANGED <<heard, spoken, ids, jobs, crossed>>

\* Unreachable, silent for too long, no frame of the bridge's, or a refusal.
PhoneDialFails(c) ==
    /\ conns[c].at = "dialing"
    /\ conns' = [conns EXCEPT ![c].at = "failed"] /\ screen' = Shows("Failed")
    /\ UNCHANGED <<heard, spoken, client, ids, jobs, crossed>>

\* The daemon's one frame; the agent behind it may speak right after.
Acks(c) ==
    /\ conns[c].at = "dialing" /\ conns[c].wire = <<>> /\ conns[c].buffer = <<>>
    /\ conns' = [conns EXCEPT ![c].wire = <<Said("ack", 0)>>]
    /\ UNCHANGED <<heard, spoken, screen, client, ids, jobs, crossed>>

\* The reader takes in what has come, however much of it.
Fill(c, n) ==
    /\ n \in 1..Len(conns[c].wire)
    /\ conns' = [conns EXCEPT ![c].buffer = @ \o SubSeq(conns[c].wire, 1, n),
                              ![c].wire = SubSeq(@, n + 1, Len(@))]
    /\ UNCHANGED <<heard, spoken, screen, client, ids, jobs, crossed>>

Job(c, what, about) ==
    [conn |-> c, what |-> what, about |-> about, id |-> conns[c].next, at |-> "sending"]
Launched(cs, c) == [cs EXCEPT ![c].next = @ + 1]

\* Mutant: the stream is read with a reader of its own.
StreamBeginsAnew(c) == [conns EXCEPT ![c].at = "open", ![c].buffer = <<>>, ![c].next = @ + 1]
\* The reader of the frame goes on to be the stream's.
StreamBegins(c) == [conns EXCEPT ![c].at = "open", ![c].buffer = Tail(@), ![c].next = @ + 1]

ReadAck(c) ==
    /\ conns[c].at = "dialing" /\ conns[c].buffer # <<>>
    /\ conns' = StreamBegins(c)
    /\ client' = c /\ jobs' = jobs \cup {Job(c, "init", 0)}
    /\ UNCHANGED <<heard, spoken, screen, ids, crossed>>

\* startReader: it ends at the daemon's last frame, or with the stream.
TakesLine(c) ==
    /\ conns[c].at \in {"open", "closing"} /\ conns[c].buffer # <<>>
    /\ LET line == Head(conns[c].buffer) IN
         conns' = [conns EXCEPT ![c].buffer = Tail(@), ![c].inbox = Append(@, line),
                                ![c].at = IF line.kind \in Ends THEN "ended" ELSE @]
    /\ UNCHANGED <<heard, spoken, screen, client, ids, jobs, crossed>>

---------------------------------------------------------------------------------
(* Transcript: subagents' events are shown as the others, but for their mark. *)

\* The newest of the blocks that were found, 0 if none was.
NewestOf(found) == Max({0} \cup found)

BlockOf(kind, about, text, answered) ==
    [kind |-> kind, about |-> about, text |-> text, answered |-> answered]

Adds(blocks, line) ==
    LET n == Len(blocks)
        open == {i \in DOMAIN blocks : blocks[i].kind = "call" /\ ~blocks[i].answered}
        growing == NewestOf(open)
        called == NewestOf({i \in open : blocks[i].about = line.about})
        request == NewestOf({i \in DOMAIN blocks :
                               blocks[i].kind = "ask" /\ blocks[i].about = line.about})
    IN  CASE line.kind \in {"begin", "steer", "compaction", "junk"} \cup Ends ->
               Append(blocks, BlockOf(line.kind, line.about, <<>>, FALSE))
          [] line.kind \in {"text", "think"} ->
               IF n > 0 /\ blocks[n].kind = line.kind
               THEN [blocks EXCEPT ![n].text = Append(@, line.about)]
               ELSE Append(blocks, BlockOf(line.kind, 0, <<line.about>>, FALSE))
          [] line.kind \in {"call", "ask"} ->
               Append(blocks, BlockOf(line.kind, line.about, <<>>, FALSE))
          [] line.kind = "part" /\ growing # 0 ->
               [blocks EXCEPT ![growing].text = Append(@, line.about)]
          [] line.kind = "result" ->
               IF called # 0 THEN [blocks EXCEPT ![called].answered = TRUE]
               ELSE Append(blocks, BlockOf("call", line.about, <<>>, TRUE))
          [] line.kind = "answered" /\ request # 0 ->
               [blocks EXCEPT ![request].answered = TRUE]
          [] OTHER -> blocks

---------------------------------------------------------------------------------
(* SessionViewModel, on the main thread. *)

Popped(c) == [conns EXCEPT ![c].inbox = Tail(@)]

\* A response counts for what it answers by its id, which begins anew in every connection.
HandleResponse(c, line) ==
    CASE line.about = ids.init ->
           /\ ids' = [ids EXCEPT !.init = 0]
           /\ IF line.kind = "refusal"
              THEN screen' = Shows("Failed") /\ conns' = Popped(c) /\ jobs' = jobs
              ELSE IF client = 0 THEN conns' = Popped(c) /\ UNCHANGED <<screen, jobs>>
              ELSE /\ screen' = Shows("Replaying")
                   /\ jobs' = jobs \cup {Job(client, "replay", 0)}
                   /\ conns' = Launched(Popped(c), client)
      [] line.about # ids.init /\ line.about = ids.replay ->
           /\ ids' = [ids EXCEPT !.replay = 0]
           /\ screen' = Shows(IF line.kind = "refusal" THEN "Failed" ELSE "Ready")
           /\ conns' = Popped(c) /\ jobs' = jobs
      [] line.about \notin {ids.init, ids.replay} /\ line.about = ids.prompt ->
           /\ ids' = [ids EXCEPT !.prompt = 0]
           /\ screen' = IF line.kind = "response" THEN screen
                        ELSE [screen EXCEPT !.blocks = Append(@, BlockOf("failed", 0, <<>>, FALSE))]
           /\ conns' = Popped(c) /\ jobs' = jobs
      [] OTHER -> conns' = Popped(c) /\ UNCHANGED <<ids, screen, jobs>>

HandleEvent(c, line) ==
    /\ screen' = [screen EXCEPT !.blocks = Adds(@, line),
                                !.phase = CASE line.kind = "begin" -> "Running"
                                            [] line.kind = "end" -> "Ready" [] OTHER -> @]
    /\ conns' = Popped(c) /\ UNCHANGED <<ids, jobs>>

\* A tool of the client's own is refused; so is what else an agent may ask for.
HandleRequest(c, line) ==
    /\ ids' = ids
    /\ IF client = 0 THEN conns' = Popped(c) /\ UNCHANGED <<screen, jobs>>
       ELSE IF line.kind = "ask"
       THEN /\ screen' = [screen EXCEPT !.blocks = Adds(@, line),
                                        !.dialogs = @ \cup {line.about}]
            /\ conns' = Popped(c) /\ jobs' = jobs
       ELSE /\ jobs' = jobs \cup {Job(client, "refuse", line.about)}
            /\ conns' = Launched(Popped(c), client) /\ screen' = screen

HandleExit(c, line) ==
    /\ screen' = [phase |-> "Failed", blocks |-> Adds(screen.blocks, line), dialogs |-> {}]
    /\ conns' = Popped(c) /\ UNCHANGED <<ids, jobs>>

Handle(c) ==
    /\ conns[c].inbox # <<>>
    /\ LET line == Head(conns[c].inbox) IN
         /\ CASE line.kind \in {"response", "refusal"} -> HandleResponse(c, line)
              [] line.kind \in {"ask", "tool"} -> HandleRequest(c, line)
              [] line.kind \in Ends -> HandleExit(c, line)
              [] OTHER -> HandleEvent(c, line)
         /\ spoken' = [spoken EXCEPT ![c].handled = Append(@, line)]
    /\ crossed' = (crossed \/ c # AndroidLast) /\ UNCHANGED <<heard, client>>

\* What the user does: a line to send, the stop button, an answer to a dialog.
Launches(what, about) ==
    /\ client # 0 /\ conns[client].next <= MaxJobs
    /\ jobs' = jobs \cup {Job(client, what, about)}
    /\ conns' = Launched(conns, client)
    /\ UNCHANGED <<heard, spoken, screen, client, ids, crossed>>

SendText == CanSend /\ Launches(IF screen.phase = "Ready" THEN "prompt" ELSE "steer", 0)
CancelTurn == screen.phase = "Running" /\ Launches("cancel", 0)
AnswersDialog == \E ask \in screen.dialogs : Launches("answer", ask)

\* A request is sent, then the coroutine goes on.
Sent(j) ==
    /\ j.at = "sending" /\ conns[j.conn].at = "open"
    /\ jobs' = (jobs \ {j}) \cup {[j EXCEPT !.at = "sent"]}
    /\ heard' = [heard EXCEPT ![j.conn] =
                   IF j.what \in {"answer", "refuse"} THEN @ ELSE @ \cup {j.id}]
    /\ UNCHANGED <<conns, spoken, screen, client, ids, crossed>>

Resumed(j) ==
    /\ j.at = "sent" /\ jobs' = jobs \ {j}
    /\ ids' = IF j.what \in {"init", "replay", "prompt"} THEN [ids EXCEPT ![j.what] = j.id]
              ELSE ids
    /\ screen' = CASE j.what = "prompt" -> Shows("Running")
                   [] j.what = "answer" ->
                        [screen EXCEPT !.blocks = Adds(@, Said("answered", j.about)),
                                       !.dialogs = @ \ {j.about}]
                   [] OTHER -> screen
    /\ UNCHANGED <<conns, heard, spoken, client, crossed>>

\* There is nobody to send it to.  Of initialize that is told; otherwise the app ends.
SendFails(j) ==
    /\ j.at = "sending" /\ conns[j.conn].at # "open"
    /\ IF j.what = "init"
       THEN /\ jobs' = jobs \ {j} /\ screen' = Shows("Failed") /\ UNCHANGED <<conns, client, ids>>
       ELSE /\ jobs' = {} /\ client' = 0 /\ ids' = [init |-> 0, replay |-> 0, prompt |-> 0]
            /\ screen' = [phase |-> "Disconnected", blocks |-> <<>>, dialogs |-> {}]
            /\ conns' = [c \in Dialled |-> IF conns[c].at = "unused" THEN Unused
                                           ELSE [Unused EXCEPT !.at = "failed"]]
    /\ UNCHANGED <<heard, spoken, crossed>>

---------------------------------------------------------------------------------
(* The agent at the other end. *)

SaidSoFar(c, kind) == {line.about : line \in {l \in ToSet(spoken[c].said) : l.kind = kind}}
LinesSaid == FoldFunction(LAMBDA s, n : Len(s.said) + n, 0, spoken)

\* Of a turn anything; an answer to a request; a result of a call, the end of an approval.
MaySay(c) ==
    {Said(kind, Len(spoken[c].said) + 1) :
        kind \in {"begin", "end", "text", "call", "part", "ask", "tool", "junk"} \cup Ends}
    \cup {Said("response", id) : id \in heard[c]} \cup {Said("refusal", id) : id \in heard[c]}
    \cup {Said("result", k) : k \in SaidSoFar(c, "call") \ SaidSoFar(c, "result")}
    \cup {Said("answered", k) : k \in SaidSoFar(c, "ask") \ SaidSoFar(c, "answered")}

Speaks(c) ==
    /\ \/ conns[c].at \in {"open", "closing"}
       \/ conns[c].at = "dialing" /\ conns[c].wire \o conns[c].buffer # <<>>
    /\ LinesSaid < MaxLinesSaid
    /\ \A line \in ToSet(spoken[c].said) : line.kind \notin Ends
    /\ \E line \in MaySay(c) :
         /\ spoken' = [spoken EXCEPT ![c].said = Append(@, line)]
         /\ conns' = [conns EXCEPT ![c].wire = Append(@, line)]
         /\ heard' = [heard EXCEPT ![c] =
                         IF line.kind \in {"response", "refusal"} THEN @ \ {line.about} ELSE @]
    /\ UNCHANGED <<screen, client, ids, jobs, crossed>>

AndroidNext ==
    \/ PhoneConnects \/ PhoneDisconnects \/ SendText \/ CancelTurn \/ AnswersDialog
    \/ \E c \in Dialled : PhoneDialFails(c) \/ Acks(c) \/ ReadAck(c) \/ TakesLine(c) \/ Handle(c)
    \/ \E c \in Dialled : \E n \in 1..Len(conns[c].wire) : Fill(c, n)
    \/ \E c \in Dialled : Speaks(c)
    \/ \E j \in jobs : Sent(j) \/ Resumed(j) \/ SendFails(j)

PhoneSpec == AndroidInit /\ [][AndroidNext]_androidVars

---------------------------------------------------------------------------------
Unheard(c) == conns[c].inbox \o conns[c].buffer \o conns[c].wire

\* What the lines of a kind are about, and where the blocks of a kind are.
AboutOf(lines, kind) == {lines[i].about : i \in {i \in DOMAIN lines : lines[i].kind = kind}}
PlacesOf(blocks, kind) == {i \in DOMAIN blocks : blocks[i].kind = kind}

\* What the blocks say has been said: all of the text, place by place, through one block and
\* on to the next, and the calls with their results.
ShowsAll(blocks, lines) ==
    LET texts == PlacesOf(blocks, "text")
        calls == PlacesOf(blocks, "call")
    IN  /\ \A i, j \in texts : \A k \in DOMAIN blocks[i].text, m \in DOMAIN blocks[j].text :
              i < j \/ (i = j /\ k < m) => blocks[i].text[k] < blocks[j].text[m]
        /\ UNION {ToSet(blocks[i].text) : i \in texts} = AboutOf(lines, "text")
        /\ \A i, j \in calls : i < j => blocks[i].about < blocks[j].about
        /\ {blocks[i].about : i \in calls} = AboutOf(lines, "call")
        /\ {blocks[i].about : i \in {i \in calls : blocks[i].answered}}
              = AboutOf(lines, "result")

\* No dialog is of a request that nobody made, or of an agent that is gone.
DialogsFit(dialogs, lines) ==
    /\ \A ask \in dialogs : \E i \in DOMAIN lines : lines[i] = Said("ask", ask)
    /\ (\E i \in DOMAIN lines : lines[i].kind \in Ends) => dialogs = {}

(* WireClient.kt:163-164 "the same BufferedReader becomes the stream reader so nothing is
   lost", SessionViewModel.kt:177-300: what an agent has said since the daemon's frame has
   been handled or is on its way, each line once and in order; and what was handled is on
   the screen: each call, with its result as soon as it has one, all of the text in order,
   and only dialogs of approvals that were asked for, none once the agent is gone.  What is
   shown after a second connection was begun while the first's agent had more to say is
   left out. *)
AndroidShowsAll ==
    \A c \in Dialled : conns[c].at \in {"open", "closing", "ended"} =>
        /\ spoken[c].said = spoken[c].handled \o Unheard(c)
        /\ c = AndroidLast /\ ~crossed =>
              ShowsAll(screen.blocks, spoken[c].handled)
              /\ DialogsFit(screen.dialogs, spoken[c].handled)

(* Does not hold, SessionViewModel.kt:284 "Running until TurnEnd says otherwise.": an agent
   that answers quickly has ended the turn when the coroutine that sent it says Running. *)
RunningIsATurn ==
    LET lines == spoken[AndroidLast].said
        began == {i \in DOMAIN lines : lines[i].kind = "begin"}
    IN  AndroidLast # 0 /\ screen.phase = "Running" /\ jobs = {} /\ Unheard(AndroidLast) = <<>> =>
          heard[AndroidLast] # {} \/
          \E i \in began : \A j \in DOMAIN lines : j > i => lines[j].kind # "end"

(* Does not hold: a dialog stays when the agent no longer waits for its answer, and one of
   an agent before is shown to the next. *)
DialogsAreOpen ==
    AndroidLast # 0 =>
        \A ask \in screen.dialogs :
            ask \in (SaidSoFar(AndroidLast, "ask") \ SaidSoFar(AndroidLast, "answered"))
                \cup {line.about : line \in ToSet(Unheard(AndroidLast))}

(* Does not hold: what disconnect leaves behind goes on, and a dial under way brings the
   session back to the screen. *)
DisconnectedStaysSo ==
    [][screen.phase = "Disconnected" => screen'.phase \in {"Disconnected", "Connecting"}]_androidVars
=================================================================================
