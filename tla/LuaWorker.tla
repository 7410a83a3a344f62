------------------------------ MODULE LuaWorker ------------------------------
(***************************************************************************)
(* A Lua team on a worker thread of its own (bota_lua/src/native/worker.rs,*)
(* with what a turn keeps of an attack asked for once, team.rs and api.rs, *)
(* and what the caller does with a turn, native/play.rs).                  *)
(*                                                                         *)
(* The caller hands the worker a snapshot a tick and waits for its turn no *)
(* longer than the budget.  Time is left out: wherever the code asks how   *)
(* much of the budget is left, either answer may come.  A turn is the      *)
(* orders of one hero: "attack" asks for one blow, "stop" follows when it  *)
(* was launched, "move" is any other order of the script.                  *)
(***************************************************************************)
EXTENDS Naturals, Sequences, FiniteSetsExt

CONSTANTS
    MaxLate,    \* MAX_CONSECUTIVE_LATE_TICKS
    Permits,    \* the limit of WorkerPermit::acquire
    MaxTeams,   \* bound: teams started in all
    LastTick    \* bound: ticks of the match

WorkerAssumption ==
    /\ MaxLate \in Nat \ {0} /\ Permits \in Nat \ {0}
    /\ MaxTeams \in Nat /\ LastTick \in Nat

Teams == 1 .. MaxTeams
Nothing == [tick |-> 0, launched |-> FALSE]    \* no PendingOnce
Unkept == [tick |-> 0, launched |-> TRUE]      \* no checkpoint

VARIABLES
    pc,        \* the caller: "none", "starting", "idle", "drain", "send" or "wait"
    cur,       \* how many teams were started; the last one is the caller's
    tick,      \* the tick of the caller's session
    late,      \* NativeTeam::late_ticks
    in_flight, discard,    \* NativeTeam::in_flight, discard_previous
    open,      \* the teams whose channels the caller still holds
    ready,     \* the teams whose answer to the start waits to be read
    requests, replies,     \* the channels of each team
    at,        \* where each worker is
    live_workers,  \* LIVE_WORKERS
    pending_once,  \* BotState::pending_once of each team
    previous,  \* run's checkpoint of each
    turn,      \* the turn a worker is working on, or is about to send
    launched,  \* when the hero last launched an attack
    asked,     \* history: since when the hero attacks once for the caller
    got        \* history: the last turn the caller took

caller == <<pc, cur, tick, late, in_flight, discard>>
worker == <<at, pending_once, previous, turn>>
match  == <<launched, asked, got>>
workerVars == <<caller, open, ready, requests, replies, worker, live_workers, match>>

OnceKept == [tick : 0 .. LastTick, launched : BOOLEAN]
Turn == [tick : 0 .. LastTick, seen : 0 .. LastTick, orders : Seq({"attack", "stop", "move"}),
         ends : BOOLEAN, bad : BOOLEAN]
NoTurn == [tick |-> 0, seen |-> 0, orders |-> <<>>, ends |-> FALSE, bad |-> FALSE]

WorkerTypeOK ==
    /\ pc \in {"none", "starting", "idle", "drain", "send", "wait"}
    /\ cur \in 0 .. MaxTeams /\ tick \in 0 .. LastTick
    /\ late \in 0 .. MaxLate
    /\ in_flight \in BOOLEAN /\ discard \in BOOLEAN
    /\ open \subseteq Teams /\ ready \subseteq Teams
    /\ \A t \in Teams : /\ Len(requests[t]) <= 1 /\ Len(replies[t]) <= 1
                        /\ pending_once[t] \in OnceKept /\ previous[t] \in OnceKept
                        /\ turn[t] \in Turn
    /\ at \in [Teams -> {"unborn", "build", "recv", "think", "reply", "gone"}]
    /\ live_workers \in 0 .. Permits
    /\ launched \in 0 .. LastTick /\ asked \in 0 .. LastTick

WorkerInit ==
    /\ pc = "none" /\ cur = 0 /\ tick = 0 /\ late = 0
    /\ in_flight = FALSE /\ discard = FALSE
    /\ open = {} /\ ready = {}
    /\ requests = [t \in Teams |-> <<>>] /\ replies = requests
    /\ at = [t \in Teams |-> "unborn"]
    /\ live_workers = 0
    /\ pending_once = [t \in Teams |-> Nothing] /\ previous = [t \in Teams |-> Unkept]
    /\ turn = [t \in Teams |-> NoTurn]
    /\ launched = 0 /\ asked = 0 /\ got = [of |-> 0, at |-> 0]

-----------------------------------------------------------------------------
(* Starting and dropping a team. *)

\* NativeTeam::start: a permit, the channels and the thread.
Start ==
    /\ pc = "none" /\ cur < MaxTeams /\ live_workers < Permits
    /\ pc' = "starting" /\ cur' = cur + 1
    /\ live_workers' = live_workers + 1
    /\ open' = open \cup {cur + 1}
    /\ at' = [at EXCEPT ![cur + 1] = "build"]
    /\ late' = 0 /\ in_flight' = FALSE /\ discard' = FALSE
    /\ UNCHANGED <<tick, ready, requests, replies, pending_once, previous, turn, match>>

Started ==
    /\ pc = "starting" /\ cur \in ready
    /\ pc' = "idle"
    /\ ready' = ready \ {cur}
    /\ UNCHANGED <<cur, tick, late, in_flight, discard, open, requests, replies, worker,
                   live_workers, match>>

\* The start fails: its budget runs out, or the worker answers with an error or
\* not at all.
NotStarted ==
    /\ pc = "starting" /\ cur \notin ready
    /\ pc' = "none"
    /\ open' = open \ {cur}
    /\ UNCHANGED <<cur, tick, late, in_flight, discard, ready, requests, replies, worker,
                   live_workers, match>>

\* Drop of a NativeTeam, retired or not; its hero is told to stand.
Drop ==
    /\ pc = "idle"
    /\ pc' = "none"
    /\ open' = open \ {cur}
    /\ asked' = 0
    /\ UNCHANGED <<cur, tick, late, in_flight, discard, ready, requests, replies, worker,
                   live_workers, launched, got>>

-----------------------------------------------------------------------------
(* NativeTeam::think, from the caller's side. *)

\* A reply still to come is read before anything is sent.
First == IF in_flight THEN "drain" ELSE "send"

\* A tick of the match, in which the hero may launch a blow, and the call.
ThinkBegins ==
    /\ pc = "idle" /\ cur \in open /\ tick < LastTick
    /\ tick' = tick + 1
    /\ launched' \in {launched} \cup {l \in {tick + 1} : asked # 0}
    /\ pc' = First
    /\ UNCHANGED <<cur, late, in_flight, discard, open, ready, requests, replies, worker,
                   live_workers, asked, got>>

\* retire, with what the caller then sends: a team without a worker stands.
Retired == open' = open \ {cur} /\ asked' = 0

\* late: counted, and the last one allowed retires.
Late ==
    /\ late' = late + 1
    /\ IF late + 1 >= MaxLate THEN Retired ELSE UNCHANGED <<open, asked>>

\* The budget is over before the last tick's turn was read, or before this
\* tick's request was sent.
OutOfTime ==
    /\ pc \in {"drain", "send"}
    /\ pc' = "idle"
    /\ Late
    /\ UNCHANGED <<cur, tick, in_flight, discard, ready, requests, replies, worker,
                   live_workers, launched, got>>

\* receive: a reply that is an error retires the team.  That a worker goes
\* without one is ruled out by NeverClosed.
Received(after) ==
    /\ replies[cur] # <<>>
    /\ replies' = [replies EXCEPT ![cur] = Tail(@)]
    /\ in_flight' = FALSE
    /\ IF Head(replies[cur]).bad
       THEN pc' = "idle" /\ Retired
       ELSE pc' = after /\ UNCHANGED <<open, asked>>

\* The reply to a tick that was missed is read and thrown away.
Drain ==
    /\ pc = "drain"
    /\ Received("send")
    /\ UNCHANGED <<cur, tick, late, discard, ready, requests, worker, live_workers, launched, got>>

\* try_send fails when the worker is gone, or has a request it did not take.
SendRequest ==
    /\ pc = "send"
    /\ IF at[cur] = "gone" \/ requests[cur] # <<>>
       THEN pc' = "idle" /\ Retired /\ UNCHANGED <<requests, discard, in_flight>>
       ELSE /\ pc' = "wait"
            /\ requests' = [requests EXCEPT ![cur] =
                              <<[tick |-> tick, seen |-> launched, discarded |-> discard]>>]
            /\ discard' = FALSE /\ in_flight' = TRUE
            /\ UNCHANGED <<open, asked>>
    /\ UNCHANGED <<cur, tick, late, ready, replies, worker, live_workers, launched, got>>

\* Since when the hero attacks for the caller, once `orders' went out in a turn.
AskedAfter(orders) ==
    LET stops  == orders # <<>> /\ Head(orders) = "stop"
        stands == IF stops THEN 0 ELSE asked
        own    == IF stops THEN Tail(orders) ELSE orders
    IN  CASE own = <<>> -> stands
          [] own = <<"attack">> -> IF stands = 0 THEN tick ELSE stands
          [] OTHER -> 0

\* A reply in time.
Accept ==
    /\ pc = "wait" /\ replies[cur] # <<>> /\ ~Head(replies[cur]).bad
    /\ replies' = [replies EXCEPT ![cur] = Tail(@)]
    /\ in_flight' = FALSE /\ late' = 0
    /\ pc' = "idle"
    /\ got' = [of |-> Head(replies[cur]).tick, at |-> tick]
    /\ asked' = AskedAfter(Head(replies[cur]).orders)
    /\ UNCHANGED <<cur, tick, discard, open, ready, requests, worker, live_workers, launched>>

\* A reply read in time that is an error.
Refused ==
    /\ pc = "wait" /\ replies[cur] # <<>> /\ Head(replies[cur]).bad
    /\ Received("idle")
    /\ UNCHANGED <<cur, tick, late, discard, ready, requests, worker, live_workers, launched, got>>

\* Mutant: a turn is thrown away without a word to the worker.
MutMissed == UNCHANGED discard

Missed == discard' = TRUE

\* The budget is over, the reply not read, or read too late.
Miss(read) ==
    /\ pc = "wait"
    /\ read => replies[cur] # <<>> /\ ~Head(replies[cur]).bad
    /\ replies' = IF read THEN [replies EXCEPT ![cur] = Tail(@)] ELSE replies
    /\ in_flight' = ~read
    /\ Missed
    /\ pc' = "idle"
    /\ Late
    /\ UNCHANGED <<cur, tick, ready, requests, worker, live_workers, launched, got>>

-----------------------------------------------------------------------------
(* The worker thread. *)

\* The thread ends and drops its permit.
Ends(t) == at' = [at EXCEPT ![t] = "gone"] /\ live_workers' = live_workers - 1

\* build, which looks at its channel between two frames of the selection.
Build(t) ==
    /\ at[t] = "build"
    /\ \/ pc = "starting" /\ t = cur /\ t \in open
          /\ at' = [at EXCEPT ![t] = "recv"] /\ ready' = ready \cup {t}
          /\ UNCHANGED live_workers
       \/ Ends(t) /\ UNCHANGED ready
    /\ UNCHANGED <<caller, open, requests, replies, pending_once, previous, turn, match>>

\* restore_once of the checkpoint, when the caller threw the last turn away.
Restored(t) ==
    IF previous[t] # Unkept /\ Head(requests[t]).discarded THEN previous[t] ELSE pending_once[t]

\* Mutant: a closed channel is not noticed.
MutClosed(t) == FALSE

Closed(t) == requests[t] = <<>> /\ t \notin open

\* run takes a request, or finds its channel closed.
Recv(t) ==
    /\ at[t] = "recv"
    /\ \/ /\ requests[t] # <<>>
          /\ at' = [at EXCEPT ![t] = "think"]
          /\ pending_once' = [pending_once EXCEPT ![t] = Restored(t)]
          /\ previous' = [previous EXCEPT ![t] = Restored(t)]
          /\ turn' = [turn EXCEPT ![t] = [NoTurn EXCEPT !.tick = Head(requests[t]).tick,
                                                          !.seen = Head(requests[t]).seen]]
          /\ requests' = [requests EXCEPT ![t] = Tail(@)]
          /\ UNCHANGED live_workers
       \/ /\ Closed(t)
          /\ Ends(t)
          /\ UNCHANGED <<pending_once, previous, turn, requests>>
    /\ UNCHANGED <<caller, open, ready, replies, match>>

\* complete_once: a launch the snapshot shows, later than the request, completes it.
Completed(p, seen) == [p EXCEPT !.launched = p.tick # 0 /\ (p.launched \/ seen > p.tick)]

\* pending_once: a request not launched yet is renewed as it stands.
Asked(p, now) == IF p.tick # 0 /\ ~p.launched THEN p ELSE [tick |-> now, launched |-> FALSE]

\* think_snapshot: the completion pass, then the script, which asks for a blow,
\* gives some other order, none, or fails.
Think(t) ==
    /\ at[t] = "think"
    /\ at' = [at EXCEPT ![t] = "reply"]
    /\ LET once == Completed(pending_once[t], turn[t].seen)
           stop == IF once.launched THEN <<"stop">> ELSE <<>>
           now  == turn[t].tick
           Does(orders, p) ==
               /\ turn' = [turn EXCEPT ![t].orders = orders]
               /\ pending_once' = [pending_once EXCEPT ![t] = p]
       IN  \/ Does(stop, IF once.launched THEN Nothing ELSE once)
           \/ Does(Append(stop, "attack"), Asked(once, now))
           \/ Does(Append(stop, "move"), Nothing)
           \/ Does(<<>>, once)
           \/ \E ends \in BOOLEAN :      \* an error, or a panic
                /\ turn' = [turn EXCEPT ![t].bad = TRUE, ![t].ends = ends]
                /\ UNCHANGED pending_once
    /\ UNCHANGED <<caller, open, ready, requests, replies, previous, live_workers, match>>

\* The reply, which nobody reads of a team that was retired or dropped.
Reply(t) ==
    /\ at[t] = "reply"
    /\ IF t \notin open
       THEN Ends(t) /\ UNCHANGED replies
       ELSE /\ replies[t] = <<>>
            /\ replies' = [replies EXCEPT ![t] = <<turn[t]>>]
            /\ IF turn[t].ends THEN Ends(t)
               ELSE at' = [at EXCEPT ![t] = "recv"] /\ UNCHANGED live_workers
    /\ UNCHANGED <<caller, open, ready, requests, pending_once, previous, turn, match>>

-----------------------------------------------------------------------------
WorkerNext ==
    \/ Start \/ Started \/ NotStarted \/ Drop
    \/ ThinkBegins \/ OutOfTime \/ Drain \/ SendRequest
    \/ Accept \/ Refused \/ Miss(TRUE) \/ Miss(FALSE)
    \/ \E t \in Teams : Build(t) \/ Recv(t) \/ Think(t) \/ Reply(t)

WorkerSpec == WorkerInit /\ [][WorkerNext]_workerVars

\* A worker runs until it has nothing left to do: fuel bounds every turn.
WorkerLiveSpec ==
    WorkerSpec /\ \A t \in Teams : WF_workerVars(Build(t) \/ Recv(t) \/ Think(t) \/ Reply(t))

-----------------------------------------------------------------------------
(* What holds of it. *)

\* The turn the caller acts on was thought from the tick it asked about, never
\* from one it missed (worker.rs, think: "This reply belongs to the previously
\* missed tick, never the new one").
OwnTurn == got.of = got.at

\* When a worker thinks, what it remembers of an attack asked for once is what
\* the caller sent out: nothing of a turn thrown away, all of one that was not
\* (worker.rs, run; README.md: "discarded host continuations ... are restored").
OnceRemembered ==
    \A t \in open : at[t] = "think" /\ t = cur => pending_once[t].tick = asked

\* The caller sends one stop for a blow asked for once, after it was launched.
StopsOnce ==
    [][\A t \in Teams :
          t = cur /\ replies[t] # <<>> /\ got' # got /\ Len(Head(replies[t]).orders) > 0
             /\ Head(Head(replies[t]).orders) = "stop"
          => asked # 0 /\ launched > asked]_workerVars

\* A worker never waits to hand its reply over: the channel's one place is free
\* (worker.rs, run: output.send on a channel of one).
ReplyFits == \A t \in open : at[t] = "reply" => replies[t] = <<>>

\* A team that is not retired has a worker to answer it: a request finds its
\* channel empty and its worker there, and nobody waits for a reply of a worker
\* that is gone, so that think never answers NativeError::Closed, nor receive
\* finds its channel disconnected, in a team that runs.
NeverClosed ==
    /\ pc = "send" => requests[cur] = <<>> /\ at[cur] # "gone"
    /\ pc \in {"drain", "wait"} => replies[cur] # <<>> \/ at[cur] # "gone"

\* Every thread that runs holds a permit, whether it still has a team or not.
PermitsHeld ==
    live_workers = Cardinality({t \in Teams : at[t] \notin {"unborn", "gone"}})

\* A team let go gives its thread and its permit back, whatever it was at.
WorkersEnd ==
    \A t \in Teams : (t \notin open /\ at[t] # "unborn") ~> (at[t] = "gone")

\* What the caller and its worker hold of one another's turns, late or not, and
\* the one stop it costs.
TurnsMatch ==
    /\ [](WorkerTypeOK /\ OwnTurn /\ OnceRemembered /\ ReplyFits /\ NeverClosed /\ PermitsHeld)
    /\ StopsOnce
=============================================================================
