------------------------------ MODULE ClientLink ------------------------------
(***************************************************************************)
(* A client's socket with a reader thread behind it                        *)
(* (bota_client_core/src: socket.rs, Net; redial.rs) against a server that *)
(* holds the seat for a connection until it finds that one dead, refuses   *)
(* one for good or lets one go when it pleases.  The caller sends orders   *)
(* whatever the connection does; the reader hears what the server says,    *)
(* and dials again after a break, saying everything again on the fresh     *)
(* connection, the orders whose sending failed last.                       *)
(*                                                                         *)
(* Of what is said again only the Hello and the orders are kept: the pick, *)
(* the readiness and the rest go the Hello's way.  A stream that cannot be *)
(* decoded and a caller that lets go of its Net end the link too, and are  *)
(* left out.                                                               *)
(***************************************************************************)
EXTENDS Naturals, SequencesExt

CONSTANTS
    Attempts,      \* Redial::attempts
    MaxUnsent,     \* MAX_UNSENT
    Partial,       \* whether a greeting may fail after a part of it has arrived
    MaxOrders,     \* bound: orders given
    Cuts           \* bound: connections the network breaks or the server lets go

LinkAssumption ==
    /\ Attempts \in Nat \ {0} /\ MaxUnsent \in Nat \ {0} /\ Partial \in BOOLEAN
    /\ MaxOrders \in Nat /\ Cuts \in Nat

Hello == 0
Orders == 1 .. MaxOrders
\* The connections there can be: a welcome is needed before attempts count anew.
Connections == 1 .. 1 + (Cuts + 1) * Attempts

VARIABLES
    net,        \* where the reader thread is: "reading", "redialing" or "ended"
    state,      \* Shared::state: "up", "redialing" or "closed"
    conn,       \* the connection the reader and the sink are on
    broken,     \* Outgoing::broken
    unsent, rejoining, finished, spent,     \* Rejoin
    orders,     \* how many orders the caller gave
    dials,      \* connections opened so far
    link,       \* how each stands: "unused", "open", "cut", "shut" by the server, "aborted"
    c2s, s2c,   \* what is on the way on each
    holder,     \* server: the connection the seat is held for, 0 for none
    over,       \* server: the match ended, and the server is gone
    taken,      \* history: the orders the server took, in the order it did
    replied,    \* history: it said anything on `conn' but that the seat is held
    dismissed,  \* history: it refused `conn' for good, or let it go
    cuts

rejoin == <<unsent, rejoining, finished, spent>>
wires == <<link, c2s, s2c>>
server == <<holder, over, taken, replied, dismissed>>
linkVars == <<net, state, conn, broken, rejoin, orders, dials, wires, server, cuts>>

LinkTypeOK ==
    /\ net \in {"reading", "redialing", "ended"}
    /\ state \in {"up", "redialing", "closed"}
    /\ dials \in Connections /\ conn \in 1 .. dials /\ holder \in 0 .. dials
    /\ Len(unsent) <= MaxUnsent /\ spent <= Attempts
    /\ net = "ended" => state = "closed"
    /\ \A c \in Connections : link[c] = "unused" <=> c > dials

\* Net::open, and the Hello.
LinkInit ==
    /\ net = "reading" /\ state = "up" /\ conn = 1 /\ broken = FALSE
    /\ unsent = <<>> /\ rejoining = TRUE /\ finished = FALSE /\ spent = 0
    /\ orders = 0 /\ dials = 1
    /\ link = [c \in Connections |-> IF c = 1 THEN "open" ELSE "unused"]
    /\ c2s = [c \in Connections |-> IF c = 1 THEN <<Hello>> ELSE <<>>]
    /\ s2c = [c \in Connections |-> <<>>]
    /\ holder = 0 /\ over = FALSE
    /\ taken = <<>> /\ replied = FALSE /\ dismissed = FALSE /\ cuts = 0

-----------------------------------------------------------------------------
(* The caller. *)

\* Mutant: the newest goes out first.
MutUnsentFirst(n) == IF Len(unsent) = MaxUnsent THEN <<n>> \o Front(unsent) ELSE <<n>> \o unsent
\* Rejoin::unsent: the oldest give way.
Unsent(n) == Append(IF Len(unsent) = MaxUnsent THEN Tail(unsent) ELSE unsent, n)

\* Outgoing::break_off.
BreakOff == broken' = TRUE /\ link' = [link EXCEPT ![conn] = "aborted"]

\* Outgoing::send of order `n', the first after a welcome: the socket takes it,
\* though the other end may be gone, or fails.
Send(n) ==
    /\ state # "closed" /\ n = orders + 1
    /\ orders = 0 => ~rejoining
    /\ orders' = n
    /\ \/ /\ link[conn] = "open"
          /\ c2s' = [c2s EXCEPT ![conn] = Append(@, n)]
          /\ UNCHANGED <<state, broken, unsent, link>>
       \/ /\ link[conn] \in {"cut", "shut"}
          /\ UNCHANGED <<state, broken, unsent, link, c2s>>
       \/ /\ link[conn] # "open" /\ ~finished
          /\ unsent' = Unsent(n)
          /\ BreakOff
          /\ UNCHANGED <<state, c2s>>
       \/ /\ link[conn] # "open" /\ finished
          /\ state' = "closed"
          /\ UNCHANGED <<broken, unsent, link, c2s>>
    /\ UNCHANGED <<net, conn, rejoining, finished, spent, dials, s2c, server, cuts>>

\* Shared::probe_if_due: a probe fails, and the break is noticed though no order
\* is waiting.
Probe ==
    /\ net # "ended" /\ link[conn] # "open" /\ BreakOff
    /\ UNCHANGED <<net, state, conn, rejoin, orders, dials, c2s, s2c, server, cuts>>

-----------------------------------------------------------------------------
(* The reader. *)

\* Shared::heard_from_server.
Answered == IF state = "redialing" THEN "up" ELSE state

\* A refusal that is no end: the seat is held for the connection before.
SeatHeld == rejoining

\* Whether there is anything to dial again for.
MayRedial == ~finished

\* Shared::reconnect, up to its first attempt.
Redials ==
    IF MayRedial THEN net' = "redialing" /\ state' = "redialing"
    ELSE net' = "ended" /\ state' = "closed"

\* The next message (read_on, Rejoin::heard).  A "word" is a ping, or an echo, a
\* receipt, a snapshot: whatever says no more than that the server is there; the
\* pong that answers a ping may fail.
Read ==
    /\ net = "reading" /\ s2c[conn] # <<>>
    /\ s2c' = [s2c EXCEPT ![conn] = Tail(@)]
    /\ LET msg == Head(s2c[conn]) IN
       \/ /\ msg = "word" /\ state' = Answered
          /\ \/ UNCHANGED <<broken, link>>
             \/ link[conn] # "open" /\ BreakOff
          /\ UNCHANGED <<net, rejoining, spent, finished>>
       \/ /\ msg = "welcome"
          /\ rejoining' = FALSE /\ spent' = 0 /\ state' = Answered
          /\ UNCHANGED <<net, broken, finished, link>>
       \/ /\ msg = "held" /\ SeatHeld
          /\ Redials /\ broken' = FALSE
          /\ UNCHANGED <<rejoining, spent, finished, link>>
       \/ /\ msg \in {"over", "refused"} \/ (msg = "held" /\ ~SeatHeld)
          /\ finished' = TRUE /\ state' = Answered
          /\ UNCHANGED <<net, broken, rejoining, spent, link>>
    /\ UNCHANGED <<conn, unsent, orders, dials, c2s, server, cuts>>

\* The stream ends, and the reader with it unless it dials again: it broke, or a
\* send into it failed.
ReadEnds ==
    /\ net = "reading"
    /\ broken \/ (link[conn] \in {"cut", "shut"} /\ s2c[conn] = <<>>)
    /\ broken' = FALSE
    /\ IF broken \/ link[conn] = "cut" THEN Redials
       ELSE net' = "ended" /\ state' = "closed"
    /\ UNCHANGED <<conn, rejoin, orders, dials, wires, server, cuts>>

\* Mutant: each break has its attempts anew, and each attempt is a break.
MutSpent == 0
\* Attempts count until a welcome, whatever came of the ones before.
Spent == spent + 1

\* The redial is over only when the server answers.
Adopted == state

\* One attempt of `redial': the server cannot be dialed; or it is greeted, and the
\* fresh connection adopted for the old one; or the greeting fails after `k' of its frames arrived.
Dial ==
    /\ net = "redialing" /\ spent < Attempts /\ spent' = Spent
    /\ \/ UNCHANGED <<net, state, conn, broken, unsent, rejoining, dials, wires, replied, dismissed>>
       \/ /\ ~over /\ dials + 1 \in Connections
          /\ dials' = dials + 1
          /\ LET frames == <<Hello>> \o unsent IN
             \/ /\ c2s' = [c2s EXCEPT ![dials + 1] = frames]
                /\ link' = [link EXCEPT ![dials + 1] = "open", ![conn] = "aborted"]
                /\ s2c' = [s2c EXCEPT ![conn] = <<>>]
                /\ unsent' = <<>> /\ rejoining' = TRUE
                /\ conn' = dials + 1 /\ broken' = FALSE
                /\ net' = "reading" /\ state' = Adopted
                /\ replied' = FALSE /\ dismissed' = FALSE
             \/ /\ Partial
                /\ \E k \in 1 .. Len(frames) - 1 :
                       c2s' = [c2s EXCEPT ![dials + 1] = SubSeq(frames, 1, k)]
                /\ link' = [link EXCEPT ![dials + 1] = "cut"]
                /\ UNCHANGED <<net, state, conn, broken, unsent, rejoining, s2c, replied, dismissed>>
    /\ UNCHANGED <<finished, orders, holder, over, taken, cuts>>

\* The attempts of one break are spent.
GiveUp ==
    /\ net = "redialing" /\ spent = Attempts
    /\ net' = "ended" /\ state' = "closed"
    /\ UNCHANGED <<conn, broken, rejoin, orders, dials, wires, server, cuts>>

-----------------------------------------------------------------------------
(* The server and the network. *)

\* The server hears the connections in the order they were dialed.
Heard(c) == \A d \in 1 .. c - 1 : c2s[d] = <<>> \/ d = holder

\* The server says `m' on connection `c', if it still can.
Says(c, m) ==
    IF link[c] = "open"
    THEN /\ s2c' = [s2c EXCEPT ![c] = Append(@, m)]
         /\ replied' = (replied \/ m # "held")
    ELSE UNCHANGED <<s2c, replied>>

\* It closes it, with what else is on it.
Shuts(c) ==
    /\ link' = [link EXCEPT ![c] = IF @ = "open" THEN "shut" ELSE @]
    /\ c2s' = [c2s EXCEPT ![c] = <<>>]

\* The next message on connection `c': a Hello is welcomed, or refused because the
\* seat is held, or for good (another wire, no such seat, a seat left), and the
\* connection closed; an order is taken.
Serve(c) ==
    /\ ~over /\ c2s[c] # <<>> /\ Heard(c)
    /\ LET msg == Head(c2s[c])
       IN  \/ /\ msg = Hello /\ holder = 0
              /\ holder' = c /\ Says(c, "welcome")
              /\ c2s' = [c2s EXCEPT ![c] = Tail(@)]
              /\ UNCHANGED <<link, taken, dismissed>>
           \/ /\ msg = Hello /\ holder # 0
              /\ Says(c, "held") /\ Shuts(c)
              /\ UNCHANGED <<holder, taken, dismissed>>
           \/ /\ msg = Hello
              /\ Says(c, "refused") /\ Shuts(c) /\ dismissed' = (dismissed \/ link[c] = "open")
              /\ UNCHANGED <<holder, taken>>
           \/ /\ msg # Hello /\ taken' = Append(taken, msg)
              /\ c2s' = [c2s EXCEPT ![c] = Tail(@)]
              /\ UNCHANGED <<s2c, link, holder, replied, dismissed>>
    /\ UNCHANGED <<net, state, conn, broken, rejoin, orders, dials, over, cuts>>

\* The server's writer pings, from the connection's first second on and before any
\* welcome; bound: one such word on the way.
Ping(c) ==
    /\ ~over /\ link[c] = "open" /\ \A i \in DOMAIN s2c[c] : s2c[c][i] # "word"
    /\ Says(c, "word")
    /\ UNCHANGED <<net, state, conn, broken, rejoin, orders, dials, link, c2s, holder, over,
                   taken, dismissed, cuts>>

\* The server lets a connection go, without a word (a stranger too late or one too
\* many, a peer that does not read) or because of its items (hear_catalogue); a
\* seat it held is free.
LetGo(c) ==
    /\ ~over /\ link[c] = "open" /\ cuts < Cuts
    /\ cuts' = cuts + 1
    /\ Says(c, "refused") \/ UNCHANGED <<s2c, replied>>
    /\ Shuts(c) /\ dismissed' = TRUE
    /\ holder' = IF holder = c THEN 0 ELSE holder
    /\ UNCHANGED <<net, state, conn, broken, rejoin, orders, dials, over, taken>>

\* The server finds the connection that holds the seat dead and frees the seat.
Notice ==
    /\ holder # 0 /\ link[holder] \in {"cut", "aborted"}
    /\ c2s' = [c2s EXCEPT ![holder] = <<>>]
    /\ holder' = 0
    /\ UNCHANGED <<net, state, conn, broken, rejoin, orders, dials, link, s2c,
                   over, taken, replied, dismissed, cuts>>

\* The network breaks the connection: the last of what is on it, either way, is lost.
Cut(c) ==
    /\ link[c] = "open" /\ cuts < Cuts
    /\ cuts' = cuts + 1
    /\ link' = [link EXCEPT ![c] = "cut"]
    /\ \E i \in 0 .. Len(c2s[c]) : c2s' = [c2s EXCEPT ![c] = SubSeq(@, 1, i)]
    /\ \E j \in 0 .. Len(s2c[c]) : s2c' = [s2c EXCEPT ![c] = SubSeq(@, 1, j)]
    /\ UNCHANGED <<net, state, conn, broken, rejoin, orders, dials, server>>

\* The match ends: the seat is told so, and every connection closed.
MatchOver ==
    /\ ~over /\ over' = TRUE
    /\ s2c' = [c \in Connections |-> IF c = holder /\ link[c] = "open" THEN Append(s2c[c], "over") ELSE s2c[c]]
    /\ replied' = (replied \/ (holder # 0 /\ link[holder] = "open"))
    /\ link' = [c \in Connections |-> IF link[c] = "open" THEN "shut" ELSE link[c]]
    /\ c2s' = [c \in Connections |-> <<>>]
    /\ UNCHANGED <<net, state, conn, broken, rejoin, orders, dials, holder, taken,
                   dismissed, cuts>>

-----------------------------------------------------------------------------
LinkNext ==
    \/ \E n \in Orders : Send(n)
    \/ Probe \/ Read \/ ReadEnds \/ Dial \/ GiveUp
    \/ \E c \in Connections : Serve(c) \/ Ping(c) \/ LetGo(c) \/ Cut(c)
    \/ Notice \/ MatchOver

LinkSpec == LinkInit /\ [][LinkNext]_linkVars

\* The reader thread runs, and the server hears what reaches it; it need never find
\* a connection dead.
LinkFairness ==
    /\ WF_linkVars(Read) /\ WF_linkVars(ReadEnds) /\ WF_linkVars(Dial) /\ WF_linkVars(GiveUp)
    /\ \A c \in Connections : WF_linkVars(Serve(c))

LinkLiveSpec == LinkSpec /\ LinkFairness

-----------------------------------------------------------------------------
(* What holds of it. *)

\* The server takes each order at most once, and in the order they were given,
\* whatever connections they came on (redial.rs, Rejoin: "the orders whose sending
\* failed, which therefore never arrived and are safe to send again").
TakenInOrder == \A i, j \in DOMAIN taken : i < j => taken[i] < taken[j]

\* A link that says it is up again was answered on the connection it is on, by more
\* than that the seat is held (socket.rs, is_redialing: "dialed and not yet answered
\* by the server").  A ping is an answer, though no welcome came before it.
UpAnswered == state = "up" /\ conn # 1 => replied

\* The reader gives up only after the end of the match or all its attempts, or on a
\* connection the server itself refused for good or let go: a seat still held, a
\* break, a send that failed are no end.
EndsForCause == net = "ended" => over \/ spent = Attempts \/ dismissed

\* A link being redialed is up again or closed in the end, though the server may
\* never let the seat go and every fresh connection may be made and refused.
RedialEnds == state = "redialing" ~> state # "redialing"

\* Once the match is over the link closes, whether or not it was told.
LinkEnds == over ~> state = "closed"

\* What a link may be relied on for through every break: orders once and in
\* order, "up" when answered, and no end without cause.
LinkSound == LinkTypeOK /\ TakenInOrder /\ UpAnswered /\ EndsForCause

\* A redial ends, and a link ends with its match.
LinkSettles == RedialEnds /\ LinkEnds
=============================================================================
