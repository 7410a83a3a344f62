-------------------------------- MODULE Ledger --------------------------------
(***************************************************************************)
(* What a client believes of its orders (bota_client_core/src: orders.rs,  *)
(* session.rs, session/confirmations.rs, play.rs, seat.rs) beside what the *)
(* server does with them: the standing order of the hero, which is left    *)
(* unsent when it is given again, rolled back when it is refused and given *)
(* again on a fresh connection, and the orders known to be settled.        *)
(*                                                                         *)
(* An order goes to a place, and stands; or is a cast, which acts once and *)
(* ends what stood.  The server refuses any order it likes.  The courier,  *)
(* whose ledger is another of the same kind, is left out.                  *)
(***************************************************************************)
EXTENDS Naturals, SequencesExt, FiniteSets

CONSTANTS
    Games   \* what a client and its match are like: the places its orders may go to,
            \* window: orders it has on the way at once, at most, shift: whether it
            \* queues them, and the bounds: orders of one process, deaths, reconnects
            \* and restarts

NoOrder == [seq |-> 0, to |-> "nowhere"]
Unrolled == [seq |-> 0, previous |-> NoOrder]
Idle == [proc |-> 0, seq |-> 0, to |-> "nowhere"]
Cast == "cast"

LedgerAssumption ==
    \A g \in Games :
        /\ {g.window, g.orders, g.deaths, g.reconnects, g.restarts} \subseteq Nat
        /\ g.shift \in BOOLEAN /\ Cast \notin g.places

VARIABLES
    game,         \* the one that is played
    current, rollback, queued,    \* BodyOrders of the hero
    next_seq,     \* ClientSession::next_seq
    proc,         \* which process of the client this is
    connection,   \* the connection the client is on, as the server numbers it
    sent, through,     \* Confirmations
    view,         \* the body of the last snapshot: deaths, and whether it stands
    line,         \* orders in the server's line, then those on the way to it
    arrived,      \* how many of them are in its line
    toClient,     \* messages on the way to the client
    stands,       \* server: the order the hero carries out
    behind,       \* server: whether orders are queued behind it
    body,         \* server: the hero's deaths, and whether it stands
    settled,      \* server: the last order of the seat it settled
    answered,     \* history: orders the server settled, by connection and number
    wronged,      \* history: a refusal rolled an order of another process back
    emptied,      \* history: an order given again emptied the queue behind itself
    reconnects, restarts

client == <<current, rollback, queued, next_seq, proc, connection, sent, through, view>>
serverSide == <<stands, behind, body, settled, answered>>
bounds == <<game, reconnects, restarts>>
ledgerVars == <<client, line, arrived, toClient, serverSide, wronged, emptied, bounds>>

Seqs == 0 .. game.orders
Held == [seq : Seqs, to : game.places \cup {"nowhere"}]

LedgerTypeOK ==
    /\ game \in Games
    /\ current \in Held
    /\ rollback \in [seq : Seqs, previous : Held]
    /\ queued \in BOOLEAN
    /\ next_seq \in Seqs /\ through \in Seqs
    /\ sent \subseteq Seqs
    /\ current = NoOrder \/ current.seq <= next_seq
    /\ rollback.seq <= next_seq /\ through <= next_seq
    /\ \A n \in sent : through < n /\ n <= next_seq
    /\ arrived \in 0 .. Len(line)
    /\ stands.to \in game.places \cup {"nowhere"}

LedgerInit ==
    /\ game \in Games
    /\ current = NoOrder /\ rollback = Unrolled /\ queued = FALSE
    /\ next_seq = 0 /\ proc = 1 /\ connection = 1
    /\ sent = {} /\ through = 0
    /\ view = [deaths |-> 0, up |-> TRUE] /\ body = view
    /\ line = <<>> /\ arrived = 0 /\ toClient = <<>>
    /\ stands = Idle /\ behind = FALSE
    /\ settled = [connection |-> 0, seq |-> 0]
    /\ answered = {}
    /\ wronged = FALSE /\ emptied = FALSE
    /\ reconnects = 0 /\ restarts = 0

-----------------------------------------------------------------------------
(* The client. *)

\* Orders of this process that are not answered yet.
Unanswered ==
    Cardinality({i \in DOMAIN line : line[i].proc = proc})
        + Cardinality({i \in DOMAIN toClient : /\ toClient[i].kind = "refused"
                                               /\ toClient[i].proc = proc})

\* OrderLedger::repeats: the order is what stands already.
repeats(to) == ~queued /\ current # NoOrder /\ current.to = to

Message(seq, to, wait) ==
    [proc |-> proc, connection |-> connection, seq |-> seq, to |-> to, wait |-> wait, again |-> 0]

\* Mutant: an order refused is forgotten with whatever stood before it.
MutTransition(seq, now) ==
    /\ rollback' = [seq |-> seq, previous |-> now]
    /\ current' = now
    /\ queued' = FALSE

\* BodyOrders::transition.
Transition(seq, now) ==
    /\ rollback' = [seq |-> seq, previous |-> current]
    /\ current' = now
    /\ queued' = FALSE

\* issue, with OrderLedger::record, of one order a turn decided on.
Issue(to, wait) ==
    /\ view.up /\ next_seq < game.orders
    /\ Unanswered < game.window
    /\ wait => game.shift
    /\ ~wait /\ to # Cast => ~repeats(to)
    /\ next_seq' = next_seq + 1
    /\ sent' = sent \cup {next_seq + 1}
    /\ line' = Append(line, Message(next_seq + 1, to, wait))
    /\ CASE wait -> queued' = TRUE /\ UNCHANGED <<current, rollback>>
         [] ~wait /\ to = Cast -> Transition(next_seq + 1, NoOrder)
         [] OTHER -> Transition(next_seq + 1, [seq |-> next_seq + 1, to |-> to])
    /\ UNCHANGED <<proc, connection, through, view, arrived, toClient, serverSide, wronged, emptied, bounds>>

\* OrderLedger::reject: only the newest order is undone.
Reject(m) ==
    IF rollback # Unrolled /\ rollback.seq = m.seq
    THEN /\ current' = rollback.previous
         /\ rollback' = Unrolled
         /\ wronged' = (wronged \/ m.proc # proc)
    ELSE UNCHANGED <<current, rollback, wronged>>

\* Confirmations::snapshot: the settlement is of an order sent on this connection.
Confirms(s) == s.connection = connection /\ s.seq \in sent

\* The next message: a refusal, or a snapshot, which clears the ledger when the
\* body changed and confirms what it settles.
Hear ==
    /\ toClient # <<>>
    /\ toClient' = Tail(toClient)
    /\ LET m == Head(toClient) IN
       \/ /\ m.kind = "refused"
          /\ Reject(m)
          /\ UNCHANGED <<queued, sent, through, view>>
       \/ /\ m.kind = "snapshot"
          /\ view' = m.body
          /\ IF m.body = view
             THEN UNCHANGED <<current, rollback, queued>>
             ELSE current' = NoOrder /\ rollback' = Unrolled /\ queued' = FALSE
          /\ through' = IF Confirms(m.settled) /\ m.settled.seq > through
                        THEN m.settled.seq ELSE through
          /\ sent' = {n \in sent : n > through'}
          /\ UNCHANGED wronged
    /\ UNCHANGED <<next_seq, proc, connection, line, arrived, serverSide, emptied, bounds>>

\* What the server had of the line when it found the old connection gone: the
\* rest, and what was told on that connection, is lost.
KeptLine == SubSeq(line, 1, arrived)

\* The connection breaks and another is welcomed (Seat::ingest_started): the
\* standing order goes out again.
Reconnect ==
    /\ reconnects < game.reconnects
    /\ reconnects' = reconnects + 1
    /\ connection' = connection + 1
    /\ through' = 0
    /\ toClient' = <<>>
    /\ LET seq == next_seq + 1
       IN  IF view.up /\ ~queued /\ current # NoOrder /\ next_seq < game.orders
           THEN /\ line' = Append(KeptLine, [Message(seq, current.to, FALSE)
                                           EXCEPT !.connection = connection + 1, !.again = current.seq])
                /\ next_seq' = seq /\ sent' = {seq}
                /\ Transition(seq, [seq |-> seq, to |-> current.to])
           ELSE /\ line' = KeptLine /\ sent' = {}
                /\ UNCHANGED <<next_seq, current, rollback, queued>>
    /\ UNCHANGED <<proc, view, arrived, serverSide, wronged, emptied, game, restarts>>

\* A new process takes the seat with its key: it knows nothing of the old one's
\* orders, some of which are still in the line.
Restart ==
    /\ restarts < game.restarts
    /\ restarts' = restarts + 1
    /\ proc' = proc + 1 /\ connection' = connection + 1
    /\ current' = NoOrder /\ rollback' = Unrolled /\ queued' = FALSE
    /\ next_seq' = 0 /\ sent' = {} /\ through' = 0
    /\ view' = body
    /\ line' = KeptLine /\ toClient' = <<>>
    /\ UNCHANGED <<arrived, serverSide, wronged, emptied, game, reconnects>>

-----------------------------------------------------------------------------
(* The server, as far as the client can tell. *)

Refusal(m) == [kind |-> "refused", proc |-> m.proc, seq |-> m.seq]

\* An order is taken into the line (give_from), or refused at once.
Admit ==
    /\ arrived < Len(line)
    /\ \/ arrived' = arrived + 1 /\ UNCHANGED <<line, toClient>>
       \/ /\ toClient' = Append(toClient, Refusal(line[arrived + 1]))
          /\ line' = KeptLine \o SubSeq(line, arrived + 2, Len(line))
          /\ UNCHANGED arrived
    /\ UNCHANGED <<client, serverSide, wronged, emptied, bounds>>

\* DelayLine::release: the first order of the line falls due and is settled.
Settles(m) ==
    /\ arrived > 0 /\ m = Head(line)
    /\ line' = Tail(line) /\ arrived' = arrived - 1
    /\ settled' = [connection |-> m.connection, seq |-> m.seq]
    /\ answered' = answered \cup {<<m.connection, m.seq>>}

\* It is carried out: one that stands replaces what stood and what was queued, a
\* cast ends it, a queued one waits behind it.
Apply ==
    /\ body.up
    /\ \E m \in ToSet(line) :
       /\ Settles(m)
       /\ stands' = CASE m.wait -> stands
                      [] ~m.wait /\ m.to = Cast -> Idle
                      [] OTHER -> [proc |-> m.proc, seq |-> m.seq, to |-> m.to]
       /\ behind' = m.wait
       /\ emptied' = (emptied \/ (behind /\ m.again # 0 /\ m.again = stands.seq
                                       /\ m.proc = stands.proc))
    /\ UNCHANGED <<client, toClient, body, wronged, bounds>>

\* It is refused after all, and whoever holds the seat is told its number.
RefuseDue ==
    /\ \E m \in ToSet(line) : Settles(m) /\ toClient' = Append(toClient, Refusal(m))
    /\ UNCHANGED <<client, stands, behind, body, wronged, emptied, bounds>>

\* The hero falls, or stands up again, told nothing.
Fall ==
    /\ body.deaths < game.deaths \/ ~body.up
    /\ body' = IF body.up THEN [deaths |-> body.deaths + 1, up |-> FALSE]
               ELSE [body EXCEPT !.up = TRUE]
    /\ stands' = Idle /\ behind' = FALSE
    /\ UNCHANGED <<client, line, arrived, toClient, settled, answered, wronged, emptied, bounds>>

\* A tick's snapshot; only one that tells the client something new matters.
Snapshot ==
    /\ \A i \in DOMAIN toClient : toClient[i].kind # "snapshot"
    /\ view # body \/ through # settled.seq
    /\ toClient' = Append(toClient, [kind |-> "snapshot", body |-> body, settled |-> settled])
    /\ UNCHANGED <<client, line, arrived, serverSide, wronged, emptied, bounds>>

-----------------------------------------------------------------------------
LedgerNext ==
    \/ \E to \in game.places, wait \in BOOLEAN : Issue(to, wait)
    \/ Issue(Cast, FALSE)
    \/ Hear \/ Restart \/ Reconnect
    \/ Admit \/ Apply \/ RefuseDue \/ Fall \/ Snapshot

LedgerSpec == LedgerInit /\ [][LedgerNext]_ledgerVars

-----------------------------------------------------------------------------
(* What holds of it. *)

\* With nothing on the way, an order the ledger would leave unsent as a repeat is
\* the one the hero carries out (session.rs, ledger: "The orders standing after
\* the server's answers").
RepeatsStand ==
    line = <<>> /\ toClient = <<>> /\ view = body =>
        \A to \in game.places : repeats(to) => stands.to = to

\* The order the hero carries out already is not given again on a fresh connection
\* while orders are queued behind it (orders.rs, standing_orders: "given again, it
\* would empty the queue the server holds").
\* Not so: transition clears `queued`, and a refusal does not bring it back.
QueueSpared == ~emptied

\* A refusal rolls back the order it is about (session.rs, ingest_rejection).
\* Not so: a refusal names a number alone, which another process of the seat may
\* have given out too.
RefusalIsMine == ~wronged

\* What a client takes for settled was settled, and it was its own order, sent on
\* the connection it is on, whatever other connections and processes sent under
\* the same number (session/confirmations.rs).
ConfirmedMine == through # 0 => <<connection, through>> \in answered

\* A client that has one order on the way at a time, queues none, and is on one
\* connection all along.
OneAtATime ==
    game.window <= 1 /\ ~game.shift /\ game.reconnects = 0 /\ game.restarts = 0

\* What the client takes for settled is its own order of this connection, and what
\* it leaves unsent as a repeat, while it has one order on the way at a time, is
\* what its hero does (orders.rs, session/confirmations.rs).
LedgerTrue == LedgerTypeOK /\ ConfirmedMine /\ (OneAtATime => RepeatsStand)
=============================================================================
