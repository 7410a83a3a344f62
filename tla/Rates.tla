------------------------------- MODULE Rates -------------------------------
(***************************************************************************)
(* How fast a connection may send (net/allowance.rs) and talk (chat.rs).   *)
(* Every rate is a schedule: the time at which all that was taken so far   *)
(* is paid for.  A message moves it one spacing on, and is refused if that *)
(* would be more than the burst past now.  Ticks sent to a connection move *)
(* its message schedule back; spectators spend a schedule they share       *)
(* besides their own.                                                      *)
(***************************************************************************)
EXTENDS Integers, Sequences

CONSTANTS
    Spectators, SeatTalkers, \* the connections that talk
    Spacing, Burst,      \* a message's cost and Allowance's BURST
    PerTick,             \* MESSAGES_PER_TICK
    Width,               \* values of the counter of ticks sent
    LineSpacing, Lines,  \* LINE_SPACING, LINE_BURST
    AllSpacing, AllLines,\* SPECTATOR_SPACING, SPECTATOR_BURST
    Unspoken,            \* for the schedule of one that has not talked
    MaxTime,             \* bound: the clock
    MaxMessages, MaxLines \* bounds: messages and lines taken

RatesAssumption ==
    /\ {Spacing, LineSpacing, AllSpacing, Lines, AllLines, Width} \subseteq Nat \ {0}
    /\ {Burst, PerTick, MaxTime, MaxMessages, MaxLines} \subseteq Nat
    /\ Spacing <= Burst /\ Unspoken \notin Nat

Talkers == Spectators \cup SeatTalkers

VARIABLES
    now,
    paid_until, \* Allowance::paid_until
    ticksSent,  \* the ticks sent to the connection, a u32 that wraps
    credited,   \* Allowance::credited
    each,       \* Rates::each: the lines' schedule of each connection, or Unspoken
    shared,     \* Rates::spectators
    messages,   \* history: when each message was taken, and the credit so far
    lines,      \* history: when each talker's lines were taken, since it came
    spoken      \* history: when the spectators' lines were taken

allowance == <<paid_until, ticksSent, credited, messages>>
chat == <<each, shared, lines, spoken>>
ratesVars == <<now, allowance, chat>>

Later(a, b) == IF a > b THEN a ELSE b

RatesTypeOK ==
    /\ now \in 0..MaxTime
    /\ paid_until \in 0..(MaxTime + Burst) /\ {ticksSent, credited} \subseteq 0..(Width - 1)
    /\ each \in [Talkers -> 0..(MaxTime + Lines * LineSpacing) \cup {Unspoken}]
    /\ shared \in 0..(MaxTime + AllLines * AllSpacing)
    /\ messages \in Seq([at : 0..now, credit : Nat])
    /\ lines \in [Talkers -> Seq(0..now)] /\ spoken \in Seq(0..now)

RatesInit ==
    /\ now = 0
    /\ paid_until = 0 /\ ticksSent = 0 /\ credited = 0 /\ messages = <<>>
    /\ each = [c \in Talkers |-> Unspoken] /\ shared = 0
    /\ lines = [c \in Talkers |-> <<>>] /\ spoken = <<>>

clock == now < MaxTime /\ now' = now + 1 /\ UNCHANGED <<allowance, chat>>

-----------------------------------------------------------------------------
(* Allowance. *)

\* Connection::send_tick counts the tick.
send_tick ==
    /\ ticksSent' = (ticksSent + 1) % Width
    /\ UNCHANGED <<now, paid_until, credited, messages, chat>>

\* Mutant: the credit of ticks is saved up without end.
MutPaid == paid_until - Spacing * PerTick * ((ticksSent - credited) % Width)

\* The schedule with the ticks since the last message credited, never behind now.
Paid == Later(paid_until - Spacing * PerTick * ((ticksSent - credited) % Width), now)

Overspent == Paid + Spacing > now + Burst

\* The credit handed out so far, with what these ticks add.
Credit ==
    PerTick * ((ticksSent - credited) % Width)
        + (IF messages = <<>> THEN 0 ELSE messages[Len(messages)].credit)

\* Allowance::take.
take ==
    /\ Len(messages) < MaxMessages
    /\ credited' = ticksSent
    /\ IF Overspent
       THEN /\ paid_until' = Paid /\ UNCHANGED messages
       ELSE /\ paid_until' = Paid + Spacing
            /\ messages' = Append(messages, [at |-> now, credit |-> Credit])
    /\ UNCHANGED <<now, ticksSent, chat>>

-----------------------------------------------------------------------------
(* Lines of chat. *)

\* LineRate::take refuses: more than the burst but one is unpaid.
TooFast(paid, spacing, burst) == Later(paid, now) > now + spacing * (burst - 1)

Own(c) == IF each[c] = Unspoken THEN now ELSE each[c]

HeldBack(c) == TooFast(Own(c), LineSpacing, Lines)

\* Rates::take: the talker's own rate, then the spectators' if it is one; its
\* own is spent only when both have room.
take_line(c) ==
    /\ Len(lines[c]) < MaxLines /\ Len(spoken) < MaxLines
    /\ IF HeldBack(c) \/ (c \in Spectators /\ TooFast(shared, AllSpacing, AllLines))
       THEN each' = [each EXCEPT ![c] = Own(c)] /\ UNCHANGED <<shared, lines, spoken>>
       ELSE /\ each' = [each EXCEPT ![c] = Later(Own(c), now) + LineSpacing]
            /\ lines' = [lines EXCEPT ![c] = Append(@, now)]
            /\ IF c \in Spectators
               THEN /\ shared' = Later(shared, now) + AllSpacing
                    /\ spoken' = Append(spoken, now)
               ELSE UNCHANGED <<shared, spoken>>
    /\ UNCHANGED <<now, allowance>>

\* Rates::forget: the connection ended; one that dials again is another.
forget(c) ==
    /\ each[c] # Unspoken
    /\ each' = [each EXCEPT ![c] = Unspoken]
    /\ lines' = [lines EXCEPT ![c] = <<>>]
    /\ UNCHANGED <<now, allowance, shared, spoken>>

RatesNext ==
    \/ clock \/ send_tick \/ take
    \/ \E c \in Talkers : take_line(c) \/ forget(c)

RatesSpec == RatesInit /\ [][RatesNext]_ratesVars
-----------------------------------------------------------------------------
(* Properties: each over every stretch of time, from any message to any. *)

\* In no stretch of time does a connection get more messages heard than the burst,
\* what the rate pays in that time and what the ticks sent meanwhile add.
MessagesBounded ==
    \A i, j \in DOMAIN messages : i <= j =>
        (j - i + 1) * Spacing <=
            Burst + messages[j].at - messages[i].at
                  + Spacing * (messages[j].credit - messages[i].credit)

Unpaid(log, spacing, burst) ==
    \A i, j \in DOMAIN log : i <= j =>
        (j - i + 1) * spacing <= spacing * burst + log[j] - log[i]

\* No connection talks faster than its rate, and all spectators together no
\* faster than theirs however often they dial again.
LinesBounded ==
    /\ \A c \in Talkers : Unpaid(lines[c], LineSpacing, Lines)
    /\ Unpaid(spoken, AllSpacing, AllLines)

\* A connection that keeps to its rate is never cut off as a flood: a message is
\* refused only if with it some stretch of time would hold more than the burst
\* and the rate allow.
Flooded ==
    take /\ UNCHANGED messages =>
        \E i \in DOMAIN messages :
           (Len(messages) - i + 2) * Spacing > Burst + now - messages[i].at

\* A talker is held back on its own account for lines it really said: those the
\* others' talking held back cost it nothing.
OwnLinesOnly ==
    \A c \in Talkers : HeldBack(c) =>
        \E i \in DOMAIN lines[c] :
           (Len(lines[c]) - i + 2) * LineSpacing > LineSpacing * Lines + now - lines[c][i]

\* What holds of every schedule at once.
Paced == MessagesBounded /\ LinesBounded /\ OwnLinesOnly

\* Nobody is heard faster than its rate, and nobody is cut off or held back but
\* for being faster (Allowance::take, Rates::take).
RatesHold == [](RatesTypeOK /\ Paced) /\ [][Flooded]_ratesVars
=============================================================================
