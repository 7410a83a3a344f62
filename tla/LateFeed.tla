------------------------------ MODULE LateFeed ------------------------------
(***************************************************************************)
(* Chat and the delayed feed (spectators.rs, chat.rs ChatOpts,             *)
(* game_loop/chat.rs): who hears a line and when.  The match stands on a   *)
(* tick; late spectators are shown it Delay ticks after, with the lines    *)
(* said on it.  A line is a number, the order in which it was said.  The   *)
(* deque of ticks held back and the lines of each are pushed at the back   *)
(* only, so both are sets, in the order of their numbers.                  *)
(***************************************************************************)
EXTENDS Integers, Sequences, FiniteSets, FiniteSetsExt

CONSTANTS
    Players, Viewers, \* the connections: of seats and of spectators
    Side,             \* the side of each player
    Eyes,             \* the player each viewer's key fixed its eyes on, or Unset
    Behind,           \* the viewers of the delayed feed
    Delay,            \* DelayedFeed::delay
    SeatChat,         \* ChatOpts::seats: "off", "team" or "all"
    ViewersTalk,      \* ChatOpts::spectators
    ReplayTeam,       \* ChatOpts::replay_team
    Unset,
    MaxFeedTick, MaxSaid  \* bounds

Hearers == Players \cup Viewers
Audiences == {"all", "team", "spectators"}

LateFeedAssumption ==
    /\ Players \cap Viewers = {} /\ Unset \notin Players \cup Nat
    /\ Eyes \in [Viewers -> Players \cup {Unset}]
    /\ Behind \subseteq {w \in Viewers : Eyes[w] = Unset}
    /\ Delay \in Nat \ {0} /\ MaxFeedTick \in Nat
    /\ SeatChat \in {"off", "team", "all"} /\ {ViewersTalk, ReplayTeam} \subseteq BOOLEAN

VARIABLES
    present,  \* the connections that said Hello and are there
    feedTick, \* World::tick
    held,     \* DelayedFeed::held: the ticks held back
    waiting,  \* HeldTick::heard: the lines that wait, and the tick each waits on
    shown,    \* DelayedFeed::shown
    ended,
    said,     \* history: every line said, with the tick its speaker saw
    heard,    \* history: what each connection was sent of them, and when
    saw,      \* the tick each connection was sent last, or Unset
    keptLines \* Server::heard: the lines the replay is given

feedVars == <<present, feedTick, held, waiting, shown, ended, said, heard, saw, keptLines>>

SaidLines == 1..Len(said)
FeedTicks == 0..MaxFeedTick
LinesHeard(c) == {x.line : x \in heard[c]}

FeedTypeOK ==
    /\ present \subseteq Hearers /\ feedTick \in FeedTicks /\ ended \in BOOLEAN
    /\ held \subseteq FeedTicks /\ Cardinality(held) <= Delay
    /\ waiting \subseteq [line : SaidLines, on : held]
    /\ shown \in FeedTicks \cup {Unset}
    /\ said \in Seq([from : Hearers, to : Audiences, tick : FeedTicks \cup {Unset},
                      there : SUBSET Hearers])
    /\ heard \in [Hearers -> SUBSET [line : SaidLines, at : Nat, nth : FeedTicks \cup {1}]]
    /\ saw \in [Hearers -> FeedTicks \cup {Unset}]
    /\ keptLines \in Seq(SaidLines)

FeedInit ==
    /\ present = Players /\ feedTick = 0 /\ held = {} /\ waiting = {} /\ shown = Unset
    /\ ended = FALSE /\ said = <<>> /\ keptLines = <<>>
    /\ heard = [c \in Hearers |-> {}] /\ saw = [c \in Hearers |-> Unset]

\* What is sent on this step: a step that says or shows something has its number,
\* and nth is the order of what is sent on one step.
Sent(n, nth) == [line |-> n, at |-> Len(said) + feedTick + 1, nth |-> nth]

-----------------------------------------------------------------------------
(* Chat. *)

\* ChatOpts::allows, of the talker's kind; pings go to a team as text does.
allows(c, to) ==
    \/ c \in Players /\ to = "all" /\ SeatChat = "all"
    \/ c \in Players /\ to = "team" /\ SeatChat # "off"
    \/ c \in Viewers /\ to = "spectators" /\ ViewersTalk

\* The speaker is watching late, and so speaks of what it was shown.
SpeaksLate(c) == c \in Behind

\* Server::hearing: when connection c hears a line.
hearing(c, line) ==
    LET in_step == IF c \in Behind /\ ~SpeaksLate(line.from) THEN "late" ELSE "now"
    IN  CASE c \in Players ->
                IF line.from \in Players /\ (line.to = "all" \/ Side[line.from] = Side[c])
                THEN "now" ELSE "never"
          [] c \in Viewers /\ line.to \in {"all", "spectators"} -> in_step
          [] c \in Viewers /\ line.to = "team" ->
                IF Eyes[c] # Unset /\ Side[Eyes[c]] = Side[line.from] THEN "now" ELSE "never"

\* Mutant: late spectators hear at once as well as with their tick.
MutTellAll(line, n) ==
    LET late == \E c \in present : hearing(c, line) = "late"
        all == {c \in present : hearing(c, line) # "never"}
    IN  /\ heard' = [c \in Hearers |-> heard[c] \cup (IF c \in all THEN {Sent(n, 0)} ELSE {})]
        /\ waiting' = IF late /\ held # {}
                      THEN waiting \cup {[line |-> n, on |-> Max(held)]} ELSE waiting

\* Server::tell: those who hear now, and DelayedFeed::hold with the newest tick held
\* for the late ones; with none held, they hear now.
tell(line, n) ==
    LET late == \E c \in present : hearing(c, line) = "late"
        now == {c \in present : hearing(c, line) = "now"}
        then == {c \in Behind \cap present : late /\ held = {}}
    IN  /\ heard' = [c \in Hearers |-> heard[c] \cup (IF c \in now THEN {Sent(n, 0)} ELSE {})
                                               \cup (IF c \in then THEN {Sent(n, 1)} ELSE {})]
        /\ waiting' = IF late /\ held # {}
                      THEN waiting \cup {[line |-> n, on |-> Max(held)]} ELSE waiting

\* Server::keep_for_replay: the seats' lines, a team's if the server keeps them.
Keeps(line) == line.from \in Players /\ (line.to = "all" \/ ReplayTeam)

\* Server::say: a line allowed is stamped with the tick its speaker watches,
\* told, and kept for the replay.
say(c, to) ==
    /\ c \in present /\ ~ended /\ Len(said) < MaxSaid
    /\ allows(c, to)
    /\ LET line == [from |-> c, to |-> to, tick |-> IF SpeaksLate(c) THEN shown ELSE feedTick,
                    there |-> present]
           n == Len(said) + 1
       IN  /\ said' = Append(said, line)
           /\ tell(line, n)
           /\ keptLines' = IF Keeps(line) THEN Append(keptLines, n) ELSE keptLines
    /\ UNCHANGED <<present, feedTick, held, shown, ended, saw>>

-----------------------------------------------------------------------------
(* The feed. *)

\* Server::show_late of a tick and its lines, or of none; those who watch live are
\* sent the tick the match is on.
Show(due, lines) ==
    LET eyes == {c \in Behind \cap present : due # {}}
    IN  /\ heard' = [c \in Hearers |->
                       heard[c] \cup (IF c \in eyes THEN {Sent(x.line, x.on) : x \in lines} ELSE {})]
        /\ saw' = [c \in Hearers |->
                     IF c \in eyes THEN Max(due)
                     ELSE IF c \in present \ Behind THEN feedTick' ELSE saw[c]]

\* DelayedFeed::push: the ticks now due, the oldest.
Due(feed, now) == {h \in feed : h + Delay <= now}

\* The world goes one tick on, and the tick is published and fed to the late.
publish ==
    /\ ~ended /\ feedTick < MaxFeedTick
    /\ feedTick' = feedTick + 1
    /\ LET feed == held \cup {feedTick'}
           due == Due(feed, feedTick')
           lines == {x \in waiting : x.on \in due}
       IN  /\ held' = feed \ due /\ waiting' = waiting \ lines
           /\ shown' = IF due = {} THEN shown ELSE Max(due)
           /\ Show(due, lines)
    /\ UNCHANGED <<present, ended, said, keptLines>>

\* Server::show_late_the_end, DelayedFeed::take_last: the match is decided on the
\* tick just published, which is shown with the lines of all that are dropped.
the_end ==
    /\ ~ended /\ feedTick > 0
    /\ ended' = TRUE /\ feedTick' = feedTick
    /\ held' = {} /\ waiting' = {}
    /\ IF held = {} THEN UNCHANGED <<shown, heard, saw>>
       ELSE shown' = Max(held) /\ Show({Max(held)}, waiting)
    /\ UNCHANGED <<present, said, keptLines>>

-----------------------------------------------------------------------------
\* A seat is held from the start; a watcher comes when it likes.
arrive(c) ==
    /\ c \notin present /\ ~ended
    /\ heard[c] = {} /\ saw[c] = Unset
    /\ present' = present \cup {c}
    /\ UNCHANGED <<feedTick, held, waiting, shown, ended, said, heard, saw, keptLines>>

FeedNext ==
    \/ \E c \in Hearers : arrive(c) \/ \E to \in Audiences : say(c, to)
    \/ publish \/ the_end

FeedSpec == FeedInit /\ [][FeedNext]_feedVars
-----------------------------------------------------------------------------
(* Properties. *)

\* While the match goes on a late spectator is shown nothing younger than the
\* delay.
FeedIsLate == ~ended => \A c \in Behind : saw[c] # Unset => saw[c] + Delay <= feedTick

\* A late spectator never hears of a tick before it is shown it; before the first
\* tick there is nothing to keep from it.
NeverEarly ==
    \A c \in Behind : \A n \in LinesHeard(c) :
        said[n].tick \in FeedTicks \ {0} => shown # Unset /\ shown >= said[n].tick

\* x was sent before y: on an earlier step, or on the same one with an older tick or
\* said before it on the same tick.
SentBefore(x, y) ==
    \/ x.at < y.at
    \/ x.at = y.at /\ x.nth < y.nth
    \/ x.at = y.at /\ x.nth = y.nth /\ x.line < y.line

\* Nobody hears a line twice, and the lines of one speaker come in the order they
\* were said, through the feed, past it, and at its end.
HeardInOrder ==
    \A c \in Hearers : \A x, y \in heard[c] :
        /\ x # y => x.line # y.line
        /\ said[x.line].from = said[y.line].from /\ SentBefore(x, y) => x.line < y.line

\* A side's lines stay its own: only its seats and those its keys let watch hear
\* them, and the seats hear nothing of the spectators.
SidesKept ==
    \A c \in Hearers : \A n \in LinesHeard(c) :
        LET line == said[n]
        IN  /\ line.to = "team" =>
                  IF c \in Players THEN Side[c] = Side[line.from]
                  ELSE Eyes[c] # Unset /\ Side[Eyes[c]] = Side[line.from]
            /\ c \in Players => line.from \in Players

\* No line gets lost with the ticks dropped at the end: once the match is over,
\* whoever was there when a line for all was said has heard it.
AllHeardAtLast ==
    ended => \A c \in Hearers : \A n \in SaidLines :
        c \in said[n].there /\ said[n].to = "all" => n \in LinesHeard(c)

\* What a late spectator, a seat and a keyed one are told, and when, all at once.
FeedInOrder ==
    FeedTypeOK /\ FeedIsLate /\ NeverEarly /\ HeardInOrder /\ SidesKept /\ AllHeardAtLast
=============================================================================
