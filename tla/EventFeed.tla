------------------------------ MODULE EventFeed ------------------------------
(***************************************************************************)
(* What one connection is promised of a match's ticks, whatever the pace   *)
(* it reads at: the events of every tick offered to it arrive once and in  *)
(* order, several ticks together if it lags, unless it is cut off.         *)
(***************************************************************************)
EXTENDS Integers

CONSTANT Ticks  \* natural numbers

VARIABLES
    offered,    \* ticks whose events the connection is to get
    delivered,  \* ticks whose events it got
    cut         \* it is given up

feedVars == <<offered, delivered, cut>>

FeedInit == offered = {} /\ delivered = {} /\ cut = FALSE

Offer ==
    /\ ~cut
    /\ \E t \in Ticks : /\ \A o \in offered : o < t
                        /\ offered' = offered \cup {t}
    /\ cut' \in BOOLEAN
    /\ UNCHANGED delivered

\* The ticks up to one of them, all those not delivered before.
Deliver ==
    /\ \E upto \in offered \ delivered :
          delivered' = delivered \cup {t \in offered : t <= upto}
    /\ UNCHANGED <<offered, cut>>

CutOff == cut' = TRUE /\ UNCHANGED <<offered, delivered>>

FeedNext == Offer \/ Deliver \/ CutOff

FeedSafety == FeedInit /\ [][FeedNext]_feedVars

\* All that is offered arrives in the end, unless the connection is cut off.
FeedLiveness == \A t \in Ticks : (t \in offered) ~> (t \in delivered \/ cut)

FeedSpec == FeedSafety /\ FeedLiveness
=============================================================================
