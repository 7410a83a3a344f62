----------------------------- MODULE MCOrderLine -----------------------------
(* One seat with no base delay and two ticks of jitter, enough for an order  *)
(* to wait for an earlier one; a body and the Glyph; two orders to a tick.   *)
EXTENDS OrderLine

MCBase == [s \in Seats |-> 0]
MCJitter == [s \in Seats |-> 2]
=============================================================================
