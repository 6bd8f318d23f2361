--------------------------- MODULE MCTradeBooking ---------------------------
(* TradeBooking for TLC.  Symmetry is used in the safety runs only.          *)
EXTENDS TradeBooking, TLC

CONSTANTS o1, o2, c1, c2, s1, s2, none

MCOrder == {o1}
MCOrders == {o1, o2}
MCConfirmers == {c1, c2}
MCSyncers == {s1, s2}

Symmetry == Permutations(Orders) \cup Permutations(Confirmers)
            \cup Permutations(Syncers)
=============================================================================
