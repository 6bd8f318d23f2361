---------------------------- MODULE MCOrderEntry ----------------------------
(* OrderEntry for TLC on its own, for what the documents say of it.          *)
EXTENDS OrderEntry

MCDepths == {0, 2, 16}
MCAllowances == {0, 2}
=============================================================================
