------------------------------ MODULE MCAntiNuke ------------------------------
(* An instance of AntiNuke: one protection whose window is longer than the *)
(* one the probe prunes by.                                                *)
EXTENDS AntiNuke

CONSTANTS ChannelDelete, WindowTicks, Limit

BudgetOf(p)    == p
EveryWindow(p) == WindowTicks
EveryLimit(x)  == Limit
=============================================================================
