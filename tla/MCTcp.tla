------------------------------- MODULE MCTcp -------------------------------
EXTENDS TcpNet

CONSTANTS a, b, DataA, DataB, NetA, NetB, SlotsA, SlotsB
MCBudget == (a :> DataA) @@ (b :> DataB)
MCMaxNet == (a :> NetA) @@ (b :> NetB)
MCSlots == (a :> SlotsA) @@ (b :> SlotsB)
=============================================================================
