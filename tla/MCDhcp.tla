------------------------------- MODULE MCDhcp -------------------------------
EXTENDS DhcpNet

CONSTANTS a, b
MCMac == {a, b}
MCClients == {a}
MCPhases == <<"server", a>>
MCAddr == 2 .. 3
=============================================================================
