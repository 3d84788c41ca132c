---------------------------- MODULE MCHandshake ----------------------------
EXTENDS Handshake, TLC

MCIdleTimeout == client :> 8 @@ server :> 3
MCReceiveWindows == client :> <<2, 4>> @@ server :> <<3, 5>>
MCInitialWindows == <<1, 1>>
=============================================================================
