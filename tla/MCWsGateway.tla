---------------------------- MODULE MCWsGateway ----------------------------
(***************************************************************************)
(* WsGateway for TLC: one phone with two chats, for two sessions, and a    *)
(* message that starts none, of which an entry remembers two.              *)
(***************************************************************************)
EXTENDS WsGateway
CONSTANTS p1, x, y, m1, m2, m3
MCDevices   == {p1}
MCSessions  == {x, y}
MCMessages  == {m1, m2, m3}
MCChats     == {m1, m2}
MCDeviceOf  == [m \in MCMessages |-> p1]
MCSessionOf == (m1 :> x) @@ (m2 :> y) @@ (m3 :> x)
=============================================================================
