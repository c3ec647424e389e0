--------------------------- MODULE MCControlPlane ----------------------------
(* Instances of ControlPlane for TLC. *)
EXTENDS ControlPlane, TLC

CONSTANTS s1, s2, c1, c2

MCServers == {s1, s2}
MCClients == {c1, c2}
MCVia == (c1 :> s1) @@ (c2 :> s2)
=============================================================================
