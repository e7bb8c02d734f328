-------------------------- MODULE MCWireGuardBackend --------------------------
(* WireGuardBackend on a small instance: two texts, and for each of them two *)
(* Config objects, so that a new one is free while the other is running.     *)
EXTENDS WireGuardBackend, TLC

CONSTANTS g1, g2, g3, g4, x1, x2

MCConfigs == {g1, g2, g3, g4}
MCTexts == {x1, x2}
MCTextOf == g1 :> x1 @@ g2 :> x1 @@ g3 :> x2 @@ g4 :> x2
=============================================================================
