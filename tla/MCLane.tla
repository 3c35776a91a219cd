------------------------------- MODULE MCLane -------------------------------
(* Instances of LaneWork for TLC. *)
EXTENDS LaneWork, TLC

CONSTANTS a, b, d, c

\* b needs a, and both write the same file; a may be tried twice.
MCUnits == {a, b}
MCDeps == (a :> {}) @@ (b :> {a})
MCParent == (a :> {}) @@ (b :> {a})
MCWrites == (a :> {"x"}) @@ (b :> {"x"})
SpawnModes == (a :> "native_required") @@ (b :> "native_preferred")
MCAttempts == (a :> 2) @@ (b :> 1)
=============================================================================
