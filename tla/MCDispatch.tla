----------------------------- MODULE MCDispatch -----------------------------
(* Small instances of Dispatch for TLC. *)
EXTENDS Dispatch, TLC

CONSTANTS a, b, c, p1, p2, src, lib

\* b consumes what a completes.
ChainDeps == [t \in Tasks |-> IF t = b THEN {<<a, "completed">>} ELSE {}]

\* b consumes a named export of a.
ExportDeps == [t \in Tasks |-> IF t = b THEN {<<a, "exports">>} ELSE {}]

\* c consumes any export of a; b is independent.
MixedDeps == [t \in Tasks |-> IF t = c THEN {<<a, "any_export">>} ELSE {}]

\* No dependencies.
FreeDeps == [t \in Tasks |-> {}]

\* Every task writes the same path.
SharedOwns == [t \in Tasks |-> {src}]

\* a writes src, b writes lib: equal strings never, overlapping globs perhaps.
SplitOwns == [t \in Tasks |-> IF t = a THEN {src} ELSE {lib}]

\* Read-only tasks.
NoOwns == [t \in Tasks |-> {}]

\* The paths of one glob overlap those of the other, or do not.
NoOverlap == {}
GlobOverlap == {<<src, lib>>, <<lib, src>>}

\* Rows that declare the same path render the same ...
SameRows == {<<src, src>>, <<lib, lib>>}
\* ... and so, for the filter, do rows whose globs share a literal prefix.
GlobRows == SameRows \union GlobOverlap

\* Drivers are interchangeable.
DriverSymmetry == Permutations(Procs)
=============================================================================
