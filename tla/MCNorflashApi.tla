---------------------------- MODULE MCNorflashApi ----------------------------
(* Small instances of NorflashApi: which module owns which sector. *)
EXTENDS NorflashInvariant, TLC

\* Two modules with a sector each.
OneSectorEach == [s \in Sectors |-> s - 1]

\* One module with all the sectors.
OneModule == [s \in Sectors |-> 0]
=============================================================================
