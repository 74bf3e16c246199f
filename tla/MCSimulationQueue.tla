-------------------------- MODULE MCSimulationQueue --------------------------
(* SimulationQueue for TLC.  Batches are interchangeable, but the run checks *)
(* that the queue moves, which symmetry would not preserve.                  *)
EXTENDS SimulationQueue
=============================================================================
