----------------------------- MODULE MCDocking -----------------------------
\* Millimetres.  Bursts are coarser than the code's tenth of a second, and finer
\* than what separates the places that matter.
EXTENDS Docking

\* The distances of both configurations are related as the proofs take them to be.
ASSUME DistancesFit == InsertionFits /\ LeaveFits
=============================================================================
