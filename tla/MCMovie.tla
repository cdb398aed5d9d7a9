------------------------------- MODULE MCMovie -------------------------------
EXTENDS Movie
CONSTANTS a, f, noFile, noMovie, s1
\* With backups of states in memory, and without them but with full loads.
MCOptions ==
  {[backupSavestates |-> bak, fullSaveStateLoads |-> ~bak, closeFinishedMovie |-> ~bak] :
     bak \in BOOLEAN}
=============================================================================
