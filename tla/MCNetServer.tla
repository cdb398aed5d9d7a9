----------------------------- MODULE MCNetServer -----------------------------
EXTENDS NetServer, TLC
CONSTANTS c1, c2, c3, noClient, noGame, id1, id2, noId, up, down

\* The entries are told apart by their index only where the first free one is
\* taken, which any entry may be; ids are only compared.
MCSymmetry == Permutations(Clients) \cup Permutations(Ids)
=============================================================================
