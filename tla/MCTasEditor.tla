---------------------------- MODULE MCTasEditor ----------------------------
EXTENDS TasEditor
CONSTANTS noState, s1, none, press

\* The second frame lags if the button was held in the first: an edit makes
\* lag come and go.
MCLagged(machine) == Len(machine) = 2 /\ machine[1] = press

MCImports == {<<press, press>>}
=============================================================================
