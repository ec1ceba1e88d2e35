------------------------------- MODULE MCViz --------------------------------
EXTENDS Viz

CONSTANTS g1, g2, g3, x1

MCKindsOf(r) == IF r = x1 THEN {"reindex", "json", "start"} ELSE {"graph"}
=============================================================================
