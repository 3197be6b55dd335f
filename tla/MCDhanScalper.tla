--------------------------- MODULE MCDhanScalper ---------------------------
EXTENDS DhanScalper
=============================================================================
