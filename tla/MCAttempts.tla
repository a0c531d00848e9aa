------------------------------ MODULE MCAttempts ------------------------------
EXTENDS Attempts

CONSTANTS d1, d2, d3
=============================================================================
