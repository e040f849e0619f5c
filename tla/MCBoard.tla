------------------------------- MODULE MCBoard -------------------------------
EXTENDS Board
=============================================================================
