----------------------------- MODULE MCLineEcho -----------------------------
EXTENDS LineEcho
=============================================================================
