----------------------------- MODULE MCFrontend -----------------------------
EXTENDS Frontend, TLC
=============================================================================
