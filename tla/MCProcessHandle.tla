--------------------------- MODULE MCProcessHandle ---------------------------
EXTENDS ProcessHandle
=============================================================================
