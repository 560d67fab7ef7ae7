-------------------------- MODULE MCSessionStore --------------------------
EXTENDS SessionStore
=============================================================================
