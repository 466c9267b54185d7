----------------------------- MODULE MCSystemBus -----------------------------
EXTENDS SystemBus
=============================================================================
