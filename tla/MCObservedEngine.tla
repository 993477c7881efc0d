-------------------------- MODULE MCObservedEngine --------------------------
EXTENDS ObservedEngine
=============================================================================
