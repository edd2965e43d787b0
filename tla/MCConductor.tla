---------------------------- MODULE MCConductor ----------------------------
EXTENDS Conductor

CONSTANTS t1, t2
=============================================================================
