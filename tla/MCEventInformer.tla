--------------------------- MODULE MCEventInformer ---------------------------
EXTENDS EventInformer

CONSTANTS a, b, e

\* The other tracker shares the informer, or asks for another one.
MCInvolved == e :> a
=============================================================================
