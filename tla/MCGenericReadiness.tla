-------------------------- MODULE MCGenericReadiness --------------------------
(***************************************************************************)
(* Values for the runs of the generic tracker.                             *)
(***************************************************************************)
EXTENDS GenericReadiness

\* The two modes that fail differ only in what the caller does.
TwoModes == FailMode \ {"HopeUntilEndOfDeployProcess"}
=============================================================================
