---------------------------- MODULE MCResultsScope ----------------------------
(* Global files and outputs for the model checker. *)
EXTENDS ResultsScope, MCRoundTrip

ToNetcdf == {OnDisk(NetcdfRound, s) : s \in
  {Scalar, Vector, MaxFile, ThreeD, Full, Truncated, Broken, Sparse, NoVar, BadField, Unknown}}

(* What the theorems about the program suppose of its input. *)
ASSUME ScopeFilesGranted == ScopeGranted
=============================================================================
