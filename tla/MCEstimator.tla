------------------------------ MODULE MCEstimator ------------------------------
(* Instance of Estimator for TLC: see estimator.cfg for the bounds.         *)
EXTENDS Estimator
=============================================================================
