---------------------------- MODULE MCEIPSession ----------------------------
(* Instances of EIPSession for TLC.  The callers are interchangeable: no     *)
(* action or safety property names one.                                      *)
EXTENDS EIPSession, TLC

CallerSymmetry == Permutations(Callers)
=============================================================================
