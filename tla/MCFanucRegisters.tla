--------------------------- MODULE MCFanucRegisters ---------------------------
(* Instances of FanucRegisters for TLC: a FanucClient over a PLCClient, and over *)
(* an implementation of PLCClientInterface that also writes strings.            *)
EXTENDS FanucRegisters, TLC

\* The client of NewFanucClient, and any.
OwnClient == {PLCClient}
AnyClient == {PLCClient, DataTypes}

CallerSymmetry == Permutations(Callers)
=============================================================================
