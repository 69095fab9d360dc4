----------------------------- MODULE MCManager -----------------------------
(***************************************************************************)
(* Small instances of Manager.                                             *)
(***************************************************************************)
EXTENDS Manager, TLC

(* Addresses and backends are interchangeable where nothing is said of     *)
(* liveness; profiles are one, or few.                                     *)
Interchangeable == Permutations(IPs) \cup Permutations(Backends)

=============================================================================
