------------------------------- MODULE MCHosts -------------------------------
(* A small instance of Hosts for TLC.                                       *)
EXTENDS Hosts, TLC

HostsAlike == Permutations(Names)
=============================================================================
