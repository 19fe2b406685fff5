------------------------------ MODULE MCPorts -------------------------------
EXTENDS Ports, TLC

CONSTANTS p1, p2, p3, posix, pthread, posixfd

(* Two of the processes share a driver.                                    *)
Peers == p1 :> posix @@ p2 :> pthread @@ p3 :> posix

(* p1 asks for a driver it is not a peer of, p2 for its own and one more.  *)
Named == p1 :> {pthread} @@ p2 :> {pthread, posixfd} @@ p3 :> {}

AnyPort == Permutations(PortObjs)
=============================================================================
