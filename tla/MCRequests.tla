------------------------------ MODULE MCRequests ------------------------------
(* Ports 0 and 1 are bound, port 2 is published by a xseg_bind_dynport     *)
(* that has not set its flags yet, port 3 is not bound.                    *)
EXTENDS Requests

CONSTANTS t0, t1

(* One thread on each of two ports.                                        *)
Apart == t0 :> 0 @@ t1 :> 1
(* Two threads share port 0.                                               *)
Shared == t0 :> 0 @@ t1 :> 0

NextHop == {<<0, 2>>}
NoHop == {}

AnyRequest == Permutations(Reqs)
=============================================================================
