----------------------------- MODULE MCObjects ------------------------------
EXTENDS Objects, TLC

CONSTANTS object_handlers, request_h, port_h, sd_h

(* A request fills half a chunk exactly; the others leave some of it.      *)
Sizes == object_handlers :> 120 @@ request_h :> 1012 @@ port_h :> 1000 @@ sd_h :> 40

(* A small buffer, and two on either side of the limit of the small sizes, *)
(* of which the first one is over the limit once it has its header.        *)
Lengths == {<<50, 100>>, <<10, 16370>>, <<200, 16800>>}
=============================================================================
