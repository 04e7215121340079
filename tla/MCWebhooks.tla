------------------------------ MODULE MCWebhooks ------------------------------
(* Webhooks on two instances that come up at the same time, and one webhook  *)
(* endpoint.  Their release has two migrations and each has one restart, so  *)
(* that collisions alone can use the restarts up: seven files and three      *)
(* restarts in small.                                                        *)
EXTENDS Webhooks, TLC

CONSTANTS one, two

MCInstances == {one, two}
MCFilesOf == [i \in MCInstances |-> 2]
=============================================================================
