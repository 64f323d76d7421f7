----------------------------- MODULE MCServices -----------------------------
(* Services, with as many commands to each as keep its states few. *)
EXTENDS Services

CommandsToEach == [service \in Kinds |-> IF service = "mqtt" THEN 1 ELSE 2]
ClientsAtOnce == [acceptor \in Acceptors |-> IF acceptor = "vp2" THEN 1 ELSE 2]
=============================================================================
