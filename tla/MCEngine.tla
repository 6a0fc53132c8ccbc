------------------------------ MODULE MCEngine ------------------------------
(* Two replicas and one game, with as many commands as the configuration     *)
(* names: commands of one game are what handlers can interfere over.         *)
EXTENDS EngineLog

CONSTANT g1

MCTarget == [c \in Commands |-> g1]
=============================================================================
