--------------------------- MODULE MCTickProducer ---------------------------
(* The instance of the run producer: its constants are in producer.cfg,    *)
(* and it has liveness properties, so that no symmetry is declared.        *)
EXTENDS TickProducer
=============================================================================
