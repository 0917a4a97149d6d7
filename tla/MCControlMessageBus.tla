------------------------ MODULE MCControlMessageBus ------------------------
(* A bus with two of the control message types of Protocol.h.              *)
EXTENDS ControlMessageBus

MCTypes == {"CONFIG_ACK", "TEST_FIN"}
=============================================================================
