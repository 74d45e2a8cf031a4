------------------------------- MODULE MCOtap -------------------------------
(* Small instances of OtapServer for TLC.                                  *)
EXTENDS OtapServer

(* Every device is configured for the first customer; operators may        *)
(* register it under any.                                                  *)
MCHome == CHOOSE c \in Custids : TRUE
MCCustomerOf == [i \in Imeis |-> MCHome]
=============================================================================
