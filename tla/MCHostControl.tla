---------------------------- MODULE MCHostControl ----------------------------
(* The computers that are saved at power-on. *)
EXTENDS HostControl

OneSaved == [h \in Hosts |-> IF h = "a" THEN "plain" ELSE "absent"]
BothSaved == [h \in Hosts |-> "plain"]
===============================================================================
