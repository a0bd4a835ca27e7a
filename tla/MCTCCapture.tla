---------------------------- MODULE MCTCCapture ----------------------------
(* Docker names the first interface of every bridge container eth0, so the   *)
(* names of two captured containers normally clash.                          *)
EXTENDS TCCapture

MCShared == [c \in Containers |-> IF c = "c1" THEN {"eth0", "eth1"} ELSE {"eth0"}]
=============================================================================
