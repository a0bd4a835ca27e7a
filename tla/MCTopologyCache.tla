-------------------------- MODULE MCTopologyCache --------------------------
(***************************************************************************)
(* Two workloads whose IDs make the keys of two pairs collide.              *)
(***************************************************************************)
EXTENDS TopologyCache

MCWorkloads == {<<"a">>, <<"a", "-", "a">>}
=============================================================================
