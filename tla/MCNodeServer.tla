---------------------------- MODULE MCNodeServer ----------------------------
(* Instances of NodeServer for TLC. *)
EXTENDS NodeServer

NoPeers == <<>>
DeadSeedFirst == <<"d", "a">>
PriorityOwn == <<"o">>
=============================================================================
