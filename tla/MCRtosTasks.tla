----------------------------- MODULE MCRtosTasks -----------------------------
(* Instances of the tasks for TLC: 2 stands for every byte that is no      *)
(* length.                                                                 *)
EXTENDS RtosTasksProps

MCFrames == {<<2, 2, 0>>, <<2, 2, 1, 2>>}
MCScenes == {{"frames", "check", "stall"}, {"check", "busoff"}, {"frames", "bytes"},
              {"frames", "noise"}}
MCGateway == {{"frames", "bytes"}}
=============================================================================
