--------------------------- MODULE MCGpuFdTracker ---------------------------
(* Three descriptors, and a list that may run out of memory at any time.   *)
(* Names with "." and "..", one that climbs above the root, ones deeper    *)
(* than the arrays on their way, one too long for the buffers, and one     *)
(* below a bus id that is too long.                                        *)
EXTENDS GpuFdTracker, TLC

MCNames == {"none", "proc", "driver", "nvidia", "gpus", "information", "A", "B", "long", "tmp", "dev",
            "nvidiactl", "nvidia0"}
MCSegLen == [s \in MCNames |-> IF s = "long" THEN 4 ELSE 1]
MCDevices == {<<"dev", "nvidia0">>}

MCFiles ==
    { <<>>, <<"proc">>, <<"tmp">>, <<"dev", "nvidiactl">>, <<"dev", "nvidia0">>, SubSeq(GpusDir, 1, 3), GpusDir }
    \cup {GpusDir \o p : p \in {<<"A">>, <<"B">>, <<"long">>, <<"A", "information">>, <<"B", "information">>}}

MCAbsNames ==
    { GpusDir, <<"..", "proc", ".", "driver", "tmp", "..", "nvidia", "gpus">>,
      GpusDir \o <<"A">>, GpusDir \o <<"A", "..", "B", "information">>,
      <<"tmp", "tmp", "tmp", "tmp", "tmp", "tmp", "tmp", "..", "..", "..", "..", "..", "..", "..">> \o GpusDir,
      <<"tmp">>, <<"dev", "nvidiactl">>, <<"dev", ".", "nvidia0">>, GpusDir \o <<"long">> }

MCRelNames ==
    { <<".">>, <<"A">>, <<"..", "B">>, <<"..">>, <<"A", "information">>, <<"B", "..", ".", "A">>,
      <<"A", "tmp", "tmp", "..", "..">>, <<"long">> }

AnyNode == Permutations(Nodes)
=============================================================================
