--------------------------- MODULE MCDescriptors ----------------------------
(* Instances of Descriptors for TLC: one mounted GPU, A, one hidden, B. *)
EXTENDS Descriptors, TLC

Parent == <<"proc", "driver", "nvidia">>
BusA == Append(GpusDir, "A")
BusB == Append(GpusDir, "B")
InfoB == Append(BusB, "information")
PowerB == Append(BusB, "power")
Uvm == <<"dev", "nvidia-uvm">>

MCNames == {"none", "proc", "driver", "nvidia", "gpus", "information", "power", "meminfo",
            "A", "B", "dev", "nvidiactl", "nvidia-uvm"}
MCAllowed == {"A"}
MCDevices == {Uvm}

AllFiles == {Parent, GpusDir, BusA, BusB, InfoB, PowerB, Ctl, Uvm, Meminfo}
AllDirs == {Parent, GpusDir, BusA, BusB}

(* Enough for two threads: one file of every kind that is treated apart. *)
RaceFiles == {GpusDir, BusB, Ctl, Meminfo}
RaceDirs == {GpusDir, BusB}

AnyThread == Permutations(Threads)

Fds2 == 0..1

Rel(up, down) == [up |-> up, down |-> down]

AllRels == {Rel(0, <<"gpus">>), Rel(0, <<"A">>), Rel(0, <<"B">>),
            Rel(0, <<"B", "information">>), Rel(0, <<"power">>),
            Rel(1, <<>>), Rel(1, <<"B">>), Rel(1, <<"gpus", "A">>)}
RaceRels == {Rel(0, <<"B">>), Rel(1, <<>>)}
=============================================================================
