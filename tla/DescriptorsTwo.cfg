SPECIFICATION Spec
CONSTANTS
    Threads = {t1, t2}
    Fds <- Fds2
    Files <- RaceFiles
    Dirs <- RaceDirs
    Rels <- RaceRels
    Closed = Closed
    NoFd = NoFd
    Calls = {"fdopen"}
    CgroupMemory = TRUE
    GpuVideo = TRUE
    GpuIoctl = TRUE
    MayFail = FALSE
    Names <- MCNames
    Allowed <- MCAllowed
    Devices <- MCDevices
INVARIANT NoStale
INVARIANT ScopeFiltered
INVARIANT RefusedExactly
SYMMETRY AnyThread
