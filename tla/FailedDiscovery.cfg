SPECIFICATION Spec
CONSTANTS
    Threads = {t1}
    Fds <- Fds2
    Files <- AllFiles
    Dirs <- AllDirs
    Rels <- AllRels
    Closed = Closed
    NoFd = NoFd
    Calls = {"opendir"}
    CgroupMemory = TRUE
    GpuVideo = TRUE
    GpuIoctl = TRUE
    MayFail = FALSE
    Names <- MCNames
    Allowed <- MCAllowed
    Devices <- MCDevices
INVARIANT FailedPassesThrough
