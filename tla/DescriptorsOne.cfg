SPECIFICATION Spec
CONSTANTS
    Threads = {t1}
    Fds <- Fds2
    Files <- AllFiles
    Dirs <- AllDirs
    Rels <- AllRels
    Closed = Closed
    NoFd = NoFd
    Calls = {"opendir", "closedir", "fopen"}
    CgroupMemory = TRUE
    GpuVideo = TRUE
    GpuIoctl = TRUE
    MayFail = TRUE
    Names <- MCNames
    Allowed <- MCAllowed
    Devices <- MCDevices
INVARIANT TypeOK
INVARIANT NoStale
INVARIANT ScopeFiltered
 
