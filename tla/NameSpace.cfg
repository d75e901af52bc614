CONSTANTS
    Process = {p1}
    Handle = {h1}
    DiskTree <- MCDiskTree
    Devices <- MCDevices
    OpenCalls <- MCOpen
    MkdirPaths <- MCMkdir
    UnlinkCalls <- MCUnlink
    LinkCalls <- MCLink
    SymlinkPaths <- MCSymlink
    RenameCalls <- MCRename
    MountCalls <- MCMount
    ChdirPaths <- MCChdir
SPECIFICATION Spec
VIEW Visible
CHECK_DEADLOCK FALSE
INVARIANTS TypeOK  LinksCounted 
