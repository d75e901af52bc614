CONSTANTS
    Handle = {"h1", "h2"}
    Byte = {0, 1}
    DiskFiles <- DiskFile
    Kind <- OtherFiles
    Opens <- SomeOpens
    PageSizeBits = 2
    SectorSize = 2
    Message = 2
    Counts = {1, 3}
    Seeks <- SomeSeeks
    Reader = {"h1", "h2"}
    Entry = {1, 2, 3}
    DirentSize <- EntrySizes
    DirBuffers = {1, 2, 3}
    MaxPos = 5
SPECIFICATION MCSpec
VIEW Visible
INVARIANTS
    FileContents
