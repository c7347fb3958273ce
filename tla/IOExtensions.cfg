\* Buffers of 7 bytes, headers of 3 to 7 bytes, and sources of up to 15 bytes
\* of data: two buffers full and one byte more.
SPECIFICATION Spec
CONSTANTS
    CHUNK = 7
    HEADER = 3
    FOOTER = 2
    Hold = 4
    Trailer = 1
    Ratio = 2
    GzipFiles <- GzipSources
    Unwritten = {"nul", "data", "magic", "plain"}
    MaxData = 15
    MaxSpliced = 6
    MaxStray = 7
INVARIANTS WellFormed FooterSeals WholeSource  ChunksWellFormed
PROPERTY Terminates
CHECK_DEADLOCK FALSE
