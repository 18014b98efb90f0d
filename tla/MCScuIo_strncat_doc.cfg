\* TLC configuration of MCScuIo.
CONSTANTS
    Newline = 1
    SCU_CHUNK_SIZE = 2
    MaxContent = 2
    MaxSize = 8
    Unknown = Unknown
    Contents <- MCContents
    Texts <- MCTexts
    BufferSizes <- MCBufferSizes
    Counts <- MCCounts
SPECIFICATION Spec
PROPERTIES AppendedAsDocumented
