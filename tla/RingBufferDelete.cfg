\* Four items fill the array of four slots.
CONSTANTS
    Values = {a, b}
    Nil = Nil
    Garbage = Garbage
    UintMod = 256
    MaxCount = 4
SPECIFICATION RingSpec
PROPERTY DeleteRemovesValue
