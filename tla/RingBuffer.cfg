\* Two values, up to five items: the array grows from 1 to 4 to 8 slots, is
\* full at each size, and wraps round in both directions.
CONSTANTS
    Values = {a, b}
    Nil = Nil
    Garbage = Garbage
    UintMod = 256
    MaxCount = 5
SPECIFICATION RingSpec
INVARIANT RepInv
PROPERTY Implements
