\* Integers up to 22 and 12 stand for 64 and 32 bits: past each the next text
\* is as long as the last one, or longer.
CONSTANTS
    MaxUint64 = 22
    MaxUint32 = 12
    Names <- MCNames
    IDs <- MCIDs
SPECIFICATION Spec
INVARIANTS
    ReadsNames
    NameKept
