\* One PARCHIVE request of every kind, with every configuration and every
\* behaviour of its source and next hop: a file of 3 bytes relayed in
\* blocks of 2 (so a full and a partial block), sources that deliver
\* 0..3 bytes and then close or stay open, 1e11 stood for by 5, and 30 s
\* by two failed reads.
\* A handled request is final (the handler returns) and a read from an
\* open silent source blocks for ever, so deadlock is not an error.
CONSTANTS
    FileSize = 3
    BlockSize = 2
    Huge = 5
    Timeout = 2

SPECIFICATION Spec
CHECK_DEADLOCK FALSE
INVARIANT TypeOK
INVARIANT SuccessImpliesComplete
PROPERTY AnsweredWhenSourceCloses
