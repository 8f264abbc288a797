SPECIFICATION FramingSpec
CONSTANTS
    Senders = {t1, t2}
    HeaderSize = 2
    Lengths = {0, 1, 3}
    BufferSize = 3
    PipeSize = 4
    MaxMessages = 3
INVARIANT PollTells
CHECK_DEADLOCK FALSE
