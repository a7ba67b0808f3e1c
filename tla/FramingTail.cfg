CONSTANTS
    RECV_BUFFER_SIZE = 8
    HEADER_LEN_BYTES = 2
    HEADER_TYPE_BYTES = 1
    Sizes = {1, 2, 6, 7}
    MaxMsgs = 3
    Other = Other
SPECIFICATION Spec
INVARIANTS TailIsPending
CHECK_DEADLOCK FALSE
