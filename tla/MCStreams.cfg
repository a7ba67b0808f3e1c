CONSTANTS
    RECV_BUFFER_SIZE = 8
    HEADER_LEN_BYTES = 2
    HEADER_TYPE_BYTES = 1
    Sizes = {1, 2, 5, 6, 7}
    MaxMsgs = 3
    Other = Other
    Callbacks = {1, 2}
    SEND_BUFFER_SIZE = 8
    MAX_MESSAGE_LENGTH = 5
SPECIFICATION StreamsSpec
INVARIANTS Framed Prompt ExitJustified Unbroken SentWhole
CHECK_DEADLOCK FALSE
