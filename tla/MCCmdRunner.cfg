SPECIFICATION RunnerSpec
CONSTANTS
    Cap = 2
    Chunk = 2
    PipeSize = 2
    Bytes = {1}
    Commands <- MCCommands
PROPERTIES
    DeadlineEnforced
CHECK_DEADLOCK FALSE
