CONSTANTS
    Workers = {radio}
    EarlyReaders = {}
SPECIFICATION Spec
INVARIANT PauseBlocks
