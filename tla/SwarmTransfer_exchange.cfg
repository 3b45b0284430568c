\* One share between its importer and a member that downloads it.
SPECIFICATION FairSpec
CONSTANTS
    Pieces <- TwoPieces
    Nodes <- TwoMembers
    Importer = 1
    PIPELINE = 1
    BLOCK_WINDOW = 2
    PENDING_LIMIT = 3
    Ids = {1, 2, 3, 4}
    Cases <- Exchanges
INVARIANTS HeldIsOnDisk 
PROPERTIES ProgressKept 
CHECK_DEADLOCK FALSE
