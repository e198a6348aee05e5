SPECIFICATION Spec
CONSTANTS
    PartNames = {"store", "reducer", "sync", "tasks", "selection", "truth", "cursor", "helper"}

    Nil = Nil
    RecordKeys = {1, 2}
    Tags = {"x"}
    UniqueIndexes = {"u"}
    Connections = {"c1", "c2"}
    Transactions = {1, 2}
    StoreNames = {"a", "b"}
    IndexNames = {"i", "u"}
    Versions = {1, 2}
    Requests <- MCRequests
    MaxWork = 2

    Undefined = Undefined
    Urls = {"free", "paid"}
    Countries <- MCCountries
    AuthMethods <- MCAuthMethods
    Identities = {"me", "typo"}
    Paid = {"paid"}
    MaxMethodSelections = 200
    MaxPolicyEvaluations = 10000
    MaxMethods = 3
    Secrets = {"s1", "s2"}
    MaxEdits = 2

    Devices = {"d1", "d2"}
    Cycles <- MCCycles
    NewItems <- MCItems
    NoBlob = NoBlob
    MaxChanges = 2

    Concurrency = 1
    Calls = {"t1", "t2", "u1"}
    Priority <- MCPriority
    Nobody = Nobody
    MaxFailures = 2
    Tasks = {"t1", "t2"}
    Lively = {"t1"}
    MaxRetries = 1

    Purse <- MCPurse
    WireFees <- MCWireFees
    ContractTerms <- MCTerms
    NoSelection = NoSelection

    TruthSlots = {1, 2}
    Uuids = {"t"}
    TruthContents <- MCTruthContents
    StorageYears = {0, 2}
    TruthYear = 2
    GraceWeek = 1
    MaxStorageYears = 5
    Unset = {2, 20}
    LastDay = 4
    MaxUploads = 3

    CursorKeys = {1, 2, 3}
    IndexKeys = {1, 2}
    Ranges <- MCRanges
    NoKey = NoKey
    MaxAlterations = 2

    BankAccounts = {"a", "b"}
    MaxWires = 4
    MaxMishaps = 2
INVARIANTS IndexExact LockOwned DocumentsUsable SecretEarned PoolBusy SelectionPays TruthsPaid TruthsTold CursorComplete TransfersRecorded
PROPERTIES StoreSerial StoreLive SuggestionsBest  TasksServed TransfersArrive
CHECK_DEADLOCK FALSE
