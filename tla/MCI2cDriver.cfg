CONSTANTS
    Addrs = {touch, pmic, none}
    Slaves = {touch, pmic}
    NoSlave = noslave
    Bytes <- MCBytes
    FIFO = 2
    Counts <- MCCounts
    Masks = {}
    Cons = {}
    Jobs <- MCJobs
    NoJob = nojob
SPECIFICATION DriverSpec
INVARIANTS NoStaleSignal SignalledIsDone
PROPERTY TransferCompletes
