\* FIFO delivery and teardown, with the destructor allowed to run.
CONSTANTS
    Producers <- MC_AllProducers
    MaxReplies = 3
    NoThread = NoThread
    Worker = Worker
    AllowTeardown = TRUE
SPECIFICATION Spec
INVARIANT TypeOK
PROPERTY ImplementsReplyChannel
PROPERTY TeardownCompletes
\* After join() the client object is destroyed: nothing runs any more.
CHECK_DEADLOCK FALSE
