\* Delivery of every queued reply while the client lives.
CONSTANTS
    Producers <- MC_Producers
    MaxReplies = 2
    NoThread = NoThread
    Worker = Worker
    AllowTeardown = FALSE
SPECIFICATION Spec
PROPERTY EveryReplyPublished
