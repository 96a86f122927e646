SPECIFICATION FairSpec
CONSTANTS
    Queues <- MCQueues
    Inbox <- MCInbox
    Bodies <- MCBodies
    Declines <- MCDeclines
    TripOf <- MCTripOf
    Calls = {c1}
    Requests = {r1}
    Visitors = {d1}
    MaxFaults = 1
    MaxStarts = 2
INVARIANTS IInv TypeOK NothingIsLost ConfirmedIsPublished StopsAreGraceful NoticesInOrder LeaversAreUnregistered
PROPERTIES RequestsAreAnswered StopsWhenTold MessagesAreHandled
CHECK_DEADLOCK FALSE
