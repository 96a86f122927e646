SPECIFICATION Spec
CONSTANTS
    Queues <- MCQueues
    Inbox <- MCInbox
    Bodies <- MCBodies
    Declines <- MCDeclines
    TripOf <- MCTripOf
    Calls = {c1}
    Requests = {r1}
    Visitors = {d1}
    MaxFaults = 0
    MaxStarts = 2
INVARIANT AcceptedIsPublished
CHECK_DEADLOCK FALSE
