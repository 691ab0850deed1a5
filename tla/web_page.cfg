\* Calls that overtake each other or are lost, a restart, other pages.
SPECIFICATION Spec
CONSTANTS
    Channels = {1}
    None = None
    MaxEvents = 4
INVARIANT
    TypeOK
PROPERTIES
    PollsInOrder
    NoRollback
    BoxShowsRelay
