SPECIFICATION WireSpec
CONSTANTS
    Messages <- MCMessages
    Fragments <- MCFragments
    Content <- MCContent
    Numbers <- MCNumbers
    Topics <- MCTopics
    Ids <- MCIds
    Payloads <- MCPayloads
    Headers <- MCHeaders
    Orders <- MCOrders
    Offsets <- MCOffsets
    Now = 5
    Term = 2
    Session = 11
    MaxPublished = 2
    MaxLosses = 1
INVARIANTS PublishedReadable
CHECK_DEADLOCK FALSE
