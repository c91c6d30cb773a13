SPECIFICATION WireSpec
CONSTANTS
    Messages <- MCMessages
    Fragments <- MCFragments
    Content <- MCContent
    Numbers <- MCNumbers
    Topics <- MCTopics
    Ids <- MCIds
    Payloads <- MCPayloads
    Headers <- MCHeaders
    Orders <- MCOrders
    Offsets <- MCOffsets
    Now = 5
    Term = 2
    Session = 11
    MaxPublished = 2
    MaxLosses = 1
INVARIANTS TypeOK GarbledBounded ParsedAsSent IngressGenuine RequestsReadable FramesExact
PROPERTIES ChannelSpec DeliveredWhole
CHECK_DEADLOCK FALSE
