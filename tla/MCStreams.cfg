CONSTANTS
    ack = ack
    history = history
    Messages = {ack, history}
    Payload <- MCPayload
    Limit = 6
    MaxStreams = 3
SPECIFICATION FairSpec
INVARIANTS
    WholeInOrder
    ListenerSurvives
PROPERTIES
    WholeIsForwarded
CHECK_DEADLOCK FALSE
