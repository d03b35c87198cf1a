CONSTANTS
    Request = {r1}
    Endpoint = {"chatStream", "messagesStream", "responsesStream"}
    Key = {k1}
    MaxRoutes = 1
SPECIFICATION Spec
PROPERTY SlotCoversStream
