SPECIFICATION Spec
CONSTANTS
    a1 = a1
    a2 = a2
    Agents = {a1, a2}
    OldCards <- CardsBefore
    Offers <- SomeOffers
    Commitments <- ByHand
    Schemas <- SomeSchemas
    LLMAgents = {a1}
    V6Agents = {a2}
    Unconfigured = {}
    Messages <- SomeMessages
    None = None
PROPERTY
    OwnMessageAnswered
