SPECIFICATION Spec
CONSTANTS
    a1 = a1
    a2 = a2
    Agents = {a1, a2}
    OldCards <- CardsBefore
    Offers <- SomeOffers
    Commitments <- ByHand
    Schemas <- SomeSchemas
    LLMAgents = {a1}
    V6Agents = {}
    Unconfigured = {a1}
    Messages <- SomeMessages
    None = None
INVARIANTS
    TypeOK
    CompatibilityIsMutual
    SurveyMissesNobody
    ProtocolNeverReachesLLM
    OneEnvelopePerAnswer
PROPERTIES
    OfferingMoreLosesNobody
    RaisesHaveCauses
    OwnMessageAnswered
    MirrorAgrees
