SPECIFICATION Spec
CONSTANTS
    Tasks = {t1, t2}
    Sids = {"s1", "s2"}
    LockIds = {l1, l2, l3, l4}
    Envelopes <- RetriedEnvelopes
    Cards <- AliceOnly
    OpenOutcomes = {"reply", "silence"}
    RoundOutcomes = {"reply", "silence"}
    Faults = {"card_fetch"}
    Pieces <- PiecesOf
    HashPayload <- HashOf
    LatestUtc = 2
    DedupeTTL = 2
    MaxTime = 1
    MaxRestarts = 0
    None = None
SYMMETRY Symmetry
INVARIANTS
    SessionSerialized
PROPERTIES
    DuplicateGetsAnswer
    NoSessionReset
    RoundRunsOnce
