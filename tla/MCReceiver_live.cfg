SPECIFICATION FairSpec
CONSTANTS
    Tasks = {t1, t2}
    Sids = {"s1"}
    LockIds = {l1, l2, l3}
    Envelopes <- ContendedEnvelopes
    Cards <- AliceOnly
    OpenOutcomes = {"reply", "error"}
    RoundOutcomes = {"done", "error"}
    Faults = {"card_fetch", "resolve_raises", "cancel", "abort"}
    Pieces <- PiecesOf
    HashPayload <- HashOf
    LatestUtc = 2
    DedupeTTL = 1
    MaxTime = 0
    MaxRestarts = 0
    None = None
PROPERTIES
    EveryEnvelopeAnswered
