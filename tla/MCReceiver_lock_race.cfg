SPECIFICATION Spec
CONSTANTS
    Tasks = {t1, t2}
    Sids = {"s1"}
    LockIds = {l1, l2, l3}
    Envelopes <- ContendedEnvelopes
    Cards <- AliceAndBob
    OpenOutcomes = {"reply"}
    RoundOutcomes = {"reply", "done"}
    Faults = {"card_fetch", "resolve_raises"}
    Pieces <- PiecesOf
    HashPayload <- HashOf
    LatestUtc = 2
    DedupeTTL = 1
    MaxTime = 0
    MaxRestarts = 0
    None = None
INVARIANTS
    SessionSerialized
