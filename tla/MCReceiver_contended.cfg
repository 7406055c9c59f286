SPECIFICATION Spec
CONSTANTS
    Tasks = {t1, t2}
    Sids = {"s1"}
    LockIds = {l1, l2, l3}
    Envelopes <- ContendedEnvelopes
    Cards <- AliceAndBob
    OpenOutcomes = {"reply", "error"}
    RoundOutcomes = {"reply", "done", "error"}
    Faults = {"card_fetch", "cancel"}
    Pieces <- PiecesOf
    HashPayload <- HashOf
    LatestUtc = 2
    DedupeTTL = 1
    MaxTime = 1
    MaxRestarts = 0
    None = None
SYMMETRY Symmetry
INVARIANTS
    SessionsSound
    LayersAgree
PROPERTIES
    IntentSpentOnce
