SPECIFICATION Spec
CONSTANTS
    Tasks = {t1}
    Sids = {"s1", "s1|x"}
    LockIds = {l1, l2}
    Envelopes <- FaultyEnvelopes
    Cards <- AliceAndBob
    OpenOutcomes = {"reply", "silence", "done", "done_silently", "error", "key_error"}
    RoundOutcomes = {"reply", "silence", "done", "done_silently", "error", "key_error"}
    Faults = {"card_fetch", "resolve_raises", "config_raises", "cancel"}
    Pieces <- PiecesOf
    HashPayload <- HashOf
    LatestUtc = 2
    DedupeTTL = 1
    MaxTime = 1
    MaxRestarts = 1
    None = None
INVARIANTS
    TypeOK
    CachedRepliesSound
    LockRegistryBounded
PROPERTIES
    OnlySignerMovesSession
