SPECIFICATION FairSystem
CHECK_DEADLOCK FALSE
CONSTANTS
    Tasks = {t1, t2}
    Sids = {"r1"}
    Runs = {"r1"}
    Initiator = "alice"
    MaxRounds = 2
    LockIds = {l1, l2}
    Envelopes <- RunMessages
    Cards <- OwnCard
    OpenOutcomes = {"reply", "error"}
    RoundOutcomes = {"reply", "done", "done_silently", "error"}
    Faults = {"card_fetch"}
    Pieces <- PiecesOf
    HashPayload <- HashOf
    LatestUtc = 2
    DedupeTTL = 1
    MaxTime = 0
    MaxRestarts = 1
    None = None
INVARIANTS
    SystemTypeOK
    ResultFromWholeSession
    RefusalsHaveCauses

PROPERTIES
    KeepsPromise
    EveryRunEnds
