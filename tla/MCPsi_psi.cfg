SPECIFICATION Spec
CHECK_DEADLOCK FALSE
CONSTANTS
    Askers = {i1, i2}
    Answerers = {j1, j2}
    Customers = {"x", "y", "z"}
    Lists <- SomeLists
    Prime = 3
    Scalars <- Modular
    Zero = 0
    One = 1
    Plus <- PlusMod
    Times <- TimesMod
    Invert <- InvertMod
    Oracle <- Polynomial
    MaxEntries = 2
    None = None
SYMMETRY Symmetry
INVARIANTS
    TypeOK
    ResultIsMembership
    AnswersMatchQuestions
    OwnAnswerAccepted
