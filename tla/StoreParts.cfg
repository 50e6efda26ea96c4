SPECIFICATION MCSpec
CONSTANTS
    s1 = s1
    s2 = s2
    s3 = s3
    a = a
    b = b
    Servers = {s1, s2, s3}
    Ids = {a, b}
    First <- FirstIds
    MaxSaves = 3
    Redis = {s1, s2}
    Users = {w1, w2}
    NoUser = Nil
    Kinds = {"query"}
    MaxTries = 1
    MaxSize = 1
    MaxLen = 3
    MaxOutages = 2
    Askers = {w1, w2}
    Prompts = {1, 2, 3}
    Similar <- Alike
    Embedded = {1, 2, 3}
    MaxAnswers = 2
    NoAnswer = Nil
    Callers = {w1, w2}
    MaxVectors = 3
    NoVector = Nil
    Texts = {x1, x2}
    Embedders = {w1, w2}
    Batches <- Pairs
    Providers = {1, 2}
    MaxMemory = 1
    MaxRefusals = 1
    Processes = {w1, w2}
    Tiers = {x1, x2}
    Batch = 2
    MaxOperations = 3
INVARIANTS RestoreIsCurrent OnlyOutagesFail WindowIsKept AnswersAreRight EmbeddingsAreRight LossIsBounded
PROPERTIES RestoreNeverGoesBack ImplementsVectorStore
SYMMETRY Symmetry
CHECK_DEADLOCK FALSE
