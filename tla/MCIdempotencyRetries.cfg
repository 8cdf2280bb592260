SPECIFICATION KeySpec
CONSTANTS
    Requests = {r1, r2, r3}
    Payloads = {rounds, other}
    MaxPolls = 3
    Nobody = Nobody
INVARIANTS
    NoDuplicate
    AnswerIsMine
PROPERTIES
    EveryRetryAnswered
