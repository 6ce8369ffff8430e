SPECIFICATION Spec
CONSTANTS
    MaxData = 2
    BlockFlag = 4
    Addrs = {1}
    Payloads <- MCPayloads
    ReadLens = {0, 1, 2, 3}
    Answers <- MCAnswers
    NoiseValues = {0, 1, 2}
    MaxNoise = 2
INVARIANTS TypeOK BuffersFit Exact Complete
