SPECIFICATION ToolSpec
CONSTANTS
    MaxData = 4
    BlockFlag = 8
    Addrs = {1, 5}
    Payloads <- MCPayloads
    ReadLens = {0, 1, 2, 3, 4, 5}
    Answers <- MCAnswers
    NoiseValues = {0, 1}
    MaxNoise = 1
    Base = 2
    Counts = {0, 1, 3, 4, 5}
    Words = {"rb", "wb", "vb", "SendByte", "sd"}
    Numbers <- MCNumbers
    NoNumber <- MCNoNumber
    Texts <- MCTexts
CHECK_DEADLOCK FALSE
INVARIANTS WithinDataByte PrintsTheAnswer TellsWhatWasTyped
