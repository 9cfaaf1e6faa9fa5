SPECIFICATION Spec
CONSTANTS
    Names <- MCNames
    FormBytes <- MCFormBytes
    MaxFields = 2
    MaxLength = 3
    InputBytes <- MCInputBytes
    MaxInput = 5
    BufferSize = 4194304
    MaxSize = 140
    Records <- MCRecords
    MaxDamages = 2
INVARIANTS
    RoundTrip
    CallbackFaithful
    EncodesTheBits
    PaddingFillsChunks
    UrlsSayTheRequest
    RecordsSurvive
    DamageIsContained
CHECK_DEADLOCK FALSE
