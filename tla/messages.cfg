SPECIFICATION Spec
CONSTANTS
    PACKET_SIZE = 32
    MAX_LEN = 2
    strlen <- SomeStrings
    atoi <- SomeNumbers
    Lines <- SomeLines
    Uids <- SomeUids
    username <- SomeNames
    Texts <- SomeTexts
INVARIANTS
    FitsBuffer
    ReadsWhatWasWritten
    ListsArrive
