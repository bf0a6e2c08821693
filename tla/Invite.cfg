SPECIFICATION Spec
CONSTANTS
    CodeBytes = 5
    Malformed = Malformed
    People = {1, 2}
    Owns <- SampleOwns
    TOOLS <- TwoTools
    Rubbish <- NoCodes
    Styles <- SevenStyles
    MaxEdits = 2
    Nothing = Nothing
INVARIANTS
    TypeOK
    ReadAsMeant
    InvitedMeet
    ToldTheTruth
