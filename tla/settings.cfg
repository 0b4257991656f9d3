\* A forwarder started again and again with any of seventeen environments.
SPECIFICATION SettingsSpec
CONSTANTS
    Keyword <- Spellings
    Lower <- InLowerCase
    Atom <- Atoms
    Reserved <- ReservedByClients
    Env <- Environments
    Password <- ThePassword
    OAuthJson <- TheJson
    ClientSecret <- TheSecret
    RefreshToken <- TheToken
    Ordinary <- Common
    ShortestSecret = 2
    TextLimit = 4
    Mask <- MaskCharacter
INVARIANTS
    KeywordsKeepTheirMeaning
    SentOnce
    NothingLeaks
