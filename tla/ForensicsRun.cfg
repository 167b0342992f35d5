\* Two versions of the database, three calls of the client or one pass.
SPECIFICATION Spec
CONSTANTS
    Null = Null
    Names <- MCNames
    Order <- MCOrder
    Decks <- MCDecks
    Rules <- MCRules
    Pooled = {"tokens"}
    Staples <- MCStaples
    Weight <- MCWeight
    Histories <- MCHistories
    ClientHistories <- MCClientHistories
    Windows <- MCWindows
    MaxRequests = 3
    Fixture <- MCFixture
    Labels <- MCLabels
    FrontFace <- MCFrontFace
    TopN = 1
    NearMax = 2
    Discount <- MCDiscount
    SampleSize = 1
INVARIANTS
    AnswersAgree
    FreshTagsAreTrue
    ErrorNeedsImport
CHECK_DEADLOCK FALSE
