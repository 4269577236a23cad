SPECIFICATION Spec
CONSTANTS
    MaxChunks = 3
    MaxPages = 2
    MinCharsPerPage = 1
    BatchSize = 2
    EmbedRetries = 3
    NerRetries = 15
    Texts <- MCTexts
    Taggings <- MCTaggings
    Ranges <- MCRanges
CHECK_DEADLOCK FALSE
INVARIANTS ScansAreRead ProvenanceIsComplete MetadataListsOnce FoundByItsDates VectorsMatchChunks
PROPERTIES GivesUpLast Settles
