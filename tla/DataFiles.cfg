CONSTANTS
    Keys = {0, 1, 2, 3, 4, 5}
    StoredKeys = {1, 2, 4}
    Values = {v}
    Tombstone = Tombstone
    MaxSeq = 5
    MaxRecords = 4
    HeaderBytes = 1
    ValueBytes = 2
    BlockBytes = 1
    IndexBytes = 2
    FooterBytes = 3
    BitsPerEntry = 3
    HashCount = 2
    WordBits = 4
    FirstHash <- MCFirstHash
    SecondHash <- MCSecondHash
    Contents <- MCContents
    Manifests <- MCManifests
    ManifestStates <- MCManifestStates
    FormatVersion = 4
    Torn = Torn
    NoFile = NoFile
SPECIFICATION Spec
INVARIANTS TableOpens GetSearchesEnough ManifestReads
PROPERTY PublicationIsAtomic
