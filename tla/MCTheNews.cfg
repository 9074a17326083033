SPECIFICATION AppFairSpec
CONSTANTS
    tBanki = tBanki tFinam = tFinam uBanki = uBanki uFinam = uFinam
    NoText = empty
    Title = {empty, tBanki, tFinam}
    Url = {empty, uBanki, uFinam}
    ValidTitle = {tBanki, tFinam}
    ValidUrl = {uBanki, uFinam}
    DefaultTitles <- MCDefaultTitles
    DefaultUrls <- MCDefaultUrls
    SourceId = {uBanki, uFinam}
    DefaultSource = uBanki
    MaxSources = 2
    MaxStarts = 2
    MaxLaunches = 2
    MaxStories = 1
    MaxRows = 2
INVARIANTS
    TypeOK OneLoadAtATime RowsAreEntries
    SourcesTypeOK StoredIsShown AtMostOneCurrent RowsAreSources ListedIsValid
    OnlyDefaultIsLoaded
PROPERTIES EntriesAreStable RefreshEnds
