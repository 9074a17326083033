SPECIFICATION FairSpec
CONSTANTS
    SourceId = {banki}
    DefaultSource = banki
    MaxStories = 3
    MaxRows = 4
    MaxLaunches = 2
PROPERTY CanRefreshAgain
