SPECIFICATION PagesSpec
CONSTANTS
    Visits = {"form", "download", "attendees", "attendees failing", "photos",
              "photos failing", "plans", "saving"}
    p1 = p1
    p2 = p2
    some = some
    none = none
    Place = {p1, p2}
    Lat <- Lats
    Lon <- Lons
    Text = {some, none}
    Results <- Found
    Image = {i1}
    NoPlace = NoPlace
    NoImage = NoImage
    MaxSearches = 2
    MaxEvents = 2
    MaxSize = 2
    Size = {1, 2, 4}
    MaxRetries = 1
    NoPerson = NoPerson
    MaxAppearances = 2
    MaxComings = 1
    Shots = {1, 2, 3}
    TooBig = {3}
    PageSize = 1
    MaxOpenings = 2
    PlanEvents = {1, 2}
    Days <- SecondFirst
    MaxPulls = 2
    MaxRemote = 1
    Blank = Blank
    GooglePic = GooglePic
    NoPic = NoPic
    MaxReads = 3
    MaxQueue = 3
    People = {a1, a2, a3}
    Profiles = {a1, a2}
    MaxTaps = 2
    Forms = {f1, f2}
    Pics = {}
    SavedPics = {}
    Encodable = {GooglePic}
    MaxSaves = 4
    MaxBreaks = 2
INVARIANTS TypeOK ReportedIsNotDelivered
INVARIANTS FormTypeOK EventHasItsOwnPicks
INVARIANTS PagesTyped NobodyIsMissing TwiceOnlyByOverlap GalleryIsWhole ListFollowsView
INVARIANTS AccountBlanksNothing SavedIsKept
PROPERTIES PhotosGoOnlyByOverlap
CHECK_DEADLOCK FALSE
