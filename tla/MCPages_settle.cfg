SPECIFICATION SettlingSpec
CONSTANTS
    Visits = {"form", "download", "attendees", "photos failing", "plans", "saving", "pictures"}
    p1 = p1
    p2 = p2
    some = some
    none = none
    Place = {p1, p2}
    Lat <- Lats
    Lon <- Lons
    Text = {some, none}
    Results <- Found
    Image = {i1}
    NoPlace = NoPlace
    NoImage = NoImage
    MaxSearches = 2
    MaxEvents = 2
    MaxSize = 1
    Size = {1, 3}
    MaxRetries = 1
    NoPerson = NoPerson
    MaxAppearances = 2
    MaxComings = 1
    Shots = {1, 3}
    TooBig = {3}
    PageSize = 1
    MaxOpenings = 2
    PlanEvents = {1, 2}
    Days <- SecondFirst
    MaxPulls = 2
    MaxRemote = 1
    Blank = Blank
    GooglePic = GooglePic
    NoPic = NoPic
    MaxReads = 3
    MaxQueue = 3
    People = {a1, a2}
    Profiles = {a1, a2}
    MaxTaps = 1
    Forms = {f1}
    Pics = {pic, raw}
    SavedPics = {}
    Encodable = {pic, GooglePic}
    MaxSaves = 3
    MaxBreaks = 1
PROPERTIES CallerIsAnsweredOnce SearchEnds ListFills LoadsEnd ListSettles SavedIsStored
PROPERTIES PickedPictureShows
CHECK_DEADLOCK FALSE
