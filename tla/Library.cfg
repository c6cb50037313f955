SPECIFICATION LibrarySpec
CONSTANTS
  Editors = {t1, t2}
  Formats = {"flac", "ogg", "mp3", "m4a", "ape", "wav"}
  EditFields = {"date", "label", "lyrics", "upc", "album_type", "comment", "album_artist", "track_number", "track_total"}
  MaxNamed = 1
  MaxText = 2
  MaxItems = 1
  Pieces = 2
  MaxTag = 3
  MaxPlace = 15
  Scans = {t1, t2}
  AudioFiles = {a, b}
  Sheet = c
  Backing = a
  ScanWorkers = {w1, w2}
  MaxChanges = 2
  CoverCallers = {t1, t2, t3}
  CoverBytes <- LibraryCoverBytes
  MaxCoverBytes = 2
  HealthThreads = {h1}
  Providers <- LibraryProviders
  Answers <- LibraryAnswers
  HealthWorkers = {w1, w2}
  MaxHealthChanges = 2
  Tracks <- LibraryTracks
  Updates <- LibraryUpdates
  KnownTags <- LibraryTags
INVARIANTS
    TagFilesSound
    ScanSound
    CoversSound
    
    
SYMMETRY LibrarySymmetry
CHECK_DEADLOCK FALSE
