SPECIFICATION FairSpec
CONSTANTS
  Items = {reel, link}
  Reviewers = {r1}
  Reel = reel
  Child = link
  a = a
  Titles = {a, b}
  Title <- SameTitle
  Folders = {inbox, topic}
  Inbox = inbox
  Suffixes = 2
  MaxEdits = 1
  MaxFaults = 1
  None = None
INVARIANTS TypeOK NotesKept
PROPERTIES LinksReachNote
