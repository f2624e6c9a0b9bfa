\* Two organisations, three projects, three chats; four moves of the user.
SPECIFICATION ShellSpec
CONSTANTS
  None = None
  home = home
  other = other
  mine = mine
  theirs = theirs
  later = later
  Org = {home, other}
  Project = {mine, theirs, later}
  Chat = {c1, c2, c3}
  First = home
  Had <- MCHad
  MaxGestures = 4
  MaxPending = 2
INVARIANTS
  OwnScope
  SelectionMirrorsRoute
  RedirectStaysHome
PROPERTY ProjectOpensAChat
CHECK_DEADLOCK FALSE
