SPECIFICATION CSpec
CONSTANTS
  Anonymous = Anonymous
  Star = Star
  ann = ann
  bob = bob
  test = test
  p = p
  q = q
  long = long
  Empty = ""
  Unhashable = {long}
  NoFile = NoFile
  Damaged = Damaged
  NoContent = NoContent
  Users <- users
  Texts <- texts
  Saves <- saves
  Default <- default
  AutoCreate = TRUE
  Edits = 2
  Crashes = 2
INVARIANT
  HashedEquivalents
