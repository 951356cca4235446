SPECIFICATION SpecDefaultEntry
CONSTANTS
  Slots = 2
  Sectors = 2
  SeqMod = 100
  Contents = {dflt, big}
  Oversize = {big}
  Absent = absent
  Default = dflt
  DefaultFiles = {2}
  BootFile = 2
  Nothing = nothing
  ReadErrors = FALSE
  MaxSeq = 4
PROPERTIES BootKeepsFiles
