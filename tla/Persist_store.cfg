\* Two slots of two sectors; the second part wraps its counter and loads from
\* slots that may not be readable.
SPECIFICATION StoreSpec
CONSTANTS
  Slots = 2
  Sectors = 2
  SeqMod = 100
  Contents = {dflt, big}
  Oversize = {big}
  Absent = absent
  Default = dflt
  DefaultFiles = {2}
  BootFile = 2
  Nothing = nothing
  ReadErrors = FALSE
  MaxSeq = 3
INVARIANTS LoadsRecover ActiveSlotValid WriteInFlight
PROPERTIES ActiveSlotUntouched KeepsPromise
