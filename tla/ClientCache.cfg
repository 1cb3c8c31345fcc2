\* Two remote changes (one of a single field), one mutation, one break.
SPECIFICATION CacheSpec
CONSTANTS
  Remote = {w1, w2}
  Partial = {w2}
  Own = {m1}
  Base = base
  None = None
  Unread = Unread
  Kinds = {"list", "detail", "timeline", "messages"}
  MaxBreaks = 1
INVARIANTS CacheTypeOK CacheConverges
CHECK_DEADLOCK FALSE
