SPECIFICATION Spec
CONSTANTS
  fmtlog = fmtlog
  fmt = fmt
  Deps = {fmtlog, fmt}
  Pinned = {fmt}
  Selections <- SmallSelections
  MaxCommit = 1
  MaxCommands = 4
  Edits = {edit}
  NoEdit = NoEdit
  Mixed = Mixed
  Absent = Absent
  Partial = Partial
INVARIANT ManifestNamesTree
PROPERTY OldTreeKept
CHECK_DEADLOCK FALSE
