CONSTANTS
  mac = mac
  other = other
  portal = portal
  name = name
  url = url
  None = None
  Owner = mac
  Others = {other}
  Portals = {portal}
  Columns = {name, url}
  Shared = url
  Drafts <- MCDrafts
  Kinds = {"upsert", "delete", "remove", "restore", "snapshot"}
  MaxOps = 3
SPECIFICATION MCSpec
CHECK_DEADLOCK FALSE
INVARIANTS OperationsOnce
PROPERTIES StaysDeleted ExistingKept
