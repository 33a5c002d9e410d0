SPECIFICATION FairSpec
CONSTANTS
  MenuPages = {"dashboard", "tasks", "webhooks"}
  Filters = {AllRows, f1}
  AllRows = AllRows
  Long = {AllRows}
  LastNo = 2
  Buttons = {"quick", "raw"}
  MaxClicks = 6
  MaxPending = 2
  Skeleton = Skeleton
INVARIANTS
  TypeOK
  ScreenFits
PROPERTIES
  SubmitsOnce
  WebhooksSettle
CHECK_DEADLOCK FALSE
