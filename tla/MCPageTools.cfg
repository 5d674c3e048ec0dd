SPECIFICATION Spec
CONSTANTS
  u1 = u1
  u2 = u2
  blank = blank
  d1 = d1
  d2 = d2
  d3 = d3
  k1 = k1
  k2 = k2
  None = None
  Pages <- MCPages
  BlankPage <- MCBlank
  Blocked <- MCBlocked
  PopupPages <- MCPopupPages
  Key <- MCKey
  Struct <- MCStruct
  MaxEntries = 1
  AutoDismiss = TRUE
  Used <- ToolNames
  Env = {"between", "death", "cancel"}
INVARIANTS
  RefsAreShown
  AnswerDescribesPage
  LruSound
PROPERTIES
  KeepsContract
