SPECIFICATION ChoiceSpec
CONSTANTS
  Iso = {"ubuntu", "debian"}
  Override = {"debug"}
  None = None
  Torn = Torn
PROPERTY
  SavedCopyIsWhole
