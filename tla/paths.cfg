SPECIFICATION Spec
CONSTANTS
  Names = {"x", "~"}
  MaxDepth = 2
  Others = TRUE
  Arguments <- Strings
INVARIANT TypeOK
PROPERTIES CwdFollowsPwd ChangesWhatItNames ListingExcused
CHECK_DEADLOCK FALSE
