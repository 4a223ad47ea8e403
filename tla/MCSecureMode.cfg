SPECIFICATION SecureSpec
CONSTANTS
  Users = {"local"}
  Contexts <- SomeContexts
  RemoteStatuses = {"OK", "IN_PROGRESS", "OFFLINE", "NOT_DEVICE_OWNER"}
  MaxLogins = 1
INVARIANTS
  SecureHasContext
  PasswordsForgotten
  HashFilesExplained
  OkMeansDone
  InProgressIsAnswered
PROPERTIES
  LockHolds
  LockedScreenReturns
