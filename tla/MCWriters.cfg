CONSTANTS
  None = None
  MaxVolume = 1
  VolumeStep = 1
  Profile = {"template", "own", "sms"}
  SmsProfile = {"sms"}
  Expand <- MCExpand
  Default <- MCDefault
SPECIFICATION WritersSpec
INVARIANTS
  VolumesAgree
  SavedIsKept
  LockIsFinal
PROPERTIES
  LockedIsFixed
