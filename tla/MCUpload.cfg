SPECIFICATION UploadSpec
CONSTANTS
  Chunks = 3
  LineDepth = 3
  Absent = Absent
  Carried = Carried
CONSTRAINT FewReplies
INVARIANTS
  ConfirmedIsKept
  SuccessIsReal
  FailureHasReason
