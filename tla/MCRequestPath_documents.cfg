SPECIFICATION Spec
CONSTANTS
  a = a
  b = b
  Urls = {a, b}
  NoUrl = NoUrl
  Absent = Absent
  Junk = Junk
  None = None
  MaxReferences = 3
  Workflow = "both"
  VideoBodies <- MCDocumentedBodies
  ImageBodies <- MCImageBodies
INVARIANTS SomeDocumentHolds
CHECK_DEADLOCK FALSE
