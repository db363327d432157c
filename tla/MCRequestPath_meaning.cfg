SPECIFICATION Spec
CONSTANTS
  a = a
  b = b
  Urls = {a, b}
  NoUrl = NoUrl
  Absent = Absent
  Junk = Junk
  None = None
  MaxReferences = 3
  Workflow = "both"
  VideoBodies <- MCVideoBodies
  ImageBodies <- MCImageBodies
INVARIANTS ModesApart FramesInPlace ReferencesInOrder ChargeFollowsClip GeometryAccepted ImagesAccounted
CHECK_DEADLOCK FALSE
