\* Profiles and the band cache over crashes and failing statements.
SPECIFICATION Spec
CONSTANTS
  Ids <- MCIds
  Docs <- MCDocs
  Ttl <- MCTtl
  Discovering = {"shipped"}
  FileId = "fm650"
  FileDoc = "shipped"
  CfgId = "fm650"
  Clip <- MCClip
  None = None
  MaxGen = 1
  MaxTime = 1
INVARIANTS
  TypeOK
  ActiveResolvable
  NoInheritedBands
  BandsNeverGoBack
