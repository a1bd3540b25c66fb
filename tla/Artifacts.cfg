SPECIFICATION MCSpec
CONSTANTS
    Dirs <- MCDirs
    Files <- MCFiles
    Links <- MCLinks
    Top = "top"
    Names <- MCNames
    Target <- MCTarget
    Tree <- MCTree
    Content <- MCContent
    ManifestParent <- MCManifestParent
    Requests <- MCRequests
    None = None
    MaxHops = 2
    MaxChanges = 2
    Manifest <- MCManifest
    Payloads <- MCPayloads
    Width = 168
    MaxKey = 5
    MaxChannel = 3
    GroupRows = 3
    RowCaps <- MCRowCaps
    Absent = Absent
    MaxEdits = 2
INVARIANTS
    AcceptedLayBeneathRoot
    HashCoversTheRows
    CertifiedMeansTiled
    LayoutsAgree
CHECK_DEADLOCK FALSE
