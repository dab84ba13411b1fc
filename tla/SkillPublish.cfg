SPECIFICATION PublishSpec
CONSTANTS
    t1 = t1
    t2 = t2
    n1 = n1
    n2 = n2
    n3 = n3
    d1 = d1
    d2 = d2
    Tag = {t1, t2}
    Name = {n1, n2, n3}
    Digest = {d1, d2}
    Plans <- MCPlans
    URLs <- MCURLs
    NoURL = NoURL
    Disks <- MCDisks
    Limit = 2
    MaxBreaks = 1
    MaxManual = 1
    NoFile = NoFile
    NoAsset = NoAsset
    Partial = Partial
INVARIANTS PublishTypeOK DoneMeansDownloadable UploadsFit VerdictIsFounded ServerErrorIsRetried
PROPERTIES ArchivesArePermanent RetriesComplete
CHECK_DEADLOCK FALSE
