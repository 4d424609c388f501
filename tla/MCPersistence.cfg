SPECIFICATION Spec
CONSTANTS
    MaxRecords = 8
    RecordsPerSector = 4
    ManifestSectors = 3
    DataSectors = 3
    Text <- Texts
    Images <- LifecycleImages
INVARIANTS
    TypeOK
    AckedRootIntact
    MountSucceeds
PROPERTIES
    NoRollback
    RootsAtomic
