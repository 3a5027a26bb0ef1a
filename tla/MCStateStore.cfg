SPECIFICATION Spec
CONSTANTS
    Procs = {p1, p2}
    Nobody = Nobody
    MaxWrites = 4
SYMMETRY ProcSymmetry
INVARIANTS
    ConfirmedWriteSurvives
    BackupBeforeMigration
    NoLostUpdate
    ReportedDurability
PROPERTY
    FileSpec
