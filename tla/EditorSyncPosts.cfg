\* Posts that arrive in any order; one more file than the overlay has room for.
SPECIFICATION Spec
CONSTANTS
    File = {f1, f2}
    Text = {t1, t2}
    None = None
    MaxEntries = 1
    MaxSaveBatch = 1
    MaxEvents = 4
SYMMETRY Interchangeable
INVARIANTS
    
    EntriesAreCurrent
    SavedFilesAreScheduled
