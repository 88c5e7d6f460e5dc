CONSTANTS
    e1 = e1
    e2 = e2
    r1 = r1
    Editors = {e1, e2}
    Readers = {}
    Views = {"gsuite", "delete_zone", "domains_zone"}
    Vals = {"a"}
    MaxTime = 1
    MaxIds = 5
    InitRecs = 1
    WizardRecords = 2
    MaxImport = 2
    MaxSecrets = 1
SPECIFICATION Spec
INVARIANTS
    WizardReplacesRecords
