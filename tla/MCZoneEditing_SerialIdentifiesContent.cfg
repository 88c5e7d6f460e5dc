CONSTANTS
    e1 = e1
    e2 = e2
    r1 = r1
    Editors = {e1}
    Readers = {r1}
    Views = {"import", "dmarc", "gsuite", "github"}
    Vals = {"a", "mx"}
    MaxTime = 1
    MaxIds = 3
    InitRecs = 1
    WizardRecords = 2
    MaxImport = 2
    MaxSecrets = 1
SPECIFICATION Spec
PROPERTIES
    SerialIdentifiesContent
