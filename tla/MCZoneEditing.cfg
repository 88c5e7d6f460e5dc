CONSTANTS
    e1 = e1
    e2 = e2
    r1 = r1
    Editors = {e1, e2}
    Readers = {r1}
    Views = {"create", "edit", "delete", "create_zone", "domains_zone", "delete_zone", "import", "dmarc", "gsuite", "github", "create_secret", "edit_secret", "delete_secret"}
    Vals = {"a"}
    MaxTime = 1
    MaxIds = 2
    InitRecs = 1
    WizardRecords = 1
    MaxImport = 1
    MaxSecrets = 1
SYMMETRY EditorSymmetry
VIEW StoreView
SPECIFICATION Spec
INVARIANTS
    TypeOK
