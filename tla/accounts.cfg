\* The startup beside two requests or commands; three names, one of them of a
\* demo user, and two rows of demo data.
SPECIFICATION Spec
CONSTANTS
    App = app
    Slots = {s1, s2}
    Names = {boss, ann, bob}
    AdminName = boss
    DemoNames = {ann}
    DemoRows = 2
    RoleArgs = {"admin"}
SYMMETRY Symmetry
INVARIANTS TypeOK CirclesAreSwaps DemoIsWholeOrCutShort
PROPERTIES NameTakenIsTrue FailedCommandsAreDone ImplementsDirectory
