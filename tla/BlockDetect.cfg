SPECIFICATION Spec
CONSTANTS
    Main = Main
    Backup = Backup
INVARIANTS TypeOK MarkRight VerdictOfThisLook FirstLookTrue
