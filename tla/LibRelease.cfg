SPECIFICATION Spec
CONSTANTS
    Runs = {r1, r2}
    Boot = boot
    Nobody = nobody
SYMMETRY Perms
INVARIANTS
    RepairIsComplete
    StopHasCause
