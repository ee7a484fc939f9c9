\* Two rows, an agent, two projects and one task of the Conductor; four
\* requests beside a write of the file, failing reads and any number of
\* restarts.
CONSTANTS
    t1 = t1
    t2 = t2
    a1 = a1
    Tasks = {t1, t2}
    Agents = {a1}
    General = General
    Company = Company
    Projects = {General, Company}
    k1 = k1
    Keys = {k1}
    None = None
    Unset = Unset
    Requested = {"inbox", "done"}
    Reported = {"running", "merged"}
    MaxOps = 4
    MaxVersions = 2
SYMMETRY Symmetry
SPECIFICATION Spec
INVARIANTS TypeOK OneTaskPerKey HashIsHonest
PROPERTIES GateHonoured
CHECK_DEADLOCK FALSE
