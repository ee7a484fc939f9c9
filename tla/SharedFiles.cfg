\* Files: each of the four with two entries, of different workspaces or one of them
\* known from the agent's workspace where that matters; two requests in flight of
\* three, and one fault.
\* Rooms: two requests at a time and five of them that await a body, enough for a
\* link, two uploads and two events, or for two entries by one address, in any
\* overlap with deletions of rooms, documents and links.
SPECIFICATION SpecOfEither
CONSTANTS
    Keys = {k1, k2}
    Values = {e1, e2}
    None = None
    Absent = Absent
    Cut = Cut
    Elsewhere = {k2}
    Enriched = {k2}
    Slots = {q1, q2}
    MaxRequests = 3
    MaxFaults = 1
    Rooms = {r1, r2}
    Emails = {e1, e2}
    Handlers = {q1, q2}
    MaxBodies = 5
    MaxClock = 1
    MaxLinks = 1
    MaxDocs = 2
    MaxVisitors = 2
    MaxEvents = 2
SYMMETRY Symmetry
INVARIANTS
    TypeOK AnswersAreKept EnvStaysWhole RowAgreesWithConfig
    RoomsTypeOK DocumentHasItsFile VisitsAreTrue
CHECK_DEADLOCK FALSE
