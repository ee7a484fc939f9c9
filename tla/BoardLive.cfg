\* One task and two statuses, a drop and a change or two changes, two fetches in
\* flight, one attempt before the stream is given up.
CONSTANTS
    t1 = t1
    f1 = f1
    f2 = f2
    d1 = d1
    Tasks = {t1}
    Todo = Todo
    Done = Done
    Status = {Todo, Done}
    None = None
    Fetches = {f1, f2}
    Drops = {d1}
    MaxAttempts = 1
    MaxChanges = 2
SPECIFICATION FairSpec
INVARIANTS TypeOK ShownWasTrue NewsHasASource
PROPERTIES PollingCatchesUp
CHECK_DEADLOCK FALSE
