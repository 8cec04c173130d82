\* Two readers and a session. Nothing told apart depends on what is selected, so
\* each kind of selection has one value.
CONSTANTS
    Clients = {v1, v2}
    Sessions = {s1}
    Sources <- MCSources
    ChosenSources = {1}
    ChosenQualities = {"hd"}
    ChosenLanguages = {"es"}
    Priority <- MCPriority
    SavedProgress <- MCSavedProgress
    Ttl = 1
    MaxRead = 1
    MaxTime = 3
    None = None
SPECIFICATION Spec
SYMMETRY Symmetry
INVARIANTS
    AnswersYoung
    ChoicesAgree
    CompletedIfWatched
CHECK_DEADLOCK FALSE
