SPECIFICATION Spec
CONSTANTS
    t1 = t1
    main = main
    a1 = a1
    None = None
    Tasks = {t1}
    Agents = {main, a1}
    Main = main
    Kinds = {"UserPromptSubmit", "Stop", "PermissionRequest", "PostToolUse",
             "TaskCompleted", "IdlePrompt", "StopFailure"}
    ChanCap = 1
    MaxPosts = 1
    MaxEvents = 2
INVARIANTS
    Inv
    ShowsNewest
    PermissionShown
    CompletedShowsDone
PROPERTIES
    EventsTaken
    StopAnswered
    ExitEnds
CHECK_DEADLOCK FALSE
