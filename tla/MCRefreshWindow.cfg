SPECIFICATION Spec
CONSTANTS
    SpringForward <- MCSpringForward
    FallBack <- MCFallBack
    FirstHour = 5
    LastHour <- MCLastHour
INVARIANTS
    BoundariesBracketNow
    ScheduleServesEveryDate
CHECK_DEADLOCK FALSE
