CONSTANTS
    Packets <- MCQueries
    AnswerLists <- MCAnswerLists
    Capacity = 52
    MaxJumps = 5
SPECIFICATION WireSpec
INVARIANTS
    ForwardedAsAsked
    ResponsesReadBack
    OnlyTtlsAreRewritten
PROPERTIES
    EveryStepAdvances
CHECK_DEADLOCK FALSE
