SPECIFICATION Spec
CONSTANTS
    NumCases = 3
    OutputCap = 3
    Answer <- MCAnswer
    Outputs <- MCOutputs
INVARIANTS TypeOK AcceptedOnlyIfAllPass FailureIsTheFirst NoChildOutlivesItsCase SilentOnlyIfBroken MatchIsLookingTheSame
PROPERTY RunEndsByItself
