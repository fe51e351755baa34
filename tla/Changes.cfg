SPECIFICATION ChangesSpec
CONSTANTS
    Sides = {1, 2}
    Msgs = {1, 2}
    Author <- MCAuthor
    AnswerTo <- MCAnswerTo
    Starts <- MCStarts
    MaxSkew = 1
    Week = 1
    MaxChanges = 2
    MaxNow = 1
    Setbacks = 1
INVARIANTS
    AnswersFollow
    ReactionsAgree
    NeighboursHeard
CHECK_DEADLOCK FALSE
