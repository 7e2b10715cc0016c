\* Three profiles.  Thirteen requests are enough for each, four for none; the
\* run's twelve are not if a connection of the longest one fails over.
SPECIFICATION FairSpec
CONSTANTS
    Profiles = {"plain", "auth", "json"}
    MaxChoices = {4, 13}
    Addresses = 2
    FailoverBound = 1
    RunBudget = 12
    Answers <- MCAnswers
\* The run has ended.
CHECK_DEADLOCK FALSE
INVARIANTS
    TypeOK
    LedgerIsValid
    ChargesReconcile
PROPERTIES
    CutConcludes
