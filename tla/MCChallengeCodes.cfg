SPECIFICATION Spec
CONSTANTS
    CodeTruths = {"sms"}
    QuestionTruths = {}
    TotpTruths = {"totp"}
    Codes = {1, 2}
    RetryCounter = 2
    Rotation <- MCRotation
    IssueValidity <- MCIssueValidity
    AnswerValidity = 3
    MaxTime = 5
CONSTRAINT OneTruthAtATime
CHECK_DEADLOCK FALSE
INVARIANTS TypeOK TriesBounded CodesSpaced AnswerRate
PROPERTY NothingRevives
