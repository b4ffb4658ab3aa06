\* Every input of up to four lines.
CONSTANTS
    MaxLines = 4
SPECIFICATION Spec
INVARIANTS
    PutAnswersTruthful
    AnswersNamed
    ClientsClosed
\* The program ends.
CHECK_DEADLOCK FALSE
