SPECIFICATION LiveSpec
CONSTANTS
  Uploads = {u1, u2, u3}
  MaxBytes = 2
  MaxTotal = 3
  Ttl = 1
  Skew = 1
INVARIANTS TypeOK BudgetIsSound
PROPERTIES AnswersStayTrue ImplementsContract EverythingGoes
