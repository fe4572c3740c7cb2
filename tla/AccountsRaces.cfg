\* Three requests for overlapping slugs and addresses.
CONSTANTS
  r1 = r1  r2 = r2  r3 = r3
  Req = {r1, r2, r3}
  None = None  Somebody = Somebody
  Spelling <- Spellings
  Lower <- LowerCase
  Name <- Names
  Slug <- SlugTexts
  MaxSuffix = 3
  Candidate <- Candidates
  Call <- Calls
SPECIFICATION Spec
INVARIANTS TypeOK OwnerExists AnswersAreTrue
PROPERTIES RegistrySpec Answered
\* Every request may be done.
CHECK_DEADLOCK FALSE
