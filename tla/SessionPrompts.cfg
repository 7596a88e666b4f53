SPECIFICATION FairSpec
CONSTANTS
  Nights <- MCNights
  Requests = {r1, r2}
  NoRequest = NoRequest
  SampleDreams = 2
  Seams <- MCSeams
CHECK_DEADLOCK FALSE
INVARIANTS PromptListsSummarised VerdictsFit
PROPERTIES EveryRequestEnds
