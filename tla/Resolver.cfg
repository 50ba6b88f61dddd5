SPECIFICATION Spec
CONSTANTS
  Name <- MCName
  QName = "q"
  Answers <- MCAnswers
  Servers = 2
  timeout = 2
  overall_timeout = 3
  MAX_CNAME_HOPS = 2
  MAX_ENDPOINT_CANDIDATES = 2
  TTL_MIN_SECS = 2
  TTL_MAX_SECS = 6
  MaxTtl = 10
INVARIANTS
  FirstUsableAnswer
PROPERTIES
  Ends
