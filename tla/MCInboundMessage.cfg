SPECIFICATION Spec
CONSTANTS
  Client = {c1}
  Language = {ru, en}
  None = None
  Unsupported = Unsupported
  RequestID = {r1}
  MatchID = {m1}
  EnvelopeBytes = {100, 4096}
INVARIANT
  AnswerFitsMessage
