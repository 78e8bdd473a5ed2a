CONSTANTS
  literal = literal
  named = named
  sixth = sixth
  a1 = a1
  a2 = a2
  a6 = a6
  w1 = w1
  w2 = w2
  Workers = {w1, w2}
  Hosts = {literal, named, sixth}
  Addresses = {a1, a2, a6}
  AddressesOf <- Resolved
  Literals = {literal}
  V6 = {a6}
  LookupMayFail = FALSE
  Local = {a1}
  Strangers = {a1}
  SequenceStart = 65535
  MaxProbes = 2
  Nothing = Nothing
SPECIFICATION Spec
\* after the last of the probes nothing is left to do
CHECK_DEADLOCK FALSE
INVARIANTS TypeOK SocketsClosed AnswerOfThisProcess
PROPERTIES OwnAnswerCounts RunsAsPromised
