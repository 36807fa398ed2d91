SPECIFICATION FairSpec
CONSTANTS
  Ids = {w1}
  Defs = {d1, d2}
  Orgs = {o1, o2}
  Requests = {r1, r2}
  Execs = {e1, e2, mail}
  Emailed = {mail}
  Rowless = {e2}
  None = None
  MaxOps = 2
  MaxTries = 2
INVARIANTS TypeOK RecordsAgree ChangesAddUp TornOnlyByRace
PROPERTIES OrgIsolation ImplementsDefinitionStore Heals
CHECK_DEADLOCK FALSE
