\* One person with a browser; two requests at a time.
SPECIFICATION Spec
CONSTANTS
  alice = alice
  b1 = b1
  r1 = r1
  r2 = r2
  github = github
  lf = lf
  None = None
  Emails = {alice}
  Browsers = {b1}
  Requests = {r1, r2}
  Flows = {github, lf}
  OidcFlows = {lf}
  Configurations <- MCConfigurations
  MaxSessions = 3
  MaxPasswords = 2
SYMMETRY Symmetry
INVARIANTS
  OpenedWithPresentPassword
  LoggedInIsVerified
  UnverifiedHaveCodes
  AnswersOneRedirect
PROPERTIES
  EndedStaysEnded
  IdsChangeAtLogIn
