\* Two registrations, verifications and wizards, two requests at a time.
SPECIFICATION FairSpec
CONSTANTS
  Tenants = {t1, t2}
  Businesses = {b1, b2}
  Emails = {"Ana@gym", "ana@gym"}
  Lower <- MCLower
  Names = {"spa", "spa-2"}
  Slugs = {"spa", "spa-2"}
  SlugsOf <- MCSlugsOf
  Tokens = {x1}
  Txns = {r1, r2}
INVARIANTS
  VerifiedTogether
  DuplicatesNeedARace
  ActiveByWizard
PROPERTIES
  NoStepBack
  EveryRequestEnds
CHECK_DEADLOCK FALSE
