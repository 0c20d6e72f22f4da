SPECIFICATION Spec
CONSTANTS
  EnvFiles <- MCTemplate
  Environments <- MCEnvironments
  Unset = Unset
  Blank = Blank
  url = url
  url2 = url2
  Urls = {url, url2}
CHECK_DEADLOCK FALSE
INVARIANTS
  VerifierAddressIsUsed
