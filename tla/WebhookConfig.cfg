\* Two installs and an admin, at most two handlers at once, a row that may
\* predate secrets and then be the installs' or an admin's, an https and an http
\* URL, two admin requests, edit forms as old as one likes.
SPECIFICATION FairSpec
CONSTANTS
  i1 = i1
  i2 = i2
  a1 = a1
  s1 = s1
  h1 = h1
  NoUrl = nourl
  Install <- MCInstall
  Admin <- MCAdmin
  Url <- MCUrl
  HttpUrl <- MCHttp
  ClientUrl <- MCUrl
  Legacy <- MCLegacy
  Threads = 2
  MaxOps = 2
INVARIANTS
  ChannelIsComplete
  HttpNeedsOptIn
  AdminSecretsRetire
PROPERTIES
  AdminUrlIsLocked
  PlainSaveKeepsWebhook
  SettledStaysSettled
  ChannelHeals
