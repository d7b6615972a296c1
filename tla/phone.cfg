SPECIFICATION PhoneSpec
CONSTANTS
  r1 = r1  a = a  b = b
  Relays = {r1}
  MaxAttempts = 1
  MaxCodes = 1
  MaxEpochs = 2
  NoPhone = NoPhone
  Phones = {a, b}
  Intents = 2
  Devices = 2
  MaxToken = 2
CHECK_DEADLOCK FALSE
INVARIANTS TypeOK OneCodePerEpisode LockoutBound EpisodeIsCurrent PairingIsSound RevokedIsOut
PROPERTIES NewerTokenSurvives
