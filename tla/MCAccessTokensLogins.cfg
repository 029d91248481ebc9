SPECIFICATION AccessTokensSpec
CONSTANTS
  Tokens = {t1}
  Workers = {w1}
  Keys = {k1}
  FirstKey = k1
  Second = 2
  Ttl = 2
  Leeway = 1
  MaxNow = 4
CHECK_DEADLOCK FALSE
PROPERTY OldLoginsAreRefused
