\* A window of two ticks, and two requests of one client.
CONSTANTS
  Attempts = {r1, r2}
  Addresses = {a}
  Identities = {i}
  Limit = 1
  Window = 2
SPECIFICATION LimiterSpec
INVARIANT ToldWhenTheWindowResets
