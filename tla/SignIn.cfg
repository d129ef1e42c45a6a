CONSTANTS
  Requests = {q1, q2}
  Sessions = {s1, s2}
  Codes = {c1, c2}
  Links = {l1}
  Passwords = {p1, p2}
  Null = Null
  MaxAttempts = 2
  MaxDeaths = 1
SPECIFICATION Spec
SYMMETRY Alike
INVARIANTS OneSessionPerCode ExhaustedCodeCloses SignedInByMailIsVerified AcceptedLinkVerifies DisabledIsSignedOut OldPasswordsAreOut
