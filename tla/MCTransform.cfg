SPECIFICATION Spec
CONSTANTS
  t1 = t1
  t2 = t2
  ctl = ctl
  one = one
  two = two
  Binary = Binary
  Texts = {t1, t2, ctl, one, two}
  Unprintable = {ctl}
  Lossy = t1
  LengthOf <- MCLengthOf
  Rules <- MCRules
  Responses <- MCResponses
  MaxRules = 2
CHECK_DEADLOCK FALSE
INVARIANTS TypeOK TwoPassesAreOne ContentLengthHonest RewriteSeesPlaintext
