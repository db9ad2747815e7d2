SPECIFICATION Spec
CONSTANTS
  Requests = {q1, q2}
  Tests = {t1, t2}
  MaxSessions = 2
CONSTRAINT OneKindOfHole
SYMMETRY Interchangeable
INVARIANTS OneActiveSession DeferralsFit CompletesItself RuleCoversLinkedTests
