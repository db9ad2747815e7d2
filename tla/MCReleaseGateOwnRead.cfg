SPECIFICATION Spec
INVARIANT GateReflectsOwnRead
CONSTANT Requests = {q1, q2}
