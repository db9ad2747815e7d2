SPECIFICATION Spec
CONSTANT Requests = {q1, q2}
SYMMETRY Interchangeable
VIEW WhatDecides
INVARIANT SignOffOnFreshRules
PROPERTY SignOffOverridesNothing
