CONSTANT Requests = {r1, r2, r3}
SPECIFICATION Spec
INVARIANT MutualExclusion
