\* A host that is reachable for one of three runs.
SPECIFICATION Spec
CONSTANT
  Plans <- JudgedPlans
INVARIANT
  UnreachableHostCannotFlunk
