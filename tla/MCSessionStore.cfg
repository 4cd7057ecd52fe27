\* Every process may have run its course: no deadlock check.
SPECIFICATION Spec
CONSTANTS
  Proc = {p1, p2, p3}
  Workdir = {home, away}
  Templated = {p2}
  Approving = {p1}
  Root = {p3}
  TemplateId = tpl
SYMMETRY MCSymmetry
INVARIANTS TypeOK LiveIsRunning OnlyInherited SameDirectory WrittenWhole
CHECK_DEADLOCK FALSE
