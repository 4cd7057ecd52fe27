\* Every process may have run its course: no deadlock check.
SPECIFICATION Spec
CONSTANTS
  Proc = {p1, p2, p3}
  Workdir = {home}
  Templated = {}
  Approving = {}
  Root = {}
  TemplateId = tpl
INVARIANT ResumedOnce
CHECK_DEADLOCK FALSE
