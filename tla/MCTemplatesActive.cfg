CONSTANTS
  TemplateIds = {r1, r2}
  Tests = {g1}
  Editors = {a1, a2}
SPECIFICATION TemplatesSpec
INVARIANT AlwaysOneActive
