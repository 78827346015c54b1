SPECIFICATION Spec
CONSTANTS
  a1 = a1
  h1 = h1
  h2 = h2
  h3 = h3
  None = None
  Approvals = {a1}
  Kinds = {"transfer", "contract_add", "addressbook_update"}
  Handlers = {h1, h2, h3}
  MaxFaults = 1
SYMMETRY HandlerSymmetry
INVARIANT AtMostOnce
INVARIANT EffectExclusion
INVARIANT RejectedMeansUnsent
INVARIANT ReportsTruthful
INVARIANT SettledConsistently
PROPERTY VerdictStands
PROPERTY ImplementsPermit
