SPECIFICATION Spec
CONSTANTS
  Scenarios <- MCScenarios
INVARIANTS
    StaleKnowsIt
    NeverOlderThanLabel
PROPERTIES
    Converging
