SPECIFICATION Spec
CONSTANTS
  Scenarios <- ForwardedScenarios
PROPERTY Converges
