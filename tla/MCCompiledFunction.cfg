CONSTANTS
  Bodies <- MCBodies
  Inputs <- MCInputs
  Methods <- MCMethods
  JavaFuel = 20
  Fuel = 80
SPECIFICATION Spec
INVARIANTS
  CompiledAsJava
  UsesExact
