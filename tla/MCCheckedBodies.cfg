SPECIFICATION Spec
CONSTANTS
    Declared <- MCDeclared
    Packages <- MCPackages
    Imports <- MCImports
    Bodies <- MCBodies
INVARIANTS
    AcceptedBodyIsLegal
    LegalBodyIsAccepted
    ResolvedAsJava
