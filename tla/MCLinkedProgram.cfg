SPECIFICATION Spec
CONSTANTS
    CachedClasses <- MCClasses
    CachedInterfaces <- MCInterfaces
    Programs <- MCPrograms
INVARIANTS
    AcceptedProgramIsLegal
    LegalProgramIsAccepted
    TablesAreJava
    LayoutSound
    CyclesAreReported
PROPERTY ProgramAdvances
