SPECIFICATION Spec
CONSTANTS
    p1 = p1
    p2 = p2
    r1 = r1
    g1 = g1
    g2 = g2
    g3 = g3
    g4 = g4
    Installers <- MCInstallers
    Runners <- MCRunners
    Gens <- MCGens
    maxGenerations = 2
    MaxManagers = 2
SYMMETRY Symmetry
INVARIANTS
    LeaseProtects
    PublicWorks
    Recoverable
   
