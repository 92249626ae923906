\* A Models caller beside two requests of the same driver.
SPECIFICATION Spec
CONSTANTS
    c1 = c1
    c2 = c2
    m1 = m1
    Nobody = Nobody
    Callers <- TwoCallers
    Refreshers = {m1}
    Faults = {}
    MaxBatches = 1
    MaxRecreations = 1
PROPERTIES
    PromptMatchesSession
CHECK_DEADLOCK FALSE
