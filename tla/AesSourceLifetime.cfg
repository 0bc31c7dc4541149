SPECIFICATION Spec
CONSTANTS
    BufSize = 3
    KeyBudget = 6
    KeyLifetime = 2
    Draws = {1, 4}
    MaxKeys = 2
    MaxTime = 3
PROPERTY BufferedWithinLifetime
