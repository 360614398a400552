SPECIFICATION Spec
CONSTANTS
    Recording = {1, 2}
    NoRec = 0
    Locks = TRUE
    MaxOutages = 1
PROPERTY LaterCarriesOn
