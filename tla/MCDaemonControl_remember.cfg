SPECIFICATION Spec
CONSTANTS
    Daemons = {d1, d2}
    Configs = {c1, c2}
    NoOne = NoOne
    NoConfig = NoConfig
    Edited = {}
    Contested = {}
    MaxGeneration = 1
PROPERTIES PathRemembered
