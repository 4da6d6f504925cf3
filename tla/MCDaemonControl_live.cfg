SPECIFICATION LiveSpec
CONSTANTS
    Daemons = {d1, d2}
    Configs = {c1}
    NoOne = NoOne
    NoConfig = NoConfig
    Edited = {c1}
    Contested = {}
    MaxGeneration = 1
PROPERTIES LossNoticed CommandsReturn
