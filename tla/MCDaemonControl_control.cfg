SPECIFICATION Spec
CONSTANTS
    Daemons = {d1, d2}
    Configs = {c1, c2}
    NoOne = NoOne
    NoConfig = NoConfig
    Edited = {c2}
    Contested = {c2}
    MaxGeneration = 2
SYMMETRY Symmetry
INVARIANTS SettingIsLive SwitchKeepsControl AnswerReleasesAll FailureHasCause OneListener ListedWhileServing
PROPERTIES OldListenerClosed
