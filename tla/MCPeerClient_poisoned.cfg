SPECIFICATION Spec
CONSTANTS
    Tasks = {t1}
    Calls = {"resolve"}
    Interval = 2
    MaxVersion = 2
    None = None

PROPERTIES
    RaisesOnlyWithoutExtension
