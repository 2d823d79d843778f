SPECIFICATION RotationSpec
CONSTANTS
    Companies = {t1, t2}
    Columns = {gst, pan}
    Numbers = {n1}
    NoNumber = NoNumber
PROPERTY RotationIsWhole
CHECK_DEADLOCK FALSE
