CONSTANTS
    RecvLoopsPerSec = {1}
    UDP_PERIOD = 10
    RT_MQ_NUM = 2
    MaxHangs = 1
    Spinners = {}
SPECIFICATION Spec
INVARIANT TypeOK
INVARIANT NoFalseDeadVerdict
PROPERTY HungThreadRebooted
