CONSTANTS
    RT_MQ_NUM_LORA_SEND = 3
    MaxData = 3
SPECIFICATION Spec
INVARIANTS
    StrictAlternation
