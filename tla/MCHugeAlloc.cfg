CONSTANTS
    k_min_class_size = 2
    k_num_classes = 3
    kHugepageSize = 4
    InitialSize = 8
    Hugepages = 13
    MaxUser = 2
    Sizes = {2, 3, 8}
    RawSizes = {3}
SPECIFICATION Spec
INVARIANT EveryByteOnce
INVARIANT SmallestClass
CHECK_DEADLOCK FALSE
