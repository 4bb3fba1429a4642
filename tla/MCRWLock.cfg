CONSTANT Threads = {t1, t2, t3, t4}
SPECIFICATION FairSpec
INVARIANT MutualExclusion
INVARIANT NoLostWakeup
PROPERTY ImplementsReadersWriters
PROPERTY WriterProgress
PROPERTY ReaderProgress
