\* Five threads: two readers and two writers can sleep while another runs.
CONSTANTS
  t1 = t1  t2 = t2  t3 = t3  t4 = t4  t5 = t5
  Threads = {t1, t2, t3, t4, t5}
SPECIFICATION FairSpec
INVARIANTS MutualExclusion NoLostWakeup
PROPERTIES ImplementsRWLock AnnouncedWriterGetsIn ReadersGetInAfterWriters
