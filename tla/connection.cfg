SPECIFICATION FairSpec
CONSTANTS
    k1 = k1  k2 = k2  k3 = k3
    t1 = t1  t2 = t2
    p1 = p1
    Conns = {k1, k2, k3}
    NoConn = NoConn
    Main = Main
    Stopper = Stopper
    Timers = {t1, t2}
    Publishers = {p1}
    MaxFailures = 2
CHECK_DEADLOCK FALSE
INVARIANTS TypeOK NeverStuck OneConsumer Undisturbed
PROPERTIES Recovers ConsumerKept
