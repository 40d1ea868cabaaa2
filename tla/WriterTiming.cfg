\* Five records per batch and an interval of eight ticks: the timer can be
\* restarted four times, at any of eight moments.
CONSTANTS
    BatchSize = 5
    FlushInterval = 8
SPECIFICATION Spec
INVARIANTS
    AgeBound
