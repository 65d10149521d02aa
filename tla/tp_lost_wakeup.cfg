\* Two workers, jobs that may block: a job waits while a worker sleeps.
SPECIFICATION BlockingSpec
CONSTANTS
    Workers = {w1, w2}
    Main = main
    Free = free
    MaxJobs = 2
    MaxSpurious = 0
PROPERTIES
    IdleWorkerServes
