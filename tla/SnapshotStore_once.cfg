SPECIFICATION Spec
CONSTANTS
    PluginCount = 2
    Installed = {2}
    Endpoints = {1, 2}
    turn1 = turn1
    job1 = job1
    Holders = {turn1, job1}
    Forks = {job1}
    MaxSnapshots = 3
    MaxMishaps = 0
    Publisher = Publisher
INVARIANTS DisposedOnce
