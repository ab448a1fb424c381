\* Every operation; two processes at most.
CONSTANTS
    Setup = 1
    Manager = 1
    Last = 4
    Entities = {academy, system}
    Own = academy
    Slots = {1, 2, 3}
    Automations = {a1}
    Admins = {u1}
    Choices = {"COMPLETED"}
    MaxRequests = 1
    MaxChanges = 1
    MaxStops = 1
    None = None
SPECIFICATION DisturbedSpec
INVARIANT TypeOK
INVARIANT OneOpenTask
