\* Two changes of the data and a failure, or two requests of an administrator.
CONSTANTS
    Setup = 1
    Manager = 1
    Last = 4
    Entities = {academy, system}
    Own = academy
    Slots = {1, 2, 3}
    Automations = {a1}
    Admins = {u1}
    Choices = {"COMPLETED", "CANCELLED"}
    MaxRequests = 2
    MaxChanges = 2
    MaxStops = 1
    None = None
SPECIFICATION SettlingSpec
PROPERTY Settles
