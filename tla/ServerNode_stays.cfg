CONSTANTS
    Servers = {s1}
    Faults = {}
SPECIFICATION Spec
PROPERTIES StaysRegistered
