SPECIFICATION MCSpec
CONSTANTS
    a = a
    b = b
    Subs = {a, b}
    Members <- MCMembers
    Policy <- MCPolicy
    Deadline = 1
    RetireTime <- MCRetireTime
    NoRow = NoRow
    MaxClock = 1
    MaxEvents = 1
    MaxOps = 1
    MaxCrashes = 1
PROPERTIES
    WhatIsDueEnds
    RegisteredIsConsumed
CHECK_DEADLOCK FALSE
