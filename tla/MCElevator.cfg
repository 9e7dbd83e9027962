CONSTANTS
    p1 = p1
    p2 = p2
    p3 = p3
    Person = {p1, p2, p3}
    elevator = elevator
    numFloors = 3
    maxOccupancy = 2
    elevatorDelay = 3
    Garbage = {0}
SYMMETRY People
SPECIFICATION ElevatorSpec
INVARIANTS
    CrowdExact
PROPERTIES
    DoorsOpenAtRightFloor
