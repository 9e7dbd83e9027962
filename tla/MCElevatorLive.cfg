CONSTANTS
    p1 = p1
    p2 = p2
    p3 = p3
    Person = {p1, p2}
    elevator = elevator
    numFloors = 3
    maxOccupancy = 1
    elevatorDelay = 2
    Garbage = {0}
SPECIFICATION FairElevatorSpec
PROPERTIES
    JourneysEnd
