CONSTANTS
    Tasks = {agent, flashTask, other}
    NoTask = NoTask
SPECIFICATION Spec
INVARIANTS
    TypeOK
    OneOwner
    OwnOperationOver
    StatusIsOwners
PROPERTY AccessComesBack
