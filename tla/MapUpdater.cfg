CONSTANTS
    dungeons = dungeons
    fields = fields
    dungeon1 = dungeon1
    dungeon2 = dungeon2
    field = field
    None = None
    Workers = {w1, w2}
    Bases = {dungeons, fields}
    Instances = {dungeon1, dungeon2, field}
    Battlegrounds = {field}
    Parent <- MCParent
SPECIFICATION Spec
INVARIANTS WorldAlone NoDeletedMap OneUpdater UpdatedOnce
PROPERTIES PassEnds ShutdownEnds
CHECK_DEADLOCK FALSE
