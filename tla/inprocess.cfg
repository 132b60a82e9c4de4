SPECIFICATION FairSpec
CONSTANTS
    Activities = {a0, a1, a2}
    Root = a0
    Runs = {r1, r2}
    Deliveries = {d1}
    NoRun = NoRun
    Main = Main
    NoLoop = NoLoop
    MaxEdits = 1
INVARIANTS
    TypeOK
    ContextOfRun
    LostOnlyWithLoop
    DeliveredAsPushed
PROPERTIES
    EveryDeliveryEnds
\* The run ends with the process.
CHECK_DEADLOCK FALSE
