CONSTANTS
    ConfigMode = "live_trade"
    NoValue = NoValue
SPECIFICATION Spec
INVARIANTS TypeOK RowConsistent UnhaltFindsHalt ReadonlyObeyed
PROPERTIES HaltSticky HaltOrStop RowMovesLegally ImplementsKillSwitch
