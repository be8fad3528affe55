SPECIFICATION Spec
CONSTANTS
    Derived <- Group359
    Configs <- AllConfigs
CHECK_DEADLOCK FALSE
INVARIANTS
    KeysGenuine
    CardsCountVoters
    TablesDecodable
    HonestConfigAccepted
