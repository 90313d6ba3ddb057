SPECIFICATION FairSpec
CONSTANTS
    Runs <- MCPair
    Intents <- MCOne
    Threshold = 2
    Cooldown = 1
PROPERTY RepeatedFailureStops
