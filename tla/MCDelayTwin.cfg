\* Two clicks, a press of the button and a lost message; a delay of two Ticks.
SPECIFICATION FairSpec
CONSTANTS
    Duration = 2
    Tries = 2
    NoTime = never
    never = never
    MaxClicks = 2
    MaxPresses = 1
    MaxFaults = 1
    MaxWire = 2
INVARIANTS DelayShownOn
PROPERTIES TwinSettles
