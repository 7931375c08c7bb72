CONSTANTS
    Circumstances = {{}, {"early"}, {"clock"}, {"freed"}, {"lineout"}, {"fixed"}}
    MaxChanges = 4
SPECIFICATION Spec
INVARIANTS OneOutput
PROPERTIES MicFollows MicNotEarly SpeakerFollows
CHECK_DEADLOCK FALSE
