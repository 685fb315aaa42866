CONSTANTS
  Teams <- MCTeams
  Scripts <- MCScripts
SPECIFICATION MCSpec
INVARIANTS
    Connected
    TalkInStep
PROPERTIES
    Completes
