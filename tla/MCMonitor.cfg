SPECIFICATION FairSpec
CONSTANTS
  BUFLEN = 6
  MAXARGS = 3
  Letters = {"h", "x"}
  Commands <- MCCommands
INVARIANTS TypeOK RunsWhatIsShown RefusesOnlyLong DelOnlyFirst
PROPERTY BackToPrompt
