\* The commands that read; a request that is answered stops.
CONSTANTS
  WordsOf <- MCTexts
  MAX_CHAIN = 2
  MAX_TIME = 100
  Required <- MCRequired
  Cli <- MCCli
  Messages <- MCMessages
  Lookups <- MCLookups
  Lineages <- MCLineages
  Evidences <- MCEvidences
  Agendas <- MCAgendas
  Times <- MCTimes
  Inputs <- MCInputs
  Repos <- MCRepos
SPECIFICATION ReadSpec
INVARIANTS GateIsHonest RecallIsHonest ReadersAgree PromotionIsEarned DeadlinesAreCalendarDays CouncilBlocksAtItsLimits SkillsCanBeFollowed
CHECK_DEADLOCK FALSE
