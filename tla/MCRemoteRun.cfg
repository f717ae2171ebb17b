SPECIFICATION FairSpec
CONSTANTS
  Prompts = {1, 2}
  Permits = 2
  UiBuffer = 1
  MaxWork <- MCMaxWork
CHECK_DEADLOCK FALSE
 
PROPERTIES RunsArePublished RunSettles
