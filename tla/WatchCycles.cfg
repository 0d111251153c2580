SPECIFICATION FairSpec
CONSTANTS
  Targets = {1, 2}
  Scores = {20, 21, 24}
  Seeds = {1}
  Profiles = {1, 2}
  PromoteAfter = 2
  DemoteAfter = 2
  Margin = 10
  Cooldown = 3
  Backups = 1
  CanResample = TRUE
  FailIfNone = FALSE
  FailOnAlert = TRUE
INVARIANTS
  PublishedSound
  FilesAgree
PROPERTIES
  PromotionEarned
  Converges
