SPECIFICATION SpecRetried
CONSTANTS
  Handlers = {c1}
  Texts <- MCTexts
  Folded <- MCFolded
  UserNames = {"bob"}
  Mails = {"Ann", "bob"}
  DefaultTags <- MCDefaultTags
  CustomTags = {"food", "gym"}
  Ann = "ann"
  MaxUsers = 3
  MaxTags = 4
  MaxRequests = 0
  MaxFaults = 1
PROPERTY OnboardingCompletes
