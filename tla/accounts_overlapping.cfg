SPECIFICATION Spec
CONSTANTS
  Handlers = {c1, c2}
  Texts <- MCTexts
  Folded <- MCFolded
  UserNames = {"bob"}
  Mails = {"Ann", "bob"}
  DefaultTags <- MCDefaultTags
  CustomTags = {"food", "gym"}
  Ann = "ann"
  MaxUsers = 3
  MaxTags = 4
  MaxRequests = 2
  MaxFaults = 1
SYMMETRY Symmetry
INVARIANTS UsersCanLogIn LosersAreTold OnboardedHaveSettings DefaultTagsTogether
PROPERTY TagsInUseStay
