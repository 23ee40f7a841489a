SPECIFICATION Spec
CONSTANTS
  Subjects <- MCSubjects
  Bodies <- MCBodies
  TemplateIds = {"t2"}
  MailingIds = {"m1"}
  Paths = {"f1"}
  DataFiles <- MCDataFiles
  Lists <- MCLists
  Addresses <- MCAddresses
  MaxBacks = 1
  Mailings = {"m1", "m2"}
  MaxSent = 1
  TagNames <- MCTagNames
  NewName <- MCNewName
  FirstTags <- MCFirstTags
  HiddenSets = {{}, {2}}
  MaxNew = 2
  MaxTagEdits = 2
  Tags = {1, 2}
  HiddenTags = {2}
  Mails = {"m1", "m2"}
  FirstMail <- MCFirstMail
  BatchSize = 1
  MaxChanges = 4
  Logins = {"bob", "eve", "ops"}
  Names = {"Bob", "Eve"}
  Passwords = {"p"}
  FirstRoles <- MCFirstRoles
  FirstUsers <- MCFirstUsers
  Me = 1
  Abilities <- MCAbilities
  object_permissions <- MCPermissions
  PublicConnect = FALSE
  MaxEdits = 3
  Files <- MCFiles
  FirstImports <- MCFirstImports
  MaxImports = 2
  MaxJobs = 1
  MaxClicks = 2
  Titles = {"a", "b", "c"}
  Sqls = {"s", "t"}
  Panels = {"w"}
  Unique = TRUE
  MaxOthers = 1
INVARIANTS
  TypeOK
  MailingAsPrepared
  WindowAgrees
  TagsAgree
  QuickCounts
  AccountAsEdited
  UploadIsWhole
  CacheMatchesTable
CHECK_DEADLOCK FALSE
