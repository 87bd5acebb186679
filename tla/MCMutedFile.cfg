\* One file whose directive hides findings of the other: a single runner, no edits needed.
SPECIFICATION Spec
CONSTANTS
  None = None
  Rules <- MCRules
  RuleOrder <- MCRuleOrder
  OriginOf <- MCOriginOf
  CanonOf <- MCCanonOf
  CategoryMap <- MCCategoryMap
  Curated = {"spell"}
  FileList <- MCFileList
  LanguageOf <- MCLanguageOf
  Contents <- MutedContents
  CommentsIn <- MCCommentsIn
  Providers <- MCProviders
  ProjectScoped = {"leaks"}
  CommentScoped = {"spell"}
  Languages <- MCLanguages
  Unkeyed = {}
  Versions = {1, 2}
  Says <- MCSays
  Configs <- OneConfig
  Baselines <- SomeBaseline
  Ops = {"check"}
  Runners = {r1}
  MaxEvents = 0
  r1 = r1
  r2 = r2
INVARIANT
  DirectiveStaysInItsFile
