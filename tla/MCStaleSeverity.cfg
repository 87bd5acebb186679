\* One runner whose second check takes rows that the first stored under another
\* [severity] table.
SPECIFICATION Spec
CONSTANTS
  None = None
  Rules <- MCRules
  RuleOrder <- MCRuleOrder
  OriginOf <- MCOriginOf
  CanonOf <- MCCanonOf
  CategoryMap <- MCCategoryMap
  Curated = {"spell"}
  FileList <- MCFileList
  LanguageOf <- MCLanguageOf
  Contents <- MCContents
  CommentsIn <- MCCommentsIn
  Providers <- MCProviders
  ProjectScoped = {"leaks"}
  CommentScoped = {"spell"}
  Languages <- MCLanguages
  Unkeyed = {}
  Versions = {1, 2}
  Says <- MCSays
  Configs <- MCConfigs
  Baselines = {}
  Ops = {"check"}
  Runners = {r1}
  MaxEvents = 1
  r1 = r1
  r2 = r2
INVARIANT CacheIsNeverStale
