\* Two runners that check, accept and prune, with edits, tool and config changes,
\* failures and kills.
SPECIFICATION Spec
CONSTANTS
  None = None
  Rules <- MCRules
  RuleOrder <- MCRuleOrder
  OriginOf <- MCOriginOf
  CanonOf <- MCCanonOf
  CategoryMap <- MCCategoryMap
  Curated = {"spell"}
  FileList <- MCFileList
  LanguageOf <- MCLanguageOf
  Contents <- MCContents
  CommentsIn <- MCCommentsIn
  Providers <- MCProviders
  ProjectScoped = {"leaks"}
  CommentScoped = {"spell"}
  Languages <- MCLanguages
  Unkeyed = {}
  Versions = {1, 2}
  Says <- MCSays
  Configs <- MCConfigs
  Baselines <- SomeBaseline
  Ops = {"check", "accept", "prune"}
  Runners = {r1, r2}
  MaxEvents = 2
  r1 = r1
  r2 = r2
SYMMETRY RunnerSymmetry
INVARIANTS
  TypeOK
  RowIsOfItsKey
  ReportIsFresh
  AcceptedIsClean
  PruneKeepsHiding
  PassSurvivesRepair
PROPERTY EachIssueOnce
