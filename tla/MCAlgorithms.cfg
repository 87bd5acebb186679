\* Every family of questions once; answering leads back to the beginning.
SPECIFICATION Spec
CONSTANTS
  None = None
INVARIANTS
  AgreementWins
  PagesCoverAll
  FingerprintSurvivesReflow
  RivalsAreRefused
  PointsKeepTheirPlace
  OneFindingPerCluster
  NearestLayerWins
  ExportSettles
  ExistingPathsPass
  IndexedIsNeverDangling
  TouchedCommentIsFresh
  FaithfulDocPasses
  ExitTellsWhatIsShown
  InterfacesAgree
  FailureIsTold
  FindingsAreOfGivenFiles
  RestoredIsComparable
