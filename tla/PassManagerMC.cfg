SPECIFICATION Spec
CONSTANTS
  Pass <- StagePass
  Service <- StageService
  Requires <- StageRequires
  Provides <- StageProvides
  Declining = {"Resolver"}
  Registered <- StageRegistered
  Generator = "Generate"
  Serializer = "Serialize"
  Pipelines <- AnyPipeline
  MaxRuns = 2
INVARIANTS TypeOK Prepared ServicesCurrent InOrder
PROPERTY Settles
CHECK_DEADLOCK FALSE
