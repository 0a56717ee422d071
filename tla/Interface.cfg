CONSTANTS
  Unit = 10
  Lengths = {1, 2}
  Duration = 2
  Items = {1}
  AnnotationKinds = {"Rect"}
  Names = {"A"}
  MaxAnnotations = 2
  MaxGroups = 2
  MaxMessages = 1
  MaxId = 2
  UndoSize = 1
  MeasureByDefault = FALSE
  MaxPresses = 3
  Contents <- Files
  Order <- InOrder
  Priority <- Priorities
  Texts = {"", "a", "("}
  Hits <- Same
  Styles = {"Separate", "Tree", "Variables"}
  MaxLoads = 2
  Parts = {"viewport", "toolbar", "prompt", "time", "annotations", "gestures", "hierarchy", "viewers", "items"}
  Steps <- Budgets
SPECIFICATION InterfaceSpec
INVARIANTS ViewStaysNear EveryGroupShownOnce CycleInRange AnnotationFromThisDrag ClosedStaysClosed ViewersFaithful
PROPERTIES ArrivesAtTarget EnterRunsHighlighted TypedUnitUsed FilterHonest LooksSurviveReload
CHECK_DEADLOCK FALSE
