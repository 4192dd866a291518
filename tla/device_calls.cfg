SPECIFICATION Spec
CONSTANTS
  Operations <- AllOperations
  Handles <- AllHandles
  Leaks <- AllLeaks
  Outline <- ComputedOutline
  Nobody = "nobody"
INVARIANTS AnswersMatch SuccessIsAccepted ConnectionsReleased
