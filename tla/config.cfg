SPECIFICATION Spec
CONSTANTS
  Words = {"x", "y"}
  Sources <- MCSources

CHECK_DEADLOCK FALSE
INVARIANTS Understood CutRefused BlocksAgree TextRead SettingsOwn DirectivesRead ListsOwned
