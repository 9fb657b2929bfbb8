SPECIFICATION Spec
CONSTANTS
  request = request
  response = response
  Hooks <- OneOfEach
  FunctionOf <- TheFunctions
  Main = main
  Names = {1}
  Scripts <- SomeScripts
  LogLimit = 1
  MaxLines = 2
  MaxCommands = 3
INVARIANTS
  OffIsQuiet
  EnabledAreCalled
  LinesOnce
  FlagsAgree
CHECK_DEADLOCK FALSE
