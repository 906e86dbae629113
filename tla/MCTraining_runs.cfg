CONSTANTS
  World = 2
  Epochs = 3
  TrainSamples = 3
  ValSamples = 8
  BatchSize = 1
  MaxRuns = 2
  MaxStarts = 2
  keep_last_n = 2
  NoFile = NoFile
  Tasks = {1, 2, 3}
  JobOf <- JobIds
  Idle = Idle
CHECK_DEADLOCK FALSE
SPECIFICATION Spec
INVARIANTS OperationsMatch CheckpointsKept AccountKept RunnerKeepsTasks
PROPERTIES LittleWorkLost RunsEnd
