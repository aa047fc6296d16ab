SPECIFICATION Spec
CONSTANTS
  Threads = 3
  BufferSize = 1
  NumMsgs = 5
  SleepEnough = TRUE
INVARIANTS EachMessageOnce QuietAtCleanup
PROPERTY Terminates
