\* A ring of 2 slots that wraps around twice, with two producers (main and monitor
\* thread) and two commands; and the three pipes of one worker.
SPECIFICATION ChannelsSpec
CONSTANTS
  Producers = {main, monitor}
  Commands = {scan, replace}
  Ipc = ipc
  None = None
  Capacity = 2
  MaxSends = 4
  scan1 = scan1
  scan2 = scan2
  stop = stop
  batch = batch
  finish = finish
  beat = beat
  Messages = {scan1, scan2, stop, batch, finish, beat}
  Insists = {scan1, scan2, batch, finish}
  PipeOf <- PipeIs
  Size <- SizeIs
  Script <- ScriptOf
  HeaderSize = 2
  PipeBuf = 3
  Room = 4
  Garbage = garbage
INVARIANTS
  RingOK
  NoLostWakeup
  BatchesWhole
  DrainExact
PROPERTIES
  ChannelSpec
  EventuallyDelivered
  CtrlIsChannel
  FinishArrives
CHECK_DEADLOCK FALSE
