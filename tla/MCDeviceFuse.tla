---------------------------- MODULE MCDeviceFuse ---------------------------
EXTENDS DeviceFuse

CONSTANTS d1, d2, d3

Dir(d, i, s) == [dev |-> d, interval |-> i, status |-> s]

\* Four directories, so that the heap has two levels below its top; and a device
\* whose directories differ in status, before one that is not tracked.
ArchivesTried == {
  <<Dir(d1, 1, "probing"), Dir(d2, 2, "probing"), Dir(d1, 1, "probing"), Dir(d2, 2, "probing")>>,
  <<Dir(d1, 1, "probing"), Dir(d1, 1, "condemned"), Dir(d2, 2, "probing"), Dir(d3, 1, "probing")>>}
=============================================================================
