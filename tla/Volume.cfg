SPECIFICATION Spec
CONSTANTS
  d1 = d1
  d2 = d2
  d3 = d3
  Device = {d1, d2, d3}
  NbStripe = 5
  Volume = {1, 2}
  MembersOf <- MCMembersOf
  Mode = "independent"
  NbEntry = 2
  PerChunk = 1
  File <- MCFile
  Link = {"l"}
  FarAway = 99
  MaxCommands = 4
  DeviceList <- MCDeviceList
  MaxLeak = 2
  Word = 65536
INVARIANTS
  ContentsKept
  WhatMountsIsFormatted
  DevicesReleased
  MountCleansUp
CHECK_DEADLOCK FALSE
