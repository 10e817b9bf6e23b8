CONSTANTS
  a = a
  c = c
  Observer <- MCObserver
  Server <- MCServer
  Subject <- MCSubject
  RecentLimit = 2
  EventLimit = 1
  MaxTime = 3
  MaxLives = 2

SPECIFICATION Spec

INVARIANTS
  TypeOK
  ListsTellStatuses
  TimesAreInThePast
  OnlyLeaveLeaves

PROPERTIES
  TimesNeverGoBack
  ImplementsGossip

CHECK_DEADLOCK FALSE
