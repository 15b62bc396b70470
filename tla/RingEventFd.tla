---------------------------- MODULE RingEventFd ----------------------------
(***************************************************************************)
(* The eventfd that the processes of a host share for a ring (EventFds),   *)
(* with names that are apart from those of the other parts of a channel.   *)
(***************************************************************************)
CONSTANTS Sharers, OldSocket, NoSocket, EventFdFaults

VARIABLES path, peer, fdServer, crashes, split

F == INSTANCE EventFds WITH
  Processes <- Sharers, Old <- OldSocket, None <- NoSocket, MaxFaults <- EventFdFaults,
  proc <- peer, server <- fdServer, faults <- crashes, why <- split

ASSUME SharersAssumption == NoSocket \notin Sharers

fdVars == <<path, peer, fdServer, crashes, split>>

\* Publications of one process signal the eventfd that the others poll, unless they
\* came apart when the server left or a socket was removed (EventFdServer::bind,
\* receive_eventfd; see EventFds).
WokenUnlessSplit == F!WokenUnlessSplit
============================================================================
