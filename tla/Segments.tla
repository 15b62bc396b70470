------------------------------ MODULE Segments ------------------------------
(***************************************************************************)
(* How the endpoints of one topic on one host come to share a segment      *)
(* (RingBuffer::create_or_open in local.rs).                               *)
(*                                                                         *)
(* A process tries to create the name exclusively; when the name exists it *)
(* waits for the segment to become usable, and when it does not, unlinks   *)
(* the name and starts over.  The name is shared by every process and by   *)
(* the daemon, which unlinks it when the last node that advertised the     *)
(* topic is gone: whoever unlinks it removes the segment that the name     *)
(* stands for at that moment, not the one it has looked at.                *)
(*                                                                         *)
(* A process creates at most one segment, so a segment is named after its  *)
(* creator; Old is a segment that an earlier run of the system has left.   *)
(* A segment that has no name any more lives on where it is mapped.        *)
(***************************************************************************)
EXTENDS Naturals

CONSTANTS
  Processes,
  Requests,     \* the slot strides and numbers of slots that are asked for
  Retries,      \* SHM_CREATE_RACE_RETRIES, 100 in the code
  MaxFaults,    \* bound on crashes and on calls that find the file system full
  Old,          \* the segment of an earlier run
  None          \* no segment

Segs == Processes \cup {Old}

VARIABLES
  name,     \* the segment that the shared-memory name stands for, or None
  seg,      \* seg[s]: its pages, capacity and slot_size of its header, its messages
  want,     \* want[p]: what p asks for
  proc,     \* proc[p]: pc, the segment last looked at, retries used, segment mapped
  sent,     \* the processes that have published their message
  listed,   \* the processes whose node advertises the topic in the node table
  reaping,  \* the daemon: whether it will unlink the name, the nodes it has found
  faults,
  early,    \* history: processes that published before the creator had finished
  why       \* history: why segments in use have been unlinked

vars == <<name, seg, want, proc, sent, listed, reaping, faults, early, why>>

Blank == [pages |-> FALSE, slots |-> 0, stride |-> 0, msgs |-> {}]

\* What an earlier run can leave: nothing, a file without pages, pages without
\* a header, or a whole ring.
Init ==
  /\ name \in {None, Old}
  /\ \E old \in {Blank, [Blank EXCEPT !.pages = TRUE]} \cup
                {[Blank EXCEPT !.pages = TRUE, !.slots = 1, !.stride = n] : n \in 1..2} :
       seg = [s \in Segs |-> IF s = Old THEN old ELSE Blank]
  /\ want \in [Processes -> Requests]
  /\ proc = [p \in Processes |-> [pc |-> "start", seen |-> None, tries |-> 0, ring |-> None]]
  /\ sent = {} /\ listed = {} /\ reaping = [on |-> FALSE, after |-> {}] /\ faults = 0
  /\ early = {} /\ why = {}

At(p, pc) == proc[p].pc = pc
Go(p, pc) == proc' = [proc EXCEPT ![p].pc = pc]
Live(p) == ~ At(p, "dead")
Building(p) == proc[p].pc \in {"allocate", "header", "zero"}
Probing(p) == proc[p].pc \in {"probe", "probeAgain"}

\* p has mapped the segment s, has a descriptor of it, or is building it.
Uses(p, s) ==
  /\ Live(p) /\ s # None
  /\ proc[p].ring = s \/ (Probing(p) /\ proc[p].seen = s) \/ (Building(p) /\ p = s)

\* One more turn of the loop of wait_open_compatible or of open_or_create.
Retry(p, loop, after) ==
  proc' = [proc EXCEPT ![p].pc = IF proc[p].tries + 1 < Retries THEN loop ELSE after,
                       ![p].tries = @ + 1]

Loop(p, pc) == proc' = [proc EXCEPT ![p].pc = pc, ![p].tries = 0]

\* shm_unlink, whatever the name stands for by now.
Unlink(p, reasons) ==
  /\ name' = None
  /\ why' = IF \E q \in Processes \ {p} : Uses(q, name) THEN why \cup reasons ELSE why

-----------------------------------------------------------------------------
(* create_with_fd: pages, then the header, then the slots are zeroed.      *)

\* shm_open with O_CREAT and O_EXCL.
Exclusive(p) == name = None

Create(p) ==
  /\ Exclusive(p)
  /\ name' = p
  /\ Go(p, "allocate")
  /\ UNCHANGED why

\* fallocate, with half the slots as long as there is no room for more.
Allocate(p) ==
  /\ At(p, "allocate")
  /\ \/ Go(p, "header") /\ seg' = [seg EXCEPT ![p].pages = TRUE] /\ UNCHANGED faults
     \/ faults < MaxFaults /\ faults' = faults + 1 /\ Go(p, "undo") /\ UNCHANGED seg
  /\ UNCHANGED <<want, name, sent, listed, reaping, early, why>>

\* capacity and slot_size: from here on from_fd accepts the segment.
Header(p) ==
  /\ At(p, "header")
  /\ \E n \in {1, want[p].slots} :
       seg' = [seg EXCEPT ![p].slots = n, ![p].stride = want[p].stride]
  /\ Go(p, "zero")
  /\ UNCHANGED <<want, name, sent, listed, reaping, faults, early, why>>

\* The indices and every data slot.
Zero(p) ==
  /\ At(p, "zero")
  /\ seg' = [seg EXCEPT ![p].msgs = {}]
  /\ proc' = [proc EXCEPT ![p].pc = "open", ![p].ring = p]
  /\ UNCHANGED <<want, name, sent, listed, reaping, faults, early, why>>

\* A creator that fails unlinks the name, and so does an opener in open_or_create.
Undo(p) ==
  /\ At(p, "undo")
  /\ Unlink(p, IF name = p THEN {} ELSE {"full"})
  /\ Go(p, "failed")
  /\ UNCHANGED <<want, seg, sent, listed, reaping, faults, early>>

-----------------------------------------------------------------------------
(* create_or_open                                                          *)

Start(p) ==
  /\ At(p, "start")
  /\ Create(p) \/ (~ Exclusive(p) /\ Loop(p, "wait") /\ UNCHANGED <<name, why>>)
  /\ UNCHANGED <<want, seg, sent, listed, reaping, faults, early>>

\* shm_open of the name, which then stands behind the descriptor.
Look(p) ==
  /\ \/ At(p, "wait") /\ proc' = [proc EXCEPT ![p].seen = name,
            ![p].pc = IF name = None THEN "replace" ELSE "probe"]
     \/ At(p, "again") /\ proc' = [proc EXCEPT ![p].seen = name,
            ![p].pc = IF name = None THEN "excl" ELSE "probeAgain"]
  /\ UNCHANGED <<want, name, seg, sent, listed, reaping, faults, early, why>>

\* from_fd: InvalidData and UnexpectedEof against a header that can be used.
Usable(s) == seg[s].pages /\ seg[s].slots > 0 /\ seg[s].stride > 0

is_compatible_with_request_Deeper(p, s) ==
  seg[s].stride >= want[p].stride /\ seg[s].slots >= want[p].slots

is_compatible_with_request(p, s) == seg[s].slots > 0 /\ seg[s].stride >= want[p].stride

Map(p, s) == proc' = [proc EXCEPT ![p].pc = "open", ![p].ring = s]

\* One turn of wait_open_compatible.
wait_open_compatible(p) ==
  /\ At(p, "probe")
  /\ LET s == proc[p].seen IN
       \/ Usable(s) /\ is_compatible_with_request(p, s) /\ Map(p, s)
       \/ Usable(s) /\ ~ is_compatible_with_request(p, s) /\ Go(p, "replace")
       \/ ~ Usable(s) /\ Retry(p, "wait", "replace")
  /\ UNCHANGED <<want, name, seg, sent, listed, reaping, faults, early, why>>

\* The reasons that the code accepts for unlinking a segment that others use:
\* its slots are too small, its creator took too long, or the name has meanwhile
\* come to stand for another segment than the one p has looked at.
Reasons(p) ==
  {r \in {"small", "slow", "overtaken"} :
     \/ r = "overtaken" /\ name # proc[p].seen
     \/ r = "slow" /\ proc[p].tries >= Retries
     \/ r = "small" /\ name # None /\ seg[name].stride < want[p].stride}

\* The segment has the wrong slot size or is not initialised after the retry
\* window: unlink it, and go on with open_or_create.
Replace(p) ==
  /\ At(p, "replace")
  /\ Unlink(p, Reasons(p))
  /\ Loop(p, "again")
  /\ UNCHANGED <<want, seg, sent, listed, reaping, faults, early>>

-----------------------------------------------------------------------------
(* open_or_create                                                          *)

OpenOrCreate(p) ==
  /\ \/ At(p, "probeAgain")
        /\ LET s == proc[p].seen IN
             \/ Usable(s) /\ is_compatible_with_request(p, s) /\ Map(p, s)
             \/ Usable(s) /\ ~ is_compatible_with_request(p, s) /\ Go(p, "replaceAgain")
             \/ ~ Usable(s) /\ Retry(p, "again", "failed")
        /\ UNCHANGED <<name, why>>
     \/ At(p, "replaceAgain") /\ Unlink(p, Reasons(p)) /\ Retry(p, "again", "failed")
     \/ At(p, "excl") /\ Create(p)
     \/ At(p, "excl") /\ ~ Exclusive(p) /\ Retry(p, "again", "failed")
        /\ UNCHANGED <<name, why>>
  /\ UNCHANGED <<want, seg, sent, listed, reaping, faults, early>>

\* from_fd finds no room for the pages of a segment: the first loop returns the
\* error, the second unlinks the name before it does.
StorageFull(p) ==
  /\ faults < MaxFaults
  /\ \/ At(p, "probe") /\ Go(p, "failed")
     \/ At(p, "probeAgain") /\ Go(p, "undo")
  /\ seg[proc[p].seen].pages
  /\ faults' = faults + 1
  /\ UNCHANGED <<want, name, seg, sent, listed, reaping, early, why>>

-----------------------------------------------------------------------------
(* The use of the ring, and the daemon                                     *)

Publish(p) ==
  /\ At(p, "open") /\ p \notin sent
  /\ sent' = sent \cup {p}
  /\ LET s == proc[p].ring IN
       /\ seg' = [seg EXCEPT ![s].msgs = @ \cup {p}]
       /\ early' = IF s \in Processes /\ Building(s) THEN early \cup {p} ELSE early
  /\ UNCHANGED <<want, name, proc, listed, reaping, faults, why>>

\* The endpoint is advertised in the node table after it has its ring.
Advertise(p) ==
  /\ At(p, "open") /\ p \notin listed
  /\ listed' = listed \cup {p}
  /\ UNCHANGED <<want, name, seg, proc, sent, reaping, faults, early, why>>

\* prune_dead_nodes frees the slots of dead nodes, and compares the topics that
\* the table had before with those it has after ...
Gone(after) == after = {}

Prune ==
  /\ \E p \in listed : ~ Live(p)
  /\ listed' = {p \in listed : Live(p)}
  /\ reaping' = [on |-> Gone(listed'), after |-> listed']
  /\ UNCHANGED <<want, name, seg, proc, sent, faults, early, why>>

\* ... and then unlinks the names of those that are gone, which may by then be in
\* use by processes that are not in the table yet.
Reap ==
  /\ reaping.on /\ reaping' = [reaping EXCEPT !.on = FALSE]
  /\ name' = None
  /\ why' = IF \E q \in Processes \ reaping.after : Uses(q, name)
              THEN why \cup {"reaped"} ELSE why
  /\ UNCHANGED <<want, seg, proc, sent, listed, faults, early>>

Crash(p) ==
  /\ Live(p) /\ ~ At(p, "start") /\ ~ At(p, "failed")
  /\ faults < MaxFaults /\ faults' = faults + 1
  /\ proc' = [proc EXCEPT ![p].pc = "dead"]
  /\ UNCHANGED <<want, name, seg, sent, listed, reaping, early, why>>

Run(p) ==
  \/ Start(p) \/ Allocate(p) \/ Header(p) \/ Zero(p) \/ Undo(p)
  \/ Look(p) \/ wait_open_compatible(p) \/ Replace(p) \/ OpenOrCreate(p)

Next ==
  \/ \E p \in Processes :
       Run(p) \/ StorageFull(p) \/ Publish(p) \/ Advertise(p) \/ Crash(p)
  \/ Prune
  \/ Reap

Spec == Init /\ [][Next]_vars

\* A process that has called create_or_open runs until the call returns.
FairSpec == Spec /\ \A p \in Processes : WF_vars(Run(p))

-----------------------------------------------------------------------------
TypeOK ==
  /\ name \in Segs \cup {None}
  /\ \A s \in Segs : seg[s].msgs \subseteq Processes
  /\ \A p \in Processes : proc[p].ring \in Segs \cup {None} /\ proc[p].tries \in 0..Retries
  /\ sent \cup listed \cup early \subseteq Processes

\* create_or_open is there so that the endpoints of a topic meet: a message that
\* one process has published is in the ring that every other process has mapped,
\* now or later.  The exceptions are the ones the code can meet: the message was
\* published before the creator had zeroed the slots, or a segment in use was
\* unlinked because its slots were too small for another process ("small"), its
\* creator took longer than the retry window ("slow"), the name had come to stand
\* for another segment than the one looked at ("overtaken"), an opener ran out of
\* memory ("full"), or the daemon unlinked the name before the new users of the
\* segment were in the node table ("reaped").
MeetUnlessReplaced ==
  \A p, q \in Processes :
    At(p, "open") /\ At(q, "open") /\ p \in sent \ early /\ why = {} =>
      p \in seg[proc[q].ring].msgs

\* p is in create_or_open.
Called(p) == proc[p].pc \notin {"open", "failed", "dead"}

=============================================================================
