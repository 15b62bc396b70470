------------------------------ MODULE TopicLog -----------------------------
(***************************************************************************)
(* What the shared-memory ring of a topic promises to the processes that   *)
(* map it: an append-only log of messages under distinct sequence numbers, *)
(* of which the last N are retained.  A call on the ring (read,            *)
(* read_without_consuming or data_available_from in local.rs) takes effect *)
(* at one instant between its start and its return.                        *)
(***************************************************************************)
EXTENDS Integers

CONSTANTS
  N,        \* how many messages are retained
  Readers,
  Seqs,     \* sequence numbers
  Lens,     \* lengths of messages
  Caps      \* lengths of the callers' buffers

VARIABLES
  next,     \* sequence numbers handed out so far
  log,      \* the messages that are complete
  call,     \* each reader's current or last call
  void      \* has a producer broken the rules, so that nothing is promised any more?

vars == <<next, log, call, void>>

Messages == [seq : Seqs, len : Lens]
NoCall == [active |-> FALSE, op |-> "read", seq |-> 0, cap |-> 0,
           seen |-> {}, res |-> "none", got |-> <<>>]

Init ==
  /\ next = 0
  /\ log = {}
  /\ call = [r \in Readers |-> NoCall]
  /\ void = FALSE

\* A writer takes the next sequence number.
Reserve ==
  /\ next' = next + 1
  /\ UNCHANGED <<log, call>>

\* A writer completes its message.
Commit(m) ==
  /\ m.seq < next
  /\ \A other \in log : other.seq # m.seq
  /\ log' = log \cup {m}
  /\ UNCHANGED <<next, call>>

\* A call begins; it notes the messages that are there to be read.
Call(r) ==
  LET new == call'[r]
  IN /\ ~call[r].active
     /\ new \in [active : {TRUE}, op : {"read", "peek", "probe"}, seq : Seqs,
                 cap : Caps, seen : SUBSET log, res : {"none"}, got : {<<>>}]
     /\ new.seen = {m \in log : m.seq >= new.seq /\ m.len > 0}
     /\ call' = [call EXCEPT ![r] = new]
     /\ UNCHANGED <<next, log>>

Answer(r, result, got) ==
  /\ call[r].active
  /\ call' = [call EXCEPT ![r] = [active |-> FALSE, op |-> @.op, seq |-> @.seq,
                                  cap |-> @.cap, seen |-> @.seen, res |-> result,
                                  got |-> got]]
  /\ UNCHANGED <<next, log>>

\* The message of this sequence number was there when the call began and is
\* among the last N now.
Retained(r) ==
  /\ \E m \in call[r].seen : m.seq = call[r].seq
  /\ next - call[r].seq <= N

\* The call returns the whole message stored under its sequence number.
Hit(r) ==
  \E m \in log :
    /\ call[r].op # "probe"
    /\ m.seq = call[r].seq
    /\ m.len <= call[r].cap
    /\ Answer(r, "ok", [k \in 1 .. m.len |-> m])

\* The caller's buffer cannot hold the message.
TooSmall(r) ==
  /\ call[r].op # "probe"
  /\ call[r].seq < next
  /\ Answer(r, "too small", <<>>)

\* There is no such message, or not any more.
Miss(r) ==
  /\ call[r].op # "probe"
  /\ ~Retained(r)
  /\ \E error \in {"no data", "overwritten", "not yet written"} :
       Answer(r, error, <<>>)

\* The probe may say "ready" for any number that was handed out ...
Ready(r) ==
  /\ call[r].op = "probe"
  /\ call[r].seq < next
  /\ Answer(r, "ready", <<>>)

\* ... and "not ready" only if there is nothing to read.
NotReady(r) ==
  /\ call[r].op = "probe"
  /\ ~Retained(r)
  /\ Answer(r, "not ready", <<>>)

Operate ==
  \/ Reserve
  \/ \E m \in Messages : Commit(m)
  \/ \E r \in Readers : \/ Call(r) \/ Hit(r) \/ TooSmall(r) \/ Miss(r)
                        \/ Ready(r) \/ NotReady(r)

Next == void' \/ (~ void' /\ Operate)

Spec == Init /\ [][Next]_vars

============================================================================
