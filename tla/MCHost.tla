------------------------------- MODULE MCHost -------------------------------
(***************************************************************************)
(* A host for model checking: the node table that its sessions share with  *)
(* the daemon (NodeTable), and the start of the daemon by the sessions     *)
(* (DaemonStart).  They share no state in these models, and a behaviour is *)
(* one of either, chosen by starting.                                      *)
(***************************************************************************)
EXTENDS NodeTable

CONSTANTS
  s1,
  MaxDaemons, MaxByHand, MaxFaults   \* of DaemonStart

VARIABLES
  starting,
  shm, pidFile, daemon, lock, joiner, started, byHand, faults, crossed   \* of DaemonStart

startVars == <<shm, pidFile, daemon, lock, joiner, started, byHand, faults, crossed>>

D == INSTANCE DaemonStart WITH session <- joiner

ASSUME StartAssumption ==
  /\ {MaxDaemons, MaxByHand, MaxFaults} \subseteq Nat
  /\ D!Nobody \notin Sessions

\* Only the part that runs has more than one initial state.
MCInit ==
  /\ starting \in BOOLEAN
  /\ Init /\ D!Init
  /\ ~ starting => shm = D!NoShm /\ pidFile = D!Nobody

MCNext ==
  /\ UNCHANGED starting
  /\ \/ ~ starting /\ Next /\ UNCHANGED startVars
     \/ starting /\ D!Next /\ UNCHANGED vars

MCVars == <<starting, vars, startVars>>

MCSpec == MCInit /\ [][MCNext]_MCVars

\* The threads of the daemon run, and daemons and sessions start.
MCFairSpec ==
  /\ MCSpec
  /\ WF_vars(~ starting /\ Monitor)
  /\ \A m \in Mergers : WF_vars(~ starting /\ MergeStep(m))
  /\ \A d \in D!Daemons : WF_startVars(starting /\ D!DaemonStep(d))
  /\ \A s \in Sessions : WF_startVars(starting /\ D!SessionStep(s))

-----------------------------------------------------------------------------
\* The variables of the part that runs have their types.
Types == IF starting THEN D!TypeOK ELSE TypeOK

\* The sessions that are up and whose daemon is alive are in the segment that new sessions
\* find, unless a user started a daemon while another start was under way
\* (terminate_orphan_daemon_processes, ShmDiscovery::destroy; see DaemonStart).
TogetherUnlessCrossed == Types /\ D!TogetherUnlessCrossed

\* A session that is not killed on the way returns without a daemon only after a daemon has
\* crashed, was stopped or was slow, or in a cross with a user (ensure_daemon_running; see
\* DaemonStart).
FailsOnlyAfterFault == D!FailsOnlyAfterFault

\* The slot of a process that has died or left is freed, unless a race gave it away
\* (process_departed_nodes), and every session that starts gets an answer: none waits for
\* the lock, or for a daemon, for ever (ensure_daemon_running).  The sessions are alike,
\* so it is checked for one of them.
Settled(s) == IF starting THEN ~ D!Starting(s) ELSE ~ Unreclaimed(s)
SettlesAgain == []<>Settled(s1)
=============================================================================
