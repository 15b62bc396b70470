--------------------------- MODULE MCSubscription ---------------------------
(***************************************************************************)
(* Two instances of the subscription for model checking, next to each      *)
(* other: a latched one that takes from the ring, whose writers may die,   *)
(* and one that takes from the ring and from the queue of remote messages, *)
(* with lifespans.  A behaviour is one of either; the other instance stays *)
(* as it is initially.                                                     *)
(***************************************************************************)
EXTENDS Subscription

VARIABLES
  both, \* is it the instance with both sources that runs?
  ring2, read_index2, epoch2, messages2, keep_all2, next_seq2, arrived2, expired2,
  refused2, sub2

vars2 == <<ring2, read_index2, epoch2, messages2, keep_all2, next_seq2, arrived2,
           expired2, refused2, sub2>>

Both == INSTANCE Subscription WITH
  KeepAlls <- BOOLEAN, Latched <- FALSE, Lifespan <- TRUE, MaxWriters <- 1,
  MaxCrashes <- 0, MaxLocal <- 2, MaxRemote <- 3, Sizes <- {1},
  ring <- ring2, read_index <- read_index2, epoch <- epoch2, messages <- messages2,
  keep_all <- keep_all2, next_seq <- next_seq2, arrived <- arrived2,
  expired <- expired2, refused <- refused2, sub <- sub2

MCInit == both \in BOOLEAN /\ Init /\ Both!Init

MCNext ==
  /\ UNCHANGED both
  /\ \/ ~ both /\ Next /\ UNCHANGED vars2
     \/ both /\ Both!Next /\ UNCHANGED vars

MCVars == <<both, vars, vars2>>

\* The fairness of Subscription, for the instance that runs.
MCFairSpec ==
  /\ MCInit /\ [][MCNext]_MCVars
  /\ \A s \in Subs : WF_vars(~ both /\ TakeStep(s))
  /\ WF_vars(~ both /\ \E i \in DOMAIN ring : Finish(i))

\* A subscription that takes from the ring and from the queue of remote messages delivers
\* the messages of each in the order of their numbers and none twice: receive_next and
\* SubscriberQueue::read_at use one cursor for both.
InOrderOnceFromBoth ==
  /\ IF both THEN Both!TypeOK ELSE TypeOK
  /\ Both!InOrderOnce

\* As long as only one of the two sources has had messages, data_available_from answers
\* true for every message that the subscription can still take.
AvailableUnlessMixed == Both!UnreadIsAvailableUnlessMixed
=============================================================================
