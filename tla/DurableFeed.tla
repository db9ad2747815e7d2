---------------------------- MODULE DurableFeed ----------------------------
(***************************************************************************)
(* What a destination of the audit export may rely on, without locks,      *)
(* ticks, batches or failures: records are published in id order; after    *)
(* the feed is opened records past its start are sent, any number of       *)
(* times; and the position only ever moves forward, over records that all  *)
(* have been sent.                                                         *)
(***************************************************************************)
EXTENDS Naturals

VARIABLES
  published,   \* ids of the records of the organisation
  got,         \* ids the receiver has been sent
  opened,      \* the destination exists
  start,       \* the position it was opened at
  position     \* everything up to here is confirmed

feedVars == <<published, got, opened, start, position>>

FeedInit ==
  /\ got = {} /\ opened = FALSE
  /\ start = 0 /\ position = 0

Publish ==
  /\ published \subseteq published'
  /\ \A i \in published' \ published, j \in published : j < i
  /\ UNCHANGED <<got, opened, start, position>>

Open ==
  /\ ~ opened /\ opened'
  /\ start' \in published \cup {0}
  /\ position' = start'
  /\ UNCHANGED <<published, got>>

Send ==
  /\ opened
  /\ got \subseteq got'
  /\ \A i \in got' \ got : i \in published /\ start < i
  /\ UNCHANGED <<published, opened, start, position>>

Confirm ==
  /\ opened
  /\ position < position'
  /\ \A i \in published : start < i /\ i <= position' => i \in got
  /\ UNCHANGED <<published, got, opened, start>>

FeedNext == Publish \/ Open \/ Send \/ Confirm

FeedSpec == FeedInit /\ [][FeedNext]_feedVars
=============================================================================
