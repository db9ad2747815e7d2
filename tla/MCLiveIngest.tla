--------------------------- MODULE MCLiveIngest ---------------------------
(* Small instances of LiveIngest: one test, two batches, one or two tasks. *)
EXTENDS LiveIngest, TLC

\* A POST is the same on any of the reporter's sockets.
SocketSymmetry == Permutations(Sockets)

Event(type, c, n) == [type |-> type, test |-> IF type = "run.finished" THEN "-" ELSE "t1",
                      by |-> c, n |-> n]

\* One reporter: the test starts, then it passes and the run finishes.
TwoBatches ==
  [c \in Clients |-> <<<<Event("test.started", c, 1)>>,
                       <<Event("test.passed", c, 2), Event("run.finished", c, 3)>>>>]

\* The test starts, then it passes; the run goes on.
StartThenResult ==
  [c \in Clients |-> <<<<Event("test.started", c, 1)>>, <<Event("test.passed", c, 2)>>>>]

\* The result alone, as a reporter without test.started sends it.
OneBatch == [c \in Clients |-> <<<<Event("test.failed", c, 1)>>>>]

\* A run without tests: the reporter says that it is over.
OnlyTheEnd == [c \in Clients |-> <<<<Event("run.finished", c, 1)>>>>]

=============================================================================
