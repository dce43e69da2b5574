-------------------------- MODULE InfluxDBReporter --------------------------
(***************************************************************************)
(* The metrics reporter of internal/benchmark/influxdb.go: a histogram of  *)
(* work durations, filled by CollectWorkResult and written point by point  *)
(* to an InfluxDB server by PublishReport.  Both hold the reporter's own   *)
(* mutex; PublishReport holds it across every blocking WritePoint.         *)
(***************************************************************************)
EXTENDS Naturals, FiniteSets

CONSTANTS
  Durations,   \* the durations a work can take, 0 if the clock is coarse
  BucketWidth  \* 100 ms in the code: the width of a bucket of the histogram

ASSUME ReporterAssumption ==
  /\ Durations \in SUBSET Nat
  /\ BucketWidth \in Nat \ {0}

VARIABLES
  workBuckets,  \* number of works per bucket
  rmtx,         \* InfluxDBReporter.mtx is held by a PublishReport
  pts,          \* the points of this PublishReport not yet written
  stored        \* external: the latest value the server has of each bucket

reporterVars == <<workBuckets, rmtx, pts, stored>>

Bucket(elapsed) == elapsed \div BucketWidth
Buckets == {Bucket(e) : e \in Durations}

ReporterTypeOK ==
  /\ workBuckets \in [Buckets -> Nat]
  /\ rmtx \in BOOLEAN
  /\ pts \in SUBSET (Buckets \X Nat)
  /\ stored \in [Buckets -> Nat]

(* A bucket that is not a key of the map has the count 0.                  *)
ReporterInit ==
  /\ workBuckets = [b \in Buckets |-> 0]
  /\ rmtx = FALSE
  /\ pts = {}
  /\ stored = [b \in Buckets |-> 0]

(* The body runs under the mutex without blocking, so that it is one step  *)
(* which waits for the mutex.                                              *)
\* Faulty: the histogram is updated without the mutex.
CollectUnlocked(elapsed) ==
  /\ workBuckets' = [workBuckets EXCEPT ![Bucket(elapsed)] = @ + 1]
  /\ UNCHANGED <<rmtx, pts, stored>>

CollectWorkResult(elapsed) ==
  /\ ~rmtx
  /\ workBuckets' = [workBuckets EXCEPT ![Bucket(elapsed)] = @ + 1]
  /\ UNCHANGED <<rmtx, pts, stored>>

(* PublishReport takes the mutex and makes a point of each key, ...        *)
\* Faulty: each report restarts the histogram, whose keys stay.
PublishBeginAndReset ==
  /\ ~rmtx
  /\ rmtx' = TRUE
  /\ pts' = {<<b, workBuckets[b]>> : b \in Buckets}
  /\ workBuckets' = [b \in Buckets |-> 0]
  /\ UNCHANGED stored

PublishBegin ==
  /\ ~rmtx
  /\ rmtx' = TRUE
  /\ pts' = {<<b, workBuckets[b]>> : b \in {c \in Buckets : workBuckets[c] > 0}}
  /\ UNCHANGED <<workBuckets, stored>>

(* ... writes the points in the order of the map's iteration, which is     *)
(* any order, ...                                                          *)
WritePoint(p) ==
  /\ rmtx /\ p \in pts
  /\ pts' = pts \ {p}
  /\ stored' = [stored EXCEPT ![p[1]] = p[2]]
  /\ UNCHANGED <<workBuckets, rmtx>>

(* ... gives up on the first that fails, ...                               *)
WritePointFails ==
  /\ rmtx /\ pts # {}
  /\ pts' = {}
  /\ rmtx' = FALSE
  /\ UNCHANGED <<workBuckets, stored>>

(* ... and otherwise flushes and lets the mutex go.                        *)
\* Faulty: the mutex is not let go.
FlushKeepsLock == rmtx /\ pts = {} /\ UNCHANGED reporterVars

Flush ==
  /\ rmtx /\ pts = {}
  /\ rmtx' = FALSE
  /\ UNCHANGED <<workBuckets, pts, stored>>

(* What a PublishReport in progress does next.                             *)
PublishStep == (\E p \in pts : WritePoint(p)) \/ WritePointFails \/ Flush

(* A report is consistent: when all its points are written, and before the *)
(* mutex is let go, the server has exactly the histogram of that moment,   *)
(* not a mix of two, although works finish while the points are written.   *)
ReportIsOneMoment == rmtx /\ pts = {} => stored = workBuckets

(* The histogram is cumulative on the server too: no report, whole or cut  *)
(* short by an error, takes a bucket back.                                 *)
StoredNeverFalls == [][\A b \in Buckets : stored'[b] >= stored[b]]_stored
=============================================================================
