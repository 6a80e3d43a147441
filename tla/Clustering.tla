------------------------------ MODULE Clustering ------------------------------
(***************************************************************************)
(* How processors are grouped (misc/clustering.h).  Every processor works  *)
(* out all of it alone, from the same four numbers.  The leader of a       *)
(* cluster is its hub; the followers are its workers, the leader among     *)
(* them unless the cluster is so large that its functions are separate.    *)
(***************************************************************************)
EXTENDS Integers, FiniteSets

LOCAL Least(a, b) == IF a < b THEN a ELSE b
LOCAL CeilDiv(a, b) == (a + b - 1) \div b
LOCAL One(b) == IF b THEN 1 ELSE 0

\* reset: what is the same on all processors.
Clusters(size, sizeWanted, clustersWanted, forceSeparateSize) ==
  LET typical == Least(CeilDiv(size, clustersWanted), sizeWanted)
      number  == CeilDiv(size, typical)
      last    == size - (number - 1) * typical
  IN  [size |-> size, typicalSize |-> typical, numClusters |-> number,
       typicallySeparated |-> typical >= forceSeparateSize,
       lastSeparated |-> last >= forceSeparateSize]

WhichCluster(c, n) == n \div c.typicalSize

LeaderOfCluster(c, k) == k * c.typicalSize

HasPureLeader(c, k) ==
  IF k + 1 = c.numClusters THEN c.lastSeparated ELSE c.typicallySeparated

Members(c, k) ==
  LeaderOfCluster(c, k) .. Least((k + 1) * c.typicalSize, c.size) - 1

TypicalFollowers(c) == c.typicalSize - One(c.typicallySeparated)

\* Of the cluster of n, as n itself and its hub see it.
NumFollowers(c, n) ==
  LET k == WhichCluster(c, n) IN Cardinality(Members(c, k)) - One(HasPureLeader(c, k))

WhichFollower(c, n) ==
  LET k == WhichCluster(c, n)
  IN  n - LeaderOfCluster(c, k) - One(HasPureLeader(c, k))

Follower(c, hub, w) == hub + w + One(HasPureLeader(c, WhichCluster(c, hub)))

IsLeader(c, n) == n % c.typicalSize = 0

IsFollower(c, n) == ~IsLeader(c, n) \/ ~HasPureLeader(c, WhichCluster(c, n))

TotalNumFollowers(c) ==
  c.size - ((c.numClusters - 1) * One(c.typicallySeparated) + One(c.lastSeparated))

\* From the rank among all workers to the processor ...
GlobalFollower(c, rank) ==
  LET k == rank \div TypicalFollowers(c)
  IN  k * c.typicalSize + One(HasPureLeader(c, k)) + rank - k * TypicalFollowers(c)

\* ... and back.
FollowerRank(c, n) ==
  LET k == WhichCluster(c, n)
  IN  k * TypicalFollowers(c) + n - k * c.typicalSize - One(HasPureLeader(c, k))

=============================================================================
