-------------------------- MODULE Checkpoint_proofs --------------------------
(***************************************************************************)
(* Proofs about Checkpoint: for any number of processors before and after  *)
(* any number of kills, clusters of any size, any search tree and any      *)
(* number of checkpoints, the files of a whole checkpoint are always there *)
(* and every incumbent is held by its source.  FilesInv is inductive;      *)
(* there is one lemma per conjunct of it for the steps of a running        *)
(* program, in which the steps of the search are taken together            *)
(* (SearchFrame), and one lemma for each way to restart.                   *)
(***************************************************************************)
EXTENDS Checkpoint, TLAPS, FiniteSetTheorems, WellFoundedInduction

(***************************************************************************)
(* Numbers and clusters.                                                   *)
(***************************************************************************)
\* The minimum of a set of naturals is its least member.
LEMMA LeastExists ==
  ASSUME NEW S, S \subseteq Nat, S # {}
  PROVE  Min(S) \in S /\ \A x \in S : Min(S) <= x
<1>1. IsWellFoundedOn(OpToRel(<, Nat), Nat)
  BY NatLessThanWellFounded
<1>2. PICK x \in S : \A y \in S : ~(<<y, x>> \in OpToRel(<, Nat))
  BY <1>1, WFMin, Zenon
<1>3. \A y \in S : ~(y < x)
  BY <1>2 DEF OpToRel
<1>4. \A y \in S : x <= y
  BY <1>3
<1> QED BY <1>4 DEF Min

\* A multiple of c leaves no remainder.
LEMMA Multiples ==
  ASSUME NEW c \in Nat \ {0}, NEW q \in Nat
  PROVE  (c * q) % c = 0 /\ (c * q) \div c = q
OBVIOUS

\* Every processor has a hub, and is in its cluster or is it; 0 is one.
LEMMA HubFacts ==
  ASSUME NEW p \in Proc, n \in Nat \ {0}
  PROVE  /\ HubOf(p) \in Hub /\ 0 \in Hub
         /\ p \in Hub => HubOf(p) = p
         /\ p \notin Hub => p \in ClusterOf(HubOf(p))
<1> DEFINE q == p \div ClusterSize
           r == p % ClusterSize
<1>1. ClusterSize \in Nat \ {0} /\ p \in Nat /\ p <= n - 1
  BY CheckpointAssumption DEF Proc
<1>2. q \in Nat /\ r \in 0 .. ClusterSize - 1 /\ p = ClusterSize * q + r
  BY <1>1
<1>3. p - r = ClusterSize * q /\ p - r \in Nat
  BY <1>1, <1>2
<1>4. (p - r) % ClusterSize = 0 /\ (p - r) \div ClusterSize = q
  BY <1>1, <1>2, <1>3, Multiples
<1>5. 0 % ClusterSize = 0
  BY <1>1
<1> QED BY <1>1, <1>2, <1>3, <1>4, <1>5 DEF HubOf, Hub, Proc, ClusterOf

\* A member of h's cluster is no hub, and h is its own.
LEMMA ClusterFacts ==
  ASSUME NEW h \in Hub, NEW p \in ClusterOf(h), n \in Nat \ {0}
  PROVE  p \in Proc \ Hub /\ HubOf(p) = h
<1>1. /\ ClusterSize \in Nat \ {0} /\ p \in Nat /\ h \in Nat /\ p # h /\ p \in Proc
      /\ p \div ClusterSize = h \div ClusterSize /\ h % ClusterSize = 0
  BY CheckpointAssumption DEF Proc, Hub, ClusterOf
<1>2. /\ p = ClusterSize * (p \div ClusterSize) + (p % ClusterSize)
      /\ h = ClusterSize * (h \div ClusterSize) + (h % ClusterSize)
      /\ p % ClusterSize \in 0 .. ClusterSize - 1
  BY <1>1
<1>3. p - (p % ClusterSize) = h
  BY <1>1, <1>2
<1> QED BY <1>1, <1>2, <1>3 DEF HubOf, Hub

-----------------------------------------------------------------------------
\* The invariant holds when ramp-up has ended.
LEMMA InitInv == Init => FilesInv
<1> SUFFICES ASSUME Init PROVE FilesInv
  OBVIOUS
<1> USE CheckpointAssumption
<1>1. n \in Nat \ {0} /\ 0 \in Proc /\ \A p \in Proc : p \in Nat
  BY DEF Init, Proc
<1>2. /\ stage = [p \in Proc |-> "search"] /\ checkpointNumber = [p \in Proc |-> 0]
      /\ pool = [p \in Proc |-> IF p = 0 THEN {New(Root, Root)} ELSE {}]
      /\ incumbent = [p \in Proc |-> [value |-> InitialGuess, source |-> 0]]
      /\ solution  = [p \in Proc |-> IF p = 0 THEN InitialGuess ELSE None]
      /\ network = {} /\ disk = {} /\ kills = 0 /\ phase = "running"
  BY DEF Init, RampedUp, Proc
<1>3. TypeOK
  BY <1>1, <1>2, FS_EmptySet, Z3T(60) DEF TypeOK, Entry, New, Incumbent, None, Stage
<1>4. FilesAgree
  BY <1>2 DEF FilesAgree
<1>5. IncumbentsSpread /\ SourcesAreBest
  <2>1. \A p \in Proc : incumbent[p].value = InitialGuess /\ incumbent[p].source = 0
    BY <1>2
  <2>2. solution[0] = InitialGuess
    BY <1>1, <1>2
  <2> QED BY <1>1, <1>2, <2>1, <2>2 DEF IncumbentsSpread, SourcesAreBest, AsGood, Knows, FromSource
<1>6. StartsAreTold
  BY <1>1, <1>2, HubFacts DEF StartsAreTold, Superior, Hub
<1>7. WritingIsTogether /\ EndIsTheEnd /\ FilesMatchMemory /\ LastIsComplete
  BY <1>1, <1>2 DEF WritingIsTogether, EndIsTheEnd, FilesMatchMemory, LastIsComplete, Completed,
       NoneIsNewer, OthersWrite, OpenIsOnDisk, WholeIsOnDisk
<1> QED BY <1>1, <1>2, <1>3, <1>4, <1>5, <1>6, <1>7 DEF FilesInv

-----------------------------------------------------------------------------
\* What is left of an entry is an entry: not one of which nothing is left.
LEMMA WithoutType ==
  ASSUME NEW e \in Entry, NEW s \in e.left
  PROVE  Without(e, s) \subseteq Entry
BY DEF Without, Entry

\* No step of a processor changes how many there are, nor who leads whom.
LEMMA RunFrame ==
  ASSUME NEW p \in Proc, Run(p)
  PROVE  /\ n' = n /\ kills' = kills /\ phase' \in {phase, "finished"}
         /\ Proc' = Proc /\ Hub' = Hub /\ \A q : Superior(q)' = Superior(q)
<1>1. n' = n /\ kills' = kills /\ phase' \in {phase, "finished"}
  <2>1. CASE Prune(p) \/ Work(p) \/ HearIncumbent(p) \/ Release(p) \/ Dispatch(p) \/ SpServe(p)
    BY <2>1 DEF Prune, Work, HearIncumbent, Release, Dispatch, SpServe, files
  <2>2. CASE SpReceive(p) \/ SetupCheckpoint(p) \/ OpenFile(p) \/ CloseFile(p)
             \/ EndCheckpoint(p) \/ End(p)
    BY <2>2 DEF SpReceive, SetupCheckpoint, OpenFile, CloseFile, EndCheckpoint, End, files
  <2> QED BY <2>1, <2>2 DEF Run
<1> QED BY <1>1 DEF Proc, Hub, Superior

\* What a processor in a checkpoint writes is a file.
LEMMA ThisFileType ==
  ASSUME TypeOK, phase # "killed", NEW p \in Proc, checkpointNumber[p] # 0, NEW w \in BOOLEAN
  PROVE  /\ ThisFile(p, w) \in File /\ ThisFile(p, w).p = p
         /\ ThisFile(p, w).k \in 1 .. MaxCheckpoint /\ ThisFile(p, w).p < ThisFile(p, w).size
<1> DEFINE subs == UNION {Packed(e) : e \in pool[p]}
           sol == IF incumbent[p].source = p THEN solution[p] ELSE None
<1>1. pool[p] \subseteq Entry /\ incumbent[p] \in Incumbent /\ solution[p] \in Nat /\ n \in Nat
      /\ checkpointNumber[p] \in 1 .. MaxCheckpoint /\ p \in Nat /\ p < n /\ None \in Nat
  BY CheckpointAssumption DEF TypeOK, Proc, None
<1>2. \A e \in Entry : Packed(e) \subseteq Entry
  BY DEF Packed, Entry
<1>3. subs \in SUBSET Entry /\ sol \in Nat
  BY <1>1, <1>2
<1>4. ThisFile(p, w) = [k |-> checkpointNumber[p], p |-> p, size |-> n, whole |-> w,
                        subs |-> subs, incumbent |-> incumbent[p], solution |-> sol]
  BY DEF ThisFile
<1> HIDE DEF subs, sol
<1> QED BY <1>1, <1>3, <1>4 DEF File

\* A step adds one file at most.
LEMMA DiskFinite ==
  ASSUME IsFiniteSet(disk), NEW p \in Proc, Run(p)
  PROVE  IsFiniteSet(disk')
<1>1. CASE \E f : disk' \subseteq disk \cup {f}
  <2>1. PICK f : disk' \subseteq disk \cup {f}
    BY <1>1
  <2> QED BY <2>1, FS_AddElement, FS_Subset
<1>2. CASE Prune(p) \/ Work(p) \/ HearIncumbent(p) \/ Release(p) \/ Dispatch(p) \/ SpServe(p)
  <2>1. disk' = disk
    BY <1>2 DEF Prune, Work, HearIncumbent, Release, Dispatch, SpServe, files
  <2> QED BY <2>1
<1>3. CASE SpReceive(p) \/ SetupCheckpoint(p) \/ EndCheckpoint(p) \/ End(p)
  <2>1. disk' \subseteq disk
    BY <1>3 DEF SpReceive, SetupCheckpoint, EndCheckpoint, End, files
  <2> QED BY <2>1, FS_Subset
<1>4. CASE OpenFile(p) \/ CloseFile(p)
  BY <1>1, <1>4 DEF OpenFile, CloseFile
<1> QED BY <1>2, <1>3, <1>4 DEF Run

\* Every step of a processor keeps the types; the bound of the checkpoint number
\* is kept as only processor 0 goes ahead of the others.
LEMMA RunType ==
  ASSUME FilesInv, phase = "running", NEW p \in Proc, Run(p)
  PROVE  TypeOK'
<1>0. /\ n \in Nat \ {0} /\ stage \in [Proc -> Stage] /\ kills \in 0 .. MaxKills
      /\ checkpointNumber \in [Proc -> 0 .. MaxCheckpoint]
      /\ pool \in [Proc -> SUBSET Entry]
      /\ incumbent \in [Proc -> Incumbent] /\ solution \in [Proc -> Nat] /\ network \subseteq Message
      /\ \A f \in disk : f \in File /\ f.k \in 1 .. MaxCheckpoint /\ f.p < f.size
  BY DEF FilesInv, TypeOK
<1>b. TypeOK
  BY DEF FilesInv
<1>a. \A q \in Proc : q \in Nat
  BY <1>0 DEF Proc
<1> DEFINE Memory == /\ stage' \in [Proc -> Stage] /\ checkpointNumber' \in [Proc -> 0 .. MaxCheckpoint]
                     /\ pool' \in [Proc -> SUBSET Entry]
                     /\ incumbent' \in [Proc -> Incumbent] /\ solution' \in [Proc -> Nat]
                     /\ network' \subseteq Message
           Disk == \A f \in disk' : f \in File /\ f.k \in 1 .. MaxCheckpoint /\ f.p < f.size
<1>2. SUFFICES Memory /\ Disk
  BY <1>0, <1>b, RunFrame, DiskFinite DEF TypeOK, Message
<1>3. CASE Prune(p)
  BY <1>0, <1>3 DEF Prune, files
<1>4. CASE Work(p)
  <2>1. pool' \in [Proc -> SUBSET Entry]
    BY <1>0, <1>4, WithoutType, CheckpointAssumption DEF Work, Entry, Leaf
  <2>2. incumbent' \in [Proc -> Incumbent] /\ solution' \in [Proc -> Nat]
    BY <1>0, <1>4, <1>a, CheckpointAssumption DEF Work, Incumbent, Leaf
  <2>3. network' \subseteq Message
    BY <1>0, <1>4, <1>a, CheckpointAssumption DEF Work, Incumbent, Leaf, Message
  <2> QED BY <2>1, <2>2, <2>3, <1>0, <1>4 DEF Work, files
<1>5. CASE HearIncumbent(p)
  <2>0. UNCHANGED <<stage, checkpointNumber, pool, solution, disk>>
    BY <1>5 DEF HearIncumbent, files
  <2>1. PICK m \in network : m.type = "incumbent" /\ network' = network \ {m}
          /\ incumbent' \in {[incumbent EXCEPT ![p] = m.incumbent], incumbent}
    BY <1>5, <1>0 DEF HearIncumbent
  <2>2. incumbent' \in [Proc -> Incumbent] /\ network' \subseteq Message
    BY <1>0, <2>1 DEF Message
  <2> QED BY <1>0, <2>0, <2>2
<1>6. CASE Release(p)
  <2>0. UNCHANGED <<stage, checkpointNumber, incumbent, network, solution, disk>>
    BY <1>6 DEF Release, files
  <2>2. pool' \in [Proc -> SUBSET Entry]
    BY <1>0, <1>6 DEF Release, Entry
  <2> QED BY <1>0, <2>0, <2>2
<1>7. CASE Dispatch(p)
  <2>0. UNCHANGED <<stage, checkpointNumber, pool, incumbent, solution, disk>>
    BY <1>7 DEF Dispatch, files, search
  <2>2. network' \subseteq Message
    BY <1>0, <1>7 DEF Dispatch, Message, Entry, ClusterOf
  <2> QED BY <1>0, <2>0, <2>2
<1>8. CASE SpServe(p)
  <2>0. UNCHANGED <<stage, checkpointNumber, incumbent, solution, disk>>
    BY <1>8 DEF SpServe, files
  <2>1. pool' \in [Proc -> SUBSET Entry]
    <3>1. \A m \in network, e \in Entry : m.type = "dispatch" => New(m.sub, e.bound) \in Entry
      BY <1>0 DEF New, Entry, Message
    <3>2. \A m \in network, e \in pool[p] : m.sub \in e.tokens => Without(e, m.sub) \subseteq Entry
      BY <1>0, WithoutType DEF Entry
    <3> DEFINE Left(m, of, local) == (pool[p] \ of) \cup (UNION {Without(e, m.sub) : e \in of})
                                        \cup {New(m.sub, e.bound) : e \in local}
    <3>3. PICK m \in network, of \in SUBSET pool[p], local \in SUBSET pool[p] :
            /\ m.type = "dispatch" /\ \A e \in of : m.sub \in e.tokens
            /\ pool' = [pool EXCEPT ![p] = Left(m, of, local)]
      BY <1>8, ZenonT(60) DEF SpServe
    <3>4. Left(m, of, local) \subseteq Entry
      <4>1. \A e \in of : Without(e, m.sub) \subseteq Entry
        BY <3>2, <3>3
      <4>2. UNION {Without(e, m.sub) : e \in of} \subseteq Entry
        BY <4>1
      <4>3. \A e \in local : New(m.sub, e.bound) \in Entry
        BY <1>0, <3>1, <3>3
      <4>4. {New(m.sub, e.bound) : e \in local} \subseteq Entry
        BY <4>3
      <4>5. pool[p] \subseteq Entry
        BY <1>0
      <4> QED BY <4>2, <4>4, <4>5
    <3> DEFINE left == Left(m, of, local)
    <3> HIDE DEF left
    <3>5. pool' = [pool EXCEPT ![p] = left] /\ left \in SUBSET Entry
      BY <3>3, <3>4 DEF left
    <3> QED BY <1>0, <3>5
  <2>2. network' \subseteq Message
    BY <1>0, <1>8 DEF SpServe, Message, Entry
  <2> QED BY <1>0, <2>0, <2>1, <2>2
<1>9. CASE SpReceive(p)
  <2>0. UNCHANGED <<stage, checkpointNumber, incumbent, solution, disk>>
    BY <1>9 DEF SpReceive, files
  <2>1. PICK m \in network : m.type = "deliver" /\ network' = network \ {m}
          /\ \E S \in SUBSET {New(m.sub, m.bound)} : pool' = [pool EXCEPT ![p] = @ \cup S]
    BY <1>9 DEF SpReceive
  <2>2. New(m.sub, m.bound) \in Entry
    BY <1>0, <2>1 DEF Message, Entry, New
  <2>3. pool' \in [Proc -> SUBSET Entry] /\ network' \subseteq Message
    BY <1>0, <2>1, <2>2
  <2> QED BY <1>0, <2>0, <2>3
<1>10. CASE SetupCheckpoint(p)
  <2>0. UNCHANGED <<pool, incumbent, solution, disk>>
    BY <1>10 DEF SetupCheckpoint, files, search
  <2>1. network' \subseteq Message
    <3>1. \A q \in Proc : [type |-> "start", to |-> q] \in Message
      BY DEF Message
    <3> QED BY <1>0, <3>1, <1>10 DEF SetupCheckpoint, Alert, ClusterOf, Hub
  <2>2. stage' \in [Proc -> Stage]
    BY <1>0, <1>10 DEF SetupCheckpoint, Stage
  <2>3. checkpointNumber' \in [Proc -> 0 .. MaxCheckpoint]
    <3>1. checkpointNumber[p] < MaxCheckpoint
      <4>1. CASE p = 0 /\ checkpointNumber[p] < MaxCheckpoint
        BY <4>1
      <4>2. CASE [type |-> "start", to |-> p] \in network
        <5>1. Superior(p) \in Proc
          BY <1>0, HubFacts DEF Superior, Hub
        <5>2. checkpointNumber[p] < checkpointNumber[Superior(p)]
          BY <4>2 DEF FilesInv, StartsAreTold
        <5> QED BY <1>0, <5>1, <5>2, CheckpointAssumption
      <4> QED BY <4>1, <4>2, <1>10 DEF SetupCheckpoint
    <3> QED BY <1>0, <3>1, <1>10, CheckpointAssumption DEF SetupCheckpoint
  <2> QED BY <1>0, <2>0, <2>1, <2>2, <2>3
<1>11. CASE OpenFile(p)
  <2>0. UNCHANGED <<checkpointNumber, pool, incumbent, solution>>
    BY <1>11 DEF OpenFile, search
  <2>1. network' \subseteq Message
    <3>1. \A q \in Proc : [type |-> "write", to |-> q] \in Message
      BY DEF Message
    <3> QED BY <1>0, <3>1, <1>11 DEF OpenFile, Alert, ClusterOf, Hub
  <2>2. stage' \in [Proc -> Stage]
    BY <1>0, <1>11 DEF OpenFile, Stage
  <2>3. Disk
    <3>1. checkpointNumber[p] # 0
      <4>1. stage[p] = "suspended"
        BY <1>11 DEF OpenFile, MayWrite
      <4>2. checkpointNumber[p] > 0
        BY <4>1 DEF FilesInv, StartsAreTold
      <4> QED BY <4>2, <1>0, CheckpointAssumption
    <3>2. disk' \subseteq disk \cup {ThisFile(p, FALSE)}
      BY <1>11 DEF OpenFile
    <3> QED BY <1>0, <1>b, <3>1, <3>2, ThisFileType
  <2> QED BY <1>0, <2>0, <2>1, <2>2, <2>3
<1>12. CASE CloseFile(p)
  <2>0. UNCHANGED <<checkpointNumber, pool, incumbent, solution, network>>
    BY <1>12 DEF CloseFile, search
  <2>2. stage' \in [Proc -> Stage]
    BY <1>0, <1>12 DEF CloseFile, Stage
  <2>3. Disk
    <3>1. ThisFile(p, FALSE) \in disk
      BY <1>12 DEF CloseFile, FilesInv, FilesMatchMemory, OpenIsOnDisk
    <3>2. checkpointNumber[p] # 0
      BY <1>0, <3>1 DEF ThisFile
    <3>4. disk' \subseteq disk \cup {ThisFile(p, TRUE)}
      BY <1>12 DEF CloseFile
    <3> QED BY <1>0, <1>b, <3>2, <3>4, ThisFileType
  <2> QED BY <1>0, <2>0, <2>2, <2>3
<1>13. CASE EndCheckpoint(p)
  <2>0. UNCHANGED <<checkpointNumber, pool, incumbent, solution, network>>
    BY <1>13 DEF EndCheckpoint, search
  <2>2. stage' \in [Proc -> Stage]
    BY <1>0, <1>13 DEF EndCheckpoint, Stage
  <2>3. Disk
    BY <1>0, <1>13 DEF EndCheckpoint
  <2> QED BY <1>0, <2>0, <2>2, <2>3
<1>14. CASE End(p)
  <2>0. UNCHANGED <<checkpointNumber, pool, incumbent, solution, network>>
    BY <1>14 DEF End, search
  <2>2. stage' \in [Proc -> Stage]
    BY <1>0, <1>14 DEF End, Stage
  <2>3. Disk
    BY <1>0, <1>14 DEF End
  <2> QED BY <1>0, <2>0, <2>2, <2>3
<1> QED BY <1>3, <1>4, <1>5, <1>6, <1>7, <1>8, <1>9, <1>10, <1>11, <1>12, <1>13, <1>14 DEF Run

\* The types while the program runs, as facts about each processor.
LEMMA RunningTypes ==
  ASSUME FilesInv, phase = "running"
  PROVE  /\ n \in Nat \ {0} /\ stage \in [Proc -> Stage] /\ pool \in [Proc -> SUBSET Entry]
         /\ incumbent \in [Proc -> Incumbent] /\ solution \in [Proc -> Nat] /\ network \subseteq Message
         /\ checkpointNumber \in [Proc -> 0 .. MaxCheckpoint]
         /\ \A q \in Proc : q \in Nat /\ checkpointNumber[q] \in Nat
         /\ 0 \in Proc /\ 0 \in Hub
<1>1. /\ n \in Nat \ {0} /\ stage \in [Proc -> Stage] /\ pool \in [Proc -> SUBSET Entry]
      /\ incumbent \in [Proc -> Incumbent] /\ solution \in [Proc -> Nat] /\ network \subseteq Message
      /\ checkpointNumber \in [Proc -> 0 .. MaxCheckpoint]
  BY DEF FilesInv, TypeOK
<1>2. \A q \in Proc : checkpointNumber[q] \in Nat
  BY <1>1, CheckpointAssumption
<1>3. 0 \in Proc /\ \A q \in Proc : q \in Nat
  BY <1>1 DEF Proc
<1> QED BY <1>1, <1>2, <1>3, HubFacts DEF Hub

\* A step of the search.
SearchStep(p) ==
  Prune(p) \/ Work(p) \/ HearIncumbent(p) \/ Release(p) \/ Dispatch(p) \/ SpServe(p) \/ SpReceive(p)

\* The search starts and writes no checkpoint, and does nothing at all in the state
\* in which files are written; nor does it touch a processor that writes.
LEMMA SearchFrame ==
  ASSUME FilesInv, phase = "running", NEW p \in Proc, SearchStep(p)
  PROVE  /\ UNCHANGED <<phase, n, stage, checkpointNumber, disk>>
         /\ \A t \in {"start", "write"}, q \in Proc :
              [type |-> t, to |-> q] \in network' <=> [type |-> t, to |-> q] \in network
         /\ Quiescent => UNCHANGED <<incumbent, solution, network>>
         /\ \A q \in Proc : stage[q] \notin {"search", "suspended"} =>
              pool'[q] = pool[q] /\ incumbent'[q] = incumbent[q] /\ solution'[q] = solution[q]
         /\ \A q \in Proc : stage[q] # "ended"
<1>0. /\ stage \in [Proc -> Stage] /\ pool \in [Proc -> SUBSET Entry]
      /\ incumbent \in [Proc -> Incumbent] /\ solution \in [Proc -> Nat] /\ network \subseteq Message
  BY RunningTypes
<1>1. UNCHANGED <<phase, n, stage, checkpointNumber, disk>>
  BY DEF SearchStep, Prune, Work, HearIncumbent, Release, Dispatch, SpServe, SpReceive, files
<1>2. ASSUME NEW t \in {"start", "write"}, NEW q \in Proc
      PROVE  [type |-> t, to |-> q] \in network' <=> [type |-> t, to |-> q] \in network
  <2>1. CASE Prune(p) \/ Release(p)
    BY <2>1 DEF Prune, Release
  <2>2. CASE Work(p)
    BY <2>2 DEF Work
  <2>3. CASE HearIncumbent(p) \/ SpReceive(p)
    BY <2>3 DEF HearIncumbent, SpReceive
  <2>4. CASE Dispatch(p)
    BY <2>4 DEF Dispatch
  <2>5. CASE SpServe(p)
    <3>1. PICK m \in network, of \in SUBSET pool[p], local \in SUBSET pool[p] :
            /\ m.type = "dispatch"
            /\ network' = (network \ {m}) \cup
                 {[type |-> "deliver", to |-> m.dest, sub |-> m.sub, bound |-> e.bound] : e \in of \ local}
      BY <2>5, ZenonT(60) DEF SpServe
    <3> DEFINE x == [type |-> t, to |-> q]
    <3>2. x # m /\ \A e \in of \ local :
            x # [type |-> "deliver", to |-> m.dest, sub |-> m.sub, bound |-> e.bound]
      BY <3>1, <1>2
    <3> HIDE DEF x
    <3>3. x \in network' <=> x \in network
      BY <3>1, <3>2
    <3> QED BY <3>3 DEF x
  <2> QED BY <2>1, <2>2, <2>3, <2>4, <2>5 DEF SearchStep
<1>3. ASSUME Quiescent PROVE UNCHANGED <<incumbent, solution, network>>
  <2>1. stage[p] # "search" /\ \A m \in network : m.type \notin {"incumbent", "dispatch", "deliver"}
    BY <1>3 DEF Quiescent
  <2>2. Prune(p)
    BY <2>1 DEF SearchStep, Work, HearIncumbent, Release, Dispatch, SpServe, SpReceive
  <2> QED BY <2>2 DEF Prune
<1>4. ASSUME NEW q \in Proc, stage[q] \notin {"search", "suspended"}
      PROVE  pool'[q] = pool[q] /\ incumbent'[q] = incumbent[q] /\ solution'[q] = solution[q]
  <2>0. Dispatch(p) \/ p # q
    BY <1>4 DEF SearchStep, Prune, Work, HearIncumbent, Release, SpServe, SpReceive
  <2>1. CASE Dispatch(p)
    BY <2>1 DEF Dispatch, search
  <2>2. CASE (Prune(p) \/ Release(p)) /\ p # q
    BY <2>2, <1>0 DEF Prune, Release
  <2>6. CASE SpReceive(p) /\ p # q
    BY <2>6, <1>0 DEF SpReceive
  <2>3. CASE Work(p) /\ p # q
    <3>1. pool'[q] = pool[q]
      BY <2>3, <1>0 DEF Work
    <3>2. incumbent'[q] = incumbent[q]
      BY <2>3, <1>0 DEF Work
    <3>3. solution'[q] = solution[q]
      BY <2>3, <1>0 DEF Work
    <3> QED BY <3>1, <3>2, <3>3
  <2>4. CASE HearIncumbent(p) /\ p # q
    BY <2>4, <1>0 DEF HearIncumbent
  <2>5. CASE SpServe(p) /\ p # q
    BY <2>5, <1>0 DEF SpServe
  <2> QED BY <2>0, <2>1, <2>2, <2>3, <2>4, <2>5, <2>6 DEF SearchStep
<1>5. ASSUME NEW q \in Proc, stage[q] = "ended" PROVE FALSE
  <2>1. network = {} /\ \A x \in Proc : pool[x] = {}
    BY <1>5 DEF FilesInv, EndIsTheEnd
  <2> QED BY <2>1 DEF SearchStep, Prune, Work, HearIncumbent, Release, Dispatch, SpServe, SpReceive
<1> QED BY <1>1, <1>2, <1>3, <1>4, <1>5

\* A processor is told of a checkpoint by a hub, a hub by processor 0.
LEMMA SuperiorFacts ==
  ASSUME NEW p \in Proc, n \in Nat \ {0}
  PROVE  /\ Superior(p) \in Hub /\ Superior(p) \in Proc
         /\ p \in Hub => Superior(p) = 0
         /\ p \notin Hub => Superior(p) = HubOf(p) /\ p \in ClusterOf(Superior(p))
BY HubFacts DEF Superior, Hub

\* Other steps than setupCheckpoint leave numbers and "start" messages alone.
LEMMA StartsKept ==
  ASSUME FilesInv, phase = "running", NEW p \in Proc, Run(p), ~SetupCheckpoint(p)
  PROVE  StartsAreTold'
<1>1. checkpointNumber' = checkpointNumber
  <2>1. CASE SearchStep(p)
    BY <2>1, SearchFrame
  <2>2. CASE OpenFile(p) \/ CloseFile(p) \/ EndCheckpoint(p) \/ End(p)
    BY <2>2 DEF OpenFile, CloseFile, EndCheckpoint, End
  <2> QED BY <2>1, <2>2 DEF Run, SearchStep
<1>2. ASSUME NEW q \in Proc
      PROVE  [type |-> "start", to |-> q] \in network' <=> [type |-> "start", to |-> q] \in network
  <2>1. CASE SearchStep(p)
    BY <2>1, SearchFrame
  <2>2. CASE OpenFile(p)
    BY <2>2 DEF OpenFile, Alert
  <2>3. CASE CloseFile(p) \/ EndCheckpoint(p) \/ End(p)
    BY <2>3 DEF CloseFile, EndCheckpoint, End
  <2> QED BY <2>1, <2>2, <2>3 DEF Run, SearchStep
<1>3. ASSUME NEW q \in Proc
      PROVE  /\ stage'[q] = "search" => stage[q] = "search" \/ PastBarrier(q)
             /\ stage'[q] = "suspended" => stage[q] = "suspended"
  <2>0. stage \in [Proc -> Stage]
    BY RunningTypes
  <2>1. CASE SearchStep(p)
    BY <2>1, SearchFrame
  <2>2. CASE OpenFile(p) \/ CloseFile(p)
    BY <2>0, <2>2 DEF OpenFile, CloseFile
  <2>3. CASE EndCheckpoint(p) \/ End(p)
    BY <2>0, <2>3 DEF EndCheckpoint, End
  <2> QED BY <2>1, <2>2, <2>3 DEF Run, SearchStep
<1>4. StartsAreTold
  BY DEF FilesInv
<1>5. \A q, r \in Proc : PastBarrier(q) => checkpointNumber[q] <= checkpointNumber[r]
  BY RunningTypes DEF PastBarrier
<1> QED BY <1>1, <1>2, <1>3, <1>4, <1>5, RunFrame DEF StartsAreTold

\* setupCheckpoint makes a processor equal to its superior, and those it leads get
\* a message each: they were equal to it, so they are one behind it now.
LEMMA StartsSetup ==
  ASSUME FilesInv, phase = "running", NEW p \in Proc, SetupCheckpoint(p)
  PROVE  StartsAreTold'
<1> DEFINE num == checkpointNumber
           start(q) == [type |-> "start", to |-> q]
<1>0. Run(p) /\ StartsAreTold /\ num \in [Proc -> 0 .. MaxCheckpoint] /\ stage \in [Proc -> Stage]
      /\ \A q \in Proc : q \in Nat /\ num[q] \in Nat
  BY RunningTypes DEF Run, FilesInv
<1>1. num' = [num EXCEPT ![p] = @ + 1] /\ stage' = [stage EXCEPT ![p] = "suspended"]
      /\ stage[p] = "search"
  BY DEF SetupCheckpoint
<1>2. \A q \in Proc : num[p] <= num[q]
  BY <1>0, <1>1 DEF StartsAreTold
<1>3. 0 \in Proc /\ 0 \in Hub /\ Superior(0) = 0 /\ n \in Nat \ {0}
  BY RunningTypes, SuperiorFacts
<1>4. \A q \in Proc : /\ num[q] <= num[Superior(q)] /\ num[0] <= num[q] + 1
                      /\ Superior(q) \in Proc /\ Superior(q) \in Hub
                      /\ start(q) \in network <=> num[q] < num[Superior(q)]
  BY <1>0, <1>3, SuperiorFacts DEF StartsAreTold
<1>5. \A q \in Proc : num[q] <= num[0]
  <2>1. ASSUME NEW q \in Proc, q \in Hub PROVE num[q] <= num[0]
    BY <2>1, <1>3, <1>4, SuperiorFacts
  <2>2. ASSUME NEW q \in Proc PROVE num[q] <= num[0]
    <3> DEFINE s == Superior(q)
    <3>1. s \in Proc /\ s \in Hub /\ num[q] <= num[s]
      BY <1>4
    <3>2. num[s] <= num[0]
      BY <2>1, <3>1
    <3> HIDE DEF s
    <3> QED BY <3>1, <3>2, <1>0, <1>3
  <2> QED BY <2>2
<1>6. p = 0 => \A q \in Proc : num[q] = num[0]
  BY <1>0, <1>2, <1>3, <1>5
<1>7. p # 0 => num[p] < num[Superior(p)] /\ Superior(p) # p /\ num[Superior(p)] = num[0] /\ num[0] = num[p] + 1
  <2> SUFFICES ASSUME p # 0
               PROVE  num[p] < num[Superior(p)] /\ Superior(p) # p /\ num[Superior(p)] = num[0] /\ num[0] = num[p] + 1
    OBVIOUS
  <2>1. num[p] < num[Superior(p)]
    BY <1>4 DEF SetupCheckpoint
  <2> DEFINE s == Superior(p)
  <2>2. s \in Proc /\ num[p] < num[s] /\ num[s] <= num[0] /\ num[0] <= num[p] + 1
    BY <2>1, <1>4, <1>5
  <2> HIDE DEF s
  <2>3. num[s] = num[0] /\ num[0] = num[p] + 1 /\ s # p
    BY <2>2, <1>0, <1>3
  <2> QED BY <2>1, <2>3 DEF s
<1>8. ASSUME NEW q \in Proc
      PROVE  start(q) \in network' <=>
               \/ start(q) \in network /\ q # p
               \/ p = 0 /\ q \in Hub /\ q # 0
               \/ q \notin Hub /\ Superior(q) = p
  <2>1. network' = (network \ {start(p)}) \cup (IF p \in Hub THEN Alert(p, "start") ELSE {})
       \cup {start(h) : h \in {x \in Hub \ {0} : p = 0}}
    BY DEF SetupCheckpoint
  <2>2. start(q) \in {start(h) : h \in {x \in Hub \ {0} : p = 0}} <=> p = 0 /\ q \in Hub /\ q # 0
    OBVIOUS
  <2>3. start(q) \in Alert(p, "start") <=> q \in ClusterOf(p)
    BY DEF Alert
  <2>4. p \in Hub /\ q \in ClusterOf(p) <=> q \notin Hub /\ Superior(q) = p
    BY <1>3, SuperiorFacts, ClusterFacts
  <2>5. start(q) = start(p) <=> q = p
    OBVIOUS
  <2> HIDE DEF start
  <2> QED BY <2>1, <2>2, <2>3, <2>4, <2>5
<1> HIDE DEF start, num
<1>9. ASSUME NEW q \in Proc
      PROVE  /\ num'[q] <= num'[Superior(q)]
             /\ num'[0] <= num'[q] + 1
             /\ start(q) \in network' <=> num'[q] < num'[Superior(q)]
  <2>1. CASE p = 0
    BY <2>1, <1>0, <1>1, <1>3, <1>4, <1>6, <1>8, SuperiorFacts
  <2>2. CASE p # 0
    BY <2>2, <1>0, <1>1, <1>3, <1>4, <1>5, <1>7, <1>8, SuperiorFacts
  <2> QED BY <2>1, <2>2
<1>10. ASSUME NEW q \in Proc
       PROVE  /\ stage'[q] = "search" => \A r \in Proc : num'[q] <= num'[r]
              /\ stage'[q] = "suspended" => num'[q] > 0
  <2>1. \A r \in Proc : num[r] <= num'[r] /\ num'[r] \in Nat
    BY <1>0, <1>1
  <2>2. CASE q = p
    BY <2>2, <1>0, <1>1
  <2>3. CASE q # p
    <3>1. /\ stage'[q] = stage[q] /\ num'[q] = num[q]
          /\ stage[q] = "search" => \A r \in Proc : num[q] <= num[r]
          /\ stage[q] = "suspended" => num[q] > 0
      BY <2>3, <1>0, <1>1 DEF StartsAreTold, num
    <3> QED BY <3>1, <2>1, <1>0
  <2> QED BY <2>2, <2>3
<1>11. Proc' = Proc /\ \A q : Superior(q)' = Superior(q)
  BY <1>0, RunFrame
<1> USE DEF num, start
<1>12. \A q \in Proc :
         /\ checkpointNumber'[q] <= checkpointNumber'[Superior(q)]
         /\ checkpointNumber'[0] <= checkpointNumber'[q] + 1
         /\ [type |-> "start", to |-> q] \in network' <=> checkpointNumber'[q] < checkpointNumber'[Superior(q)]
         /\ stage'[q] = "search" => \A r \in Proc : checkpointNumber'[q] <= checkpointNumber'[r]
         /\ stage'[q] = "suspended" => checkpointNumber'[q] > 0
  BY <1>9, <1>10
<1> QED BY <1>11, <1>12 DEF StartsAreTold

-----------------------------------------------------------------------------
\* When nothing is in flight, all are in the same checkpoint.
LEMMA SameNumber ==
  ASSUME FilesInv, phase = "running", Quiescent, NEW p \in Proc, NEW q \in Proc
  PROVE  checkpointNumber[p] = checkpointNumber[q]
<1>1. n \in Nat \ {0} /\ \A x \in Proc : checkpointNumber[x] \in Nat
  BY RunningTypes
<1>2. ASSUME NEW x \in Proc PROVE checkpointNumber[x] = checkpointNumber[Superior(x)]
  <2>1. [type |-> "start", to |-> x] \notin network
    BY DEF Quiescent
  <2>2. Superior(x) \in Proc
    BY <1>1, SuperiorFacts
  <2> QED BY <1>1, <2>1, <2>2 DEF FilesInv, StartsAreTold
<1>3. ASSUME NEW x \in Proc, x \in Hub PROVE checkpointNumber[x] = checkpointNumber[0]
  BY <1>1, <1>2, <1>3, SuperiorFacts
<1>4. ASSUME NEW x \in Proc PROVE checkpointNumber[x] = checkpointNumber[0]
  BY <1>1, <1>2, <1>3, SuperiorFacts
<1> QED BY <1>4

\* Files are written in a state that is quiescent and stays so until the last of the
\* processors has written its own; only then can the first go on.
LEMMA WritingKept ==
  ASSUME FilesInv, phase = "running", NEW p \in Proc, Run(p)
  PROVE  WritingIsTogether'
<1>0. /\ stage \in [Proc -> Stage] /\ WritingIsTogether
      /\ \A q \in Proc : checkpointNumber[q] \in Nat /\ HubOf(q) \in Proc /\ (q \in Hub => HubOf(q) = q)
      /\ checkpointNumber \in [Proc -> 0 .. MaxCheckpoint]
  BY RunningTypes, HubFacts DEF FilesInv, Hub
<1>1. Proc' = Proc /\ Hub' = Hub
  BY RunFrame
<1>2. CASE SearchStep(p)
  <2>1. /\ stage' = stage /\ checkpointNumber' = checkpointNumber
        /\ \A q \in Proc : [type |-> "write", to |-> q] \in network' <=> [type |-> "write", to |-> q] \in network
        /\ Quiescent => network' = network
    BY <1>2, SearchFrame
  <2>2. Quiescent => Quiescent'
    BY <1>1, <2>1 DEF Quiescent
  <2>3. \A q \in Proc : Behind(q) => Behind(q)'
    BY <1>1, <2>1 DEF Behind
  <2> QED BY <1>0, <1>1, <2>1, <2>2, <2>3 DEF WritingIsTogether
<1>3. CASE SetupCheckpoint(p)
  <2>1. /\ stage[p] = "search" /\ stage' = [stage EXCEPT ![p] = "suspended"]
        /\ checkpointNumber' = [checkpointNumber EXCEPT ![p] = @ + 1]
        /\ \A q \in Proc : [type |-> "write", to |-> q] \in network' => [type |-> "write", to |-> q] \in network
    BY <1>3 DEF SetupCheckpoint, Alert
  <2>2. ~Quiescent
    BY <2>1 DEF Quiescent
  <2>3. \A q \in Proc : /\ [type |-> "write", to |-> q] \notin network'
                        /\ stage'[q] # "writing"
                        /\ stage'[q] = "written" => q # p /\ stage[q] = "written" /\ Behind(q)
    BY <1>0, <2>1, <2>2 DEF WritingIsTogether
  <2>4. ASSUME NEW q \in Proc, q # p, Behind(q) PROVE Behind(q)'
    BY <1>0, <1>1, <2>1, <2>4 DEF Behind
  <2>5. ASSUME NEW q \in Proc, stage'[q] = "written", q \notin Hub,
               checkpointNumber'[q] = checkpointNumber'[HubOf(q)]
        PROVE  stage'[HubOf(q)] # "suspended"
    <3>1. HubOf(q) # p
      <4>1. q # p /\ Behind(q)
        BY <2>3, <2>5
      <4>2. checkpointNumber[p] >= checkpointNumber[q]
        BY <1>0, <4>1 DEF Behind
      <4>3. checkpointNumber'[p] = checkpointNumber[p] + 1 /\ checkpointNumber'[q] = checkpointNumber[q]
        BY <1>0, <2>1, <4>1
      <4>4. checkpointNumber'[q] = checkpointNumber'[HubOf(q)]
        BY <2>5
      <4>5. checkpointNumber[p] \in Nat /\ checkpointNumber[q] \in Nat
        BY <1>0
      <4> QED BY <4>2, <4>3, <4>4, <4>5
    <3> QED BY <1>0, <2>1, <2>3, <2>5, <3>1, ZenonT(60) DEF WritingIsTogether
  <2> QED BY <1>1, <2>3, <2>4, <2>5 DEF WritingIsTogether
<1>4. CASE OpenFile(p)
  <2>1. /\ stage[p] = "suspended" /\ stage' = [stage EXCEPT ![p] = "writing"] /\ Quiescent
        /\ checkpointNumber' = checkpointNumber
    BY <1>0, <1>4 DEF OpenFile, MayWrite, WritingIsTogether
  <2>2. \A q \in Proc : [type |-> "write", to |-> q] \in network' =>
           \/ [type |-> "write", to |-> q] \in network /\ q # p
           \/ p \in Hub /\ q \in ClusterOf(p)
    BY <1>4 DEF OpenFile, Alert
  <2>3. Quiescent'
    <3>1. \A m \in network' : m.type = "write"
      BY <1>4, <2>1 DEF OpenFile, Alert, Quiescent
    <3> QED BY <1>0, <1>1, <2>1, <3>1 DEF Quiescent
  <2>4. ASSUME NEW q \in Proc, [type |-> "write", to |-> q] \in network'
        PROVE  q \notin Hub /\ stage'[q] = "suspended" /\ stage'[HubOf(q)] # "suspended"
    <3>1. CASE [type |-> "write", to |-> q] \in network /\ q # p
      BY <1>0, <2>1, <3>1 DEF WritingIsTogether
    <3>2. CASE p \in Hub /\ q \in ClusterOf(p)
      <4>1. q \notin Hub /\ HubOf(q) = p
        BY <3>2, ClusterFacts, RunningTypes
      <4>2. stage[q] \in {"suspended", "writing", "written"} /\ checkpointNumber[q] = checkpointNumber[p]
        BY <2>1, SameNumber DEF Quiescent
      <4> QED BY <1>0, <2>1, <3>2, <4>1, <4>2 DEF WritingIsTogether
    <3> QED BY <2>2, <2>4, <3>1, <3>2
  <2>5. ASSUME NEW q \in Proc, q \notin Hub, stage'[q] \in {"writing", "written"},
               checkpointNumber[q] = checkpointNumber[HubOf(q)]
        PROVE  stage'[HubOf(q)] # "suspended"
    <3>1. CASE q = p
      <4>1. [type |-> "write", to |-> p] \in network
        BY <1>4, <2>5, <3>1 DEF OpenFile, MayWrite
      <4> QED BY <1>0, <2>1, <2>5, <3>1, <4>1 DEF WritingIsTogether
    <3>2. CASE q # p
      BY <1>0, <2>1, <2>5, <3>2 DEF WritingIsTogether
    <3> QED BY <3>1, <3>2
  <2> QED BY <1>1, <2>1, <2>3, <2>4, <2>5 DEF WritingIsTogether
<1>5. CASE CloseFile(p)
  <2>1. /\ stage[p] = "writing" /\ stage' = [stage EXCEPT ![p] = "written"] /\ Quiescent
        /\ checkpointNumber' = checkpointNumber /\ network' = network
    BY <1>0, <1>5 DEF CloseFile, WritingIsTogether
  <2>2. Quiescent'
    BY <1>0, <1>1, <2>1 DEF Quiescent
  <2> QED BY <1>0, <1>1, <2>1, <2>2 DEF WritingIsTogether
<1>6. CASE EndCheckpoint(p)
  <2>1. /\ stage[p] = "written" /\ stage' = [stage EXCEPT ![p] = "search"]
        /\ checkpointNumber' = checkpointNumber /\ network' = network
        /\ Behind(p)
    BY <1>6 DEF EndCheckpoint, PastBarrier, Behind
  <2>2. ASSUME Quiescent PROVE \A q \in Proc : stage[q] = "written"
    <3>1. \A q \in Proc : checkpointNumber[p] = checkpointNumber[q]
      BY <2>2, SameNumber
    <3> QED BY <1>0, <2>1, <2>2, <3>1 DEF Behind, Quiescent
  <2>3. ASSUME NEW q \in Proc PROVE [type |-> "write", to |-> q] \notin network' /\ stage'[q] # "writing"
    BY <1>0, <2>1, <2>2 DEF WritingIsTogether
  <2>4. ASSUME NEW q \in Proc, stage'[q] = "written" PROVE Behind(q)'
    <3>1. q # p /\ stage[q] = "written"
      BY <1>0, <2>1, <2>4
    <3>2. Behind(q)
      <4>1. CASE Quiescent
        <5>1. \A r \in Proc : checkpointNumber[r] = checkpointNumber[q]
          BY <4>1, SameNumber
        <5> QED BY <2>2, <4>1, <5>1 DEF Behind
      <4> QED BY <1>0, <3>1, <4>1 DEF WritingIsTogether
    <3> QED BY <1>0, <1>1, <2>1, <3>2 DEF Behind
  <2>5. ASSUME NEW q \in Proc, q \notin Hub, stage'[q] = "written",
               checkpointNumber[q] = checkpointNumber[HubOf(q)]
        PROVE  stage'[HubOf(q)] # "suspended"
    BY <1>0, <2>1, <2>5 DEF WritingIsTogether
  <2> QED BY <1>1, <2>1, <2>3, <2>4, <2>5 DEF WritingIsTogether
<1>7. CASE End(p)
  <2>1. network' = {} /\ \A q \in Proc : stage'[q] \in {"search", "ended"}
    BY <1>0, <1>7 DEF End
  <2> QED BY <1>0, <1>1, <2>1 DEF WritingIsTogether
<1> QED BY <1>2, <1>3, <1>4, <1>5, <1>6, <1>7 DEF Run, SearchStep

\* A processor ends when nobody has work or a message, and nothing starts after.
LEMMA EndKept ==
  ASSUME FilesInv, phase = "running", NEW p \in Proc, Run(p)
  PROVE  EndIsTheEnd'
<1>0. /\ stage \in [Proc -> Stage] /\ EndIsTheEnd /\ Proc' = Proc /\ 0 \in Proc /\ 0 \in Hub
  BY RunningTypes, RunFrame DEF FilesInv
<1>1. CASE \E q \in Proc : stage[q] = "ended"
  <2>1. /\ network = {} /\ stage[0] = "ended"
        /\ \A q \in Proc : pool[q] = {} /\ stage[q] \in {"search", "ended"}
    BY <1>0, <1>1 DEF EndIsTheEnd
  <2>2. End(p)
    <3>1. ~SearchStep(p)
      BY <1>1, SearchFrame
    <3>2. ~(SetupCheckpoint(p) \/ OpenFile(p) \/ CloseFile(p) \/ EndCheckpoint(p))
      BY <2>1 DEF SetupCheckpoint, OpenFile, CloseFile, EndCheckpoint, MayWrite, PastBarrier
    <3> QED BY <3>1, <3>2 DEF Run, SearchStep
  <2> QED BY <1>0, <2>1, <2>2 DEF End, search, EndIsTheEnd
<1>2. CASE ~\E q \in Proc : stage[q] = "ended"
  <2>1. CASE End(p)
    <3>1. p = 0
      BY <1>0, <1>2, <2>1, HubFacts, RunningTypes DEF End, Hub
    <3> QED BY <1>0, <2>1, <3>1 DEF End, search, EndIsTheEnd
  <2>2. CASE SearchStep(p)
    BY <1>0, <1>2, <2>2, SearchFrame DEF EndIsTheEnd
  <2>3. CASE SetupCheckpoint(p) \/ OpenFile(p) \/ CloseFile(p) \/ EndCheckpoint(p)
    <3>1. \A q \in Proc : stage'[q] # "ended"
      BY <1>0, <1>2, <2>3 DEF SetupCheckpoint, OpenFile, CloseFile, EndCheckpoint
    <3> QED BY <1>0, <3>1 DEF EndIsTheEnd
  <2> QED BY <2>1, <2>2, <2>3 DEF Run, SearchStep
<1> QED BY <1>1, <1>2

-----------------------------------------------------------------------------
\* The types of incumbents, in memory and on their way.
LEMMA Incumbents ==
  ASSUME FilesInv, phase = "running"
  PROVE  /\ \A q \in Proc : incumbent[q] \in Incumbent
         /\ \A m \in network : m.type = "incumbent" => m.incumbent \in Incumbent /\ m.to \in Proc
BY RunningTypes DEF Message

\* Incumbents are totally ordered, by value and then by rank.
LEMMA AsGoodOrder ==
  ASSUME NEW i \in Incumbent, NEW j \in Incumbent
  PROVE  /\ AsGood(i, i)
         /\ AsGood(i, j) \/ AsGood(j, i)
         /\ AsGood(i, j) /\ AsGood(j, i) => i = j
         /\ \A k \in Incumbent : AsGood(i, j) /\ AsGood(j, k) => AsGood(i, k)
BY DEF AsGood, Incumbent

\* Other steps than these two leave the incumbents and their messages alone.
LEMMA IncumbentFrame ==
  ASSUME FilesInv, phase = "running", NEW p \in Proc, Run(p), ~Work(p), ~HearIncumbent(p)
  PROVE  /\ UNCHANGED <<incumbent, solution>>
         /\ \A m : m.type = "incumbent" => (m \in network' <=> m \in network)
<1>1. UNCHANGED <<incumbent, solution>>
  <2>1. CASE Prune(p) \/ Release(p) \/ Dispatch(p) \/ SpServe(p) \/ SpReceive(p)
    BY <2>1 DEF Prune, Release, Dispatch, SpServe, SpReceive, search
  <2>2. CASE SetupCheckpoint(p) \/ OpenFile(p) \/ CloseFile(p) \/ EndCheckpoint(p) \/ End(p)
    BY <2>2 DEF SetupCheckpoint, OpenFile, CloseFile, EndCheckpoint, End, search
  <2> QED BY <2>1, <2>2 DEF Run
<1>2. ASSUME NEW m, m.type = "incumbent"
      PROVE  m \in network' <=> m \in network
  <2>1. CASE Prune(p) \/ Release(p) \/ CloseFile(p) \/ EndCheckpoint(p) \/ End(p)
    BY <2>1 DEF Prune, Release, CloseFile, EndCheckpoint, End
  <2>2. CASE Dispatch(p)
    BY <1>2, <2>2 DEF Dispatch
  <2>3. CASE SpServe(p)
    <3>1. PICK d \in network, of \in SUBSET pool[p], local \in SUBSET pool[p] :
            /\ d.type = "dispatch"
            /\ network' = (network \ {d}) \cup
                 {[type |-> "deliver", to |-> d.dest, sub |-> d.sub, bound |-> e.bound] : e \in of \ local}
      BY <2>3 DEF SpServe
    <3>2. m # d /\ \A e \in of \ local :
            m # [type |-> "deliver", to |-> d.dest, sub |-> d.sub, bound |-> e.bound]
      BY <1>2, <3>1
    <3> QED BY <3>1, <3>2
  <2>4. CASE SpReceive(p)
    BY <1>2, <2>4 DEF SpReceive
  <2>5. CASE SetupCheckpoint(p)
    BY <1>2, <2>5 DEF SetupCheckpoint, Alert
  <2>6. CASE OpenFile(p)
    BY <1>2, <2>6 DEF OpenFile, Alert
  <2> QED BY <2>1, <2>2, <2>3, <2>4, <2>5, <2>6 DEF Run
<1> QED BY <1>1, <1>2

\* A new incumbent is sent to all, and one that is heard of is kept unless a better
\* one is known: so every one spreads, and its source holds it or a better one.
LEMMA IncumbentsKept ==
  ASSUME FilesInv, phase = "running", NEW p \in Proc, Run(p)
  PROVE  IncumbentsSpread' /\ SourcesAreBest'
<1>0. IncumbentsSpread /\ SourcesAreBest /\ Proc' = Proc
  BY RunFrame DEF FilesInv
<1>t. /\ \A q \in Proc : incumbent[q] \in Incumbent
      /\ \A m \in network : m.type = "incumbent" => m.incumbent \in Incumbent /\ m.to \in Proc
      /\ incumbent \in [Proc -> Incumbent] /\ solution \in [Proc -> Nat]
  BY Incumbents, RunningTypes
<1>1. CASE Work(p)
  <2>1. PICK s \in Sub :
          LET better == ~CanFathom(incumbent[p].value, s)
              found  == better /\ s \in Leaf
              new    == [value |-> Bound[s], source |-> p]
          IN /\ incumbent' = [incumbent EXCEPT ![p] = IF found THEN new ELSE @]
             /\ solution'  = [solution EXCEPT ![p] = IF found THEN Bound[s] ELSE @]
             /\ network'   = network \cup
                  {[type |-> "incumbent", to |-> q, incumbent |-> new] :
                     q \in {x \in Proc \ {p} : found}}
    <3>1. \A e \in pool[p] : e.left \subseteq Sub
      BY RunningTypes DEF Entry
    <3> QED BY <1>1, <3>1, ZenonT(60) DEF Work
  <2> DEFINE new == [value |-> Bound[s], source |-> p]
  <2>2. CASE CanFathom(incumbent[p].value, s) \/ s \notin Leaf
    <3>1. incumbent' = incumbent /\ solution' = solution /\ network' = network
      BY <2>1, <2>2, <1>t
    <3> QED BY <1>0, <3>1 DEF IncumbentsSpread, SourcesAreBest, Knows, FromSource
  <2>3. CASE ~CanFathom(incumbent[p].value, s) /\ s \in Leaf
    <3>1. incumbent' = [incumbent EXCEPT ![p] = new] /\ solution' = [solution EXCEPT ![p] = Bound[s]]
      BY <2>1, <2>3
    <3>2. network' = network \cup {[type |-> "incumbent", to |-> q, incumbent |-> new] : q \in Proc \ {p}}
      BY <2>1, <2>3
    <3>3. Bound[s] \in Nat /\ new \in Incumbent /\ Bound[s] < incumbent[p].value
          /\ new.value = Bound[s] /\ new.source = p
      <4>1. Bound[s] \in Nat /\ p \in Nat /\ incumbent[p].value \in Nat
        BY <1>t, CheckpointAssumption, RunningTypes DEF Incumbent
      <4>2. Bound[s] < incumbent[p].value
        BY <2>3, <4>1 DEF CanFathom
      <4>3. new \in Incumbent
        BY <4>1 DEF Incumbent
      <4>4. new.value = Bound[s] /\ new.source = p
        OBVIOUS
      <4> HIDE DEF new
      <4> QED BY <4>1, <4>2, <4>3, <4>4
    <3> HIDE DEF new
    <3>4. ASSUME NEW q \in Proc \ {p}
          PROVE  \E m \in network' : m.type = "incumbent" /\ m.to = q /\ m.incumbent = new
      <4> DEFINE m == [type |-> "incumbent", to |-> q, incumbent |-> new]
      <4>1. m \in network'
        BY <3>2
      <4>2. m.type = "incumbent" /\ m.to = q /\ m.incumbent = new
        OBVIOUS
      <4> HIDE DEF m
      <4> QED BY <4>1, <4>2
    <3>5. \A q \in Proc : /\ incumbent'[q] = IF q = p THEN new ELSE incumbent[q]
                          /\ solution'[q] = IF q = p THEN Bound[s] ELSE solution[q]
      BY <1>t, <3>1
    <3>6. AsGood(new, incumbent[p])
      BY <3>3 DEF AsGood
    <3>7. ASSUME NEW q \in Proc PROVE Knows(q, new)'
      BY <3>3, <3>4, <3>5, AsGoodOrder DEF Knows
    <3>8. ASSUME NEW q \in Proc, NEW i \in Incumbent, Knows(q, i) PROVE Knows(q, i)'
      BY <1>t, <3>2, <3>3, <3>5, <3>6, <3>8, AsGoodOrder DEF Knows
    <3>9. ASSUME NEW i \in Incumbent, FromSource(i) PROVE FromSource(i)'
      BY <1>0, <1>t, <3>3, <3>5, <3>9 DEF FromSource, Incumbent
    <3>10. FromSource(new)'
      BY <1>0, <1>t, <3>3, <3>5, CheckpointAssumption DEF FromSource, SourcesAreBest, Incumbent
    <3>11. \A m \in network' : m.type = "incumbent" => m.incumbent = new \/ m \in network
      BY <3>2
    <3>12. IncumbentsSpread'
      BY <1>0, <1>t, <3>5, <3>7, <3>8, <3>11 DEF IncumbentsSpread
    <3>13. SourcesAreBest'
      BY <1>0, <1>t, <3>5, <3>9, <3>10, <3>11 DEF SourcesAreBest
    <3> QED BY <3>12, <3>13
  <2> QED BY <2>2, <2>3
<1>2. CASE HearIncumbent(p)
  <2>1. PICK m \in network : 
          /\ m.type = "incumbent" /\ m.to = p
          /\ LET better == \/ m.incumbent.value < incumbent[p].value
                     \/ /\ m.incumbent.value = incumbent[p].value
                        /\ m.incumbent.source < incumbent[p].source
             IN incumbent' = [incumbent EXCEPT ![p] = IF better THEN m.incumbent ELSE @]
          /\ network' = network \ {m} /\ solution' = solution
    BY <1>2 DEF HearIncumbent
  <2> DEFINE i == m.incumbent
  <2>2. i \in Incumbent
    BY <1>t, <2>1
  <2>3. /\ \A q \in Proc \ {p} : incumbent'[q] = incumbent[q]
        /\ incumbent'[p] = i \/ incumbent'[p] = incumbent[p]
        /\ AsGood(incumbent'[p], i) /\ AsGood(incumbent'[p], incumbent[p])
    BY <1>t, <2>1, <2>2, AsGoodOrder DEF AsGood, Incumbent
  <2> HIDE DEF i
  <2>4. ASSUME NEW q \in Proc, NEW j \in Incumbent, Knows(q, j) PROVE Knows(q, j)'
    <3>1. CASE AsGood(incumbent[q], j)
      BY <1>t, <2>2, <2>3, <3>1, AsGoodOrder DEF Knows
    <3>2. CASE \E x \in network : x.type = "incumbent" /\ x.to = q /\ AsGood(x.incumbent, j)
      <4>1. PICK x \in network : x.type = "incumbent" /\ x.to = q /\ AsGood(x.incumbent, j)
        BY <3>2
      <4>2. CASE x = m
        BY <1>t, <2>1, <2>2, <2>3, <4>1, <4>2, AsGoodOrder DEF Knows, i
      <4>3. CASE x # m
        BY <2>1, <4>1, <4>3 DEF Knows
      <4> QED BY <4>2, <4>3
    <3> QED BY <2>4, <3>1, <3>2 DEF Knows
  <2>5. ASSUME NEW j \in Incumbent, FromSource(j) PROVE FromSource(j)'
    <3>1. /\ FromSource(i) /\ j.source \in Proc
          /\ incumbent'[p].value <= incumbent[p].value
      BY <1>0, <1>t, <2>1, <2>2, <2>3, <2>5 DEF SourcesAreBest, FromSource, i, AsGood, Incumbent
    <3>2. CASE j.source # p
      BY <1>0, <2>1, <2>3, <2>5, <3>2 DEF FromSource
    <3>3. CASE j.source = p
      BY <1>0, <1>t, <2>1, <2>2, <2>3, <2>5, <3>1, <3>3 DEF FromSource, Incumbent
    <3> QED BY <3>2, <3>3
  <2>6. IncumbentsSpread'
    BY <1>0, <1>t, <2>1, <2>2, <2>3, <2>4 DEF IncumbentsSpread, i
  <2>7. SourcesAreBest'
    BY <1>0, <1>t, <2>1, <2>2, <2>3, <2>5 DEF SourcesAreBest, i
  <2> QED BY <2>6, <2>7
<1>3. CASE ~Work(p) /\ ~HearIncumbent(p)
  BY <1>0, <1>3, IncumbentFrame DEF IncumbentsSpread, SourcesAreBest, Knows, FromSource
<1> QED BY <1>1, <1>2, <1>3

-----------------------------------------------------------------------------
\* When no incumbent is on its way all have the same, and its source the solution.
LEMMA Agreement ==
  ASSUME FilesInv, phase \in {"running", "finished"},
         ~\E m \in network : m.type = "incumbent", NEW p \in Proc
  PROVE  /\ \A q \in Proc : incumbent[q] = incumbent[p]
         /\ incumbent[p].source \in Proc /\ incumbent[p].value <= InitialGuess
         /\ solution[incumbent[p].source] = incumbent[p].value
<1>1. /\ IncumbentsSpread /\ SourcesAreBest
      /\ incumbent \in [Proc -> Incumbent]
  BY DEF FilesInv, TypeOK
<1>2. \A q, r \in Proc : AsGood(incumbent[q], incumbent[r])
  BY <1>1 DEF IncumbentsSpread, Knows
<1>3. \A q \in Proc : incumbent[q] = incumbent[p]
  BY <1>1, <1>2, AsGoodOrder
<1>4. FromSource(incumbent[p])
  BY <1>1 DEF SourcesAreBest
<1>5. incumbent[p].value \in Nat
  BY <1>1 DEF Incumbent
<1> QED BY <1>3, <1>4, <1>5 DEF FromSource

\* The fields of the file that p writes.
LEMMA ThisFileFields ==
  \A p \in Proc, w \in BOOLEAN :
    /\ ThisFile(p, w).k = checkpointNumber[p] /\ ThisFile(p, w).p = p
    /\ ThisFile(p, w).size = n /\ (ThisFile(p, w).whole <=> w)
    /\ ThisFile(p, w).incumbent = incumbent[p]
    /\ ThisFile(p, w).solution = IF incumbent[p].source = p THEN solution[p] ELSE None
BY DEF ThisFile

\* The file p writes depends on its own memory only.
LEMMA ThisFileFrame ==
  ASSUME NEW q, NEW w, n' = n, checkpointNumber'[q] = checkpointNumber[q], pool'[q] = pool[q],
         incumbent'[q] = incumbent[q], solution'[q] = solution[q]
  PROVE  ThisFile(q, w)' = ThisFile(q, w)
<1> DEFINE packed == UNION {Packed(e) : e \in pool[q]}
           sol == IF incumbent[q].source = q THEN solution[q] ELSE None
<1>1. packed' = packed
  BY DEF Packed
<1>2. sol' = sol
  BY DEF None
<1>3. /\ ThisFile(q, w) = [k |-> checkpointNumber[q], p |-> q, size |-> n, whole |-> w,
                              subs |-> packed, incumbent |-> incumbent[q], solution |-> sol]
      /\ ThisFile(q, w)' = [k |-> checkpointNumber'[q], p |-> q, size |-> n', whole |-> w,
                              subs |-> packed', incumbent |-> incumbent'[q], solution |-> sol']
  BY Zenon DEF ThisFile
<1> HIDE DEF packed, sol
<1> QED BY <1>1, <1>2, <1>3

\* The rank of a processor is less than their number.
LEMMA InProc ==
  ASSUME NEW p \in Proc, n \in Nat
  PROVE  p < n
BY DEF Proc

\* A new file agrees with those of the same checkpoint: nothing changed in between.
LEMMA FilesAgreeKept ==
  ASSUME FilesInv, phase = "running", NEW p \in Proc, Run(p)
  PROVE  FilesAgree'
<1>0. FilesAgree /\ FilesMatchMemory /\ TypeOK
  BY DEF FilesInv
<1>1. CASE disk' \subseteq disk
  BY <1>0, <1>1 DEF FilesAgree
<1>2. CASE OpenFile(p)
  <2> DEFINE new == ThisFile(p, FALSE)
  <2>1. /\ disk' = {f \in disk : ~(f.k = checkpointNumber[p] /\ f.p = p)} \cup {new}
        /\ stage[p] = "suspended"
    BY <1>2 DEF OpenFile, MayWrite
  <2>2. Quiescent
    BY <1>2 DEF OpenFile, MayWrite, FilesInv, WritingIsTogether
  <2>3. /\ incumbent[p].source \in Proc /\ incumbent[p].value <= InitialGuess
        /\ solution[incumbent[p].source] = incumbent[p].value
    BY <2>2, Agreement DEF Quiescent
  <2>4. /\ new.k = checkpointNumber[p] /\ new.p = p /\ new.size = n /\ new.incumbent = incumbent[p]
        /\ new.solution = IF incumbent[p].source = p THEN solution[p] ELSE None
    BY ThisFileFields
  <2> HIDE DEF new
  <2>5. incumbent[p].source < n
    BY <1>0, <2>3, InProc DEF TypeOK
  <2>0. \A f \in disk : f.k = checkpointNumber[p] => f.size = n /\ f.incumbent = incumbent[p]
    BY <1>0, <2>1 DEF FilesMatchMemory, OthersWrite
  <2>6. \A f \in disk : f.k = new.k => f.size = new.size /\ f.incumbent = new.incumbent
    BY <2>0, <2>4
  <2>7. /\ new.incumbent.source < new.size /\ new.incumbent.value <= InitialGuess
        /\ new.solution = IF new.p = new.incumbent.source THEN new.incumbent.value ELSE None
    BY <2>3, <2>4, <2>5
  <2>8. ASSUME NEW f \in disk', NEW g \in disk', f.k = g.k
        PROVE  f.size = g.size /\ f.incumbent = g.incumbent /\ (f.p = g.p => f = g)
    <3>1. CASE f = new /\ g \in disk
      BY <2>1, <2>4, <2>6, <2>8, <3>1
    <3>2. CASE g = new /\ f \in disk
      BY <2>1, <2>4, <2>6, <2>8, <3>2
    <3>3. CASE f \in disk /\ g \in disk
      BY <1>0, <2>8, <3>3 DEF FilesAgree
    <3> QED BY <2>1, <3>1, <3>2, <3>3
  <2>9. ASSUME NEW f \in disk'
        PROVE  /\ f.incumbent.source < f.size /\ f.incumbent.value <= InitialGuess
               /\ f.solution = IF f.p = f.incumbent.source THEN f.incumbent.value ELSE None
    BY <1>0, <2>1, <2>7 DEF FilesAgree
  <2> QED BY <2>8, <2>9 DEF FilesAgree
<1>3. CASE CloseFile(p)
  <2> DEFINE new == ThisFile(p, TRUE)
             old == ThisFile(p, FALSE)
  <2>1. disk' = (disk \ {old}) \cup {new} /\ old \in disk
    BY <1>0, <1>3 DEF CloseFile, FilesMatchMemory, OpenIsOnDisk
  <2>2. /\ new.k = old.k /\ new.p = old.p /\ new.size = old.size /\ new.incumbent = old.incumbent
        /\ new.solution = old.solution
    <3>1. /\ new.k = checkpointNumber[p] /\ new.p = p /\ new.size = n /\ new.incumbent = incumbent[p]
          /\ new.solution = IF incumbent[p].source = p THEN solution[p] ELSE None
      BY ThisFileFields
    <3>2. /\ old.k = checkpointNumber[p] /\ old.p = p /\ old.size = n /\ old.incumbent = incumbent[p]
          /\ old.solution = IF incumbent[p].source = p THEN solution[p] ELSE None
      BY ThisFileFields
    <3> HIDE DEF new, old
    <3> QED BY <3>1, <3>2
  <2> HIDE DEF new, old
  <2>3. \A f \in disk' : \E g \in disk :
           /\ f.k = g.k /\ f.p = g.p /\ f.size = g.size /\ f.incumbent = g.incumbent
           /\ f.solution = g.solution /\ (f = new <=> g = old)
           /\ f # new => f = g
    BY <2>1, <2>2
  <2>4. ASSUME NEW f \in disk', NEW g \in disk', f.k = g.k
        PROVE  f.size = g.size /\ f.incumbent = g.incumbent /\ (f.p = g.p => f = g)
    BY <1>0, <2>3, <2>4 DEF FilesAgree
  <2>5. ASSUME NEW f \in disk'
        PROVE  /\ f.incumbent.source < f.size /\ f.incumbent.value <= InitialGuess
               /\ f.solution = IF f.p = f.incumbent.source THEN f.incumbent.value ELSE None
    BY <1>0, <2>3 DEF FilesAgree
  <2> QED BY <2>4, <2>5 DEF FilesAgree
<1>4. CASE SearchStep(p)
  BY <1>1, <1>4, SearchFrame
<1>5. CASE SetupCheckpoint(p) \/ EndCheckpoint(p) \/ End(p)
  <2>1. disk' \subseteq disk
    BY <1>5 DEF SetupCheckpoint, EndCheckpoint, End, files
  <2> QED BY <1>1, <2>1
<1> QED BY <1>2, <1>3, <1>4, <1>5 DEF Run, SearchStep

\* Memory and files go together in every step: the numbers as nobody deletes or
\* writes files of a later checkpoint, the contents as nothing changes meanwhile.
LEMMA FilesMatchKept ==
  ASSUME FilesInv, phase = "running", NEW p \in Proc, Run(p)
  PROVE  FilesMatchMemory'
<1>0. /\ NoneIsNewer /\ OthersWrite /\ OpenIsOnDisk /\ WholeIsOnDisk
      /\ stage \in [Proc -> Stage]
      /\ \A q \in Proc : checkpointNumber[q] \in Nat
      /\ checkpointNumber \in [Proc -> 0 .. MaxCheckpoint]
      /\ \A f \in disk : f.k \in Nat
  BY RunningTypes DEF FilesInv, TypeOK, FilesMatchMemory
<1>1. Proc' = Proc /\ n' = n
  BY RunFrame
<1>2. CASE SearchStep(p)
  <2>1. /\ UNCHANGED <<stage, checkpointNumber, disk>>
        /\ Quiescent => UNCHANGED <<incumbent, network>>
        /\ \A q \in Proc : stage[q] \notin {"search", "suspended"} =>
              pool'[q] = pool[q] /\ incumbent'[q] = incumbent[q] /\ solution'[q] = solution[q]
    BY <1>2, SearchFrame
  <2>2. ASSUME NEW q \in Proc, stage[q] \in {"writing", "written"}, NEW w \in BOOLEAN
        PROVE  ThisFile(q, w)' = ThisFile(q, w)
    BY <1>1, <2>1, <2>2, ThisFileFrame
  <2>3. Quiescent => Quiescent'
    BY <1>1, <2>1 DEF Quiescent
  <2>4. NoneIsNewer'
    BY <1>0, <1>1, <2>1 DEF NoneIsNewer
  <2>5. OthersWrite'
    BY <1>0, <1>1, <2>1, <2>3 DEF OthersWrite
  <2>6. OpenIsOnDisk'
    BY <1>0, <1>1, <2>1, <2>2 DEF OpenIsOnDisk
  <2>7. WholeIsOnDisk'
    BY <1>0, <1>1, <2>1, <2>2 DEF WholeIsOnDisk
  <2> QED BY <2>4, <2>5, <2>6, <2>7 DEF FilesMatchMemory
<1>3. CASE SetupCheckpoint(p)
  <2>1. /\ stage[p] = "search" /\ stage' = [stage EXCEPT ![p] = "suspended"] /\ disk' = disk
        /\ checkpointNumber' = [checkpointNumber EXCEPT ![p] = @ + 1]
    BY <1>3 DEF SetupCheckpoint, files
  <2>2. ~Quiescent
    BY <2>1 DEF Quiescent
  <2>3. \A q \in Proc : /\ stage[q] # "writing"
                        /\ q # p => stage'[q] = stage[q] /\ checkpointNumber'[q] = checkpointNumber[q]
    BY <1>0, <2>1, <2>2 DEF FilesInv, WritingIsTogether
  <2>4. checkpointNumber'[p] = checkpointNumber[p] + 1 /\ stage'[p] = "suspended"
    BY <1>0, <2>1
  <2>5. \A f \in disk : f.k <= checkpointNumber[p] /\ f.k < checkpointNumber'[p]
    BY <1>0, <2>4 DEF NoneIsNewer
  <2>6. NoneIsNewer'
    <3>1. ASSUME NEW q \in Proc, NEW f \in disk PROVE f.k <= checkpointNumber'[q]
      <4>1. CASE q = p
        BY <1>0, <2>4, <2>5, <4>1
      <4>2. CASE q # p
        BY <1>0, <2>3, <4>2 DEF NoneIsNewer
      <4> QED BY <4>1, <4>2
    <3> QED BY <1>1, <2>1, <3>1 DEF NoneIsNewer
  <2>7. OthersWrite'
    <3>1. ASSUME NEW q \in Proc, stage'[q] = "suspended", NEW f \in disk, f.k = checkpointNumber'[q]
          PROVE  FALSE
      <4>1. CASE q = p
        BY <1>0, <2>4, <2>5, <3>1, <4>1
      <4>2. CASE q # p
        BY <2>2, <2>3, <3>1, <4>2, <1>0 DEF OthersWrite
      <4> QED BY <4>1, <4>2
    <3> QED BY <1>1, <2>1, <3>1 DEF OthersWrite
  <2>8. OpenIsOnDisk'
    BY <1>1, <2>3, <2>4 DEF OpenIsOnDisk
  <2>9. WholeIsOnDisk'
    <3>1. ASSUME NEW q \in Proc, stage'[q] = "written"
          PROVE  ThisFile(q, TRUE)' = ThisFile(q, TRUE) /\ stage[q] = "written"
      <4>1. q # p
        BY <2>4, <3>1
      <4>2. UNCHANGED <<pool, incumbent, solution>>
        BY <1>3 DEF SetupCheckpoint, search
      <4> QED BY <1>1, <2>3, <3>1, <4>1, <4>2, ThisFileFrame
    <3> QED BY <1>0, <1>1, <2>1, <3>1 DEF WholeIsOnDisk
  <2> QED BY <2>6, <2>7, <2>8, <2>9 DEF FilesMatchMemory
<1>4. CASE OpenFile(p)
  <2> DEFINE new == ThisFile(p, FALSE)
  <2>1. /\ stage[p] = "suspended" /\ stage' = [stage EXCEPT ![p] = "writing"]
        /\ disk' = {f \in disk : ~(f.k = checkpointNumber[p] /\ f.p = p)} \cup {new}
        /\ UNCHANGED <<checkpointNumber, pool, incumbent, solution>>
    BY <1>4 DEF OpenFile, MayWrite, search
  <2>2. Quiescent
    BY <1>4 DEF OpenFile, MayWrite, FilesInv, WritingIsTogether
  <2>3. Quiescent'
    <3>1. \A m \in network' : m.type = "write"
      BY <1>4, <2>2 DEF OpenFile, Alert, Quiescent
    <3> QED BY <1>0, <1>1, <2>1, <2>2, <3>1 DEF Quiescent
  <2>4. new.k = checkpointNumber[p] /\ new.p = p /\ new.size = n /\ new.incumbent = incumbent[p]
    BY ThisFileFields
  <2>5. \A q \in Proc : checkpointNumber[q] = checkpointNumber[p] /\ incumbent[q] = incumbent[p]
    BY <2>2, SameNumber, Agreement DEF Quiescent
  <2>6. \A q \in Proc, w \in BOOLEAN : ThisFile(q, w)' = ThisFile(q, w)
    BY <1>1, <2>1, ThisFileFrame
  <2>s. \A q \in Proc : q # p => stage'[q] = stage[q] /\ ThisFile(q, FALSE).p = q
    BY <1>0, <2>1, ThisFileFields
  <2>p. stage'[p] = "writing"
    BY <1>0, <2>1
  <2> HIDE DEF new
  <2>7. NoneIsNewer'
    <3>1. ASSUME NEW q \in Proc, NEW f \in disk' PROVE f.k <= checkpointNumber[q]
      <4>1. CASE f = new
        BY <1>0, <2>4, <2>5, <4>1
      <4>2. CASE f \in disk
        BY <1>0, <4>2 DEF NoneIsNewer
      <4> QED BY <2>1, <4>1, <4>2
    <3> QED BY <1>1, <2>1, <3>1 DEF NoneIsNewer
  <2>8. OthersWrite'
    <3>1. ASSUME NEW q \in Proc, stage'[q] = "suspended", NEW f \in disk', f.k = checkpointNumber[q]
          PROVE  f.p # q /\ f.incumbent = incumbent[q] /\ f.size = n
      <4>1. q # p /\ stage[q] = "suspended"
        BY <2>p, <2>s, <3>1
      <4>2. CASE f = new
        BY <2>4, <2>5, <4>1, <4>2
      <4>3. CASE f \in disk
        BY <1>0, <3>1, <4>1, <4>3 DEF OthersWrite
      <4> QED BY <2>1, <4>2, <4>3
    <3> QED BY <1>1, <2>1, <2>3, <3>1 DEF OthersWrite
  <2>9. OpenIsOnDisk'
    <3>1. ASSUME NEW q \in Proc, stage'[q] = "writing" PROVE ThisFile(q, FALSE) \in disk'
      <4>1. CASE q = p
        BY <2>1, <4>1 DEF new
      <4>2. CASE q # p
        <5>1. ThisFile(q, FALSE) \in disk /\ ThisFile(q, FALSE).p # p
          BY <1>0, <2>s, <3>1, <4>2 DEF OpenIsOnDisk
        <5> QED BY <2>1, <5>1
      <4> QED BY <4>1, <4>2
    <3> QED BY <1>1, <2>6, <3>1 DEF OpenIsOnDisk
  <2>10. WholeIsOnDisk'
    <3>1. ASSUME NEW q \in Proc, stage'[q] = "written" PROVE ThisFile(q, TRUE) \in disk'
      <4>1. q # p /\ stage[q] = "written"
        BY <2>p, <2>s, <3>1
      <4>2. ThisFile(q, TRUE) \in disk /\ ThisFile(q, TRUE).p # p
        BY <1>0, <4>1, ThisFileFields DEF WholeIsOnDisk
      <4> QED BY <2>1, <4>2
    <3> QED BY <1>1, <2>6, <3>1 DEF WholeIsOnDisk
  <2> QED BY <2>7, <2>8, <2>9, <2>10 DEF FilesMatchMemory
<1>5. CASE CloseFile(p)
  <2> DEFINE new == ThisFile(p, TRUE)
             old == ThisFile(p, FALSE)
  <2>1. /\ disk' = (disk \ {old}) \cup {new} /\ old \in disk
        /\ stage[p] = "writing" /\ stage' = [stage EXCEPT ![p] = "written"]
        /\ UNCHANGED <<checkpointNumber, pool, incumbent, solution, network>>
    BY <1>0, <1>5 DEF CloseFile, OpenIsOnDisk, search
  <2>2. /\ new.k = checkpointNumber[p] /\ new.p = p /\ new.size = n
        /\ new.incumbent = incumbent[p] /\ new.whole
    BY ThisFileFields
  <2>3. /\ old.k = checkpointNumber[p] /\ old.p = p /\ old.size = n
        /\ old.incumbent = incumbent[p] /\ ~old.whole
    BY ThisFileFields
  <2>q. Quiescent
    BY <2>1 DEF FilesInv, WritingIsTogether
  <2>4. Quiescent'
    BY <1>0, <1>1, <2>1, <2>q DEF Quiescent
  <2>5. \A q \in Proc : checkpointNumber[q] = checkpointNumber[p] /\ incumbent[q] = incumbent[p]
    BY <2>q, SameNumber, Agreement DEF Quiescent
  <2>6. \A q \in Proc, w \in BOOLEAN : ThisFile(q, w)' = ThisFile(q, w)
    BY <1>1, <2>1, ThisFileFrame
  <2>s. \A q \in Proc : q # p => stage'[q] = stage[q] /\ ThisFile(q, FALSE).p = q
    BY <1>0, <2>1, ThisFileFields
  <2>p. stage'[p] = "written"
    BY <1>0, <2>1
  <2> HIDE DEF new, old
  <2>7. NoneIsNewer'
    <3>1. ASSUME NEW q \in Proc, NEW f \in disk' PROVE f.k <= checkpointNumber[q]
      <4>1. CASE f = new
        BY <1>0, <2>2, <2>5, <4>1
      <4>2. CASE f \in disk
        BY <1>0, <4>2 DEF NoneIsNewer
      <4> QED BY <2>1, <4>1, <4>2
    <3> QED BY <1>1, <2>1, <3>1 DEF NoneIsNewer
  <2>8. OthersWrite'
    <3>1. ASSUME NEW q \in Proc, stage'[q] = "suspended", NEW f \in disk', f.k = checkpointNumber[q]
          PROVE  f.p # q /\ f.incumbent = incumbent[q] /\ f.size = n
      <4>1. q # p /\ stage[q] = "suspended"
        BY <2>p, <2>s, <3>1
      <4>2. CASE f = new
        BY <2>2, <2>5, <4>1, <4>2
      <4>3. CASE f \in disk
        BY <1>0, <3>1, <4>1, <4>3 DEF OthersWrite
      <4> QED BY <2>1, <4>2, <4>3
    <3> QED BY <1>1, <2>1, <2>4, <3>1 DEF OthersWrite
  <2>9. OpenIsOnDisk'
    <3>1. ASSUME NEW q \in Proc, stage'[q] = "writing" PROVE ThisFile(q, FALSE) \in disk'
      <4>1. q # p /\ stage[q] = "writing"
        BY <2>p, <2>s, <3>1
      <4>2. ThisFile(q, FALSE) \in disk /\ ThisFile(q, FALSE) # old
        BY <1>0, <2>s, <2>3, <4>1 DEF OpenIsOnDisk
      <4> QED BY <2>1, <4>2
    <3> QED BY <1>1, <2>6, <3>1 DEF OpenIsOnDisk
  <2>10. WholeIsOnDisk'
    <3>1. ASSUME NEW q \in Proc, stage'[q] = "written" PROVE ThisFile(q, TRUE) \in disk'
      <4>1. CASE q = p
        BY <2>1, <4>1 DEF new
      <4>2. CASE q # p
        <5>1. stage[q] = "written"
          BY <2>s, <3>1, <4>2
        <5>2. ThisFile(q, TRUE) \in disk /\ ThisFile(q, TRUE) # old
          BY <1>0, <2>3, <4>2, <5>1, ThisFileFields DEF WholeIsOnDisk
        <5> QED BY <2>1, <5>2
      <4> QED BY <4>1, <4>2
    <3> QED BY <1>1, <2>6, <3>1 DEF WholeIsOnDisk
  <2> QED BY <2>7, <2>8, <2>9, <2>10 DEF FilesMatchMemory
<1>6. CASE EndCheckpoint(p)
  <2>1. /\ disk' = {f \in disk : ~OldFile(p, f)} /\ PastBarrier(p)
        /\ stage[p] = "written" /\ stage' = [stage EXCEPT ![p] = "search"]
        /\ UNCHANGED <<checkpointNumber, pool, incumbent, solution, network>>
    BY <1>6 DEF EndCheckpoint, PastBarrier, search
  <2>2. \A q \in Proc : stage[q] # "writing"
    <3>1. ASSUME NEW q \in Proc, stage[q] = "writing" PROVE FALSE
      <4>1. checkpointNumber[p] = checkpointNumber[q]
        BY <3>1, SameNumber DEF FilesInv, WritingIsTogether
      <4> QED BY <1>0, <2>1, <3>1, <4>1 DEF PastBarrier
    <3> QED BY <3>1
  <2>s. \A q \in Proc : q # p => stage'[q] = stage[q]
    BY <1>0, <2>1
  <2>p. stage'[p] = "search"
    BY <1>0, <2>1
  <2>7. NoneIsNewer'
    BY <1>0, <1>1, <2>1 DEF NoneIsNewer
  <2>8. OthersWrite'
    <3>1. ASSUME NEW q \in Proc, stage'[q] = "suspended", NEW f \in disk, f.k = checkpointNumber[q]
          PROVE  FALSE
      <4>1. Quiescent /\ stage[q] = "suspended"
        BY <1>0, <2>s, <2>p, <3>1 DEF OthersWrite
      <4>2. checkpointNumber[p] = checkpointNumber[q]
        BY <4>1, SameNumber
      <4> QED BY <1>0, <2>1, <4>1, <4>2 DEF PastBarrier
    <3> QED BY <1>1, <2>1, <3>1 DEF OthersWrite
  <2>9. OpenIsOnDisk'
    BY <1>1, <2>2, <2>s, <2>p DEF OpenIsOnDisk
  <2>10. WholeIsOnDisk'
    <3>1. ASSUME NEW q \in Proc, stage'[q] = "written" PROVE ThisFile(q, TRUE) \in disk'
      <4>1. q # p /\ stage[q] = "written"
        BY <2>s, <2>p, <3>1
      <4>2. ThisFile(q, TRUE) \in disk /\ ThisFile(q, TRUE).p # p
        BY <1>0, <4>1, ThisFileFields DEF WholeIsOnDisk
      <4> QED BY <2>1, <4>2 DEF OldFile
    <3>2. \A q \in Proc : ThisFile(q, TRUE)' = ThisFile(q, TRUE)
      BY <1>1, <2>1, ThisFileFrame
    <3> QED BY <1>1, <3>1, <3>2 DEF WholeIsOnDisk
  <2> QED BY <2>7, <2>8, <2>9, <2>10 DEF FilesMatchMemory
<1>7. CASE End(p)
  <2>1. disk' \subseteq disk /\ checkpointNumber' = checkpointNumber
        /\ \A q \in Proc : stage'[q] \in {"search", "ended"}
    BY <1>0, <1>7 DEF End
  <2>2. NoneIsNewer'
    BY <1>0, <1>1, <2>1 DEF NoneIsNewer
  <2>3. OthersWrite' /\ OpenIsOnDisk' /\ WholeIsOnDisk'
    BY <1>1, <2>1 DEF OthersWrite, OpenIsOnDisk, WholeIsOnDisk
  <2> QED BY <2>2, <2>3 DEF FilesMatchMemory
<1> QED BY <1>2, <1>3, <1>4, <1>5, <1>6, <1>7 DEF Run, SearchStep

-----------------------------------------------------------------------------
\* Whether a checkpoint is complete depends on its own files only.
LEMMA CompleteFrame ==
  ASSUME NEW d, NEW e, NEW k, \A f : f.k = k => (f \in e <=> f \in d)
  PROVE  CompleteOn(e, k) <=> CompleteOn(d, k)
BY DEF CompleteOn

\* Nobody is more than one checkpoint ahead of anybody.
LEMMA LeadersAreAhead ==
  ASSUME FilesInv, phase = "running", NEW p \in Proc, NEW q \in Proc
  PROVE  checkpointNumber[q] <= checkpointNumber[p] + 1
<1>1. n \in Nat \ {0} /\ \A x \in Proc : checkpointNumber[x] \in Nat
  BY RunningTypes
<1>2. /\ checkpointNumber[q] <= checkpointNumber[Superior(q)]
      /\ Superior(q) \in Proc /\ checkpointNumber[Superior(q)] <= checkpointNumber[Superior(Superior(q))]
      /\ Superior(Superior(q)) = 0
      /\ checkpointNumber[0] <= checkpointNumber[p] + 1
  BY <1>1, SuperiorFacts DEF FilesInv, StartsAreTold
<1> QED BY <1>1, <1>2, RunningTypes

\* The first to pass the barrier finds the new files complete, and all delete the
\* files of the one before that.
LEMMA LastKept ==
  ASSUME FilesInv, phase = "running", NEW p \in Proc, Run(p)
  PROVE  LastIsComplete'
<1> DEFINE num == checkpointNumber
<1>0. /\ FilesAgree /\ NoneIsNewer /\ OthersWrite /\ OpenIsOnDisk /\ WholeIsOnDisk /\ LastIsComplete
      /\ stage \in [Proc -> Stage] /\ WritingIsTogether
      /\ \A q \in Proc : checkpointNumber[q] \in Nat
      /\ checkpointNumber \in [Proc -> 0 .. MaxCheckpoint]
      /\ \A f \in disk : f.k \in Nat /\ f.k > 0 /\ f.p \in Nat /\ f.p < f.size
      /\ n \in Nat
  <2>1. \A f \in disk : f \in File /\ f.k \in 1 .. MaxCheckpoint /\ f.p < f.size
    BY DEF FilesInv, TypeOK
  <2>2. \A f \in disk : f.k \in Nat /\ f.k > 0 /\ f.p \in Nat /\ f.p < f.size
    BY <2>1, CheckpointAssumption DEF File
  <2> QED BY <2>2, RunningTypes DEF FilesInv, FilesMatchMemory
<1>1. Proc' = Proc
  BY RunFrame
<1>2. CASE SearchStep(p)
  <2>1. UNCHANGED <<stage, checkpointNumber, disk>>
    BY <1>2, SearchFrame
  <2> QED BY <1>0, <1>1, <2>1 DEF LastIsComplete, Completed, Complete
<1>3. CASE SetupCheckpoint(p)
  <2>1. /\ stage[p] = "search" /\ stage' = [stage EXCEPT ![p] = "suspended"] /\ disk' = disk
        /\ checkpointNumber' = [checkpointNumber EXCEPT ![p] = @ + 1]
    BY <1>3 DEF SetupCheckpoint, files
  <2>3. \A q \in Proc : /\ Completed(q)' = Completed(q)
                        /\ stage'[q] = "ended" <=> stage[q] = "ended"
                        /\ q # p => stage'[q] = stage[q] /\ checkpointNumber'[q] = checkpointNumber[q]
    <3>1. ASSUME NEW q \in Proc
          PROVE  /\ Completed(q)' = Completed(q)
                 /\ stage'[q] = "ended" <=> stage[q] = "ended"
                 /\ q # p => stage'[q] = stage[q] /\ checkpointNumber'[q] = checkpointNumber[q]
      <4>1. CASE q = p
        BY <1>0, <2>1, <4>1 DEF Completed
      <4>2. CASE q # p
        BY <1>0, <2>1, <4>2 DEF Completed
      <4> QED BY <4>1, <4>2
    <3> QED BY <3>1
  <2> QED BY <1>0, <1>1, <2>1, <2>3 DEF LastIsComplete, Complete
<1>4. CASE OpenFile(p) \/ CloseFile(p)
  <2>1. /\ stage[p] \in {"suspended", "writing"} /\ stage'[p] # "search"
        /\ \A q \in Proc : q # p => stage'[q] = stage[q]
        /\ checkpointNumber' = checkpointNumber
        /\ \A f : f.k # num[p] => (f \in disk' <=> f \in disk)
    <3>1. ThisFile(p, FALSE).k = num[p] /\ ThisFile(p, TRUE).k = num[p]
      BY ThisFileFields
    <3> QED BY <1>0, <1>4, <3>1 DEF OpenFile, CloseFile, MayWrite
  <2>2. Quiescent
    BY <1>4 DEF OpenFile, CloseFile, MayWrite, FilesInv, WritingIsTogether
  <2>3. \A q \in Proc : num[q] = num[p] /\ stage[q] \in {"suspended", "writing", "written"}
    BY <2>2, SameNumber DEF Quiescent
  <2>4. ~Complete(num[p])
    <3>1. SUFFICES ASSUME Complete(num[p]) PROVE FALSE
      OBVIOUS
    <3>2. CASE stage[p] = "writing"
      <4>1. ThisFile(p, FALSE) \in disk
        BY <1>0, <3>2 DEF OpenIsOnDisk
      <4> QED BY <3>1, <4>1, ThisFileFields DEF Complete, CompleteOn
    <3>3. CASE stage[p] = "suspended"
      <4>1. PICK f \in disk : f.k = num[p]
        BY <3>1 DEF Complete, CompleteOn
      <4>2. f.size = n
        BY <1>0, <3>3, <4>1 DEF OthersWrite
      <4>3. \A x \in 0 .. f.size - 1 : \E g \in disk : g.k = num[p] /\ g.p = x
        BY <3>1, <4>1 DEF Complete, CompleteOn
      <4>4. PICK g \in disk : g.k = num[p] /\ g.p = p
        BY <4>2, <4>3 DEF Proc
      <4> QED BY <1>0, <3>3, <4>4 DEF OthersWrite
    <3> QED BY <2>1, <3>2, <3>3
  <2>5. \A q \in Proc : /\ Completed(q)' = num[p] - 1 /\ Completed(q) = num[p] - 1
                        /\ stage[q] # "ended"
    BY <2>1, <2>3 DEF Completed
  <2>6. num[p] - 1 > 0 => Complete(num[p] - 1)
    BY <1>0, <2>3, <2>4, <2>5 DEF LastIsComplete
  <2>7. Complete(num[p] - 1) => CompleteOn(disk', num[p] - 1)
    <3>1. \A f : f.k = num[p] - 1 => (f \in disk' <=> f \in disk)
      BY <1>0, <2>1
    <3> QED BY <3>1, CompleteFrame DEF Complete
  <2> QED BY <1>1, <2>1, <2>5, <2>6, <2>7 DEF LastIsComplete, Complete
<1>6. CASE EndCheckpoint(p)
  <2>1. /\ disk' = {f \in disk : ~OldFile(p, f)} /\ PastBarrier(p)
        /\ stage[p] = "written" /\ stage' = [stage EXCEPT ![p] = "search"]
        /\ checkpointNumber' = checkpointNumber
    BY <1>6 DEF EndCheckpoint, PastBarrier
  <2>s. \A q \in Proc : q # p => stage'[q] = stage[q]
    BY <1>0, <2>1
  <2>p. stage'[p] = "search"
    BY <1>0, <2>1
  <2>2. num[p] > 0
    BY <1>0, <2>1, ThisFileFields, ZenonT(60) DEF WholeIsOnDisk
  <2>3. ASSUME NEW q \in Proc, num[q] > num[p]
        PROVE  num[q] = num[p] + 1 /\ stage[q] \in {"suspended", "ended"}
    <3>1. num[q] = num[p] + 1
      BY <1>0, <2>3, LeadersAreAhead
    <3>2. ~Quiescent
      BY <1>0, <2>3, SameNumber
    <3>3. stage[q] # "search"
      <4>1. stage[q] = "search" => num[q] <= num[p]
        BY DEF FilesInv, StartsAreTold
      <4> QED BY <1>0, <2>3, <4>1
    <3>4. stage[q] # "writing"
      BY <1>0, <3>2 DEF WritingIsTogether
    <3>5. stage[q] # "written"
      <4>1. ~Behind(q)
        BY <1>0, <2>3 DEF Behind
      <4> QED BY <1>0, <3>2, <4>1 DEF WritingIsTogether
    <3> QED BY <1>0, <3>1, <3>3, <3>4, <3>5 DEF Stage
  <2>4. ASSUME \A q \in Proc : stage[q] # "ended"
        PROVE  Complete(num[p])
    <3>1. CASE \E q \in Proc : num[q] > num[p] \/ stage[q] = "search"
      <4>1. PICK q \in Proc : num[q] > num[p] \/ stage[q] = "search"
        BY <3>1
      <4>2. Completed(q) = num[p] /\ stage[q] # "written"
        BY <1>0, <2>1, <2>3, <2>4, <4>1 DEF Completed, PastBarrier
      <4> QED BY <1>0, <2>2, <2>4, <4>2 DEF LastIsComplete
    <3>2. CASE \A q \in Proc : num[q] <= num[p] /\ stage[q] # "search"
      <4>1. \A q \in Proc : num[q] = num[p] /\ stage[q] = "written"
        BY <1>0, <2>1, <3>2 DEF PastBarrier
      <4>2. \A q \in Proc : \E f \in disk : f.k = num[p] /\ f.p = q /\ f.whole /\ f.size = n
        <5>1. \A q \in Proc : ThisFile(q, TRUE) \in disk /\ ThisFile(q, TRUE).whole
          BY <1>0, <4>1, ThisFileFields, ZenonT(60) DEF WholeIsOnDisk
        <5>2. \A q \in Proc : /\ ThisFile(q, TRUE).k = num[q] /\ ThisFile(q, TRUE).p = q
                              /\ ThisFile(q, TRUE).size = n
          BY ThisFileFields
        <5>3. ASSUME NEW q \in Proc
              PROVE  \E f \in disk : f.k = num[p] /\ f.p = q /\ f.whole /\ f.size = n
          <6>1. num[q] = num[p]
            BY <4>1
          <6>2. ThisFile(q, TRUE) \in disk
            BY <5>1
          <6> QED BY <5>1, <5>2, <6>1, <6>2, ZenonT(60)
        <5> QED BY <5>3
      <4>3. ASSUME NEW f \in disk, f.k = num[p]
            PROVE  f.whole /\ \A x \in 0 .. f.size - 1 : \E g \in disk : g.k = num[p] /\ g.p = x
        <5>1. f.size = n
          <6>1. PICK g \in disk : g.k = num[p] /\ g.p = p /\ g.size = n
            BY <4>2
          <6> QED BY <1>0, <4>3, <6>1 DEF FilesAgree
        <5>2. f.p \in Proc
          BY <1>0, <5>1 DEF Proc
        <5>3. f.whole
          <6>1. PICK g \in disk : g.k = num[p] /\ g.p = f.p /\ g.whole
            BY <4>2, <5>2
          <6>2. f = g
            BY <1>0, <4>3, <6>1 DEF FilesAgree
          <6> QED BY <6>1, <6>2
        <5> QED BY <4>2, <5>1, <5>3 DEF Proc
      <4>4. \E f \in disk : f.k = num[p]
        BY <4>2
      <4> QED BY <4>3, <4>4 DEF Complete, CompleteOn
    <3> QED BY <1>0, <3>1, <3>2
  <2>5. Complete(num[p]) => CompleteOn(disk', num[p])
    <3>1. \A f : f.k = num[p] => (f \in disk' <=> f \in disk)
      BY <1>0, <2>1 DEF OldFile
    <3> QED BY <3>1, CompleteFrame DEF Complete
  <2>6. ASSUME \A q \in Proc : stage'[q] # "ended", NEW q \in Proc, Completed(q)' > 0
        PROVE  \/ CompleteOn(disk', Completed(q)')
               \/ stage'[q] = "written" /\ CompleteOn(disk', checkpointNumber'[q])
    <3>0. \A x \in Proc : stage[x] # "ended"
      BY <2>1, <2>6, <2>s
    <3>1. CompleteOn(disk', num[p])
      BY <2>4, <2>5, <3>0
    <3>2. Completed(q)' = num[p] \/ (stage'[q] = "written" /\ checkpointNumber'[q] = num[p])
      <4>1. CASE q = p
        BY <1>0, <2>1, <2>p, <4>1 DEF Completed
      <4>2. CASE q # p /\ num[q] > num[p]
        BY <1>0, <2>1, <2>3, <2>s, <3>0, <4>2 DEF Completed
      <4>3. CASE q # p /\ num[q] = num[p] /\ stage[q] = "search"
        BY <1>0, <2>1, <2>s, <4>3 DEF Completed
      <4>4. CASE q # p /\ num[q] = num[p] /\ stage[q] = "written"
        BY <1>0, <2>1, <2>s, <4>4
      <4> QED BY <2>1, <4>1, <4>2, <4>3, <4>4 DEF PastBarrier
    <3> QED BY <3>1, <3>2
  <2> QED BY <1>1, <2>6 DEF LastIsComplete, Complete
<1>7. CASE End(p)
  <2>1. stage'[p] = "ended"
    BY <1>0, <1>7 DEF End
  <2> QED BY <1>1, <2>1 DEF LastIsComplete
<1> QED BY <1>2, <1>3, <1>4, <1>6, <1>7 DEF Run, SearchStep

-----------------------------------------------------------------------------
\* A program that is killed leaves its files as they are.
LEMMA KillInv ==
  ASSUME FilesInv, Kill
  PROVE  FilesInv'
<1>1. phase' = "killed" /\ n' = 1 /\ disk' = disk /\ network' = {} /\ kills' = kills + 1 /\ kills < MaxKills
  BY DEF Kill
<1>2. TypeOK'
  BY <1>1, CheckpointAssumption DEF FilesInv, TypeOK
<1>3. FilesAgree'
  BY <1>1 DEF FilesInv, FilesAgree
<1> QED BY <1>1, <1>2, <1>3 DEF FilesInv

\* Processors all in the search, at the checkpoint they started from.
Fresh ==
  /\ n \in Nat \ {0} /\ network = {}
  /\ stage = [p \in Proc |-> "search"]
  /\ \E k \in Nat : /\ checkpointNumber = [p \in Proc |-> k]
                    /\ \A f \in disk : f.k = k
                    /\ k > 0 => Complete(k)
  /\ \E i \in Incumbent :
       /\ \A p \in Proc : incumbent[p] = i
       /\ i.source \in Proc /\ i.value <= InitialGuess /\ solution[i.source] = i.value

\* In such a state, the invariants of a running program hold.
LEMMA FreshInv ==
  Fresh => /\ IncumbentsSpread /\ SourcesAreBest /\ StartsAreTold /\ WritingIsTogether
            /\ EndIsTheEnd /\ FilesMatchMemory /\ LastIsComplete
<1> SUFFICES ASSUME Fresh
             PROVE  /\ IncumbentsSpread /\ SourcesAreBest /\ StartsAreTold /\ WritingIsTogether
                    /\ EndIsTheEnd /\ FilesMatchMemory /\ LastIsComplete
  OBVIOUS
<1>1. PICK k \in Nat : /\ checkpointNumber = [p \in Proc |-> k]
                       /\ \A f \in disk : f.k = k
                       /\ k > 0 => Complete(k)
  BY DEF Fresh
<1>2. PICK i \in Incumbent :
        /\ \A p \in Proc : incumbent[p] = i
        /\ i.source \in Proc /\ i.value <= InitialGuess /\ solution[i.source] = i.value
  BY DEF Fresh
<1>3. n \in Nat \ {0} /\ network = {} /\ 0 \in Proc
  BY DEF Fresh, Proc
<1>4. \A p \in Proc : stage[p] = "search" /\ checkpointNumber[p] = k
  BY <1>1 DEF Fresh
<1>5. IncumbentsSpread /\ SourcesAreBest
  BY <1>2, <1>3, AsGoodOrder DEF IncumbentsSpread, SourcesAreBest, Knows, FromSource, Incumbent
<1>6. StartsAreTold
  <2>1. \A p \in Proc : Superior(p) \in Proc
    BY <1>3, SuperiorFacts
  <2>2. \A p \in Proc : checkpointNumber[Superior(p)] = k
    BY <1>4, <2>1
  <2> QED BY <1>3, <1>4, <2>2 DEF StartsAreTold
<1>7. WritingIsTogether /\ EndIsTheEnd
  BY <1>3, <1>4 DEF WritingIsTogether, EndIsTheEnd
<1>8. FilesMatchMemory
  <2>1. NoneIsNewer
    <3>1. ASSUME NEW p \in Proc, NEW f \in disk PROVE f.k <= checkpointNumber[p]
      BY <1>1, <1>4
    <3> QED BY <3>1 DEF NoneIsNewer
  <2>2. OthersWrite /\ OpenIsOnDisk /\ WholeIsOnDisk
    BY <1>4 DEF OthersWrite, OpenIsOnDisk, WholeIsOnDisk
  <2> QED BY <2>1, <2>2 DEF FilesMatchMemory
<1>9. \A p \in Proc : Completed(p) = k
  BY <1>4 DEF Completed
<1>10. LastIsComplete
  BY <1>1, <1>9 DEF LastIsComplete
<1> QED BY <1>5, <1>6, <1>7, <1>8, <1>10

\* ... also in the state after a step.
LEMMA FreshInvPrime ==
  Fresh' => /\ IncumbentsSpread' /\ SourcesAreBest' /\ StartsAreTold' /\ WritingIsTogether'
            /\ EndIsTheEnd' /\ FilesMatchMemory' /\ LastIsComplete'
BY FreshInv, PTL

\* The files of a complete checkpoint are one for each processor, and have the same
\* incumbent, of which one of them has the solution.
LEMMA RestartFiles ==
  ASSUME FilesInv, OneCheckpoint, NEW d \in disk, Complete(d.k)
  PROVE  /\ \A f \in disk : f.k = d.k /\ f.incumbent = d.incumbent /\ f.size = d.size
         /\ {f.p : f \in disk} = 0 .. d.size - 1
         /\ d.incumbent \in Incumbent /\ d.incumbent.value <= InitialGuess
         /\ d.incumbent.source \in 0 .. d.size - 1
         /\ \A f, g \in disk : f.p = g.p => f = g
         /\ \A f \in disk : f.solution = IF f.p = d.incumbent.source THEN d.incumbent.value ELSE None
<1>1. /\ FilesAgree
      /\ \A f \in disk : f \in File /\ f.k \in 1 .. MaxCheckpoint /\ f.p < f.size
  BY DEF FilesInv, TypeOK
<1>2. \A f \in disk : f.k = d.k
  BY DEF OneCheckpoint
<1>3. \A f \in disk : f.incumbent = d.incumbent /\ f.size = d.size
  BY <1>1, <1>2 DEF FilesAgree
<1>4. d.size \in Nat /\ d.incumbent \in Incumbent /\ \A f \in disk : f.p \in Nat /\ f.p < d.size
  BY <1>1, <1>3 DEF File
<1>5. {f.p : f \in disk} = 0 .. d.size - 1
  <2>1. \A x \in 0 .. d.size - 1 : \E g \in disk : g.p = x
    BY DEF Complete, CompleteOn
  <2>2. \A f \in disk : f.p \in 0 .. d.size - 1
    BY <1>4
  <2> QED BY <2>1, <2>2
<1>6. d.incumbent.source \in 0 .. d.size - 1 /\ d.incumbent.value <= InitialGuess
  BY <1>1, <1>4 DEF FilesAgree, Incumbent
<1>7. /\ \A f, g \in disk : f.p = g.p => f = g
      /\ \A f \in disk : f.solution = IF f.p = d.incumbent.source THEN d.incumbent.value ELSE None
  BY <1>1, <1>2, <1>3 DEF FilesAgree
<1> QED BY <1>2, <1>3, <1>4, <1>5, <1>6, <1>7

\* What restarts have in common.
LEMMA StartFromFacts ==
  ASSUME FilesInv, phase = "killed", NEW m \in Nat \ {0},
         NEW k \in 0 .. MaxCheckpoint, StartFrom(m, k)
  PROVE  /\ n' = m /\ Proc' = 0 .. m - 1 /\ disk' = disk /\ network' = {} /\ FilesAgree'
         /\ stage' = [p \in 0 .. m - 1 |-> "search"]
         /\ checkpointNumber' = [p \in 0 .. m - 1 |-> k]
         /\ phase' \in {"running", "incomplete"}
         /\ phase' = "running" => k = 0 \/ Complete(k)
         /\ (/\ pool' \in [0 .. m - 1 -> SUBSET Entry]
             /\ incumbent' \in [0 .. m - 1 -> Incumbent]
             /\ solution' \in [0 .. m - 1 -> Nat]) => TypeOK'
<1>1. /\ n' = m /\ Proc' = 0 .. m - 1 /\ disk' = disk /\ network' = {} /\ kills' = kills
      /\ stage' = [p \in 0 .. m - 1 |-> "search"]
      /\ checkpointNumber' = [p \in 0 .. m - 1 |-> k]
      /\ phase' \in {"running", "incomplete"}
      /\ phase' = "running" => k = 0 \/ Complete(k)
  BY DEF StartFrom, Proc, FilesInv
<1>2. FilesAgree'
  BY <1>1 DEF FilesInv, FilesAgree
<1>3. stage' \in [Proc' -> Stage] /\ checkpointNumber' \in [Proc' -> 0 .. MaxCheckpoint]
  BY <1>1 DEF Stage
<1>4. /\ kills' \in 0 .. MaxKills /\ IsFiniteSet(disk')
      /\ \A f \in disk' : f \in File /\ f.k \in 1 .. MaxCheckpoint /\ f.p < f.size
  BY <1>1 DEF FilesInv, TypeOK
<1>5. ASSUME /\ pool' \in [0 .. m - 1 -> SUBSET Entry]
             /\ incumbent' \in [0 .. m - 1 -> Incumbent]
             /\ solution' \in [0 .. m - 1 -> Nat]
      PROVE  TypeOK'
  BY <1>1, <1>3, <1>4, <1>5 DEF TypeOK
<1> QED BY <1>1, <1>2, <1>5

\* A restart keeps the invariant if it makes all agree on an incumbent whose source
\* holds its solution, when the files are complete.
LEMMA StartFromInv ==
  ASSUME FilesInv, phase = "killed", NEW m \in Nat \ {0},
         NEW k \in 0 .. MaxCheckpoint, StartFrom(m, k), \A f \in disk : f.k = k,
         pool' \in [0 .. m - 1 -> SUBSET Entry],
         incumbent' \in [0 .. m - 1 -> Incumbent], solution' \in [0 .. m - 1 -> Nat],
         k = 0 \/ Complete(k) =>
           \E i \in Incumbent :
             /\ \A p \in 0 .. m - 1 : incumbent'[p] = i
             /\ i.source \in 0 .. m - 1 /\ i.value <= InitialGuess /\ solution'[i.source] = i.value
  PROVE  FilesInv'
<1>1. /\ n' = m /\ Proc' = 0 .. m - 1 /\ disk' = disk /\ network' = {} /\ FilesAgree'
      /\ stage' = [p \in 0 .. m - 1 |-> "search"]
      /\ checkpointNumber' = [p \in 0 .. m - 1 |-> k]
      /\ phase' \in {"running", "incomplete"}
      /\ phase' = "running" => k = 0 \/ Complete(k)
      /\ TypeOK'
  BY StartFromFacts
<1>2. ASSUME phase' = "running" PROVE Fresh'
  <2>1. /\ \A f \in disk' : f.k = k
        /\ k > 0 => CompleteOn(disk', k)
        /\ k \in Nat
    BY <1>1, <1>2, CheckpointAssumption DEF Complete
  <2>2. \E i \in Incumbent :
          /\ \A p \in Proc' : incumbent'[p] = i
          /\ i.source \in Proc' /\ i.value <= InitialGuess /\ solution'[i.source] = i.value
    BY <1>1, <1>2
  <2> QED BY <1>1, <2>1, <2>2 DEF Fresh, Complete
<1> QED BY <1>1, <1>2, FreshInvPrime DEF FilesInv

\* Without files, ramp-up makes processor 0 the source.
LEMMA RampUpInv ==
  ASSUME FilesInv, phase = "killed", NEW m \in Nat \ {0}, RampUpAgain(m)
  PROVE  FilesInv'
<1>1. /\ disk = {} /\ StartFrom(m, 0)
      /\ pool' = [p \in 0 .. m - 1 |-> IF p = 0 THEN {New(Root, Root)} ELSE {}]
      /\ incumbent' = [p \in 0 .. m - 1 |-> [value |-> InitialGuess, source |-> 0]]
      /\ solution'  = [p \in 0 .. m - 1 |-> IF p = 0 THEN InitialGuess ELSE None]
  BY DEF RampUpAgain, RampedUp
<1>2. pool' \in [0 .. m - 1 -> SUBSET Entry]
  <2>1. New(Root, Root) \in Entry
    BY CheckpointAssumption DEF New, Entry
  <2> QED BY <1>1, <2>1
<1>3. incumbent' \in [0 .. m - 1 -> Incumbent] /\ solution' \in [0 .. m - 1 -> Nat]
  BY <1>1, CheckpointAssumption DEF Incumbent, None
<1>4. \E i \in Incumbent :
        /\ \A p \in 0 .. m - 1 : incumbent'[p] = i
        /\ i.source \in 0 .. m - 1 /\ i.value <= InitialGuess /\ solution'[i.source] = i.value
  <2> DEFINE i == [value |-> InitialGuess, source |-> 0]
  <2>1. i \in Incumbent /\ i.source = 0 /\ i.value = InitialGuess
    BY CheckpointAssumption DEF Incumbent
  <2>2. \A p \in 0 .. m - 1 : incumbent'[p] = i
    BY <1>1
  <2>3. 0 \in 0 .. m - 1 /\ solution'[0] = InitialGuess
    BY <1>1
  <2> HIDE DEF i
  <2> QED BY <2>1, <2>2, <2>3, CheckpointAssumption
<1>5. 0 \in 0 .. MaxCheckpoint /\ \A f \in disk : f.k = 0
  BY <1>1, CheckpointAssumption
<1> QED BY <1>1, <1>2, <1>3, <1>4, <1>5, StartFromInv

\* What can be read from a file are entries.
LEMMA ReadableType ==
  ASSUME FilesInv, NEW f \in disk, NEW r \in Readable(f), NEW v
  PROVE  r \subseteq Entry /\ Kept(r, v) \subseteq Entry
<1>1. f.subs \subseteq Entry
  BY DEF FilesInv, TypeOK, File
<1> QED BY <1>1 DEF Readable, Kept

\* The file that processor p reads.
OwnFile(p) == CHOOSE f \in disk : f.p = p

\* parallelRestart: the source reads the solution from its own file.
LEMMA ParallelRestartInv ==
  ASSUME FilesInv, phase = "killed", NEW m \in Nat \ {0}, ParallelRestart(m)
  PROVE  FilesInv'
<1>1. disk # {} /\ OneCheckpoint /\ {f.p : f \in disk} = 0 .. m - 1
  BY DEF ParallelRestart, CanRestart
<1>2. PICK k \in {f.k : f \in disk} : StartFrom(m, k)
  BY DEF ParallelRestart
<1>3. PICK read \in [0 .. m - 1 -> UNION {Readable(f) : f \in disk}] :
        /\ \A p \in 0 .. m - 1 : read[p] \in Readable(OwnFile(p))
        /\ pool' = [p \in 0 .. m - 1 |-> Kept(read[p], OwnFile(p).incumbent.value)]
        /\ incumbent' = [p \in 0 .. m - 1 |-> OwnFile(p).incumbent]
        /\ solution'  = [p \in 0 .. m - 1 |-> OwnFile(p).solution]
  BY DEF ParallelRestart, OwnFile
<1>4. PICK d \in disk : d.k = k
  BY <1>2
<1>5. k \in 0 .. MaxCheckpoint /\ \A f \in disk : f.k = k /\ f \in File
  BY <1>1, <1>4, CheckpointAssumption DEF FilesInv, TypeOK, OneCheckpoint
<1>6. \A p \in 0 .. m - 1 : OwnFile(p) \in disk /\ OwnFile(p).p = p
  <2>1. \A p \in 0 .. m - 1 : \E f \in disk : f.p = p
    BY <1>1
  <2> QED BY <2>1 DEF OwnFile
<1> HIDE DEF OwnFile
<1>7. pool' \in [0 .. m - 1 -> SUBSET Entry]
  <2>1. \A p \in 0 .. m - 1 : Kept(read[p], OwnFile(p).incumbent.value) \subseteq Entry
    BY <1>3, <1>6, ReadableType
  <2> QED BY <1>3, <2>1
<1>8. incumbent' \in [0 .. m - 1 -> Incumbent] /\ solution' \in [0 .. m - 1 -> Nat]
  <2>1. \A p \in 0 .. m - 1 : OwnFile(p).incumbent \in Incumbent /\ OwnFile(p).solution \in Nat
    BY <1>5, <1>6 DEF File
  <2> QED BY <1>3, <2>1
<1>9. ASSUME k = 0 \/ Complete(k)
      PROVE  \E i \in Incumbent :
               /\ \A p \in 0 .. m - 1 : incumbent'[p] = i
               /\ i.source \in 0 .. m - 1 /\ i.value <= InitialGuess /\ solution'[i.source] = i.value
  <2>1. k # 0
    BY <1>4 DEF FilesInv, TypeOK
  <2>2. /\ \A f \in disk : f.incumbent = d.incumbent
        /\ {f.p : f \in disk} = 0 .. d.size - 1
        /\ d.incumbent \in Incumbent /\ d.incumbent.value <= InitialGuess
        /\ d.incumbent.source \in 0 .. d.size - 1
        /\ \A f \in disk : f.solution = IF f.p = d.incumbent.source THEN d.incumbent.value ELSE None
    BY <1>1, <1>4, <1>9, <2>1, RestartFiles
  <2>3. d.incumbent.source \in 0 .. m - 1
    BY <1>1, <2>2
  <2>4. \A p \in 0 .. m - 1 : incumbent'[p] = d.incumbent
    BY <1>3, <1>6, <2>2
  <2>5. solution'[d.incumbent.source] = d.incumbent.value
    BY <1>3, <1>6, <2>2, <2>3
  <2> QED BY <2>2, <2>3, <2>4, <2>5
<1> QED BY <1>2, <1>5, <1>7, <1>8, <1>9, StartFromInv

\* reconfigureRestart: processor 0 finds the solution in one of the files, as the
\* least, since no other file has one.
LEMMA ReconfigureRestartInv ==
  ASSUME FilesInv, phase = "killed", NEW m \in Nat \ {0}, ReconfigureRestart(m)
  PROVE  FilesInv'
<1>1. disk # {} /\ OneCheckpoint /\ {f.p : f \in disk} = 0 .. Cardinality(disk) - 1
  BY DEF ReconfigureRestart, CanReconfigure
<1>2. PICK k \in {f.k : f \in disk} : StartFrom(m, k)
  BY DEF ReconfigureRestart
<1> DEFINE v == OwnFile(0).incumbent.value
<1>3. PICK read \in {UNION {r[f] : f \in disk} :
                      r \in {g \in [disk -> UNION {Readable(f) : f \in disk}] :
                               \A f \in disk : g[f] \in Readable(f)}} :
        \E to \in [read -> 0 .. m - 1] :
          /\ pool' = [p \in 0 .. m - 1 |-> Kept({e \in read : to[e] = p}, v)]
          /\ incumbent' = [p \in 0 .. m - 1 |-> [value |-> v, source |-> 0]]
          /\ solution'  = [p \in 0 .. m - 1 |-> IF p = 0 THEN SolutionRead ELSE None]
  BY DEF ReconfigureRestart, OwnFile
<1>4. PICK d \in disk : d.k = k
  BY <1>2
<1>5. k \in 0 .. MaxCheckpoint /\ \A f \in disk : f.k = k /\ f \in File
  BY <1>1, <1>4, CheckpointAssumption DEF FilesInv, TypeOK, OneCheckpoint
<1>6. OwnFile(0) \in disk
  <2>0. Cardinality(disk) \in Nat
    BY FS_CardinalityType DEF FilesInv, TypeOK
  <2>1. Cardinality(disk) # 0
    BY <1>1, FS_EmptySet DEF FilesInv, TypeOK
  <2>3. 0 \in 0 .. Cardinality(disk) - 1
    BY <2>0, <2>1
  <2>2. \E f \in disk : f.p = 0
    BY <1>1, <2>3
  <2> QED BY <2>2 DEF OwnFile
<1>s. SolutionRead \in {f.solution : f \in disk} /\ \A f \in disk : SolutionRead <= f.solution
  <2> DEFINE S == {f.solution : f \in disk}
  <2>1. S \subseteq Nat /\ S # {}
    BY <1>1, <1>5 DEF File
  <2>2. \A f \in disk : f.solution \in S
    OBVIOUS
  <2>3. SolutionRead = Min(S)
    BY DEF SolutionRead
  <2> HIDE DEF S
  <2>4. Min(S) \in S /\ \A x \in S : Min(S) <= x
    BY <2>1, LeastExists
  <2> QED BY <2>2, <2>3, <2>4 DEF S
<1>7. pool' \in [0 .. m - 1 -> SUBSET Entry]
  <2>1. read \subseteq Entry
    <3>1. PICK r \in [disk -> UNION {Readable(f) : f \in disk}] :
            /\ \A f \in disk : r[f] \in Readable(f)
            /\ read = UNION {r[f] : f \in disk}
      OBVIOUS
    <3>2. \A f \in disk : r[f] \subseteq Entry
      BY <3>1, ReadableType
    <3> QED BY <3>1, <3>2
  <2> QED BY <1>3, <2>1 DEF Kept
<1>8. incumbent' \in [0 .. m - 1 -> Incumbent] /\ solution' \in [0 .. m - 1 -> Nat]
  <2>1. v \in Nat
    BY <1>5, <1>6 DEF File, Incumbent
  <2>2. SolutionRead \in Nat /\ None \in Nat
    BY <1>5, <1>s, CheckpointAssumption DEF File, None
  <2> HIDE DEF v
  <2> QED BY <1>3, <2>1, <2>2 DEF Incumbent
<1>9. ASSUME k = 0 \/ Complete(k)
      PROVE  \E i \in Incumbent :
               /\ \A p \in 0 .. m - 1 : incumbent'[p] = i
               /\ i.source \in 0 .. m - 1 /\ i.value <= InitialGuess /\ solution'[i.source] = i.value
  <2>1. k # 0
    BY <1>4 DEF FilesInv, TypeOK
  <2>2. /\ \A f \in disk : f.incumbent = d.incumbent
        /\ {f.p : f \in disk} = 0 .. d.size - 1
        /\ d.incumbent \in Incumbent /\ d.incumbent.value <= InitialGuess
        /\ d.incumbent.source \in 0 .. d.size - 1
        /\ \A f \in disk : f.solution = IF f.p = d.incumbent.source THEN d.incumbent.value ELSE None
    BY <1>1, <1>4, <1>9, <2>1, RestartFiles
  <2>3. v = d.incumbent.value /\ v \in Nat
    BY <1>6, <2>2 DEF Incumbent
  <2>4. \E f \in disk : f.p = d.incumbent.source
    BY <2>2
  <2>5. SolutionRead = v
    <3>1. PICK f \in disk : f.p = d.incumbent.source
      BY <2>4
    <3>2. SolutionRead <= v
      BY <1>s, <2>2, <2>3, <3>1
    <3>3. PICK g \in disk : g.solution = SolutionRead
      BY <1>s
    <3>4. g.solution = v \/ g.solution = InitialGuess + 1
      BY <2>2, <2>3 DEF None
    <3> HIDE DEF v
    <3> QED BY <2>2, <2>3, <3>2, <3>3, <3>4, CheckpointAssumption
  <2> DEFINE i == [value |-> v, source |-> 0]
  <2>6. i \in Incumbent /\ i.value = v /\ i.source = 0
    BY <2>3 DEF Incumbent
  <2>7. /\ \A p \in 0 .. m - 1 : incumbent'[p] = i
        /\ 0 \in 0 .. m - 1 /\ solution'[0] = v
    BY <1>3, <2>5
  <2> HIDE DEF i, v
  <2> QED BY <2>2, <2>3, <2>6, <2>7
<1> QED BY <1>2, <1>5, <1>7, <1>8, <1>9, StartFromInv

\* Every step keeps the invariant.
LEMMA NextInv == FilesInv /\ [Next]_vars => FilesInv'
<1> SUFFICES ASSUME FilesInv, [Next]_vars PROVE FilesInv'
  OBVIOUS
<1>1. ASSUME phase = "running", NEW p \in Proc, Run(p) PROVE FilesInv'
  <2>1. phase' \in {"running", "finished"}
    BY <1>1, RunFrame
  <2>2. /\ TypeOK' /\ FilesAgree' /\ IncumbentsSpread' /\ SourcesAreBest' /\ WritingIsTogether'
        /\ EndIsTheEnd' /\ FilesMatchMemory' /\ LastIsComplete'
    BY <1>1, RunType, FilesAgreeKept, IncumbentsKept, WritingKept, EndKept, FilesMatchKept, LastKept
  <2>3. StartsAreTold'
    BY <1>1, StartsKept, StartsSetup
  <2> QED BY <2>1, <2>2, <2>3 DEF FilesInv
<1>2. CASE Kill
  BY <1>2, KillInv
<1>3. ASSUME NEW m \in Sizes, Restart(m) PROVE FilesInv'
  <2>1. m \in Nat \ {0} /\ phase = "killed"
    BY <1>3, CheckpointAssumption DEF Restart
  <2> QED BY <1>3, <2>1, ParallelRestartInv, ReconfigureRestartInv, RampUpInv DEF Restart
<1>4. CASE UNCHANGED vars
  <2>1. UNCHANGED <<phase, n, stage, checkpointNumber, pool, incumbent, solution, network, disk, kills>>
    BY <1>4 DEF vars, search, files
  <2>2. TypeOK' /\ FilesAgree'
    BY <2>1 DEF FilesInv, TypeOK, FilesAgree, Proc, Message
  <2>3. phase' \in {"running", "finished"} => IncumbentsSpread' /\ SourcesAreBest'
    BY <2>1 DEF FilesInv, IncumbentsSpread, SourcesAreBest, Knows, FromSource, Proc
  <2>4. phase' = "running" => StartsAreTold' /\ WritingIsTogether' /\ EndIsTheEnd'
    BY <2>1 DEF FilesInv, StartsAreTold, WritingIsTogether, EndIsTheEnd, Quiescent, Behind, Superior, Proc, Hub
  <2>5. phase' = "running" => FilesMatchMemory'
    <3>1. \A p, w : ThisFile(p, w)' = ThisFile(p, w)
      BY <2>1, ThisFileFrame
    <3>2. NoneIsNewer => NoneIsNewer'
      BY <2>1 DEF NoneIsNewer, Proc
    <3>3. OthersWrite => OthersWrite'
      BY <2>1 DEF OthersWrite, Quiescent, Proc
    <3>4. OpenIsOnDisk => OpenIsOnDisk'
      BY <2>1, <3>1 DEF OpenIsOnDisk, Proc
    <3>5. WholeIsOnDisk => WholeIsOnDisk'
      BY <2>1, <3>1 DEF WholeIsOnDisk, Proc
    <3> QED BY <2>1, <3>2, <3>3, <3>4, <3>5 DEF FilesInv, FilesMatchMemory
  <2>6. phase' = "running" => LastIsComplete'
    BY <2>1 DEF FilesInv, LastIsComplete, Completed, Complete, Proc
  <2> QED BY <2>1, <2>2, <2>3, <2>4, <2>5, <2>6 DEF FilesInv
<1> QED BY <1>1, <1>2, <1>3, <1>4 DEF Next

-----------------------------------------------------------------------------
(***************************************************************************)
(* The theorems.                                                           *)
(***************************************************************************)
\* FilesInv is an invariant: the types, and all that is said in Checkpoint.tla
\* of starts, barriers, files and incumbents (pbCheckpoint.cpp).
LEMMA FilesAreRight == Spec => []FilesInv
BY InitInv, NextInv, PTL DEF Spec

\* At any time in the search, although files are deleted while others still write,
\* the files of a checkpoint at least as new as the last completed are all there.
THEOREM GenerationIsSafe == Spec => []GenerationSurvives
<1>1. FilesInv => GenerationSurvives
  <2> SUFFICES ASSUME FilesInv, phase = "running", \A p \in Proc : stage[p] # "ended",
                      NEW p \in Proc, Completed(p) > 0
               PROVE  \E f \in disk : f.k >= Completed(p) /\ Complete(f.k)
    BY DEF GenerationSurvives
  <2>1. /\ checkpointNumber[p] \in Nat
        /\ Complete(Completed(p)) \/ (stage[p] = "written" /\ Complete(checkpointNumber[p]))
    BY RunningTypes DEF FilesInv, LastIsComplete
  <2>2. Completed(p) \in Int /\ checkpointNumber[p] >= Completed(p)
    BY <2>1 DEF Completed
  <2>3. PICK k \in {Completed(p), checkpointNumber[p]} : Complete(k)
    BY <2>1
  <2>4. PICK f \in disk : f.k = k
    BY <2>3 DEF Complete, CompleteOn
  <2> QED BY <2>1, <2>2, <2>3, <2>4
<1> QED BY <1>1, FilesAreRight, PTL

\* When no incumbent is on its way all agree on it and its source has the solution,
\* also after restarts that gave the processors other numbers.
THEOREM SourceIsRight == Spec => []SourceHasSolution
<1>1. FilesInv => SourceHasSolution
  BY Agreement DEF SourceHasSolution
<1> QED BY <1>1, FilesAreRight, PTL

-----------------------------------------------------------------------------
(***************************************************************************)
(* Part two, the search: whatever is killed and started again, with        *)
(* however many processors, no part of the search tree is lost and none is *)
(* searched twice.  SearchInv says so of the batches, which are the        *)
(* entries of the pools and the problems on their way, and of what is in   *)
(* the files; with FilesInv it is inductive.                               *)
(***************************************************************************)

(***************************************************************************)
(* The search tree.                                                        *)
(***************************************************************************)
\* s is below itself, and what is below its children; nothing else is.
LEMMA BelowFacts ==
  ASSUME NEW s \in Sub
  PROVE  /\ s \in Below[s] /\ Below[s] \subseteq Sub
         /\ \A x \in Below[s] : Children[x] \subseteq Below[s]
         /\ \A c \in Children[s] : Below[c] \subseteq Below[s]
         /\ \A t \in Below[s] : t = s \/ \E c \in Children[s] : t \in Below[c]
<1> DEFINE Closed(S) == \A x \in S : Children[x] \subseteq S
<1>0. /\ Children \in [Sub -> SUBSET Sub]
      /\ \A r \in Sub : Below[r] = {t \in Sub : \A S \in SUBSET Sub : r \in S /\ Closed(S) => t \in S}
  BY CheckpointAssumption DEF Below
<1> HIDE DEF Closed
<1>1. ASSUME NEW r \in Sub, NEW S \in SUBSET Sub, r \in S, Closed(S) PROVE Below[r] \subseteq S
  BY <1>0, <1>1
<1>2. ASSUME NEW r \in Sub
      PROVE  r \in Below[r] /\ Below[r] \subseteq Sub /\ Closed(Below[r])
  <2>1. r \in Below[r] /\ Below[r] \subseteq Sub
    BY <1>0
  <2>2. ASSUME NEW x \in Below[r], NEW c \in Children[x] PROVE c \in Below[r]
    <3>1. c \in Sub
      BY <1>0, <2>1
    <3>2. ASSUME NEW S \in SUBSET Sub, r \in S, Closed(S) PROVE c \in S
      BY <1>0, <3>2 DEF Closed
    <3> QED BY <1>0, <3>1, <3>2
  <2> QED BY <2>1, <2>2 DEF Closed
<1>3. ASSUME NEW c \in Children[s] PROVE Below[c] \subseteq Below[s]
  <2>1. c \in Sub /\ c \in Below[s]
    BY <1>0, <1>2 DEF Closed
  <2> QED BY <1>1, <1>2, <2>1
<1>4. ASSUME NEW t \in Below[s] PROVE t = s \/ \E c \in Children[s] : t \in Below[c]
  <2> DEFINE S == {s} \cup UNION {Below[c] : c \in Children[s]}
  <2>1. S \subseteq Sub
    BY <1>0, <1>2
  <2>2. ASSUME NEW x \in S, NEW d \in Children[x] PROVE d \in S
    <3>1. CASE x = s
      BY <1>0, <1>2, <2>2, <3>1
    <3>2. CASE \E c \in Children[s] : x \in Below[c]
      BY <1>0, <1>2, <2>2, <3>2 DEF Closed
    <3> QED BY <3>1, <3>2
  <2>3. Below[s] \subseteq S
    BY <1>1, <2>1, <2>2, ZenonT(60) DEF Closed
  <2> QED BY <2>3
<1> QED BY <1>2, <1>3, <1>4 DEF Closed

\* What is below s, but for s itself, was made by something below s.
LEMMA MadeBelow ==
  ASSUME NEW s \in Sub, NEW t \in Below[s], t # s
  PROVE  \E x \in Below[s] : t \in Children[x]
<1>1. SUFFICES ASSUME \A x \in Below[s] : t \notin Children[x] PROVE FALSE
  OBVIOUS
<1> DEFINE S == Below[s] \ {t}
<1>2. S \in SUBSET Sub /\ s \in S /\ \A x \in S : Children[x] \subseteq S
  BY <1>1, BelowFacts
<1>3. t \in S
  <2> HIDE DEF S
  <2> QED BY <1>2 DEF Below
<1> QED BY <1>3

\* Nothing is below two children of one problem.
LEMMA SiblingsApart ==
  ASSUME NEW s \in Sub, NEW c \in Children[s], NEW d \in Children[s], c # d
  PROVE  Below[c] \cap Below[d] = {}
<1>1. /\ c \in Sub /\ d \in Sub /\ Children \in [Sub -> SUBSET Sub]
      /\ s \notin Below[c] /\ s \notin Below[d]
  BY CheckpointAssumption, SearchTreeAssumption
<1>2. /\ c \in Below[c] /\ Below[c] \subseteq Sub /\ Below[d] \subseteq Sub
      /\ \A x \in Below[c] : Children[x] \subseteq Below[c]
  BY <1>1, BelowFacts
<1> DEFINE S == Below[c] \ Below[d]
<1>3. S \in SUBSET Sub
  BY <1>2
<1>4. c \in S
  <2>1. SUFFICES ASSUME c \in Below[d] PROVE FALSE
    BY <1>2
  <2>2. PICK x \in Below[d] : c \in Children[x]
    BY <1>1, <2>1, MadeBelow
  <2>3. x = s
    BY <1>2, <2>2, SearchTreeAssumption
  <2> QED BY <1>1, <2>2, <2>3
<1>5. ASSUME NEW x \in S, NEW y \in Children[x] PROVE y \in S
  <2>1. y \in Below[c]
    BY <1>2
  <2>2. SUFFICES ASSUME y \in Below[d] PROVE FALSE
    BY <2>1
  <2>3. CASE y = d
    <3>1. x = s
      BY <1>2, <1>5, <2>3, SearchTreeAssumption
    <3> QED BY <1>1, <3>1
  <2>4. CASE y # d
    <3>1. PICK z \in Below[d] : y \in Children[z]
      BY <1>1, <2>2, <2>4, MadeBelow
    <3>2. x = z
      BY <1>2, <1>5, <3>1, SearchTreeAssumption
    <3> QED BY <3>1, <3>2
  <2> QED BY <2>3, <2>4
<1>6. Below[c] \subseteq S
  <2> HIDE DEF S
  <2> QED BY <1>1, <1>3, <1>4, <1>5 DEF Below
<1> QED BY <1>6

\* Bounds only grow on the way down.
LEMMA BoundsGrow ==
  ASSUME NEW s \in Sub, NEW t \in Below[s]
  PROVE  t \in Sub /\ Bound[s] <= Bound[t]
<1> DEFINE S == {x \in Sub : Bound[s] <= Bound[x]}
<1>1. /\ Children \in [Sub -> SUBSET Sub] /\ \A x \in Sub : Bound[x] \in Nat
      /\ \A x \in Sub : \A c \in Children[x] : Bound[x] <= Bound[c]
  BY CheckpointAssumption
<1>2. S \in SUBSET Sub /\ s \in S
  BY <1>1
<1>3. ASSUME NEW x \in S, NEW c \in Children[x] PROVE c \in S
  <2>1. c \in Sub /\ Bound[x] <= Bound[c]
    BY <1>1
  <2> QED BY <1>1, <2>1
<1>4. t \in S
  <2> HIDE DEF S
  <2> QED BY <1>2, <1>3 DEF Below
<1> QED BY <1>4

\* The best solution is a leaf or the guess the search starts from.
LEMMA OptimumFacts ==
  /\ Optimum \in Nat /\ Optimum <= InitialGuess
  /\ \A o \in Leaf : Optimum <= Bound[o]
  /\ Optimum = InitialGuess \/ \E o \in Leaf : Bound[o] = Optimum
<1> DEFINE S == {Bound[o] : o \in Leaf} \cup {InitialGuess}
<1>1. S \subseteq Nat /\ InitialGuess \in S /\ \A o \in Leaf : Bound[o] \in S
  BY CheckpointAssumption DEF Leaf
<1>2. Optimum = Min(S)
  BY DEF Optimum
<1> HIDE DEF S
<1>3. Min(S) \in S /\ \A x \in S : Min(S) <= x
  BY <1>1, LeastExists
<1> QED BY <1>1, <1>2, <1>3 DEF S

-----------------------------------------------------------------------------
(***************************************************************************)
(* Sets of batches.                                                        *)
(***************************************************************************)
\* What comes out of a batch is below it.
Inside(W, r) == \A x \in W : \A s \in x.left : \E t \in r.left : Below[s] \subseteq Below[t]

\* A best solution that is below r is below W.
Covers(W, r) ==
  \A t \in r.left : \A o \in Below[t] :
    o \in Leaf /\ Bound[o] = Optimum => \E x \in W : \E s \in x.left : o \in Below[s]

\* A batch is replaced by what comes out of it, if it comes out once.
LEMMA OnceReplaced ==
  ASSUME NEW A, NEW B, NEW W, NEW r \in A, Once(A), Once(W), Inside(W, r),
         B \subseteq (A \ {r}) \cup W
  PROVE  Once(B)
<1> SUFFICES ASSUME NEW x \in B, NEW y \in B, NEW s \in x.left, NEW t \in y.left, x # y \/ s # t
             PROVE  Below[s] \cap Below[t] = {}
  BY DEF Once
<1>1. CASE x \in A \ {r} /\ y \in A \ {r}
  BY <1>1 DEF Once
<1>2. CASE x \in W /\ y \in W
  BY <1>2 DEF Once
<1>3. CASE x \in W /\ y \in A \ {r}
  <2>1. PICK u \in r.left : Below[s] \subseteq Below[u]
    BY <1>3 DEF Inside
  <2>2. Below[u] \cap Below[t] = {}
    BY <1>3 DEF Once
  <2> QED BY <2>1, <2>2
<1>4. CASE x \in A \ {r} /\ y \in W
  <2>1. PICK u \in r.left : Below[t] \subseteq Below[u]
    BY <1>4 DEF Inside
  <2>2. Below[s] \cap Below[u] = {}
    BY <1>4 DEF Once
  <2> QED BY <2>1, <2>2
<1> QED BY <1>1, <1>2, <1>3, <1>4

\* What is left of a set is in it once.
LEMMA OncePart ==
  ASSUME NEW A, NEW B, Once(A), B \subseteq A
  PROVE  Once(B)
BY DEF Once

\* What covers a batch has the best solution if the batch has it.
LEMMA BestReplaced ==
  ASSUME NEW A, NEW B, NEW W, NEW r, HasBest(A), Covers(W, r), W \subseteq B, A \ {r} \subseteq B
  PROVE  HasBest(B)
<1>1. PICK x \in A : \E s \in x.left : \E o \in Leaf : Bound[o] = Optimum /\ o \in Below[s]
  BY DEF HasBest
<1>2. CASE x = r
  BY <1>1, <1>2 DEF Covers, HasBest
<1>3. CASE x # r
  BY <1>1, <1>3 DEF HasBest
<1> QED BY <1>2, <1>3

\* The fields of a batch; which entry or message it stands for.
LEMMA HeldFacts ==
  ASSUME NEW p, NEW e
  PROVE  Held(p, e).at = p /\ Held(p, e).of = e /\ Held(p, e).left = e.left
BY DEF Held

\* ... likewise for a message.
LEMMA SentFacts ==
  ASSUME NEW m
  PROVE  Sent(m).at = -1 /\ Sent(m).of = m /\ Sent(m).left = {m.sub}
BY DEF Sent

\* A batch is an entry of a pool or a problem on its way.
LEMMA InBatches ==
  \A b : b \in Batches <=> \/ \E q \in Proc : \E e \in pool[q] : b = Held(q, e)
                          \/ \E m \in Deliveries : b = Sent(m)
<1> TAKE b
<1>1. b \in Batches <=> (\E q \in Proc : b \in HeldAt(q, pool[q])) \/ b \in SentAll(Deliveries)
  BY DEF Batches
<1>2. \A q \in Proc : b \in HeldAt(q, pool[q]) <=> \E e \in pool[q] : b = Held(q, e)
  BY DEF HeldAt
<1>3. b \in SentAll(Deliveries) <=> \E m \in Deliveries : b = Sent(m)
  BY DEF SentAll
<1> QED BY <1>1, <1>2, <1>3

\* R leaves p's pool and W comes to it, M is delivered and N sent.
Changes(p, R, W, M, N) ==
  /\ Proc' = Proc /\ n \in Nat /\ p \in Proc
  /\ pool'[p] = (pool[p] \ R) \cup W /\ \A q \in Proc \ {p} : pool'[q] = pool[q]
  /\ Deliveries' = (Deliveries \ M) \cup N

\* How the batches change then.
LEMMA BatchesChange ==
  ASSUME NEW p, NEW R, NEW W, NEW M, NEW N, Changes(p, R, W, M, N)
  PROVE  /\ R \subseteq pool[p] /\ M \subseteq Deliveries =>
              /\ HeldAt(p, R) \subseteq Batches
              /\ SentAll(M) \subseteq Batches
         /\ Batches' = (Batches \ (HeldAt(p, R) \cup SentAll(M)))
                         \cup HeldAt(p, W) \cup SentAll(N)
<1>a. /\ Proc' = Proc /\ n \in Nat /\ p \in Proc
      /\ pool'[p] = (pool[p] \ R) \cup W /\ \A q \in Proc \ {p} : pool'[q] = pool[q]
      /\ Deliveries' = (Deliveries \ M) \cup N
  BY DEF Changes
<1>0. \A q \in Proc : q # -1
  BY <1>a DEF Proc
<1>2. \A q, e, r, d : Held(q, e) = Held(r, d) => q = r /\ e = d
  BY HeldFacts
<1>3. \A l, m : Sent(l) = Sent(m) => l = m
  BY SentFacts
<1>4. \A q \in Proc : \A e, m : Held(q, e) # Sent(m)
  BY <1>0, HeldFacts, SentFacts
<1>h. /\ \A q, S, b : b \in HeldAt(q, S) <=> \E e \in S : b = Held(q, e)
      /\ \A S, b : b \in SentAll(S) <=> \E m \in S : b = Sent(m)
  BY DEF HeldAt, SentAll
<1>b. /\ \A b : b \in Batches <=> \/ \E q \in Proc : \E e \in pool[q] : b = Held(q, e)
                                \/ \E m \in Deliveries : b = Sent(m)
      /\ \A b : b \in Batches' <=> \/ \E q \in Proc : \E e \in pool'[q] : b = Held(q, e)
                                 \/ \E m \in Deliveries' : b = Sent(m)
  <2>1. \A b : b \in Batches <=> \/ \E q \in Proc : \E e \in pool[q] : b = Held(q, e)
                                \/ \E m \in Deliveries : b = Sent(m)
    BY InBatches
  <2>2. Batches' = SentAll(Deliveries') \cup UNION {HeldAt(q, pool'[q]) : q \in Proc}
    BY <1>a DEF Batches, SentAll, HeldAt, Held, Sent
  <2>3. \A b : b \in Batches' <=> (\E q \in Proc : b \in HeldAt(q, pool'[q])) \/ b \in SentAll(Deliveries')
    BY <2>2
  <2> QED BY <1>h, <2>1, <2>3
<1>5. ASSUME NEW b \in Batches'
      PROVE  b \in (Batches \ (HeldAt(p, R) \cup SentAll(M)))
                         \cup HeldAt(p, W) \cup SentAll(N)
  <2>1. CASE \E q \in Proc : \E e \in pool'[q] : b = Held(q, e)
    <3>1. PICK q \in Proc : \E e \in pool'[q] : b = Held(q, e)
      BY <1>a, <1>h, <2>1
    <3>2. PICK e \in pool'[q] : b = Held(q, e)
      BY <1>a, <1>h, <3>1
    <3>3. CASE q = p /\ e \in W
      BY <1>a, <1>h, <3>2, <3>3
    <3>4. CASE q # p \/ e \in pool[p] \ R
      <4>1. e \in pool[q]
        BY <1>a, <1>h, <3>4
      <4>2. b \in Batches
        BY <1>a, <1>h, <1>b, <3>2, <4>1
      <4>3. b \notin HeldAt(p, R) \cup SentAll(M)
        BY <1>a, <1>h, <1>2, <1>4, <3>2, <3>4
      <4> QED BY <1>a, <1>h, <4>2, <4>3
    <3> QED BY <1>a, <1>h, <3>3, <3>4
  <2>2. CASE \E m \in Deliveries' : b = Sent(m)
    <3>1. PICK m \in Deliveries' : b = Sent(m)
      BY <1>a, <1>h, <2>2
    <3>2. CASE m \in N
      BY <1>a, <1>h, <3>1, <3>2
    <3>3. CASE m \in Deliveries \ M
      <4>1. b \in Batches
        BY <1>a, <1>h, <1>b, <3>1, <3>3
      <4>2. b \notin HeldAt(p, R) \cup SentAll(M)
        BY <1>a, <1>h, <1>3, <1>4, <3>1, <3>3
      <4> QED BY <1>a, <1>h, <4>1, <4>2
    <3> QED BY <1>a, <1>h, <3>2, <3>3
  <2> QED BY <1>a, <1>h, <1>b, <2>1, <2>2
<1>6. ASSUME NEW b \in (Batches \ (HeldAt(p, R) \cup SentAll(M)))
                         \cup HeldAt(p, W) \cup SentAll(N)
      PROVE  b \in Batches'
  <2>1. CASE b \in HeldAt(p, W) \cup SentAll(N)
    BY <1>a, <1>h, <1>b, <2>1
  <2>2. CASE b \in Batches /\ b \notin HeldAt(p, R) \cup SentAll(M)
    <3>1. CASE \E q \in Proc : \E e \in pool[q] : b = Held(q, e)
      <4>1. PICK q \in Proc : \E e \in pool[q] : b = Held(q, e)
        BY <1>a, <1>h, <3>1
      <4>2. PICK e \in pool[q] : b = Held(q, e)
        BY <1>a, <1>h, <4>1
      <4>3. e \in pool'[q]
        BY <1>a, <1>h, <2>2, <4>2
      <4> QED BY <1>a, <1>h, <1>b, <4>2, <4>3
    <3>2. CASE \E m \in Deliveries : b = Sent(m)
      BY <1>a, <1>h, <1>b, <2>2, <3>2
    <3> QED BY <1>a, <1>h, <1>b, <2>2, <3>1, <3>2
  <2> QED BY <1>a, <1>h, <1>6, <2>1, <2>2
<1>7. ASSUME R \subseteq pool[p], M \subseteq Deliveries
      PROVE  /\ HeldAt(p, R) \subseteq Batches
             /\ SentAll(M) \subseteq Batches
  BY <1>a, <1>h, <1>b, <1>7
<1> QED BY <1>5, <1>6, <1>7

\* ... if the deliveries do not.
LEMMA PoolChange ==
  ASSUME NEW p \in Proc, n \in Nat, NEW R, NEW W, Proc' = Proc, Deliveries' = Deliveries,
         pool'[p] = (pool[p] \ R) \cup W, \A q \in Proc \ {p} : pool'[q] = pool[q]
  PROVE  /\ R \subseteq pool[p] => HeldAt(p, R) \subseteq Batches
         /\ Batches' = (Batches \ HeldAt(p, R)) \cup HeldAt(p, W)
<1> DEFINE none == {}
<1>1. SentAll(none) = {} /\ none \subseteq Deliveries /\ Deliveries' = (Deliveries \ none) \cup none
  BY DEF SentAll
<1> HIDE DEF none
<1>2. /\ R \subseteq pool[p] /\ none \subseteq Deliveries => HeldAt(p, R) \subseteq Batches
      /\ Batches' = (Batches \ (HeldAt(p, R) \cup SentAll(none))) \cup HeldAt(p, W) \cup SentAll(none)
  <2>1. Changes(p, R, W, none, none)
    BY <1>1 DEF Changes
  <2> QED BY <2>1, BatchesChange
<1> QED BY <1>1, <1>2

-----------------------------------------------------------------------------
(***************************************************************************)
(* Incumbents.                                                             *)
(***************************************************************************)
\* Incumbents only get better, and are never better than the best solution.
LEMMA ValuesKept ==
  ASSUME FilesInv, ValuesAreReal, phase = "running", NEW p \in Proc, Run(p)
  PROVE  ValuesAreReal' /\ (Known => Known')
<1>0. /\ incumbent \in [Proc -> Incumbent] /\ network \subseteq Message
      /\ \A q \in Proc : Optimum <= incumbent[q].value
      /\ \A m \in network : m.type = "incumbent" => Optimum <= m.incumbent.value
  BY RunningTypes DEF ValuesAreReal
<1>1. Proc' = Proc /\ Optimum' = Optimum
  BY RunFrame DEF Optimum
<1>v. Optimum \in Nat /\ \A q \in Proc : incumbent[q].value \in Nat
  BY <1>0, OptimumFacts DEF Incumbent
<1>2. SUFFICES /\ \A q \in Proc : Optimum <= incumbent'[q].value
               /\ \A m \in network' : m.type = "incumbent" => Optimum <= m.incumbent.value
               /\ \A q \in Proc : incumbent[q].value = Optimum => incumbent'[q].value = Optimum
  BY <1>1 DEF ValuesAreReal, Known
<1>3. CASE Work(p)
  <2>1. PICK e \in pool[p] : \E s \in e.left \ e.tokens :
          LET better == ~CanFathom(incumbent[p].value, s)
              found  == better /\ s \in Leaf
              new    == [value |-> Bound[s], source |-> p]
          IN /\ incumbent' = [incumbent EXCEPT ![p] = IF found THEN new ELSE @]
             /\ network'   = network \cup
                  {[type |-> "incumbent", to |-> q, incumbent |-> new] : q \in {x \in Proc \ {p} : found}}
    BY <1>3 DEF Work
  <2>2. PICK s \in e.left :
          LET better == ~CanFathom(incumbent[p].value, s)
              found  == better /\ s \in Leaf
              new    == [value |-> Bound[s], source |-> p]
          IN /\ incumbent' = [incumbent EXCEPT ![p] = IF found THEN new ELSE @]
             /\ network'   = network \cup
                  {[type |-> "incumbent", to |-> q, incumbent |-> new] : q \in {x \in Proc \ {p} : found}}
    BY <2>1
  <2> DEFINE found == ~CanFathom(incumbent[p].value, s) /\ s \in Leaf
             new   == [value |-> Bound[s], source |-> p]
  <2>3. /\ incumbent' = [incumbent EXCEPT ![p] = IF found THEN new ELSE @]
        /\ network'   = network \cup
             {[type |-> "incumbent", to |-> q, incumbent |-> new] : q \in {x \in Proc \ {p} : found}}
    BY <2>2
  <2>4. new.value = Bound[s]
    OBVIOUS
  <2>5. found => Bound[s] \in Nat /\ Bound[s] < incumbent[p].value /\ Optimum <= Bound[s]
    <3>1. s \in Leaf => s \in Sub /\ Bound[s] \in Nat /\ Optimum <= Bound[s]
      BY OptimumFacts, CheckpointAssumption DEF Leaf
    <3> QED BY <1>v, <3>1 DEF CanFathom
  <2> HIDE DEF found, new
  <2>6. \A q \in Proc : q # p => incumbent'[q] = incumbent[q]
    BY <1>0, <2>3
  <2>7. incumbent'[p] = IF found THEN new ELSE incumbent[p]
    BY <1>0, <2>3
  <2>8. ASSUME NEW m \in network', m.type = "incumbent" PROVE Optimum <= m.incumbent.value
    <3>1. CASE m \in network
      BY <1>0, <2>8, <3>1
    <3>2. CASE m \notin network
      <4>1. found /\ m.incumbent = new
        BY <2>3, <3>2
      <4> QED BY <2>4, <2>5, <4>1
    <3> QED BY <3>1, <3>2
  <2> QED BY <1>0, <1>v, <2>4, <2>5, <2>6, <2>7, <2>8
<1>4. CASE HearIncumbent(p)
  <2>1. PICK m \in network :
          LET better == \/ m.incumbent.value < incumbent[p].value
                        \/ /\ m.incumbent.value = incumbent[p].value
                           /\ m.incumbent.source < incumbent[p].source
          IN /\ m.type = "incumbent"
             /\ incumbent' = [incumbent EXCEPT ![p] = IF better THEN m.incumbent ELSE @]
             /\ network' = network \ {m}
    BY <1>4 DEF HearIncumbent
  <2>3. m.incumbent.value \in Nat /\ Optimum <= m.incumbent.value
    BY <1>0, <2>1 DEF Message, Incumbent
  <2>4. incumbent' = incumbent
        \/ (incumbent' = [incumbent EXCEPT ![p] = m.incumbent] /\ m.incumbent.value <= incumbent[p].value)
    <3> DEFINE better == \/ m.incumbent.value < incumbent[p].value
                         \/ /\ m.incumbent.value = incumbent[p].value
                            /\ m.incumbent.source < incumbent[p].source
    <3>1. incumbent' = [incumbent EXCEPT ![p] = IF better THEN m.incumbent ELSE @]
      BY <2>1
    <3>2. better => m.incumbent.value <= incumbent[p].value
      BY <1>v, <2>3
    <3> HIDE DEF better
    <3>3. CASE better
      BY <3>1, <3>2, <3>3
    <3>4. CASE ~better
      BY <1>0, <3>1, <3>4
    <3> QED BY <3>3, <3>4
  <2>2. /\ \/ incumbent'[p] = incumbent[p]
           \/ incumbent'[p] = m.incumbent /\ m.incumbent.value <= incumbent[p].value
        /\ \A q \in Proc : q # p => incumbent'[q] = incumbent[q]
    BY <1>0, <2>4
  <2> QED BY <1>0, <1>v, <2>1, <2>2, <2>3
<1>5. CASE Prune(p) \/ Release(p) \/ Dispatch(p) \/ SpServe(p) \/ SpReceive(p)
  <2>1. incumbent' = incumbent
    BY <1>5 DEF Prune, Release, Dispatch, SpServe, SpReceive, search
  <2>2. ASSUME NEW m \in network', m.type = "incumbent" PROVE m \in network
    <3>1. CASE Prune(p) \/ Release(p) \/ Dispatch(p) \/ SpReceive(p)
      BY <2>2, <3>1 DEF Prune, Release, Dispatch, SpReceive
    <3>2. CASE SpServe(p)
      <4>1. PICK l \in network, gone \in SUBSET pool[p] :
              network' = (network \ {l}) \cup
                 {[type |-> "deliver", to |-> l.dest, sub |-> l.sub, bound |-> e.bound] : e \in gone}
        BY <3>2 DEF SpServe
      <4> QED BY <2>2, <4>1
    <3> QED BY <1>5, <3>1, <3>2
  <2> QED BY <1>0, <2>1, <2>2
<1>6. CASE SetupCheckpoint(p) \/ OpenFile(p) \/ CloseFile(p) \/ EndCheckpoint(p) \/ End(p)
  <2>1. incumbent' = incumbent
    BY <1>6 DEF SetupCheckpoint, OpenFile, CloseFile, EndCheckpoint, End, search
  <2>2. ASSUME NEW m \in network', m.type = "incumbent" PROVE m \in network
    <3>1. CASE SetupCheckpoint(p)
      BY <2>2, <3>1 DEF SetupCheckpoint, Alert
    <3>2. CASE OpenFile(p)
      BY <2>2, <3>2 DEF OpenFile, Alert
    <3>3. CASE CloseFile(p) \/ EndCheckpoint(p) \/ End(p)
      BY <2>2, <3>3 DEF CloseFile, EndCheckpoint, End
    <3> QED BY <1>6, <3>1, <3>2, <3>3
  <2> QED BY <1>0, <2>1, <2>2
<1> QED BY <1>3, <1>4, <1>5, <1>6 DEF Run

\* Who can fathom the entry of a problem above a best solution knows one.
LEMMA FathomedIsKnown ==
  ASSUME FilesInv, ValuesAreReal, phase = "running", NEW p \in Proc, NEW b \in Sub, NEW s \in Sub,
         Bound[b] <= Bound[s], CanFathom(incumbent[p].value, b),
         NEW o \in Leaf, o \in Below[s], Bound[o] = Optimum
  PROVE  Known
<1>1. /\ Bound[b] \in Nat /\ Bound[s] \in Nat /\ Bound[o] \in Nat /\ Bound[s] <= Bound[o]
  BY BoundsGrow, CheckpointAssumption
<1>2. incumbent[p].value \in Nat /\ Optimum <= incumbent[p].value
  BY RunningTypes DEF ValuesAreReal, Incumbent
<1>3. incumbent[p].value <= Bound[b]
  BY <1>1, <1>2 DEF CanFathom
<1> QED BY <1>1, <1>2, <1>3 DEF Known

\* The problems of a batch, and the one whose bound they have, are problems.
LEMMA BatchTypes ==
  ASSUME FilesInv, phase # "killed"
  PROVE  \A x \in Batches : x.left \subseteq Sub /\ x.of.bound \in Sub
<1>1. pool \in [Proc -> SUBSET Entry] /\ network \subseteq Message
  BY DEF FilesInv, TypeOK
<1>2. \A p \in Proc : \A e \in pool[p] : e.left \subseteq Sub /\ e.bound \in Sub
  BY <1>1 DEF Entry
<1>3. \A m \in Deliveries : m.sub \in Sub /\ m.bound \in Sub
  BY <1>1 DEF Deliveries, Message
<1>4. ASSUME NEW x \in Batches PROVE x.left \subseteq Sub /\ x.of.bound \in Sub
  <2>1. CASE \E p \in Proc : \E e \in pool[p] : x = Held(p, e)
    BY <1>2, <2>1, HeldFacts
  <2>2. CASE \E m \in Deliveries : x = Sent(m)
    BY <1>3, <2>2, SentFacts
  <2> QED BY <2>1, <2>2, InBatches
<1> QED BY <1>4

-----------------------------------------------------------------------------
(***************************************************************************)
(* The search: one batch becomes others.                                   *)
(***************************************************************************)
\* What the search keeps of the batches.
Going == Once(Batches) /\ Bounded(Batches) /\ (HasBest(Batches) \/ Known)

\* It is kept if a batch is replaced by what comes out of it.
LEMMA GoingOn ==
  ASSUME Going, ValuesAreReal', Known => Known',
         NEW r \in Batches, NEW W, Batches' = (Batches \ {r}) \cup W,
         Once(W), Bounded(W), Inside(W, r),
         Known' \/ Covers(W, r)
  PROVE  Going'
<1>1. Once(Batches')
  BY OnceReplaced DEF Going
<1>2. Bounded(Batches')
  BY DEF Bounded, Going
<1>3. HasBest(Batches') \/ Known'
  BY BestReplaced DEF Going
<1> QED BY <1>1, <1>2, <1>3 DEF Going, Once, Bounded, HasBest, Optimum

\* pruneIfNeeded: what is fathomed is no better than what is known.
LEMMA PruneGoes ==
  ASSUME FilesInv, Going, ValuesAreReal, phase = "running", NEW p \in Proc, Prune(p)
  PROVE  Going'
<1>1. /\ pool \in [Proc -> SUBSET Entry] /\ n \in Nat
      /\ pool' = [pool EXCEPT ![p] = {e \in @ : ~CanFathom(incumbent[p].value, e.bound)}]
      /\ network' = network /\ n' = n /\ incumbent' = incumbent
  BY RunningTypes DEF Prune
<1> DEFINE R == {e \in pool[p] : CanFathom(incumbent[p].value, e.bound)}
           G == HeldAt(p, R)
<1>2. /\ pool'[p] = (pool[p] \ R) \cup {} /\ \A q \in Proc \ {p} : pool'[q] = pool[q]
      /\ Proc' = Proc /\ Deliveries' = (Deliveries \ {}) \cup {}
  BY <1>1 DEF Proc, Deliveries
<1>3. Batches' = Batches \ G /\ G \subseteq Batches
  <2> DEFINE none == {}
  <2>1. HeldAt(p, none) = {} /\ R \subseteq pool[p] /\ pool'[p] = (pool[p] \ R) \cup none /\ Deliveries' = Deliveries
    BY <1>2 DEF HeldAt
  <2> HIDE DEF none, R
  <2>2. Batches' = (Batches \ G) \cup HeldAt(p, none) /\ G \subseteq Batches
    BY <1>1, <1>2, <2>1, PoolChange
  <2> QED BY <2>1, <2>2
<1>4. Once(Batches') /\ Bounded(Batches')
  BY <1>3 DEF Going, Once, Bounded
<1>5. Known => Known'
  BY <1>1 DEF Known, Proc, Optimum
<1>6. ASSUME HasBest(Batches), ~HasBest(Batches') PROVE Known
  <2>1. PICK x \in Batches : \E s \in x.left : \E o \in Leaf : Bound[o] = Optimum /\ o \in Below[s]
    BY <1>6 DEF HasBest
  <2>2. PICK s \in x.left : \E o \in Leaf : Bound[o] = Optimum /\ o \in Below[s]
    BY <2>1
  <2>3. PICK o \in Leaf : Bound[o] = Optimum /\ o \in Below[s]
    BY <2>2
  <2>4. x \in G
    BY <1>3, <1>6, <2>2, <2>3 DEF HasBest
  <2>5. PICK e \in R : x = Held(p, e)
    BY <2>4 DEF HeldAt
  <2>6. x.of = e /\ CanFathom(incumbent[p].value, e.bound)
    BY <2>5, HeldFacts
  <2>7. s \in Sub /\ e.bound \in Sub /\ Bound[e.bound] <= Bound[s]
    BY <2>6, BatchTypes DEF Going, Bounded
  <2> QED BY <2>3, <2>6, <2>7, FathomedIsKnown
<1> QED BY <1>4, <1>5, <1>6 DEF Going, Once, Bounded, HasBest, Optimum

\* The batches for what is left of e have nothing but it, and lack nothing but s.
LEMMA WithoutBatches ==
  ASSUME NEW p, NEW e \in Entry, NEW s \in e.left
  PROVE  /\ \A w \in Without(e, s) : w.bound = e.bound /\ w.left = e.left \ {s}
         /\ Without(e, s) = {} => e.left = {s}
         /\ \A v, w \in Without(e, s) : v = w
BY DEF Without, Entry

\* A problem comes out of an entry and is evaluated: its children come out of it.
LEMMA WorkGoes ==
  ASSUME FilesInv, Going, ValuesAreReal, phase = "running", NEW p \in Proc, Work(p)
  PROVE  Going'
<1>0. /\ pool \in [Proc -> SUBSET Entry] /\ n \in Nat /\ incumbent \in [Proc -> Incumbent]
      /\ Children \in [Sub -> SUBSET Sub] /\ \A s \in Sub : Bound[s] \in Nat
      /\ \A s \in Sub : \A c \in Children[s] : Bound[s] <= Bound[c]
  BY RunningTypes, CheckpointAssumption
<1>1. PICK e \in pool[p] : \E s \in e.left :
        LET better == ~CanFathom(incumbent[p].value, s)
            split  == IF better /\ s \notin Leaf
                      THEN {[bound |-> s, left |-> Children[s], tokens |-> {}]} ELSE {}
            found  == better /\ s \in Leaf
            new    == [value |-> Bound[s], source |-> p]
        IN /\ pool' = [pool EXCEPT ![p] = (@ \ {e}) \cup Without(e, s) \cup split]
           /\ incumbent' = [incumbent EXCEPT ![p] = IF found THEN new ELSE @]
  BY DEF Work
<1>2. PICK s \in e.left :
        LET better == ~CanFathom(incumbent[p].value, s)
            split  == IF better /\ s \notin Leaf
                      THEN {[bound |-> s, left |-> Children[s], tokens |-> {}]} ELSE {}
            found  == better /\ s \in Leaf
            new    == [value |-> Bound[s], source |-> p]
        IN /\ pool' = [pool EXCEPT ![p] = (@ \ {e}) \cup Without(e, s) \cup split]
           /\ incumbent' = [incumbent EXCEPT ![p] = IF found THEN new ELSE @]
  BY <1>1
<1> DEFINE better == ~CanFathom(incumbent[p].value, s)
           split  == IF better /\ s \notin Leaf
                     THEN {[bound |-> s, left |-> Children[s], tokens |-> {}]} ELSE {}
           found  == better /\ s \in Leaf
           new    == [value |-> Bound[s], source |-> p]
           out    == Without(e, s) \cup split
           W      == HeldAt(p, out)
           r      == Held(p, e)
<1>3. /\ pool' = [pool EXCEPT ![p] = (@ \ {e}) \cup out]
      /\ incumbent' = [incumbent EXCEPT ![p] = IF found THEN new ELSE @]
      /\ Proc' = Proc
  <2>1. pool' = [pool EXCEPT ![p] = (@ \ {e}) \cup Without(e, s) \cup split]
    BY <1>2
  <2>2. n' = n
    BY DEF Work
  <2> HIDE DEF split
  <2> QED BY <1>2, <2>1, <2>2 DEF Proc
<1>4. /\ e \in Entry /\ e.left \subseteq Sub /\ s \in Sub /\ e.bound \in Sub
      /\ \A t \in e.left : Bound[e.bound] <= Bound[t]
      /\ \A t \in e.left, u \in e.left : t # u => Below[t] \cap Below[u] = {}
      /\ r \in Batches
  <2>1. e \in Entry /\ e.left \subseteq Sub /\ s \in Sub /\ e.bound \in Sub
    BY <1>0 DEF Entry
  <2>2. r \in Batches
    BY InBatches
  <2>3. r.left = e.left /\ r.of = e
    BY HeldFacts
  <2> HIDE DEF r
  <2> QED BY <2>1, <2>2, <2>3 DEF Going, Once, Bounded
<1>5. \A w \in out : \/ w \in Without(e, s) /\ w.bound = e.bound /\ w.left = e.left \ {s}
                     \/ /\ w.bound = s /\ w.left = Children[s] /\ better /\ s \notin Leaf
                        /\ w = [bound |-> s, left |-> Children[s], tokens |-> {}]
  BY <1>4, WithoutBatches
<1>6. Batches' = (Batches \ {r}) \cup W
  <2>1. /\ pool'[p] = (pool[p] \ {e}) \cup out /\ \A q \in Proc \ {p} : pool'[q] = pool[q]
    <3> HIDE DEF out
    <3> QED BY <1>0, <1>3
  <2>2. Deliveries' = Deliveries
    BY DEF Work, Deliveries
  <2> HIDE DEF out
  <2>3. HeldAt(p, {e}) = {r}
    BY DEF HeldAt
  <2> QED BY <1>0, <1>3, <2>1, <2>2, <2>3, PoolChange, ZenonT(60)
<1>7. \A x \in W : \E w \in out : x = Held(p, w) /\ x.left = w.left /\ x.of = w
  BY HeldFacts DEF HeldAt
<1>8. \A c \in Children[s] : c \in Sub /\ Below[c] \subseteq Below[s]
  BY <1>0, <1>4, BelowFacts
<1>9. Inside(W, r)
  <2>1. ASSUME NEW w \in out, NEW t \in w.left PROVE \E u \in e.left : Below[t] \subseteq Below[u]
    BY <1>5, <1>8, <2>1
  <2>2. r.left = e.left
    BY HeldFacts
  <2> HIDE DEF W, out, r
  <2> QED BY <1>7, <2>1, <2>2 DEF Inside
<1>10. Once(W)
  <2>1. ASSUME NEW w \in out, NEW v \in out, NEW t \in w.left, NEW u \in v.left, w # v \/ t # u
        PROVE  Below[t] \cap Below[u] = {}
    <3>1. CASE t \in e.left \ {s} /\ u \in Children[s]
      <4>1. Below[t] \cap Below[s] = {}
        BY <1>4, <3>1
      <4> QED BY <1>8, <3>1, <4>1
    <3>2. CASE t \in Children[s] /\ u \in e.left \ {s}
      <4>1. Below[u] \cap Below[s] = {}
        BY <1>4, <3>2
      <4> QED BY <1>8, <3>2, <4>1
    <3>3. CASE w \in Without(e, s) /\ v \in Without(e, s) /\ w.left = e.left \ {s} /\ v.left = e.left \ {s}
      <4>1. w = v
        BY <1>4, <3>3, WithoutBatches
      <4> QED BY <1>4, <2>1, <3>3, <4>1
    <3>4. CASE /\ w = [bound |-> s, left |-> Children[s], tokens |-> {}]
               /\ v = [bound |-> s, left |-> Children[s], tokens |-> {}]
               /\ t \in Children[s] /\ u \in Children[s]
      BY <1>4, <2>1, <3>4, SiblingsApart
    <3> QED BY <1>5, <3>1, <3>2, <3>3, <3>4
  <2> HIDE DEF W, out
  <2> QED BY <1>7, <2>1 DEF Once
<1>11. Bounded(W)
  <2>1. ASSUME NEW w \in out, NEW t \in w.left PROVE Bound[w.bound] <= Bound[t]
    BY <1>0, <1>4, <1>5, <2>1
  <2> HIDE DEF W, out
  <2> QED BY <1>7, <2>1 DEF Bounded
<1>12. ValuesAreReal' /\ (Known => Known')
  BY ValuesKept DEF Run
<1>13. incumbent[p].value \in Nat /\ Optimum <= incumbent[p].value /\ Optimum \in Nat
  BY <1>0, OptimumFacts DEF Incumbent, ValuesAreReal
<1>14. Known' \/ Covers(W, r)
  <2> SUFFICES ASSUME ~Known' PROVE Covers(W, r)
    OBVIOUS
  <2>1. ASSUME NEW t \in e.left, NEW o \in Below[t], o \in Leaf, Bound[o] = Optimum
        PROVE  \E w \in out : \E u \in w.left : o \in Below[u]
    <3>1. CASE t # s
      <4>1. Without(e, s) # {}
        BY <1>4, <3>1, WithoutBatches
      <4>2. PICK w \in Without(e, s) : w.left = e.left \ {s}
        BY <1>4, <4>1, WithoutBatches
      <4> QED BY <2>1, <3>1, <4>2
    <3>2. CASE t = s
      <4>1. better
        <5>1. Bound[s] <= Bound[s]
          BY <1>0, <1>4
        <5> QED BY <1>4, <1>12, <2>1, <3>2, <5>1, FathomedIsKnown
      <4>2. o = s \/ \E c \in Children[s] : o \in Below[c]
        BY <1>4, <2>1, <3>2, BelowFacts
      <4>3. s \notin Leaf
        <5>1. SUFFICES ASSUME s \in Leaf PROVE FALSE
          OBVIOUS
        <5>2. o = s
          BY <4>2, <5>1 DEF Leaf
        <5>3. incumbent'[p] = new
          BY <1>0, <1>3, <4>1, <5>1
        <5>4. incumbent'[p].value = Optimum /\ p \in Proc'
          BY <1>3, <2>1, <5>2, <5>3
        <5> QED BY <5>4 DEF Known, Optimum
      <4>4. o # s
        BY <2>1, <4>3
      <4>5. PICK c \in Children[s] : o \in Below[c]
        BY <4>2, <4>4
      <4>6. [bound |-> s, left |-> Children[s], tokens |-> {}] \in out
        BY <4>1, <4>3
      <4> QED BY <4>5, <4>6
    <3> QED BY <3>1, <3>2
  <2>2. r.left = e.left
    BY HeldFacts
  <2>3. \A w \in out : Held(p, w) \in W /\ Held(p, w).left = w.left
    BY HeldFacts DEF HeldAt
  <2> HIDE DEF W, out, r
  <2> QED BY <2>1, <2>2, <2>3 DEF Covers
<1> QED BY <1>4, <1>6, <1>9, <1>10, <1>11, <1>12, <1>14, GoingOn

\* A problem of an entry is promised to a hub; it stays in the entry.
LEMMA ReleaseGoes ==
  ASSUME FilesInv, Going, ValuesAreReal, phase = "running", NEW p \in Proc, Release(p)
  PROVE  Going'
<1>0. /\ pool \in [Proc -> SUBSET Entry] /\ n \in Nat
  BY RunningTypes
<1>1. PICK e \in pool[p] : \E s \in e.left \ e.tokens :
        pool' = [pool EXCEPT ![p] = (@ \ {e}) \cup {[e EXCEPT !.tokens = @ \cup {s}]}]
  BY DEF Release
<1>2. PICK s \in e.left :
        pool' = [pool EXCEPT ![p] = (@ \ {e}) \cup {[e EXCEPT !.tokens = @ \cup {s}]}]
  BY <1>1
<1> DEFINE w == [e EXCEPT !.tokens = @ \cup {s}]
           r == Held(p, e)
           x == Held(p, w)
<1>3. /\ e \in Entry /\ w.left = e.left /\ w.bound = e.bound
  BY <1>0 DEF Entry
<1> HIDE DEF w
<1>4. r.left = e.left /\ r.of = e /\ r \in Batches /\ x.left = e.left /\ x.of = w
  <2>1. r \in Batches
    BY InBatches
  <2> QED BY <1>3, <2>1, HeldFacts
<1>5. Batches' = (Batches \ {r}) \cup {x}
  <2>0. pool' = [pool EXCEPT ![p] = (@ \ {e}) \cup {w}]
    BY <1>2 DEF w
  <2>1. pool'[p] = (pool[p] \ {e}) \cup {w} /\ \A q \in Proc \ {p} : pool'[q] = pool[q]
    BY <1>0, <2>0
  <2>2. Deliveries' = Deliveries /\ Proc' = Proc
    BY DEF Release, Deliveries, Proc
  <2>3. HeldAt(p, {e}) = {r} /\ HeldAt(p, {w}) = {x}
    BY DEF HeldAt
  <2> QED BY <1>0, <2>1, <2>2, <2>3, PoolChange
<1> HIDE DEF r, x
<1>6. Once({x}) /\ Bounded({x}) /\ Inside({x}, r) /\ Covers({x}, r)
  <2>1. \A t \in e.left, u \in e.left : t # u => Below[t] \cap Below[u] = {}
    BY <1>4 DEF Going, Once
  <2>2. \A t \in e.left : Bound[e.bound] <= Bound[t]
    BY <1>4 DEF Going, Bounded
  <2> QED BY <1>3, <1>4, <2>1, <2>2 DEF Once, Bounded, Inside, Covers
<1>7. ValuesAreReal' /\ (Known => Known')
  BY ValuesKept DEF Run
<1> QED BY <1>4, <1>5, <1>6, <1>7, GoingOn

\* A new entry or message for s, with the bound of a batch that has it.
NewBatch(x, s, b) == x.left = {s} /\ x.of.bound = b

\* s comes out of e alone, and what is left of e stays where it is.
LEMMA TakenOut ==
  ASSUME NEW p, NEW e \in Entry, NEW s \in e.left, Once({Held(p, e)}), Bounded({Held(p, e)}),
         NEW x, NewBatch(x, s, e.bound), NEW W, W = HeldAt(p, Without(e, s)) \cup {x}
  PROVE  Once(W) /\ Bounded(W) /\ Inside(W, Held(p, e)) /\ Covers(W, Held(p, e))
<1> DEFINE r == Held(p, e)
<1>1. r.left = e.left /\ r.of = e
  BY HeldFacts
<1> HIDE DEF r
<1>2. /\ \A t \in e.left, u \in e.left : t # u => Below[t] \cap Below[u] = {}
      /\ \A t \in e.left : Bound[e.bound] <= Bound[t]
  BY <1>1 DEF Once, Bounded, r
<1>3. \A y \in W : \/ y = x
                   \/ /\ y.left = e.left \ {s} /\ y.of.bound = e.bound
                      /\ \E w \in Without(e, s) : y = Held(p, w)
  BY WithoutBatches, HeldFacts DEF HeldAt
<1>4. \A y, z \in W : (y = x <=> z = x) => y = z
  BY <1>3, WithoutBatches
<1>5. Once(W)
  <2> SUFFICES ASSUME NEW y \in W, NEW z \in W, NEW t \in y.left, NEW u \in z.left, y # z \/ t # u
               PROVE  Below[t] \cap Below[u] = {}
    BY DEF Once
  <2>1. t \in e.left /\ u \in e.left
    BY <1>3 DEF NewBatch
  <2>2. t # u
    BY <1>3, <1>4 DEF NewBatch
  <2> QED BY <1>2, <2>1, <2>2
<1>6. Bounded(W) /\ Inside(W, r)
  BY <1>1, <1>2, <1>3 DEF Bounded, Inside, NewBatch
<1>7. Covers(W, r)
  <2> SUFFICES ASSUME NEW t \in e.left, NEW o \in Below[t] PROVE \E y \in W : \E u \in y.left : o \in Below[u]
    BY <1>1 DEF Covers
  <2>1. CASE t = s
    BY <2>1 DEF NewBatch
  <2>2. CASE t # s
    <3>1. PICK w \in Without(e, s) : w.left = e.left \ {s}
      BY <2>2, WithoutBatches
    <3>2. Held(p, w) \in W /\ t \in Held(p, w).left
      BY <2>2, <3>1, HeldFacts DEF HeldAt
    <3> QED BY <3>2
  <2> QED BY <2>1, <2>2
<1> QED BY <1>5, <1>6, <1>7 DEF r

\* The server gives a problem to its own worker or sends it.
LEMMA ServeGoes ==
  ASSUME FilesInv, Going, ValuesAreReal, phase = "running", NEW p \in Proc, SpServe(p)
  PROVE  Going'
<1>0. /\ pool \in [Proc -> SUBSET Entry] /\ n \in Nat /\ network \subseteq Message
  BY RunningTypes
<1>1. PICK m \in {x \in network : x.type = "dispatch" /\ x.to = p} :
        LET of    == {e \in pool[p] : m.sub \in e.tokens /\ ~CanFathom(incumbent[p].value, e.bound)}
            local == {e \in of : m.dest = p}
        IN /\ pool' = [pool EXCEPT ![p] = (@ \ of)
                         \cup (UNION {Without(e, m.sub) : e \in of})
                         \cup {New(m.sub, e.bound) : e \in local}]
           /\ network' = (network \ {m}) \cup
                {[type |-> "deliver", to |-> m.dest, sub |-> m.sub, bound |-> e.bound] :
                   e \in of \ local}
  BY DEF SpServe
<1> DEFINE of    == {e \in pool[p] : m.sub \in e.tokens /\ ~CanFathom(incumbent[p].value, e.bound)}
           local == {e \in of : m.dest = p}
           out   == (UNION {Without(e, m.sub) : e \in of}) \cup {New(m.sub, e.bound) : e \in local}
           gone  == {[type |-> "deliver", to |-> m.dest, sub |-> m.sub, bound |-> e.bound] :
                       e \in of \ local}
<1>2. /\ pool' = [pool EXCEPT ![p] = (@ \ of) \cup out] /\ network' = (network \ {m}) \cup gone
      /\ Proc' = Proc
  <2>1. pool' = [pool EXCEPT ![p] = (@ \ of) \cup (UNION {Without(e, m.sub) : e \in of})
                                      \cup {New(m.sub, e.bound) : e \in local}]
    BY <1>1
  <2>2. network' = (network \ {m}) \cup gone
    BY <1>1
  <2>3. (pool[p] \ of) \cup out
          = (pool[p] \ of) \cup (UNION {Without(e, m.sub) : e \in of}) \cup {New(m.sub, e.bound) : e \in local}
    OBVIOUS
  <2>4. Proc' = Proc
    BY DEF SpServe, Proc
  <2> HIDE DEF of, local, gone
  <2> QED BY <2>1, <2>2, <2>4
<1>3. of \subseteq pool[p] /\ \A e \in of : e \in Entry /\ m.sub \in e.left
  BY <1>0 DEF Entry
<1>4. \A e \in of, d \in of : e = d
  <2> SUFFICES ASSUME NEW e \in of, NEW d \in of, e # d PROVE FALSE
    OBVIOUS
  <2>1. Held(p, e) \in Batches /\ Held(p, d) \in Batches
    BY <1>3, InBatches
  <2>2. /\ Held(p, e).left = e.left /\ Held(p, d).left = d.left
        /\ Held(p, e).of = e /\ Held(p, d).of = d
    BY HeldFacts
  <2> HIDE DEF of
  <2>3. Below[m.sub] \cap Below[m.sub] = {}
    BY <1>3, <2>1, <2>2 DEF Going, Once
  <2>4. m.sub \in Sub
    BY <1>3 DEF Entry
  <2> QED BY <2>3, <2>4, BelowFacts
<1>5. /\ pool'[p] = (pool[p] \ of) \cup out /\ \A q \in Proc \ {p} : pool'[q] = pool[q]
      /\ Deliveries' = (Deliveries \ {}) \cup gone
  <2>1. /\ pool'[p] = (pool[p] \ of) \cup out /\ \A q \in Proc \ {p} : pool'[q] = pool[q]
    <3> HIDE DEF of, out
    <3> QED BY <1>0, <1>2
  <2>2. Deliveries' = (Deliveries \ {}) \cup gone
    <3>1. \A g \in gone : g.type = "deliver"
      OBVIOUS
    <3>2. m.type # "deliver"
      OBVIOUS
    <3> HIDE DEF gone
    <3> QED BY <1>2, <3>1, <3>2 DEF Deliveries
  <2> QED BY <2>1, <2>2
<1>6. ValuesAreReal' /\ (Known => Known')
  BY ValuesKept DEF Run
<1>7. CASE of = {}
  <2>1. out = {} /\ gone = {}
    BY <1>7
  <2>2. Batches' = Batches
    <3>1. HeldAt(p, of) = {} /\ HeldAt(p, out) = {}
      BY <1>7, <2>1 DEF HeldAt
    <3>2. Deliveries' = Deliveries
      BY <1>5, <2>1
    <3>3. pool'[p] = (pool[p] \ of) \cup out /\ \A q \in Proc \ {p} : pool'[q] = pool[q]
      BY <1>5
    <3> HIDE DEF of, out
    <3>4. Batches' = (Batches \ HeldAt(p, of)) \cup HeldAt(p, out)
      BY <1>0, <1>2, <3>2, <3>3, PoolChange
    <3> QED BY <3>1, <3>4
  <2> QED BY <1>6, <2>2 DEF Going, Once, Bounded, HasBest, Optimum
<1>8. ASSUME NEW e \in of PROVE Going'
  <2> DEFINE s == m.sub
             r == Held(p, e)
             msg == [type |-> "deliver", to |-> m.dest, sub |-> s, bound |-> e.bound]
  <2>1. of = {e}
    BY <1>4, <1>8
  <2>2. e \in Entry /\ s \in e.left /\ r \in Batches
    BY <1>3, <1>8, InBatches
  <2>3. Once({r}) /\ Bounded({r})
    BY <2>2, OncePart DEF Going, Bounded
  <2>4. CASE m.dest = p
    <3>1. local = {e} /\ gone = {}
      BY <2>1, <2>4
    <3>2. out = Without(e, s) \cup {New(s, e.bound)}
      BY <2>1, <3>1
    <3> DEFINE x == Held(p, New(s, e.bound))
               W == HeldAt(p, Without(e, s)) \cup {x}
    <3>3. NewBatch(x, s, e.bound)
      BY HeldFacts DEF NewBatch, New
    <3>4. HeldAt(p, out) = W /\ HeldAt(p, {e}) = {r}
      BY <3>2 DEF HeldAt
    <3>5. Batches' = (Batches \ {r}) \cup W
      <4>1. Deliveries' = Deliveries
        BY <1>5, <3>1
      <4> HIDE DEF of, out, W, r
      <4> QED BY <1>0, <1>2, <1>5, <2>1, <3>4, <4>1, PoolChange
    <3>6. Once(W) /\ Bounded(W) /\ Inside(W, r) /\ Covers(W, r)
      <4> HIDE DEF x
      <4> QED BY <2>2, <2>3, <3>3, TakenOut
    <3> HIDE DEF W, r
    <3> QED BY <1>6, <2>2, <3>5, <3>6, GoingOn
  <2>5. CASE m.dest # p
    <3>1. local = {} /\ gone = {msg}
      BY <2>1, <2>5
    <3>2. out = Without(e, s)
      BY <2>1, <3>1
    <3> DEFINE x == Sent(msg)
               W == HeldAt(p, Without(e, s)) \cup {x}
    <3>3. NewBatch(x, s, e.bound)
      BY SentFacts DEF NewBatch
    <3>4. HeldAt(p, {e}) = {r} /\ SentAll({msg}) = {x} /\ SentAll({}) = {}
      BY DEF HeldAt, SentAll
    <3>5. Batches' = (Batches \ {r}) \cup W
      <4> DEFINE none == {}
      <4>1. Deliveries' = (Deliveries \ none) \cup gone /\ SentAll(none) = {} /\ SentAll(gone) = {x}
        BY <1>5, <3>1, <3>4
      <4>3. pool'[p] = (pool[p] \ of) \cup out /\ \A q \in Proc \ {p} : pool'[q] = pool[q]
        BY <1>5
      <4> HIDE DEF of, out, r, none, gone, x
      <4>2. Batches' = (Batches \ (HeldAt(p, of) \cup SentAll(none))) \cup HeldAt(p, out) \cup SentAll(gone)
        <5>1. Changes(p, of, out, none, gone)
          BY <1>0, <1>2, <4>1, <4>3 DEF Changes
        <5> QED BY <5>1, BatchesChange
      <4> QED BY <2>1, <3>2, <3>4, <4>1, <4>2
    <3>6. Once(W) /\ Bounded(W) /\ Inside(W, r) /\ Covers(W, r)
      <4> HIDE DEF x
      <4> QED BY <2>2, <2>3, <3>3, TakenOut
    <3> HIDE DEF W, r
    <3> QED BY <1>6, <2>2, <3>5, <3>6, GoingOn
  <2> QED BY <2>4, <2>5
<1> QED BY <1>7, <1>8

\* What was on its way comes to the pool, unless it is fathomed.
LEMMA ReceiveGoes ==
  ASSUME FilesInv, Going, ValuesAreReal, phase = "running", NEW p \in Proc, SpReceive(p)
  PROVE  Going'
<1>0. /\ pool \in [Proc -> SUBSET Entry] /\ n \in Nat /\ network \subseteq Message
  BY RunningTypes
<1>1. PICK m \in network :
        /\ m.type = "deliver" /\ network' = network \ {m}
        /\ pool' = [pool EXCEPT ![p] = @ \cup
                      {x \in {New(m.sub, m.bound)} : ~CanFathom(incumbent[p].value, x.bound)}]
  BY DEF SpReceive
<1> DEFINE new == New(m.sub, m.bound)
           out == {x \in {new} : ~CanFathom(incumbent[p].value, x.bound)}
           r   == Sent(m)
           W   == HeldAt(p, out)
<1>2. m \in Deliveries /\ r \in Batches /\ r.left = {m.sub} /\ r.of = m /\ m.sub \in Sub /\ m.bound \in Sub
  BY <1>0, <1>1, InBatches, SentFacts DEF Deliveries, Message
<1>3. new.bound = m.bound /\ new.left = {m.sub} /\ Held(p, new).left = {m.sub} /\ Held(p, new).of = new
  BY HeldFacts DEF New
<1>4. Batches' = (Batches \ {r}) \cup W
  <2> DEFINE none == {}
  <2>1. /\ Deliveries' = (Deliveries \ {m}) \cup none /\ HeldAt(p, none) = {} /\ SentAll(none) = {}
        /\ SentAll({m}) = {r}
    BY <1>1 DEF Deliveries, HeldAt, SentAll
  <2>2. Proc' = Proc
    BY DEF SpReceive, Proc
  <2>3. pool'[p] = (pool[p] \ none) \cup out /\ \A q \in Proc \ {p} : pool'[q] = pool[q]
    <3>1. pool' = [pool EXCEPT ![p] = @ \cup out]
      BY <1>1
    <3> HIDE DEF out
    <3> QED BY <1>0, <3>1
  <2> HIDE DEF none, out, r
  <2>4. Batches' = (Batches \ (HeldAt(p, none) \cup SentAll({m}))) \cup HeldAt(p, out) \cup SentAll(none)
    <3>1. Changes(p, none, out, {m}, none)
      BY <1>0, <2>1, <2>2, <2>3 DEF Changes
    <3> QED BY <3>1, BatchesChange
  <2> QED BY <2>1, <2>4
<1>5. \A x \in W : x = Held(p, new)
  BY DEF HeldAt
<1>6. Once(W) /\ Inside(W, r)
  <2> HIDE DEF W, r, new
  <2> QED BY <1>2, <1>3, <1>5 DEF Once, Inside
<1>7. Bounded(W)
  <2>1. Bound[m.bound] <= Bound[m.sub]
    <3> HIDE DEF r
    <3> QED BY <1>2 DEF Going, Bounded
  <2> HIDE DEF W, new
  <2> QED BY <1>3, <1>5, <2>1 DEF Bounded
<1>8. ValuesAreReal' /\ (Known => Known')
  BY ValuesKept DEF Run
<1>9. Known' \/ Covers(W, r)
  <2>1. CASE CanFathom(incumbent[p].value, m.bound)
    <3>1. ASSUME NEW t \in r.left, NEW o \in Below[t], o \in Leaf, Bound[o] = Optimum PROVE Known
      <4>1. t = m.sub /\ Bound[m.bound] <= Bound[m.sub]
        <5> HIDE DEF r
        <5> QED BY <1>2 DEF Going, Bounded
      <4> QED BY <1>2, <2>1, <3>1, <4>1, FathomedIsKnown
    <3> HIDE DEF r, W
    <3> QED BY <1>8, <3>1 DEF Covers
  <2>2. CASE ~CanFathom(incumbent[p].value, m.bound)
    <3>1. Held(p, new) \in W
      BY <1>3, <2>2 DEF HeldAt
    <3> HIDE DEF r, W, new
    <3> QED BY <1>2, <1>3, <3>1 DEF Covers
  <2> QED BY <2>1, <2>2
<1> HIDE DEF W, r
<1> QED BY <1>2, <1>4, <1>6, <1>7, <1>8, <1>9, GoingOn

\* A step of a running program loses no part of the tree and doubles none.
LEMMA RunGoes ==
  ASSUME FilesInv, Going, ValuesAreReal, phase = "running", NEW p \in Proc, Run(p)
  PROVE  Going' /\ ValuesAreReal'
<1>1. ValuesAreReal' /\ (Known => Known')
  BY ValuesKept
<1>2. CASE Prune(p) \/ Work(p) \/ Release(p) \/ SpServe(p) \/ SpReceive(p)
  BY <1>1, <1>2, PruneGoes, WorkGoes, ReleaseGoes, ServeGoes, ReceiveGoes
<1>3. CASE \/ HearIncumbent(p) \/ Dispatch(p) \/ SetupCheckpoint(p) \/ OpenFile(p) \/ CloseFile(p)
           \/ EndCheckpoint(p) \/ End(p)
  <2>1. pool' = pool
    BY <1>3 DEF HearIncumbent, Dispatch, SetupCheckpoint, OpenFile, CloseFile, EndCheckpoint, End, search
  <2>2. Deliveries' = Deliveries
    <3>1. CASE CloseFile(p) \/ EndCheckpoint(p) \/ End(p)
      BY <3>1 DEF CloseFile, EndCheckpoint, End, Deliveries
    <3>4. CASE HearIncumbent(p)
      BY <3>4 DEF HearIncumbent, Deliveries
    <3>5. CASE Dispatch(p)
      BY <3>5 DEF Dispatch, Deliveries
    <3>2. CASE SetupCheckpoint(p)
      BY <3>2 DEF SetupCheckpoint, Alert, Deliveries
    <3>3. CASE OpenFile(p)
      BY <3>3 DEF OpenFile, Alert, Deliveries
    <3> QED BY <1>3, <3>1, <3>2, <3>3, <3>4, <3>5
  <2>3. Batches' = Batches
    BY <2>1, <2>2, RunFrame DEF Batches, HeldAt, Held
  <2> QED BY <1>1, <2>3 DEF Going, Once, Bounded, HasBest, Optimum
<1> QED BY <1>1, <1>2, <1>3 DEF Run

-----------------------------------------------------------------------------
(***************************************************************************)
(* The files of a checkpoint.                                              *)
(***************************************************************************)
\* What FilesGoOn says of one checkpoint.
GoesOn(k) ==
  /\ Once(Written(k)) /\ Bounded(Written(k))
  /\ Complete(k) => HasBest(Written(k)) \/ \E f \in disk : f.k = k /\ f.incumbent.value = Optimum

\* What is in the files of a checkpoint depends on its files.
LEMMA InWritten ==
  ASSUME NEW k
  PROVE  /\ \A y : y \in Written(k) <=> \E f \in disk : f.k = k /\ \E e \in f.subs : y = Held(f.p, e)
         /\ \A y : y \in Written(k)' <=> \E f \in disk' : f.k = k /\ \E e \in f.subs : y = Held(f.p, e)
<1>h. \A q, S, b : b \in HeldAt(q, S) <=> \E e \in S : b = Held(q, e)
  BY DEF HeldAt
<1>1. /\ Written(k) = UNION {HeldAt(f.p, f.subs) : f \in {g \in disk : g.k = k}}
      /\ Written(k)' = UNION {HeldAt(f.p, f.subs) : f \in {g \in disk' : g.k = k}}
  BY DEF Written, HeldAt, Held
<1>2. \A y : y \in Written(k) <=> \E f \in disk : f.k = k /\ y \in HeldAt(f.p, f.subs)
  BY <1>1
<1>3. \A y : y \in Written(k)' <=> \E f \in disk' : f.k = k /\ y \in HeldAt(f.p, f.subs)
  BY <1>1
<1> QED BY <1>h, <1>2, <1>3

\* A checkpoint whose files stay goes on as before.
LEMMA GoesOnFrame ==
  ASSUME NEW k, GoesOn(k), \A f : f.k = k => (f \in disk' <=> f \in disk)
  PROVE  GoesOn(k)'
<1>1. Written(k)' = Written(k)
  <2>1. {g \in disk' : g.k = k} = {g \in disk : g.k = k}
    OBVIOUS
  <2> QED BY <2>1 DEF Written, HeldAt, Held
<1>2. Complete(k)' <=> Complete(k)
  BY CompleteFrame DEF Complete
<1>3. Once(Written(k))' /\ Bounded(Written(k))'
  BY <1>1 DEF GoesOn, Once, Bounded
<1>4. HasBest(Written(k)) => HasBest(Written(k))'
  BY <1>1 DEF HasBest, Optimum
<1>5. (\E f \in disk : f.k = k /\ f.incumbent.value = Optimum)
        => (\E f \in disk' : f.k = k /\ f.incumbent.value = Optimum')
  BY DEF Optimum
<1> QED BY <1>2, <1>3, <1>4, <1>5 DEF GoesOn

\* Of one that is no more complete, the part that is left does.
LEMMA GoesOnFewer ==
  ASSUME NEW k, GoesOn(k), disk' \subseteq disk, ~Complete(k)'
  PROVE  GoesOn(k)'
<1>1. Written(k)' \subseteq Written(k)
  BY InWritten
<1> QED BY <1>1 DEF GoesOn, Once, Bounded

\* When the files of one processor are deleted, what is left is not complete.
LEMMA GoesOnDeleted ==
  ASSUME FilesInv, NEW k, GoesOn(k), NEW j, NEW p, disk' = {f \in disk : ~(f.k = j /\ f.p = p)}
  PROVE  GoesOn(k)'
<1>1. CASE \E f \in disk : f.k = k /\ k = j /\ f.p = p
  <2>1. PICK f \in disk : f.k = k /\ k = j /\ f.p = p
    BY <1>1
  <2>2. SUFFICES ASSUME CompleteOn(disk', k) PROVE FALSE
    BY GoesOnFewer DEF Complete
  <2>3. PICK g \in disk' : g.k = k
    BY <2>2 DEF CompleteOn
  <2>4. g \in disk /\ g.size = f.size
    BY <2>1, <2>3 DEF FilesInv, FilesAgree
  <2>5. f.p \in 0 .. g.size - 1
    <3>1. f.p \in Nat /\ f.size \in Nat /\ f.p < f.size
      BY DEF FilesInv, TypeOK, File
    <3> QED BY <2>4, <3>1
  <2>6. \E h \in disk' : h.k = k /\ h.p = f.p
    BY <2>2, <2>3, <2>5 DEF CompleteOn
  <2> QED BY <2>1, <2>6
<1>2. CASE ~\E f \in disk : f.k = k /\ k = j /\ f.p = p
  BY <1>2, GoesOnFrame
<1> QED BY <1>1, <1>2

\* Whether the file is whole is as it says.
LEMMA WholeField == \A q, w : ThisFile(q, w).whole = w
BY DEF ThisFile

\* While files are written, those there are have what is in memory.
LEMMA FilesOfNow ==
  ASSUME FilesInv, phase = "running", Quiescent, NEW p \in Proc, NEW f \in disk,
         f.k = checkpointNumber[p], f.p \in Proc
  PROVE  /\ f = ThisFile(f.p, f.whole)
         /\ stage[f.p] \in {"writing", "written"} /\ (f.whole <=> stage[f.p] = "written")
<1>0. FilesMatchMemory /\ \A x, y \in disk : x.k = y.k /\ x.p = y.p => x = y
  BY DEF FilesInv, FilesAgree
<1>a. \A w : ThisFile(f.p, w).k = checkpointNumber[f.p] /\ ThisFile(f.p, w).p = f.p
  BY DEF ThisFile
<1>1. checkpointNumber[f.p] = f.k
  BY SameNumber
<1>2. stage[f.p] \in {"suspended", "writing", "written"}
  BY DEF Quiescent
<1>3. stage[f.p] # "suspended"
  BY <1>0, <1>1 DEF FilesMatchMemory, OthersWrite
<1>4. CASE stage[f.p] = "writing"
  <2>1. ThisFile(f.p, FALSE) \in disk
    BY <1>0, <1>4 DEF FilesMatchMemory, OpenIsOnDisk
  <2>2. f = ThisFile(f.p, FALSE)
    BY <1>0, <1>a, <1>1, <2>1
  <2> DEFINE g == ThisFile(f.p, FALSE)
  <2>3. g.whole = FALSE
    BY WholeField
  <2> HIDE DEF g
  <2>4. f = g
    BY <2>2 DEF g
  <2>5. f.whole = FALSE
    BY <2>3, <2>4
  <2> QED BY <1>4, <2>2, <2>5
<1>5. CASE stage[f.p] = "written"
  <2>1. ThisFile(f.p, TRUE) \in disk
    BY <1>0, <1>5 DEF FilesMatchMemory, WholeIsOnDisk
  <2>2. f = ThisFile(f.p, TRUE)
    BY <1>0, <1>a, <1>1, <2>1
  <2> DEFINE g == ThisFile(f.p, TRUE)
  <2>3. g.whole = TRUE
    BY WholeField
  <2> HIDE DEF g
  <2>4. f = g
    BY <2>2 DEF g
  <2>5. f.whole = TRUE
    BY <2>3, <2>4
  <2> QED BY <1>5, <2>2, <2>5
<1> QED BY <1>2, <1>3, <1>4, <1>5

\* An entry as it is written.
Untold(e) == [e EXCEPT !.tokens = {}]

\* Its promises apart, a file has the entries of the pool.
LEMMA PackedEntries ==
  ASSUME NEW q, NEW w
  PROVE  \A e : e \in ThisFile(q, w).subs <=> \E d \in pool[q] : e = Untold(d)
BY DEF ThisFile, Packed, Untold

\* What is written has the problems of the pool it was packed from.
LEMMA UntoldFacts ==
  ASSUME NEW d \in Entry
  PROVE  Untold(d).left = d.left /\ Untold(d).bound = d.bound
BY DEF Untold, Entry

\* Files with what is in memory have no problem twice.
LEMMA PackedOnce ==
  ASSUME Once(Batches), Bounded(Batches), pool \in [Proc -> SUBSET Entry], NEW W,
         \A y \in W : \E q \in Proc : \E d \in pool[q] : y = Held(q, Untold(d))
  PROVE  Once(W) /\ Bounded(W)
<1>1. ASSUME NEW y \in W
      PROVE  \E q \in Proc : \E d \in pool[q] :
               /\ y = Held(q, Untold(d)) /\ Held(q, d) \in Batches
               /\ y.left = Held(q, d).left /\ y.of.bound = Held(q, d).of.bound
  <2>1. PICK q \in Proc : \E d \in pool[q] : y = Held(q, Untold(d))
    BY <1>1
  <2>2. PICK d \in pool[q] : y = Held(q, Untold(d))
    BY <2>1
  <2>3. d \in Entry
    OBVIOUS
  <2>4. /\ y.left = Untold(d).left /\ y.of = Untold(d)
        /\ Held(q, d).left = d.left /\ Held(q, d).of = d
    BY <2>2, HeldFacts
  <2> QED BY <2>2, <2>3, <2>4, UntoldFacts, InBatches
<1>2. ASSUME NEW x \in W, NEW y \in W, NEW s \in x.left, NEW t \in y.left, x # y \/ s # t
      PROVE  Below[s] \cap Below[t] = {}
  <2>1. PICK q \in Proc : \E d \in pool[q] :
               /\ x = Held(q, Untold(d)) /\ Held(q, d) \in Batches
               /\ x.left = Held(q, d).left /\ x.of.bound = Held(q, d).of.bound
    BY <1>1
  <2>2. PICK d \in pool[q] :
               /\ x = Held(q, Untold(d)) /\ Held(q, d) \in Batches
               /\ x.left = Held(q, d).left /\ x.of.bound = Held(q, d).of.bound
    BY <2>1
  <2>3. PICK r \in Proc : \E e \in pool[r] :
               /\ y = Held(r, Untold(e)) /\ Held(r, e) \in Batches
               /\ y.left = Held(r, e).left /\ y.of.bound = Held(r, e).of.bound
    BY <1>1
  <2>4. PICK e \in pool[r] :
               /\ y = Held(r, Untold(e)) /\ Held(r, e) \in Batches
               /\ y.left = Held(r, e).left /\ y.of.bound = Held(r, e).of.bound
    BY <2>3
  <2>5. Held(q, d) # Held(r, e) \/ s # t
    <3>1. Held(q, d) = Held(r, e) => q = r /\ d = e
      BY HeldFacts
    <3> QED BY <1>2, <2>2, <2>4, <3>1
  <2> QED BY <2>2, <2>4, <2>5 DEF Once
<1>3. Bounded(W)
  BY <1>1 DEF Bounded
<1> QED BY <1>2, <1>3 DEF Once

\* The first write to a file: with the others there are, it has no problem twice.
LEMMA OpenGoes ==
  ASSUME FilesInv, Once(Batches), Bounded(Batches), phase = "running", NEW p \in Proc, OpenFile(p),
         NEW k, GoesOn(k)
  PROVE  GoesOn(k)'
<1> DEFINE new == ThisFile(p, FALSE)
<1>0. /\ FilesMatchMemory /\ stage[p] = "suspended" /\ n \in Nat \ {0} /\ pool \in [Proc -> SUBSET Entry]
      /\ disk' = {f \in disk : ~(f.k = checkpointNumber[p] /\ f.p = p)} \cup {new}
  BY RunningTypes DEF FilesInv, OpenFile, MayWrite
<1>1. new.k = checkpointNumber[p] /\ new.p = p
  BY DEF ThisFile
<1>w. new.whole = FALSE
  BY WholeField
<1>2. \A f \in disk : f.k = checkpointNumber[p] => Quiescent /\ f.p # p /\ f.size = n
  BY <1>0 DEF FilesMatchMemory, OthersWrite
<1> HIDE DEF new
<1>3. disk' = disk \cup {new}
  BY <1>0, <1>2
<1>4. CASE k # checkpointNumber[p]
  BY <1>1, <1>3, <1>4, GoesOnFrame
<1>5. CASE k = checkpointNumber[p]
  <2>1. ~Complete(k)'
    <3>1. new \in disk' /\ new.k = k /\ ~new.whole
      BY <1>1, <1>w, <1>3, <1>5
    <3> QED BY <3>1 DEF Complete, CompleteOn
  <2>2. ASSUME NEW f \in disk', f.k = k
        PROVE  f.p \in Proc /\ \E w : f = ThisFile(f.p, w)
    <3>1. CASE f = new
      BY <1>1, <3>1 DEF new
    <3>2. CASE f \in disk
      <4>1. f.p \in Nat /\ f.p < f.size /\ f.size = n /\ Quiescent
        BY <1>2, <1>5, <2>2, <3>2 DEF FilesInv, TypeOK, File
      <4>2. f.p \in Proc
        BY <1>0, <4>1 DEF Proc
      <4> QED BY <1>5, <2>2, <3>2, <4>1, <4>2, FilesOfNow
    <3> QED BY <1>3, <2>2, <3>1, <3>2
  <2>3. ASSUME NEW y \in Written(k)'
        PROVE  \E q \in Proc : \E d \in pool[q] : y = Held(q, Untold(d))
    <3>1. PICK f \in disk' : f.k = k /\ \E e \in f.subs : y = Held(f.p, e)
      BY InWritten
    <3>2. PICK e \in f.subs : y = Held(f.p, e)
      BY <3>1
    <3>3. PICK w : f = ThisFile(f.p, w)
      BY <2>2, <3>1
    <3>4. \E d \in pool[f.p] : e = Untold(d)
      <4>1. e \in ThisFile(f.p, w).subs
        BY <3>2, <3>3
      <4> QED BY <4>1, PackedEntries
    <3>5. f.p \in Proc
      BY <2>2, <3>1
    <3> QED BY <3>2, <3>4, <3>5
  <2> DEFINE W == Written(k)'
  <2>4. Once(W) /\ Bounded(W)
    <3>1. \A y \in W : \E q \in Proc : \E d \in pool[q] : y = Held(q, Untold(d))
      BY <2>3
    <3> HIDE DEF W
    <3> QED BY <1>0, <3>1, PackedOnce
  <2> QED BY <2>1, <2>4 DEF GoesOn, Once, Bounded
<1> QED BY <1>4, <1>5

\* When the last file is closed they have all that is in memory.
LEMMA CloseGoes ==
  ASSUME FilesInv, Going, phase = "running", NEW p \in Proc, CloseFile(p), NEW k, GoesOn(k)
  PROVE  GoesOn(k)'
<1> DEFINE old == ThisFile(p, FALSE)
           new == ThisFile(p, TRUE)
<1>0. /\ FilesMatchMemory /\ stage[p] = "writing" /\ n \in Nat \ {0} /\ pool \in [Proc -> SUBSET Entry]
      /\ disk' = (disk \ {old}) \cup {new} /\ Quiescent
      /\ \A q \in Proc : q \in Nat
  BY RunningTypes DEF FilesInv, CloseFile, WritingIsTogether
<1>1. /\ new.k = checkpointNumber[p] /\ new.p = p /\ new.size = n /\ new.subs = old.subs
      /\ old.k = checkpointNumber[p] /\ old.p = p /\ old.size = n
  BY DEF ThisFile
<1>2. old \in disk
  BY <1>0 DEF FilesMatchMemory, OpenIsOnDisk
<1>3. CASE k # checkpointNumber[p]
  <2> HIDE DEF old, new
  <2> QED BY <1>0, <1>1, <1>3, GoesOnFrame
<1>4. CASE k = checkpointNumber[p]
  <2>1. Written(k)' = Written(k)
    <3>1. ASSUME NEW y PROVE y \in Written(k)' <=> y \in Written(k)
      <4> HIDE DEF old, new
      <4>1. \A e : y = Held(old.p, e) <=> y = Held(new.p, e)
        BY <1>1
      <4>2. (\E f \in disk' : f.k = k /\ \E e \in f.subs : y = Held(f.p, e))
              <=> (\E f \in disk : f.k = k /\ \E e \in f.subs : y = Held(f.p, e))
        BY <1>0, <1>1, <1>2, <1>4, <4>1
      <4> QED BY <4>2, InWritten
    <3> QED BY <3>1
  <2>2. ASSUME Complete(k)'
        PROVE  HasBest(Written(k)) \/ \E f \in disk' : f.k = k /\ f.incumbent.value = Optimum
    <3>1. \A q \in 0 .. n - 1 : \E g \in disk' : g.k = k /\ g.p = q /\ g.whole
      <4> HIDE DEF new
      <4>1. new \in disk' /\ new.k = k /\ new.size = n
        BY <1>0, <1>1, <1>4
      <4> QED BY <2>2, <4>1 DEF Complete, CompleteOn
    <3>2. ASSUME NEW q \in Proc PROVE ThisFile(q, TRUE) \in disk'
      <4>1. PICK g \in disk' : g.k = k /\ g.p = q /\ g.whole
        BY <3>1 DEF Proc
      <4>2. CASE q = p
        BY <1>0, <4>2
      <4>3. CASE q # p
        <5>1. g \in disk
          <6> HIDE DEF old, new
          <6> QED BY <1>0, <1>1, <4>1, <4>3
        <5>2. g = ThisFile(q, g.whole) /\ g.whole = TRUE
          <6>1. g.whole \in BOOLEAN
            BY <5>1 DEF FilesInv, TypeOK, File
          <6> QED BY <1>0, <1>4, <4>1, <5>1, <6>1, FilesOfNow
        <5> QED BY <4>1, <5>2
      <4> QED BY <4>2, <4>3
    <3>3. CASE HasBest(Batches)
      <4>1. PICK x \in Batches : \E s \in x.left : \E o \in Leaf : Bound[o] = Optimum /\ o \in Below[s]
        BY <3>3 DEF HasBest
      <4>2. Deliveries = {}
        BY <1>0 DEF Quiescent, Deliveries
      <4>3. PICK q \in Proc : \E d \in pool[q] : x = Held(q, d)
        BY <4>2, InBatches
      <4>4. PICK d \in pool[q] : x = Held(q, d)
        BY <4>3
      <4>5. d \in Entry
        BY <1>0
      <4>6. Held(q, Untold(d)) \in Written(k)'
        <5>1. ThisFile(q, TRUE) \in disk' /\ ThisFile(q, TRUE).p = q /\ ThisFile(q, TRUE).k = k
          <6>1. ThisFile(q, TRUE).p = q /\ ThisFile(q, TRUE).k = checkpointNumber[q]
            BY DEF ThisFile
          <6> QED BY <1>0, <1>4, <3>2, <6>1, SameNumber
        <5>2. Untold(d) \in ThisFile(q, TRUE).subs
          BY PackedEntries
        <5> QED BY <5>1, <5>2, InWritten
      <4>7. Held(q, Untold(d)).left = x.left
        BY <4>4, <4>5, HeldFacts, UntoldFacts
      <4> QED BY <2>1, <4>1, <4>6, <4>7 DEF HasBest
    <3>4. CASE Known
      <4>1. PICK q \in Proc : incumbent[q].value = Optimum
        BY <3>4 DEF Known
      <4>2. ThisFile(q, TRUE).incumbent = incumbent[q] /\ ThisFile(q, TRUE).k = checkpointNumber[q]
        BY DEF ThisFile
      <4> QED BY <1>0, <1>4, <3>2, <4>1, <4>2, SameNumber
    <3> QED BY <3>3, <3>4 DEF Going
  <2>3. Once(Written(k))' /\ Bounded(Written(k))'
    BY <2>1 DEF GoesOn, Once, Bounded
  <2>5. HasBest(Written(k)) => HasBest(Written(k))'
    BY <2>1 DEF HasBest, Optimum
  <2>4. (\E f \in disk' : f.k = k /\ f.incumbent.value = Optimum)
          => (\E f \in disk : f.k = k /\ f.incumbent.value = Optimum)'
    BY DEF Optimum
  <2> QED BY <2>2, <2>3, <2>4, <2>5 DEF GoesOn
<1> QED BY <1>3, <1>4

\* No step of a running program makes files from which less or more could go on.
LEMMA FilesGoOnKept ==
  ASSUME FilesInv, FilesGoOn, Going, ValuesAreReal, phase = "running", NEW p \in Proc, Run(p)
  PROVE  FilesGoOn'
<1>0. /\ \A f \in disk : Optimum <= f.incumbent.value
      /\ \A k \in 1 .. MaxCheckpoint : GoesOn(k)
  BY DEF FilesGoOn, GoesOn
<1>1. Optimum' = Optimum
  BY DEF Optimum
<1>2. SUFFICES /\ \A f \in disk' : Optimum <= f.incumbent.value
               /\ \A k \in 1 .. MaxCheckpoint : GoesOn(k)'
  BY <1>1 DEF FilesGoOn, GoesOn
<1>3. \A f \in disk' : Optimum <= f.incumbent.value
  <2>1. \A w : Optimum <= ThisFile(p, w).incumbent.value
    <3>1. \A w : ThisFile(p, w).incumbent = incumbent[p]
      BY DEF ThisFile
    <3> QED BY <3>1 DEF ValuesAreReal
  <2>2. \A f \in disk' : f \in disk \/ \E w : f = ThisFile(p, w)
    <3>1. CASE SearchStep(p)
      BY <3>1, SearchFrame
    <3>2. CASE SetupCheckpoint(p) \/ EndCheckpoint(p) \/ End(p)
      BY <3>2 DEF SetupCheckpoint, EndCheckpoint, End, files
    <3>3. CASE OpenFile(p) \/ CloseFile(p)
      BY <3>3 DEF OpenFile, CloseFile
    <3> QED BY <3>1, <3>2, <3>3 DEF Run, SearchStep
  <2> QED BY <1>0, <2>1, <2>2
<1>4. ASSUME NEW k \in 1 .. MaxCheckpoint PROVE GoesOn(k)'
  <2>1. CASE SearchStep(p) \/ SetupCheckpoint(p)
    <3>1. disk' = disk
      BY <2>1, SearchFrame DEF SetupCheckpoint, files
    <3> QED BY <1>0, <3>1, GoesOnFrame
  <2>2. CASE OpenFile(p)
    BY <1>0, <2>2, OpenGoes DEF Going
  <2>3. CASE CloseFile(p)
    BY <1>0, <2>3, CloseGoes
  <2>4. CASE EndCheckpoint(p)
    <3>1. disk' = {f \in disk : ~(f.k = checkpointNumber[p] - 1 /\ f.p = p)}
      BY <2>4 DEF EndCheckpoint, OldFile
    <3> QED BY <1>0, <3>1, GoesOnDeleted
  <2>5. CASE End(p)
    <3>1. disk' = {f \in disk : ~(f.k = checkpointNumber[p] /\ f.p = p)}
      BY <2>5 DEF End
    <3> QED BY <1>0, <3>1, GoesOnDeleted
  <2> QED BY <2>1, <2>2, <2>3, <2>4, <2>5 DEF Run, SearchStep
<1> QED BY <1>3, <1>4

-----------------------------------------------------------------------------
(***************************************************************************)
(* Restarts.                                                               *)
(***************************************************************************)
\* Files that stay as they are go on as before.
LEMMA FilesStay ==
  ASSUME FilesGoOn, disk' = disk
  PROVE  FilesGoOn'
<1>1. /\ \A f \in disk : Optimum <= f.incumbent.value
      /\ \A k \in 1 .. MaxCheckpoint : GoesOn(k)
  BY DEF FilesGoOn, GoesOn
<1>2. \A k \in 1 .. MaxCheckpoint : GoesOn(k)'
  BY <1>1, GoesOnFrame
<1>3. Optimum' = Optimum
  BY DEF Optimum
<1> QED BY <1>1, <1>2, <1>3 DEF FilesGoOn, GoesOn

\* Ramp-up has left the root with processor 0.
RootHeld ==
  /\ n \in Nat \ {0} /\ network = {}
  /\ pool = [p \in Proc |-> IF p = 0 THEN {New(Root, Root)} ELSE {}]
  /\ incumbent = [p \in Proc |-> [value |-> InitialGuess, source |-> 0]]

\* The whole tree is below the root.
LEMMA RootGoes == RootHeld => Going /\ ValuesAreReal
<1> SUFFICES ASSUME RootHeld PROVE Going /\ ValuesAreReal
  OBVIOUS
<1>0. /\ 0 \in Proc /\ Deliveries = {} /\ pool[0] = {New(Root, Root)}
      /\ \A p \in Proc : p # 0 => pool[p] = {}
      /\ \A p \in Proc : incumbent[p].value = InitialGuess
  BY DEF RootHeld, Proc, Deliveries
<1> DEFINE r == Held(0, New(Root, Root))
<1>1. r.left = {Root} /\ r.of.bound = Root
  BY HeldFacts DEF New
<1>2. \A x : x \in Batches <=> x = r
  BY <1>0, InBatches
<1> HIDE DEF r
<1>3. Once(Batches) /\ Bounded(Batches)
  <2>1. Bound[Root] <= Bound[Root]
    BY CheckpointAssumption
  <2> QED BY <1>1, <1>2, <2>1 DEF Once, Bounded
<1>4. HasBest(Batches) \/ Known
  <2>1. CASE Optimum = InitialGuess
    BY <1>0, <2>1 DEF Known
  <2>2. CASE \E o \in Leaf : Bound[o] = Optimum
    <3>1. PICK o \in Leaf : Bound[o] = Optimum
      BY <2>2
    <3>2. o \in Below[Root]
      BY SearchTreeAssumption DEF Leaf
    <3> QED BY <1>1, <1>2, <3>1, <3>2 DEF HasBest
  <2> QED BY <2>1, <2>2, OptimumFacts
<1>5. ValuesAreReal
  BY <1>0, OptimumFacts DEF ValuesAreReal, RootHeld
<1> QED BY <1>3, <1>4, <1>5 DEF Going

\* ... also in the state after a step.
LEMMA RootGoesPrime == RootHeld' => Going' /\ ValuesAreReal'
BY RootGoes, PTL

\* Problems that are dealt out again, each entry to one processor, are there once.
LEMMA DealtOnce ==
  ASSUME NEW A, NEW B, Once(A), Bounded(A),
         \A y \in B : \E x \in A : y.left = x.left /\ y.of = x.of,
         \A y, z \in B : y.of = z.of => y = z
  PROVE  Once(B) /\ Bounded(B)
<1>1. ASSUME NEW y \in B, NEW z \in B, NEW s \in y.left, NEW t \in z.left, y # z \/ s # t
      PROVE  Below[s] \cap Below[t] = {}
  <2>1. PICK u \in A : y.left = u.left /\ y.of = u.of
    OBVIOUS
  <2>2. PICK v \in A : z.left = v.left /\ z.of = v.of
    OBVIOUS
  <2>3. u # v \/ s # t
    BY <1>1, <2>1, <2>2
  <2> QED BY <2>1, <2>2, <2>3 DEF Once
<1>2. Bounded(B)
  BY DEF Bounded
<1> QED BY <1>1, <1>2 DEF Once

\* The batches after a restart, when no message is on its way.
LEMMA BatchesThen ==
  ASSUME network' = {}
  PROVE  \A y : y \in Batches' <=> \E q \in Proc' : \E e \in pool'[q] : y = Held(q, e)
<1>h. \A q, S, b : b \in HeldAt(q, S) <=> \E e \in S : b = Held(q, e)
  BY DEF HeldAt
<1>1. Batches' = SentAll(Deliveries') \cup UNION {HeldAt(q, pool'[q]) : q \in Proc'}
  BY DEF Batches, SentAll, HeldAt, Held, Sent
<1>2. SentAll(Deliveries') = {}
  BY DEF SentAll, Deliveries
<1>3. \A y : y \in Batches' <=> \E q \in Proc' : y \in HeldAt(q, pool'[q])
  BY <1>1, <1>2
<1> QED BY <1>h, <1>3

\* An entry that is fathomed when it is read is no better than what is known.
LEMMA KeptOrKnown ==
  ASSUME NEW v \in Nat, Optimum <= v, NEW b \in Sub, NEW s \in Sub, Bound[b] <= Bound[s],
         NEW o \in Leaf, o \in Below[s], Bound[o] = Optimum
  PROVE  ~CanFathom(v, b) \/ v = Optimum
<1>1. Bound[b] \in Nat /\ Bound[s] \in Nat /\ Bound[o] \in Nat /\ Bound[s] <= Bound[o]
  BY BoundsGrow, CheckpointAssumption
<1> QED BY <1>1 DEF CanFathom

\* A restart takes only what is in the files of checkpoint k, each entry once and, if
\* they are complete, all that it cannot fathom; v is the incumbent's value in them.
TakesUp(k, v) ==
  /\ v \in Nat /\ Optimum <= v
  /\ \A q \in Proc' : \A e : e \in pool'[q] => \E f \in disk : f.k = k /\ e \in f.subs
  /\ \A q, r \in Proc' : \A e : e \in pool'[q] /\ e \in pool'[r] => q = r
  /\ Complete(k) =>
       /\ \A q \in Proc' : incumbent'[q].value = v
       /\ \A f \in disk : f.k = k => \A e \in f.subs :
            ~CanFathom(v, e.bound) => \E q \in Proc' : e \in pool'[q]
       /\ \A f \in disk : f.k = k => f.incumbent.value = v

\* Such a restart goes on.
LEMMA RestartGoes ==
  ASSUME FilesInv, FilesGoOn, phase = "killed", NEW m \in Nat \ {0}, NEW k \in 1 .. MaxCheckpoint,
         StartFrom(m, k), NEW v, TakesUp(k, v)
  PROVE  SearchInv'
<1>0. /\ v \in Nat /\ Optimum <= v
      /\ \A q \in Proc' : \A e : e \in pool'[q] => \E f \in disk : f.k = k /\ e \in f.subs
      /\ \A q, r \in Proc' : \A e : e \in pool'[q] /\ e \in pool'[r] => q = r
      /\ Complete(k) =>
           /\ \A q \in Proc' : incumbent'[q].value = v
           /\ \A f \in disk : f.k = k => \A e \in f.subs :
                ~CanFathom(v, e.bound) => \E q \in Proc' : e \in pool'[q]
           /\ \A f \in disk : f.k = k => f.incumbent.value = v
  BY DEF TakesUp
<1>1. /\ n' = m /\ Proc' = 0 .. m - 1 /\ disk' = disk /\ network' = {}
      /\ phase' \in {"running", "incomplete"} /\ (phase' = "running" => Complete(k))
  <2>1. k \in 0 .. MaxCheckpoint /\ k # 0
    BY CheckpointAssumption
  <2> QED BY <2>1, StartFromFacts
<1>2. FilesGoOn' /\ GoesOn(k)
  BY <1>1, FilesStay DEF FilesGoOn, GoesOn
<1>3. \A y : y \in Batches' <=> \E q \in Proc' : \E e \in pool'[q] : y = Held(q, e)
  BY <1>1, BatchesThen
<1> DEFINE B == Batches'
<1>4. Once(B) /\ Bounded(B)
  <2>1. ASSUME NEW y \in B PROVE \E x \in Written(k) : y.left = x.left /\ y.of = x.of
    <3>1. PICK q \in Proc' : \E e \in pool'[q] : y = Held(q, e)
      BY <1>3
    <3>2. PICK e \in pool'[q] : y = Held(q, e)
      BY <3>1
    <3>3. PICK f \in disk : f.k = k /\ e \in f.subs
      BY <1>0, <3>2
    <3>4. Held(f.p, e) \in Written(k)
      BY <3>3, InWritten
    <3> QED BY <3>2, <3>4, HeldFacts
  <2>2. ASSUME NEW y \in B, NEW z \in B, y.of = z.of PROVE y = z
    <3>1. PICK q \in Proc' : \E e \in pool'[q] : y = Held(q, e)
      BY <1>3
    <3>2. PICK e \in pool'[q] : y = Held(q, e)
      BY <3>1
    <3>3. PICK r \in Proc' : \E d \in pool'[r] : z = Held(r, d)
      BY <1>3
    <3>4. PICK d \in pool'[r] : z = Held(r, d)
      BY <3>3
    <3>5. e = d
      BY <2>2, <3>2, <3>4, HeldFacts
    <3>6. q = r
      BY <1>0, <3>2, <3>4, <3>5
    <3> QED BY <3>2, <3>4, <3>5, <3>6
  <2> HIDE DEF B
  <2> QED BY <1>2, <2>1, <2>2, DealtOnce DEF GoesOn
<1>5. ASSUME phase' = "running" PROVE ValuesAreReal' /\ (HasBest(Batches)' \/ Known')
  <2>0. Complete(k) /\ 0 \in Proc' /\ \A q \in Proc' : incumbent'[q].value = v
    BY <1>0, <1>1, <1>5
  <2>1. ValuesAreReal'
    BY <1>0, <1>1, <2>0 DEF ValuesAreReal, Optimum
  <2>2. v = Optimum => Known'
    BY <2>0 DEF Known, Optimum
  <2>3. ASSUME HasBest(Written(k)), v # Optimum PROVE HasBest(Batches)'
    <3>1. PICK x \in Written(k) : \E s \in x.left : \E o \in Leaf : Bound[o] = Optimum /\ o \in Below[s]
      BY <2>3 DEF HasBest
    <3>2. PICK s \in x.left : \E o \in Leaf : Bound[o] = Optimum /\ o \in Below[s]
      BY <3>1
    <3>3. PICK o \in Leaf : Bound[o] = Optimum /\ o \in Below[s]
      BY <3>2
    <3>4. PICK f \in disk : f.k = k /\ \E e \in f.subs : x = Held(f.p, e)
      BY InWritten
    <3>5. PICK e \in f.subs : x = Held(f.p, e)
      BY <3>4
    <3>6. e \in Entry /\ e.bound \in Sub /\ e.left \subseteq Sub
      BY <3>5 DEF FilesInv, TypeOK, File, Entry
    <3>7. x.left = e.left /\ x.of = e
      BY <3>5, HeldFacts
    <3>8. Bound[e.bound] <= Bound[s]
      BY <1>2, <3>2, <3>7 DEF GoesOn, Bounded
    <3>9. ~CanFathom(v, e.bound)
      BY <1>0, <2>3, <3>2, <3>3, <3>6, <3>7, <3>8, KeptOrKnown
    <3>10. PICK q \in Proc' : e \in pool'[q]
      BY <1>0, <2>0, <3>4, <3>5, <3>9
    <3>11. Held(q, e) \in Batches' /\ Held(q, e).left = x.left
      BY <1>3, <3>7, <3>10, HeldFacts
    <3> QED BY <3>2, <3>3, <3>11 DEF HasBest, Optimum
  <2>4. HasBest(Written(k)) \/ v = Optimum
    BY <1>0, <1>2, <2>0 DEF GoesOn
  <2> QED BY <2>1, <2>2, <2>3, <2>4
<1>6. Once(Batches)' /\ Bounded(Batches)'
  BY <1>4 DEF Once, Bounded
<1> QED BY <1>1, <1>2, <1>5, <1>6 DEF SearchInv

\* Without files the search starts from the root.
LEMMA RampUpGoes ==
  ASSUME FilesInv, FilesGoOn, phase = "killed", NEW m \in Nat \ {0}, RampUpAgain(m)
  PROVE  SearchInv'
<1>1. /\ disk = {} /\ StartFrom(m, 0)
      /\ pool' = [p \in 0 .. m - 1 |-> IF p = 0 THEN {New(Root, Root)} ELSE {}]
      /\ incumbent' = [p \in 0 .. m - 1 |-> [value |-> InitialGuess, source |-> 0]]
  BY DEF RampUpAgain, RampedUp
<1>2. 0 \in 0 .. MaxCheckpoint
  BY CheckpointAssumption
<1>3. n' = m /\ Proc' = 0 .. m - 1 /\ disk' = disk /\ network' = {}
  BY <1>1, <1>2, StartFromFacts
<1>4. RootHeld'
  BY <1>1, <1>3 DEF RootHeld, New
<1>5. FilesGoOn'
  BY <1>3, FilesStay
<1> QED BY <1>4, <1>5, RootGoesPrime DEF SearchInv, Going

\* Of a whole file all is read, of another a part.
LEMMA ReadFacts ==
  ASSUME NEW f, NEW r \in Readable(f)
  PROVE  r \subseteq f.subs /\ (f.whole => r = f.subs)
BY DEF Readable

\* Two files of a checkpoint have no entry in common.
LEMMA FilesApart ==
  ASSUME FilesInv, NEW k, Once(Written(k)), NEW f \in disk, NEW g \in disk, f.k = k, g.k = k,
         NEW e \in f.subs, e \in g.subs
  PROVE  f = g
<1>1. Held(f.p, e) \in Written(k) /\ Held(g.p, e) \in Written(k)
  BY InWritten
<1>2. e \in Entry
  BY DEF FilesInv, TypeOK, File
<1>3. PICK s \in e.left : s \in Sub
  BY <1>2 DEF Entry
<1>4. s \in Below[s]
  BY <1>3, BelowFacts
<1>5. Held(f.p, e) = Held(g.p, e)
  <2>1. s \in Held(f.p, e).left /\ s \in Held(g.p, e).left
    BY HeldFacts
  <2> QED BY <1>1, <1>4, <2>1 DEF Once
<1>6. f.p = g.p
  BY <1>5, HeldFacts
<1> QED BY <1>6 DEF FilesInv, FilesAgree

\* parallelRestart: each processor goes on with the entries of its own file.
LEMMA ParallelRestartGoes ==
  ASSUME FilesInv, FilesGoOn, phase = "killed", NEW m \in Nat \ {0}, ParallelRestart(m)
  PROVE  SearchInv'
<1>1. disk # {} /\ OneCheckpoint /\ {f.p : f \in disk} = 0 .. m - 1
  BY DEF ParallelRestart, CanRestart
<1>2. PICK k \in {f.k : f \in disk} : StartFrom(m, k)
  BY DEF ParallelRestart
<1>3. PICK read \in [0 .. m - 1 -> UNION {Readable(f) : f \in disk}] :
        /\ \A p \in 0 .. m - 1 : read[p] \in Readable(OwnFile(p))
        /\ pool' = [p \in 0 .. m - 1 |-> Kept(read[p], OwnFile(p).incumbent.value)]
        /\ incumbent' = [p \in 0 .. m - 1 |-> OwnFile(p).incumbent]
  BY DEF ParallelRestart, OwnFile
<1>4. PICK d \in disk : d.k = k
  BY <1>2
<1>5. k \in 1 .. MaxCheckpoint /\ \A f \in disk : f.k = k /\ f \in File
  BY <1>1, <1>4 DEF FilesInv, TypeOK, OneCheckpoint
<1>6. \A p \in 0 .. m - 1 : OwnFile(p) \in disk /\ OwnFile(p).p = p
  <2>1. \A p \in 0 .. m - 1 : \E f \in disk : f.p = p
    BY <1>1
  <2> QED BY <2>1 DEF OwnFile
<1>7. \A f \in disk : f.p \in 0 .. m - 1 /\ OwnFile(f.p) = f
  <2>1. \A f \in disk : f.p \in 0 .. m - 1
    BY <1>1
  <2> QED BY <1>5, <1>6, <2>1, Z3T(60) DEF FilesInv, FilesAgree
<1> HIDE DEF OwnFile
<1>8. Proc' = 0 .. m - 1
  BY <1>2 DEF StartFrom, Proc
<1>9. \A q \in Proc' : \A e : e \in pool'[q] => e \in OwnFile(q).subs
  <2>1. ASSUME NEW q \in 0 .. m - 1, NEW e, e \in pool'[q] PROVE e \in OwnFile(q).subs
    <3>1. e \in read[q]
      BY <1>3, <2>1 DEF Kept
    <3> QED BY <1>3, <3>1, ReadFacts
  <2> QED BY <1>8, <2>1
<1>10. \A q \in Proc' : \A e : e \in pool'[q] => \E f \in disk : f.k = k /\ e \in f.subs
  BY <1>5, <1>6, <1>8, <1>9
<1>11. \A q, r \in Proc' : \A e : e \in pool'[q] /\ e \in pool'[r] => q = r
  <2>1. Once(Written(k))
    BY <1>5 DEF FilesGoOn
  <2>2. ASSUME NEW q \in 0 .. m - 1, NEW r \in 0 .. m - 1, NEW e, e \in pool'[q], e \in pool'[r]
        PROVE  q = r
    <3>1. OwnFile(q) = OwnFile(r)
      BY <1>5, <1>6, <1>8, <1>9, <2>1, <2>2, FilesApart
    <3> QED BY <1>6, <3>1
  <2> QED BY <1>8, <2>2
<1> DEFINE v == d.incumbent.value
<1>12. v \in Nat /\ Optimum <= v
  BY <1>5 DEF FilesGoOn, File, Incumbent
<1>13. ASSUME Complete(k)
       PROVE  /\ \A q \in Proc' : incumbent'[q].value = v
              /\ \A f \in disk : f.k = k => f.incumbent.value = v
              /\ \A f \in disk : f.k = k => \A e \in f.subs :
                   ~CanFathom(v, e.bound) => \E q \in Proc' : e \in pool'[q]
  <2>1. \A f \in disk : f.incumbent = d.incumbent /\ f.whole
    BY <1>5, <1>13 DEF FilesInv, FilesAgree, Complete, CompleteOn
  <2>2. \A q \in Proc' : incumbent'[q].value = v
    BY <1>3, <1>6, <1>8, <2>1
  <2>3. ASSUME NEW f \in disk, NEW e \in f.subs, ~CanFathom(v, e.bound)
        PROVE  \E q \in Proc' : e \in pool'[q]
    <3>1. f.p \in 0 .. m - 1 /\ read[f.p] \in Readable(f) /\ pool'[f.p] = Kept(read[f.p], v)
      BY <1>3, <1>7, <2>1
    <3>2. e \in Kept(read[f.p], v)
      BY <2>1, <2>3, <3>1, ReadFacts DEF Kept
    <3> QED BY <1>8, <3>1, <3>2
  <2> QED BY <2>1, <2>2, <2>3
<1> HIDE DEF v
<1>14. TakesUp(k, v)
  BY <1>10, <1>11, <1>12, <1>13 DEF TakesUp
<1> QED BY <1>2, <1>5, <1>14, RestartGoes

\* reconfigureRestart: all entries are dealt out.
LEMMA ReconfigureRestartGoes ==
  ASSUME FilesInv, FilesGoOn, phase = "killed", NEW m \in Nat \ {0}, ReconfigureRestart(m)
  PROVE  SearchInv'
<1>1. disk # {} /\ OneCheckpoint /\ {f.p : f \in disk} = 0 .. Cardinality(disk) - 1
  BY DEF ReconfigureRestart, CanReconfigure
<1>2. PICK k \in {f.k : f \in disk} : StartFrom(m, k)
  BY DEF ReconfigureRestart
<1> DEFINE v == OwnFile(0).incumbent.value
<1>3. PICK read \in {UNION {r[f] : f \in disk} :
                      r \in {g \in [disk -> UNION {Readable(f) : f \in disk}] :
                               \A f \in disk : g[f] \in Readable(f)}} :
        \E to \in [read -> 0 .. m - 1] :
          /\ pool' = [p \in 0 .. m - 1 |-> Kept({e \in read : to[e] = p}, v)]
          /\ incumbent' = [p \in 0 .. m - 1 |-> [value |-> v, source |-> 0]]
  BY DEF ReconfigureRestart, OwnFile
<1>t. PICK to \in [read -> 0 .. m - 1] :
          /\ pool' = [p \in 0 .. m - 1 |-> Kept({e \in read : to[e] = p}, v)]
          /\ incumbent' = [p \in 0 .. m - 1 |-> [value |-> v, source |-> 0]]
  BY <1>3
<1>r. PICK r \in [disk -> UNION {Readable(f) : f \in disk}] :
        /\ \A f \in disk : r[f] \in Readable(f)
        /\ read = UNION {r[f] : f \in disk}
  OBVIOUS
<1>4. PICK d \in disk : d.k = k
  BY <1>2
<1>5. k \in 1 .. MaxCheckpoint /\ \A f \in disk : f.k = k /\ f \in File
  BY <1>1, <1>4 DEF FilesInv, TypeOK, OneCheckpoint
<1>6. OwnFile(0) \in disk
  <2>0. Cardinality(disk) \in Nat
    BY FS_CardinalityType DEF FilesInv, TypeOK
  <2>1. Cardinality(disk) # 0
    BY <1>1, FS_EmptySet DEF FilesInv, TypeOK
  <2>3. 0 \in 0 .. Cardinality(disk) - 1
    BY <2>0, <2>1
  <2>2. \E f \in disk : f.p = 0
    BY <1>1, <2>3
  <2> QED BY <2>2 DEF OwnFile
<1>8. Proc' = 0 .. m - 1
  BY <1>2 DEF StartFrom, Proc
<1>9. ASSUME NEW q \in Proc', NEW e, e \in pool'[q]
      PROVE  to[e] = q /\ \E f \in disk : f.k = k /\ e \in f.subs
  <2>1. e \in read /\ to[e] = q
    <3> HIDE DEF v
    <3> QED BY <1>8, <1>9, <1>t DEF Kept
  <2>2. PICK f \in disk : e \in r[f]
    BY <1>r, <2>1
  <2> QED BY <1>5, <1>r, <2>1, <2>2, ReadFacts
<1>12. v \in Nat /\ Optimum <= v
  BY <1>5, <1>6 DEF FilesGoOn, File, Incumbent
<1>13. ASSUME Complete(k)
       PROVE  /\ \A q \in Proc' : incumbent'[q].value = v
              /\ \A f \in disk : f.k = k => f.incumbent.value = v
              /\ \A f \in disk : f.k = k => \A e \in f.subs :
                   ~CanFathom(v, e.bound) => \E q \in Proc' : e \in pool'[q]
  <2>1. \A f \in disk : f.incumbent.value = v /\ f.whole
    <3>1. \A f \in disk : f.whole
      BY <1>5, <1>13 DEF Complete, CompleteOn
    <3>2. \A f, g \in disk : f.k = g.k => f.incumbent = g.incumbent
      BY DEF FilesInv, FilesAgree
    <3> DEFINE own == OwnFile(0)
    <3> HIDE DEF own
    <3>3. own \in disk /\ v = own.incumbent.value
      BY <1>6 DEF own
    <3>4. \A f \in disk : f.incumbent = own.incumbent
      BY <1>5, <3>2, <3>3, ZenonT(60)
    <3> QED BY <3>1, <3>3, <3>4
  <2> HIDE DEF v
  <2>2. \A q \in Proc' : incumbent'[q].value = v
    BY <1>8, <1>t
  <2>3. ASSUME NEW f \in disk, NEW e \in f.subs, ~CanFathom(v, e.bound)
        PROVE  \E q \in Proc' : e \in pool'[q]
    <3>1. e \in read
      <4>1. r[f] = f.subs
        BY <1>r, <2>1, ReadFacts
      <4> QED BY <1>r, <2>3, <4>1
    <3>2. to[e] \in 0 .. m - 1
      BY <3>1
    <3>3. e \in pool'[to[e]]
      BY <1>t, <2>3, <3>1, <3>2 DEF Kept
    <3> QED BY <1>8, <3>2, <3>3
  <2> QED BY <2>1, <2>2, <2>3
<1> HIDE DEF v
<1>10. \A q \in Proc' : \A e : e \in pool'[q] => \E f \in disk : f.k = k /\ e \in f.subs
  BY <1>9
<1>11. \A q, l \in Proc' : \A e : e \in pool'[q] /\ e \in pool'[l] => q = l
  <2>1. \A q \in Proc' : \A e : e \in pool'[q] => to[e] = q
    BY <1>9
  <2> SUFFICES ASSUME NEW q \in Proc', NEW l \in Proc', NEW e, e \in pool'[q], e \in pool'[l]
               PROVE  q = l
    OBVIOUS
  <2>2. to[e] = q
    BY <2>1
  <2>3. to[e] = l
    BY <2>1
  <2> QED BY <2>2, <2>3
<1>14. TakesUp(k, v)
  BY <1>10, <1>11, <1>12, <1>13 DEF TakesUp
<1> QED BY <1>2, <1>5, <1>14, RestartGoes

\* The invariant of the search holds when ramp-up has ended.
LEMMA InitGoes == Init => SearchInv
<1> SUFFICES ASSUME Init PROVE SearchInv
  OBVIOUS
<1>1. RootHeld
  <2>1. /\ n \in Nat \ {0} /\ Proc = 0 .. n - 1
    BY CheckpointAssumption DEF Init, Proc
  <2> QED BY <2>1 DEF Init, RootHeld, RampedUp
<1>2. disk = {}
  BY DEF Init
<1>3. FilesGoOn
  <2>1. \A k : Written(k) = {}
    BY <1>2 DEF Written
  <2>2. \A k : ~Complete(k)
    BY <1>2 DEF Complete, CompleteOn
  <2> QED BY <1>2, <2>1, <2>2 DEF FilesGoOn, Once, Bounded
<1> QED BY <1>1, <1>3, RootGoes DEF SearchInv, Going

\* Every step keeps it.
LEMMA NextGoes == FilesInv /\ SearchInv /\ [Next]_vars => SearchInv'
<1> SUFFICES ASSUME FilesInv, SearchInv, [Next]_vars PROVE SearchInv'
  OBVIOUS
<1>0. FilesGoOn
  BY DEF SearchInv
<1>1. ASSUME phase = "running", NEW p \in Proc, Run(p) PROVE SearchInv'
  <2>1. Going /\ ValuesAreReal
    BY <1>1 DEF SearchInv, Going
  <2>2. Going' /\ ValuesAreReal'
    BY <1>1, <2>1, RunGoes
  <2>3. FilesGoOn'
    BY <1>0, <1>1, <2>1, FilesGoOnKept
  <2> QED BY <2>2, <2>3 DEF SearchInv, Going
<1>2. CASE Kill
  <2>1. phase' = "killed" /\ disk' = disk
    BY <1>2 DEF Kill
  <2> QED BY <1>0, <2>1, FilesStay DEF SearchInv
<1>3. ASSUME NEW m \in Sizes, Restart(m) PROVE SearchInv'
  <2>1. m \in Nat \ {0} /\ phase = "killed"
    BY <1>3, CheckpointAssumption DEF Restart
  <2> QED BY <1>0, <1>3, <2>1, ParallelRestartGoes, ReconfigureRestartGoes, RampUpGoes DEF Restart
<1>4. CASE UNCHANGED vars
  <2>1. UNCHANGED <<phase, n, pool, incumbent, network, disk>>
    BY <1>4 DEF vars, search, files
  <2>2. FilesGoOn'
    BY <1>0, <2>1, FilesStay
  <2>3. Proc' = Proc /\ Deliveries' = Deliveries
    BY <2>1 DEF Proc, Deliveries
  <2>4. Batches' = Batches
    BY <2>1, <2>3 DEF Batches, SentAll, HeldAt, Held, Sent
  <2>5. /\ Once(Batches)' <=> Once(Batches)
        /\ Bounded(Batches)' <=> Bounded(Batches)
        /\ HasBest(Batches)' <=> HasBest(Batches)
    BY <2>4 DEF Once, Bounded, HasBest, Optimum
  <2>6. (Known' <=> Known) /\ (ValuesAreReal' <=> ValuesAreReal)
    BY <2>1, <2>3 DEF Known, ValuesAreReal, Optimum
  <2> QED BY <2>1, <2>2, <2>5, <2>6 DEF SearchInv
<1> QED BY <1>1, <1>2, <1>3, <1>4 DEF Next

\* What is open are the problems of the batches.
LEMMA OpenFacts ==
  \A x : x \in Open <=> \E b \in Batches : \E s \in b.left : x = <<b.at, b.of.bound, s>>
<1> TAKE x
<1>1. x \in Open <=> \/ \E p \in Proc : \E e \in pool[p] : \E s \in e.left : x = <<p, e.bound, s>>
                     \/ \E m \in Deliveries : x = <<-1, m.bound, m.sub>>
  BY DEF Open, Deliveries
<1>2. ASSUME NEW p \in Proc, NEW e \in pool[p], NEW s \in e.left, x = <<p, e.bound, s>>
      PROVE  \E b \in Batches : \E t \in b.left : x = <<b.at, b.of.bound, t>>
  <2>1. Held(p, e) \in Batches
    BY InBatches
  <2> QED BY <1>2, <2>1, HeldFacts
<1>3. ASSUME NEW m \in Deliveries, x = <<-1, m.bound, m.sub>>
      PROVE  \E b \in Batches : \E t \in b.left : x = <<b.at, b.of.bound, t>>
  <2>1. Sent(m) \in Batches
    BY InBatches
  <2>2. m.sub \in Sent(m).left
    BY SentFacts
  <2> QED BY <1>3, <2>1, <2>2, SentFacts
<1>4. ASSUME NEW b \in Batches, NEW s \in b.left, x = <<b.at, b.of.bound, s>>
      PROVE  x \in Open
  <2>1. CASE \E p \in Proc : \E e \in pool[p] : b = Held(p, e)
    <3>1. PICK p \in Proc : \E e \in pool[p] : b = Held(p, e)
      BY <2>1
    <3>2. PICK e \in pool[p] : b = Held(p, e)
      BY <3>1
    <3>3. b.at = p /\ b.of = e /\ b.left = e.left
      BY <3>2, HeldFacts
    <3>4. s \in e.left /\ x = <<p, e.bound, s>>
      BY <1>4, <3>3
    <3> QED BY <1>1, <3>4
  <2>2. CASE \E m \in Deliveries : b = Sent(m)
    <3>1. PICK m \in Deliveries : b = Sent(m)
      BY <2>2
    <3>2. b.at = -1 /\ b.of = m /\ b.left = {m.sub}
      BY <3>1, SentFacts
    <3> QED BY <1>1, <1>4, <3>2
  <2> QED BY <2>1, <2>2, InBatches
<1> QED BY <1>1, <1>2, <1>3, <1>4

-----------------------------------------------------------------------------
(***************************************************************************)
(* The theorems.                                                           *)
(***************************************************************************)
\* CheckpointInv is an invariant: the types, all that is said in Checkpoint.tla of
\* starts, barriers, files and incumbents, and that the problems in memory and those
\* in the files are all that is to be done, each once (pbCheckpoint.cpp).
THEOREM CheckpointIsRight == Spec => []CheckpointInv
<1>1. Init => CheckpointInv
  BY InitInv, InitGoes DEF CheckpointInv
<1>2. CheckpointInv /\ [Next]_vars => CheckpointInv'
  BY NextInv, NextGoes DEF CheckpointInv
<1> QED BY <1>1, <1>2, PTL DEF Spec

\* However often the program is killed and restarted from files that were all written,
\* with as many processors or others, no part of the tree is lost that could have the
\* best solution, and none is searched twice.
THEOREM SearchIsSafe == Spec => []SearchSurvives
<1>1. CheckpointInv => NothingTwice
  <2> SUFFICES ASSUME CheckpointInv, phase # "killed", NEW x \in Open, NEW y \in Open, x # y
               PROVE  Below[x[3]] \cap Below[y[3]] = {}
    BY DEF NothingTwice
  <2>1. Once(Batches)
    BY DEF CheckpointInv, SearchInv
  <2>2. PICK b \in Batches : \E s \in b.left : x = <<b.at, b.of.bound, s>>
    BY OpenFacts
  <2>3. PICK s \in b.left : x = <<b.at, b.of.bound, s>>
    BY <2>2
  <2>4. PICK c \in Batches : \E t \in c.left : y = <<c.at, c.of.bound, t>>
    BY OpenFacts
  <2>5. PICK t \in c.left : y = <<c.at, c.of.bound, t>>
    BY <2>4
  <2>6. b # c \/ s # t
    BY <2>3, <2>5
  <2>7. Below[s] \cap Below[t] = {}
    BY <2>1, <2>6 DEF Once
  <2> QED BY <2>3, <2>5, <2>7
<1>2. CheckpointInv => NothingLost
  <2> SUFFICES ASSUME CheckpointInv, phase \in {"running", "finished"}, ~Known
               PROVE  \E o \in Leaf : Bound[o] = Optimum /\ \E x \in Open : o \in Below[x[3]]
    BY DEF NothingLost, Known
  <2>1. HasBest(Batches)
    BY DEF CheckpointInv, SearchInv
  <2>2. PICK b \in Batches : \E s \in b.left : \E o \in Leaf : Bound[o] = Optimum /\ o \in Below[s]
    BY <2>1 DEF HasBest
  <2>3. PICK s \in b.left : \E o \in Leaf : Bound[o] = Optimum /\ o \in Below[s]
    BY <2>2
  <2>4. PICK o \in Leaf : Bound[o] = Optimum /\ o \in Below[s]
    BY <2>3
  <2> DEFINE x == <<b.at, b.of.bound, s>>
  <2>5. x \in Open /\ x[3] = s
    BY OpenFacts
  <2> HIDE DEF x
  <2> QED BY <2>4, <2>5
<1> QED BY <1>1, <1>2, CheckpointIsRight, PTL DEF SearchSurvives

=============================================================================
