----------------------------- MODULE Checkpoint -----------------------------
(***************************************************************************)
(* PEBBL's checkpoints, pbb/pbCheckpoint.cpp: one file for each processor  *)
(* and checkpoint, written when all processors have suspended their        *)
(* workers and no message is left, and read when a run that was killed is  *)
(* started again, with as many processors (--restart) or with more or      *)
(* fewer (--reconfigure).  All files are in one directory, as the latter   *)
(* requires.                                                               *)
(*                                                                         *)
(* Every processor is a worker.  An entry of a pool stands for a           *)
(* subproblem: left is the set of problems that still have to come out of  *)
(* it, which is itself before it is split and its children not created yet *)
(* afterwards, tokens those of them promised to a hub, bound the problem   *)
(* whose bound it has: a child that is handed over still has its parent's. *)
(* Hubs' tokens themselves are not represented, as they are not written.   *)
(* That no message is left is what the two counts of module Termination    *)
(* establish; when a checkpoint is due, and to which worker work goes, is  *)
(* any choice.                                                             *)
(***************************************************************************)
EXTENDS Integers, FiniteSets, FiniteSetsExt

CONSTANTS
  FirstSize, Sizes,   \* processors of the first run, and of those that follow
  ClusterSize,        \* processors in a cluster, the first of which is its hub
  Sub, Root,          \* the subproblems of the search tree
  Children, Bound,    \* as in WorkTransfer
  InitialGuess,       \* value of the incumbent processor 0 has from the start
  MaxCheckpoint, MaxKills    \* bounds on the runs

ASSUME CheckpointAssumption ==
  /\ FirstSize \in Nat \ {0} /\ Sizes \subseteq Nat \ {0} /\ ClusterSize \in Nat \ {0}
  /\ Root \in Sub /\ Children \in [Sub -> SUBSET Sub] /\ Bound \in [Sub -> Nat]
  /\ \A s \in Sub : \A c \in Children[s] : Bound[s] <= Bound[c]
  /\ InitialGuess \in Nat /\ MaxCheckpoint \in Nat /\ MaxKills \in Nat

\* s and everything that comes out of it.
Below == [s \in Sub |-> {t \in Sub : \A S \in SUBSET Sub :
            (s \in S /\ \A x \in S : Children[x] \subseteq S) => t \in S}]

\* Every problem but the root is made by one other, branching::makeChild.
ASSUME SearchTreeAssumption ==
  /\ \A s, t \in Sub : Children[s] \cap Children[t] # {} => s = t
  /\ \A s \in Sub : \A c \in Children[s] : s \notin Below[c]
  /\ Below[Root] = Sub

VARIABLES
  phase,       \* of the program: "running", "killed", "finished", or "incomplete" if
               \* it was restarted from part of the files of a checkpoint
  n,           \* number of processors
  stage,       \* of each in a checkpoint; "ended" if its search is over
  checkpointNumber,
  pool,        \* workerPool and serverPool of each
  incumbent,   \* incumbentValue and incumbentSource of each
  solution,    \* value of the solution object each holds
  network,
  disk,        \* the checkpoint files
  kills        \* number of times the program was killed

search == <<pool, incumbent, solution>>
files  == <<disk, kills>>
vars   == <<phase, n, stage, checkpointNumber, search, network, files>>

Proc == 0 .. n - 1
Hub  == {p \in Proc : p % ClusterSize = 0}
HubOf(p)     == p - (p % ClusterSize)
ClusterOf(h) == {p \in Proc : p \div ClusterSize = h \div ClusterSize} \ {h}

Leaf    == {s \in Sub : Children[s] = {}}
Optimum == Min({Bound[s] : s \in Leaf} \cup {InitialGuess})

Entry   == {e \in [bound : Sub, left : SUBSET Sub, tokens : SUBSET Sub] :
              e.left # {} /\ e.tokens \subseteq e.left}
Incumbent == [value : Nat, source : Nat]
Stage   == {"search", "suspended", "writing", "written", "ended"}
Message == [type : {"start", "write"}, to : Proc]
           \cup [type : {"dispatch"}, to : Proc, sub : Sub, dest : Proc]
           \cup [type : {"deliver"}, to : Proc, sub : Sub, bound : Sub]
           \cup [type : {"incumbent"}, to : Proc, incumbent : Incumbent]
File    == [k : Nat, p : Nat, size : Nat, whole : BOOLEAN, subs : SUBSET Entry,
            incumbent : Incumbent, solution : Nat]

New(s, b) == [bound |-> b, left |-> {s}, tokens |-> {}]
\* No solution object; no objective has this value.
None    == InitialGuess + 1

-----------------------------------------------------------------------------
(***************************************************************************)
(* The search, which the checkpoint interrupts.                            *)
(***************************************************************************)

\* Ramp-up has left the root with processor 0 of m.
RampedUp(m) ==
  [pool      |-> [p \in 0 .. m - 1 |-> IF p = 0 THEN {New(Root, Root)} ELSE {}],
   incumbent |-> [p \in 0 .. m - 1 |-> [value |-> InitialGuess, source |-> 0]],
   solution  |-> [p \in 0 .. m - 1 |-> IF p = 0 THEN InitialGuess ELSE None]]

Init ==
  /\ phase = "running" /\ n = FirstSize
  /\ stage            = [p \in Proc |-> "search"]
  /\ checkpointNumber = [p \in Proc |-> 0]
  /\ pool      = RampedUp(n).pool
  /\ incumbent = RampedUp(n).incumbent
  /\ solution  = RampedUp(n).solution
  /\ network = {} /\ disk = {} /\ kills = 0

CanFathom(v, s) == Bound[s] >= v

\* pruneIfNeeded
Prune(p) ==
  /\ stage[p] \in {"search", "suspended"}
  /\ \E e \in pool[p] : CanFathom(incumbent[p].value, e.bound)
  /\ pool' = [pool EXCEPT ![p] = {e \in @ : ~CanFathom(incumbent[p].value, e.bound)}]
  /\ UNCHANGED <<phase, n, stage, checkpointNumber, incumbent, solution, network, files>>

\* What is left of e when s comes out of it: nothing, if s is the last.
Without(e, s) ==
  IF e.left = {s} THEN {}
  ELSE {[e EXCEPT !.left = @ \ {s}, !.tokens = @ \ {s}]}

\* A child, or a problem itself, is evaluated and, unless it is fathomed or a
\* solution, replaced by its children.
Work(p) ==
  /\ stage[p] = "search"
  /\ \E e \in pool[p] : \E s \in e.left \ e.tokens :
       LET better == ~CanFathom(incumbent[p].value, s)
           split  == IF better /\ s \notin Leaf
                     THEN {[bound |-> s, left |-> Children[s], tokens |-> {}]} ELSE {}
           found  == better /\ s \in Leaf
           new    == [value |-> Bound[s], source |-> p]
       IN /\ pool' = [pool EXCEPT ![p] = (@ \ {e}) \cup Without(e, s) \cup split]
          /\ incumbent' = [incumbent EXCEPT ![p] = IF found THEN new ELSE @]
          /\ solution'  = [solution EXCEPT ![p] = IF found THEN Bound[s] ELSE @]
          /\ network'   = network \cup
               {[type |-> "incumbent", to |-> q, incumbent |-> new] :
                  q \in {x \in Proc \ {p} : found}}
  /\ UNCHANGED <<phase, n, stage, checkpointNumber, files>>

\* unloadBuffer: a tie goes to the lower rank.
HearIncumbent(p) ==
  /\ stage[p] \in {"search", "suspended"}
  /\ \E m \in {x \in network : x.type = "incumbent" /\ x.to = p} :
       LET better == \/ m.incumbent.value < incumbent[p].value
                     \/ /\ m.incumbent.value = incumbent[p].value
                        /\ m.incumbent.source < incumbent[p].source
       IN /\ incumbent' = [incumbent EXCEPT ![p] = IF better THEN m.incumbent ELSE @]
          /\ network' = network \ {m}
  /\ UNCHANGED <<phase, n, stage, checkpointNumber, pool, solution, files>>

\* workerRelease: a token for a problem goes to a hub.
Release(p) ==
  /\ stage[p] = "search"
  /\ \E e \in pool[p] : \E s \in e.left \ e.tokens :
       pool' = [pool EXCEPT ![p] = (@ \ {e}) \cup {[e EXCEPT !.tokens = @ \cup {s}]}]
  /\ UNCHANGED <<phase, n, stage, checkpointNumber, incumbent, solution, network, files>>

\* hubSendWorkTo, unless the hub is suspending.
Dispatch(h) ==
  /\ h \in Hub /\ stage[h] = "search"
  /\ \E p \in Proc, q \in {h} \cup ClusterOf(h) : \E e \in pool[p] : \E s \in e.tokens :
       /\ ~\E m \in network : m.type = "dispatch" /\ m.sub = s
       /\ network' = network \cup {[type |-> "dispatch", to |-> p, sub |-> s, dest |-> q]}
  /\ UNCHANGED <<phase, n, stage, checkpointNumber, search, files>>

\* The server delivers the problem, or does nothing if its owner can fathom it.
SpServe(p) ==
  /\ stage[p] \in {"search", "suspended"}
  /\ \E m \in {x \in network : x.type = "dispatch" /\ x.to = p} :
       LET of    == {e \in pool[p] : m.sub \in e.tokens
                                    /\ ~CanFathom(incumbent[p].value, e.bound)}
           local == {e \in of : m.dest = p}
       IN /\ pool' = [pool EXCEPT ![p] = (@ \ of)
                        \cup (UNION {Without(e, m.sub) : e \in of})
                        \cup {New(m.sub, e.bound) : e \in local}]
          /\ network' = (network \ {m}) \cup
               {[type |-> "deliver", to |-> m.dest, sub |-> m.sub, bound |-> e.bound] :
                  e \in of \ local}
  /\ UNCHANGED <<phase, n, stage, checkpointNumber, incumbent, solution, files>>

\* addToWorkerPool
SpReceive(p) ==
  /\ stage[p] \in {"search", "suspended"}
  /\ \E m \in {x \in network : x.type = "deliver" /\ x.to = p} :
       /\ pool' = [pool EXCEPT ![p] = @ \cup
                     {x \in {New(m.sub, m.bound)} : ~CanFathom(incumbent[p].value, x.bound)}]
       /\ network' = network \ {m}
  /\ UNCHANGED <<phase, n, stage, checkpointNumber, incumbent, solution, files>>

-----------------------------------------------------------------------------
(***************************************************************************)
(* A checkpoint is written.                                                *)
(***************************************************************************)
Alert(h, type) == {[type |-> type, to |-> p] : p \in ClusterOf(h)}

\* setupCheckpoint, by the first hub when a checkpoint is due or by another
\* processor when it is told: by its hub, or a hub by the survey's result.
SetupCheckpoint(p) ==
  /\ stage[p] = "search"
  /\ \/ p = 0 /\ checkpointNumber[p] < MaxCheckpoint
     \/ [type |-> "start", to |-> p] \in network
  /\ stage' = [stage EXCEPT ![p] = "suspended"]
  /\ checkpointNumber' = [checkpointNumber EXCEPT ![p] = @ + 1]
  /\ network' = (network \ {[type |-> "start", to |-> p]})
       \cup (IF p \in Hub THEN Alert(p, "start") ELSE {})
       \cup {[type |-> "start", to |-> h] : h \in {x \in Hub \ {0} : p = 0}}
  /\ UNCHANGED <<phase, n, search, files>>

\* What the check for termination finds: nobody works, nothing is in flight.
Quiescent ==
  /\ \A p \in Proc : stage[p] \in {"suspended", "writing", "written"}
  /\ \A m \in network : m.type = "write"

\* packGeneric: childrenLeft is packed, tokenCount is not.
Packed(e) == {[e EXCEPT !.tokens = {}]}

ThisFile(p, whole) ==
  [k |-> checkpointNumber[p], p |-> p, size |-> n, whole |-> whole,
   subs |-> UNION {Packed(e) : e \in pool[p]}, incumbent |-> incumbent[p],
   solution |-> IF incumbent[p].source = p THEN solution[p] ELSE None]

\* Mutant of OldFile: the file that was just written.
MutThisFile(p, f) == f.k = checkpointNumber[p] /\ f.p = p
\* checkpointFilename, of the checkpoint before this one
OldFile(p, f) == f.k = checkpointNumber[p] - 1 /\ f.p = p

\* Mutant of MayWrite: a hub waits for its own cluster only.
MutOwnCluster(p) ==
  /\ stage[p] = "suspended"
  /\ IF p \in Hub THEN \A q \in ClusterOf(p) : stage[q] = "suspended"
     ELSE [type |-> "write", to |-> p] \in network
\* A hub comes to its verdict, another processor is told by its hub.
MayWrite(p) ==
  /\ stage[p] = "suspended"
  /\ IF p \in Hub THEN Quiescent ELSE [type |-> "write", to |-> p] \in network

\* writeCheckpoint until the file is open, which empties an old one of the name.
OpenFile(p) ==
  /\ MayWrite(p)
  /\ stage' = [stage EXCEPT ![p] = "writing"]
  /\ network' = (network \ {[type |-> "write", to |-> p]})
       \cup (IF p \in Hub THEN Alert(p, "write") ELSE {})
  /\ disk' = {f \in disk : ~(f.k = checkpointNumber[p] /\ f.p = p)} \cup {ThisFile(p, FALSE)}
  /\ UNCHANGED <<phase, n, checkpointNumber, search, kills>>

\* Everything is written and the file closed.
CloseFile(p) ==
  /\ stage[p] = "writing"
  /\ stage' = [stage EXCEPT ![p] = "written"]
  /\ disk' = (disk \ {ThisFile(p, FALSE)}) \cup {ThisFile(p, TRUE)}
  /\ UNCHANGED <<phase, n, checkpointNumber, search, network, kills>>

\* Mutant of PastBarrier: all are at the barrier at once.
MutAllAtBarrier(p) == \A q \in Proc : stage[q] = "written"
\* Mutant of PastBarrier: no barrier.
MutNoBarrier(p) == stage[p] = "written"
\* searchComm.barrier: all have come to it, or have even gone on.
PastBarrier(p) ==
  /\ stage[p] = "written"
  /\ \A q \in Proc : \/ checkpointNumber[q] > checkpointNumber[p]
                     \/ /\ checkpointNumber[q] = checkpointNumber[p]
                        /\ stage[q] \in {"written", "search"}

\* The rest of writeCheckpoint.
EndCheckpoint(p) ==
  /\ PastBarrier(p)
  /\ disk' = {f \in disk : ~OldFile(p, f)}
  /\ stage' = [stage EXCEPT ![p] = "search"]
  /\ UNCHANGED <<phase, n, checkpointNumber, search, network, kills>>

\* The end of parallelBranching::search: each processor deletes its last file,
\* and waits for the others.  The first hub is the first to find out that the search
\* is over (clusterTerminate), then the other hubs, then the workers of each.
End(p) ==
  /\ p = 0 \/ stage[IF p \in Hub THEN 0 ELSE HubOf(p)] = "ended"
  /\ \A q \in Proc : pool[q] = {} /\ stage[q] \in {"search", "ended"}
  /\ network = {} /\ stage[p] = "search"
  /\ stage' = [stage EXCEPT ![p] = "ended"]
  /\ disk'  = {f \in disk : ~(f.k = checkpointNumber[p] /\ f.p = p)}
  /\ phase' = IF \A q \in Proc : stage'[q] = "ended" THEN "finished" ELSE phase
  /\ UNCHANGED <<n, checkpointNumber, search, network, kills>>

-----------------------------------------------------------------------------
(***************************************************************************)
(* The program is killed at any time and started again.  A start that is   *)
(* refused leaves the files as they are.                                   *)
(***************************************************************************)

\* What is in memory and on its way is gone.
Kill ==
  /\ phase = "running" /\ kills < MaxKills
  /\ phase' = "killed" /\ kills' = kills + 1
  /\ n' = 1
  /\ stage' = <<>> /\ checkpointNumber' = <<>>
  /\ pool' = <<>> /\ incumbent' = <<>> /\ solution' = <<>>
  /\ network' = {} /\ UNCHANGED disk

\* The files of checkpoint k, if all its processors have written theirs.
CompleteOn(d, k) ==
  /\ {f \in d : f.k = k} # {}
  /\ \A f \in d : f.k = k =>
       f.whole /\ \A p \in 0 .. f.size - 1 : \E g \in d : g.k = k /\ g.p = p
Complete(k) == CompleteOn(disk, k)

\* scanForCheckpointFiles: files for two checkpoints are an error.
OneCheckpoint == \A f, g \in disk : f.k = g.k

\* parallelRestart: one file for each processor, and no other.
CanRestart(m) == OneCheckpoint /\ {f.p : f \in disk} = 0 .. m - 1

\* reconfigureRestart: as many files as the highest number says.
CanReconfigure == OneCheckpoint /\ {f.p : f \in disk} = 0 .. Cardinality(disk) - 1

\* The subproblems that can be read from a file: of one that was not closed, any.
Readable(f) == IF f.whole THEN {f.subs} ELSE SUBSET f.subs

\* Entries that are fathomed are not put into the pool.
Kept(subs, v) == {e \in subs : ~CanFathom(v, e.bound)}

\* Processors 0 .. m - 1 start from checkpoint k, or from ramp-up (k = 0).
StartFrom(m, k) ==
  /\ phase' = IF k = 0 \/ Complete(k) THEN "running" ELSE "incomplete"
  /\ n' = m
  /\ stage' = [p \in 0 .. m - 1 |-> "search"]
  /\ checkpointNumber' = [p \in 0 .. m - 1 |-> k]
  /\ UNCHANGED <<network, disk, kills>>

\* parallelRestart: each processor reads the file with its number.
ParallelRestart(m) ==
  /\ disk # {} /\ CanRestart(m)
  /\ \E k \in {f.k : f \in disk} : StartFrom(m, k)
  /\ \E read \in [0 .. m - 1 -> UNION {Readable(f) : f \in disk}] :
       LET OwnFile(p) == CHOOSE f \in disk : f.p = p
       IN /\ \A p \in 0 .. m - 1 : read[p] \in Readable(OwnFile(p))
          /\ pool' = [p \in 0 .. m - 1 |-> Kept(read[p], OwnFile(p).incumbent.value)]
          /\ incumbent' = [p \in 0 .. m - 1 |-> OwnFile(p).incumbent]
          /\ solution'  = [p \in 0 .. m - 1 |-> OwnFile(p).solution]

\* Mutant of SolutionRead: the solution is expected in the reader's own file.
MutFirstFile == (CHOOSE f \in disk : f.p = 0).solution
\* The solution, from the file of the processor that was its source.
SolutionRead == Min({f.solution : f \in disk})

\* Dealt to a list of the workers that is shuffled after each turn.
Even(to, m) ==
  LET Share(p) == Cardinality({e \in DOMAIN to : to[e] = p})
  IN  \A p, q \in 0 .. m - 1 : Share(p) <= Share(q) + 1

\* reconfigureRestart: the I/O processor reads all files, keeps the solution
\* and deals out the subproblems.
ReconfigureRestart(m) ==
  /\ disk # {} /\ CanReconfigure
  /\ \E k \in {f.k : f \in disk} : StartFrom(m, k)
  /\ \E read \in {UNION {r[f] : f \in disk} :
                    r \in {g \in [disk -> UNION {Readable(f) : f \in disk}] :
                            \A f \in disk : g[f] \in Readable(f)}} :
       \E to \in [read -> 0 .. m - 1] :
         LET v == (CHOOSE f \in disk : f.p = 0).incumbent.value
         IN /\ Even(to, m)
            /\ pool' = [p \in 0 .. m - 1 |-> Kept({e \in read : to[e] = p}, v)]
            /\ incumbent' = [p \in 0 .. m - 1 |-> [value |-> v, source |-> 0]]
            /\ solution'  = [p \in 0 .. m - 1 |-> IF p = 0 THEN SolutionRead ELSE None]

\* No files: the search starts with ramp-up after all.
RampUpAgain(m) ==
  /\ disk = {} /\ StartFrom(m, 0)
  /\ pool' = RampedUp(m).pool
  /\ incumbent' = RampedUp(m).incumbent /\ solution' = RampedUp(m).solution

Run(p) ==
  \/ Prune(p) \/ Work(p) \/ HearIncumbent(p) \/ Release(p) \/ Dispatch(p)
  \/ SpServe(p) \/ SpReceive(p)
  \/ SetupCheckpoint(p) \/ OpenFile(p) \/ CloseFile(p) \/ EndCheckpoint(p) \/ End(p)

Restart(m) ==
  /\ phase = "killed"
  /\ ParallelRestart(m) \/ ReconfigureRestart(m) \/ RampUpAgain(m)

Next ==
  \/ phase = "running" /\ \E p \in Proc : Run(p)
  \/ Kill
  \/ \E m \in Sizes : Restart(m)

Spec == Init /\ [][Next]_vars

\* The message-triggered threads, and a processor in writeCheckpoint.  Nothing is
\* assumed of the search or of when checkpoints start.
Handle(p) ==
  /\ phase = "running" /\ p \in Proc
  /\ \/ HearIncumbent(p) \/ SpServe(p) \/ SpReceive(p)
     \/ OpenFile(p) \/ CloseFile(p) \/ EndCheckpoint(p)

HearStart(p) ==
  /\ phase = "running" /\ p \in Proc
  /\ [type |-> "start", to |-> p] \in network /\ SetupCheckpoint(p)

Rank == 0 .. Max(Sizes \cup {FirstSize}) - 1
FairSpec == Spec /\ \A p \in Rank : WF_vars(Handle(p)) /\ WF_vars(HearStart(p))

-----------------------------------------------------------------------------
\* The values of the variables have their types.
TypeOK ==
  /\ phase \in {"running", "killed", "finished", "incomplete"}
  /\ n \in Nat \ {0}
  /\ phase # "killed" =>
       /\ stage \in [Proc -> Stage]
       /\ checkpointNumber \in [Proc -> 0 .. MaxCheckpoint]
       /\ pool \in [Proc -> SUBSET Entry]
       /\ incumbent \in [Proc -> Incumbent]
       /\ solution \in [Proc -> Nat]
       /\ network \subseteq Message
  /\ IsFiniteSet(disk)
  /\ \A f \in disk : f \in File /\ f.k \in 1 .. MaxCheckpoint /\ f.p < f.size
  /\ kills \in 0 .. MaxKills

\* What is still to be done: the processor that has it (-1 if it is on its way
\* to it), the entry it comes out of, the problem.
Open ==
  (UNION {UNION {{<<p, e.bound, s>> : s \in e.left} : e \in pool[p]} : p \in Proc})
  \cup {<<-1, m.bound, m.sub>> : m \in {x \in network : x.type = "deliver"}}

\* A run that was killed and restarted, any number of times, from files that were
\* all written, still leads to the best solution: it is known, or a problem above
\* it is open.  Tokens are not written, problems are; hubs and workers write and go
\* on at different times; a restart with more or fewer processors deals the
\* problems out again.
NothingLost ==
  phase \in {"running", "finished"} =>
    \/ \E p \in Proc : incumbent[p].value = Optimum
    \/ \E o \in Leaf : Bound[o] = Optimum /\ \E x \in Open : o \in Below[x[3]]

\* No part of the search tree is searched twice: not even if a processor goes on
\* after it has written, and gives a problem it wrote to one that has not.
NothingTwice ==
  phase # "killed" =>
    \A x, y \in Open : x # y => Below[x[3]] \cap Below[y[3]] = {}

\* After a restart every problem is there, and there once.
SearchSurvives == NothingLost /\ NothingTwice

\* The last checkpoint p has completed.
Completed(p) ==
  checkpointNumber[p] - (IF stage[p] = "search" THEN 0 ELSE 1)

\* The old files are deleted while others still write, or have not yet deleted
\* theirs.  Still, at any time in the search the files of a checkpoint that is at
\* least as new as the last one that a processor has completed are all there.
GenerationSurvives ==
  (phase = "running" /\ \A p \in Proc : stage[p] # "ended") =>
    \A p \in Proc : Completed(p) > 0 =>
      \E f \in disk : f.k >= Completed(p) /\ Complete(f.k)

\* While no checkpoint is being written, the files of the last one can be read
\* (doc/uguide/architecture.tex:539-546).
RestartIsPossible ==
  (phase = "running" /\ \A p \in Proc : stage[p] \in {"search", "suspended"}) =>
    ((\A p \in Proc : Completed(p) > 0) => CanReconfigure)

\* When no incumbent is on its way, all agree on it and its source has the solution
\* itself, also after a restart that changed the processors' numbers.
SourceHasSolution ==
  (phase \in {"running", "finished"} /\ ~\E m \in network : m.type = "incumbent") =>
    /\ \A p, q \in Proc : incumbent[p] = incumbent[q]
    /\ \A p \in Proc : solution[incumbent[p].source] = incumbent[p].value

-----------------------------------------------------------------------------
(***************************************************************************)
(* Why the files, the incumbents and the search are right: the inductive   *)
(* invariant of module Checkpoint_proofs.                                  *)
(***************************************************************************)

\* A tie goes to the lower rank.
AsGood(i, j) == i.value < j.value \/ (i.value = j.value /\ i.source <= j.source)

\* q's incumbent is as good as i, or it is about to hear of one that is.
Knows(q, i) ==
  \/ AsGood(incumbent[q], i)
  \/ \E m \in network : m.type = "incumbent" /\ m.to = q /\ AsGood(m.incumbent, i)

\* Everybody knows everybody's incumbent, and every one that is on its way.
IncumbentsSpread ==
  \A q \in Proc :
    /\ \A p \in Proc : Knows(q, incumbent[p])
    /\ \A m \in network : m.type = "incumbent" => Knows(q, m.incumbent)

\* The source of an incumbent holds its solution, unless it knows a better one.
FromSource(i) ==
  /\ i.source \in Proc /\ i.value <= InitialGuess
  /\ incumbent[i.source].value <= i.value
  /\ solution[i.source] = i.value \/ incumbent[i.source].value < i.value

SourcesAreBest ==
  /\ \A p \in Proc : FromSource(incumbent[p])
  /\ \A m \in network : m.type = "incumbent" => FromSource(m.incumbent)

\* Who tells p that a checkpoint starts.
Superior(p) == IF p \in Hub THEN 0 ELSE HubOf(p)

\* A checkpoint behind its superior, p has a message; nobody is further behind.
StartsAreTold ==
  \A p \in Proc :
    /\ checkpointNumber[p] <= checkpointNumber[Superior(p)]
    /\ checkpointNumber[0] <= checkpointNumber[p] + 1
    /\ [type |-> "start", to |-> p] \in network
         <=> checkpointNumber[p] < checkpointNumber[Superior(p)]
    /\ stage[p] = "search" => \A q \in Proc : checkpointNumber[p] <= checkpointNumber[q]
    /\ stage[p] = "suspended" => checkpointNumber[p] > 0

\* Files are written only while all are in the same checkpoint, and p waits for the
\* others with its file written until all have written theirs.
Behind(p) ==
  \A q \in Proc : \/ checkpointNumber[q] > checkpointNumber[p]
                  \/ /\ checkpointNumber[q] = checkpointNumber[p]
                     /\ stage[q] \in {"written", "search"}

WritingIsTogether ==
  \A p \in Proc :
    /\ stage[p] = "writing" => Quiescent
    /\ stage[p] = "written" => Quiescent \/ Behind(p)
    /\ [type |-> "write", to |-> p] \in network =>
         Quiescent /\ p \notin Hub /\ stage[p] = "suspended" /\ stage[HubOf(p)] # "suspended"
    /\ (/\ p \notin Hub /\ checkpointNumber[p] = checkpointNumber[HubOf(p)]
        /\ stage[p] \in {"writing", "written"}) => stage[HubOf(p)] # "suspended"

\* When the first processor has ended there is nothing left to do but to end.
EndIsTheEnd ==
  (\E p \in Proc : stage[p] = "ended") =>
    /\ network = {} /\ stage[0] = "ended"
    /\ \A p \in Proc : pool[p] = {} /\ stage[p] \in {"search", "ended"}

\* The files of a checkpoint agree with each other.
FilesAgree ==
  \A f \in disk :
    /\ f.incumbent.source < f.size /\ f.incumbent.value <= InitialGuess
    /\ f.solution = IF f.p = f.incumbent.source THEN f.incumbent.value ELSE None
    /\ \A g \in disk : f.k = g.k => /\ f.size = g.size /\ f.incumbent = g.incumbent
                                    /\ f.p = g.p => f = g

\* No file is newer than a checkpoint that a processor is in or was in last.
NoneIsNewer == \A p \in Proc : \A f \in disk : f.k <= checkpointNumber[p]

\* Before p writes its file, those the others write have what p will write.
OthersWrite ==
  \A p \in Proc : stage[p] = "suspended" =>
    \A f \in disk : f.k = checkpointNumber[p] =>
      Quiescent /\ f.p # p /\ f.incumbent = incumbent[p] /\ f.size = n

\* While p writes its file has what is in memory, and when it is whole it still has.
OpenIsOnDisk  == \A p \in Proc : stage[p] = "writing" => ThisFile(p, FALSE) \in disk
WholeIsOnDisk == \A p \in Proc : stage[p] = "written" => ThisFile(p, TRUE) \in disk

FilesMatchMemory == NoneIsNewer /\ OthersWrite /\ OpenIsOnDisk /\ WholeIsOnDisk

\* The files of a checkpoint are complete from when all have written them until
\* those of the next one are.
LastIsComplete ==
  (\A p \in Proc : stage[p] # "ended") =>
    \A p \in Proc :
      Completed(p) > 0 => \/ Complete(Completed(p))
                          \/ stage[p] = "written" /\ Complete(checkpointNumber[p])

\* The files and the incumbents are right.
FilesInv ==
  /\ TypeOK /\ FilesAgree
  /\ phase = "killed" => network = {}
  /\ phase \in {"running", "finished"} => IncumbentsSpread /\ SourcesAreBest
  /\ phase = "running" => /\ StartsAreTold /\ WritingIsTogether /\ EndIsTheEnd
                          /\ FilesMatchMemory /\ LastIsComplete

\* The entries of the pools and the problems on their way, with where they are, and
\* those in the files of checkpoint k.
Held(p, e) == [at |-> p, of |-> e, left |-> e.left]
Sent(m)    == [at |-> -1, of |-> m, left |-> {m.sub}]
HeldAt(p, entries) == {Held(p, e) : e \in entries}
SentAll(messages)  == {Sent(m) : m \in messages}
Deliveries == {m \in network : m.type = "deliver"}
Batches    == SentAll(Deliveries) \cup UNION {HeldAt(p, pool[p]) : p \in Proc}
Written(k) == UNION {HeldAt(f.p, f.subs) : f \in {g \in disk : g.k = k}}

\* No problem is below two of those that B has, and none of these has a lower bound
\* than the one its entry stands for.
Once(B)    == \A x, y \in B : \A s \in x.left, t \in y.left :
                x # y \/ s # t => Below[s] \cap Below[t] = {}
Bounded(B) == \A x \in B : \A s \in x.left : Bound[x.of.bound] <= Bound[s]

\* A best solution is below a problem of B.
HasBest(B) == \E x \in B : \E s \in x.left : \E o \in Leaf : Bound[o] = Optimum /\ o \in Below[s]

Known == \E p \in Proc : incumbent[p].value = Optimum

\* Nobody has an incumbent that is better than the best solution.
ValuesAreReal ==
  /\ \A p \in Proc : Optimum <= incumbent[p].value
  /\ \A m \in network : m.type = "incumbent" => Optimum <= m.incumbent.value

\* What is in the files of a checkpoint, in any part of them, could go on as well.
FilesGoOn ==
  /\ \A f \in disk : Optimum <= f.incumbent.value
  /\ \A k \in 1 .. MaxCheckpoint :
       /\ Once(Written(k)) /\ Bounded(Written(k))
       /\ Complete(k) => \/ HasBest(Written(k))
                         \/ \E f \in disk : f.k = k /\ f.incumbent.value = Optimum

\* What is still to be done is all there, in memory and in the files, and once.
SearchInv ==
  /\ FilesGoOn
  /\ phase # "killed" => Once(Batches) /\ Bounded(Batches)
  /\ phase \in {"running", "finished"} => ValuesAreReal /\ (HasBest(Batches) \/ Known)

\* The inductive invariant.
CheckpointInv == FilesInv /\ SearchInv

-----------------------------------------------------------------------------
InCheckpoint(p) ==
  phase = "running" /\ p \in Proc /\ stage[p] \in {"suspended", "writing", "written"}

\* Checkpoints that were started are completed, unless the program is killed.
CheckpointCompletes == []<>(\A p \in Rank : ~InCheckpoint(p))

=============================================================================
