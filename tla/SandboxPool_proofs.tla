------------------------- MODULE SandboxPool_proofs -------------------------
(***************************************************************************)
(* Safety of SandboxPool, for every set of containers, users and jobs,     *)
(* every target and every set of faults.                                   *)
(***************************************************************************)
EXTENDS SandboxPool, FiniteSetTheorems, TLAPS

\* Where a process has a container in its hands, and where that container has
\* been started.
Holding == {"start", "restart", "acquired", "using", "cleaning", "push", "destroy"}
Starting == {"start", "restart"}

\* Started and not removed.
Alive == {"running", "stopped"}

\* What a process is doing tells what it holds and what has become of it, and
\* a job that has containers to add has at least one.
HandsMatch ==
  /\ \A u \in Users : at[u] \in UserStates
  /\ \A j \in Jobs : at[j] \in JobStates
  /\ \A j \in Jobs : at[j] \in {"create", "start", "push"} => needed[j] > 0
  /\ \A p \in Processes :
       /\ box[p] # NoBox <=> at[p] \in Holding
       /\ at[p] \in Holding \ Starting => life[box[p]] \in Alive
       /\ at[p] \in Starting => life[box[p]] = "created"

PoolIsStarted == \A c \in Pooled : life[c] \in Alive

\* A container is as Docker made it until it has been started, and one that is
\* about to be pooled is as clean as one that has been.
CleanHistory ==
  /\ \A c \in Containers : life[c] \in {"unused", "created"} =>
       c \notin strays /\ \A k \in Kinds : <<c, k>> \notin residue
  /\ \A p \in Processes : at[p] = "push" /\ <<box[p], "files">> \in residue =>
       box[p] \in strays

IInv ==
  /\ TypeOK /\ HandsMatch /\ Exclusive /\ PoolIsStarted /\ CleanHistory
  /\ CleanUnlessStrayed

-----------------------------------------------------------------------------
(* The pool as a set.                                                      *)

LEMMA PoolAppended ==
  ASSUME pool \in Seq(Containers), NEW c \in Containers, c \notin Pooled,
         pool' = Append(pool, c),
         \A k, l \in DOMAIN pool : pool[k] = pool[l] => k = l
  PROVE  /\ pool' \in Seq(Containers) /\ Pooled' = Pooled \cup {c}
         /\ \A k, l \in DOMAIN pool' : pool'[k] = pool'[l] => k = l
<1>1. DOMAIN pool = 1 .. Len(pool) /\ DOMAIN pool' = 1 .. Len(pool) + 1
  OBVIOUS
<1>2. \A k \in DOMAIN pool : pool'[k] = pool[k] /\ k \in DOMAIN pool'
  BY <1>1
<1>3. pool'[Len(pool) + 1] = c
  OBVIOUS
<1>4. Pooled' = Pooled \cup {c}
  BY <1>1, <1>2, <1>3 DEF Pooled
<1>5. \A k, l \in DOMAIN pool' : pool'[k] = pool'[l] => k = l
  BY <1>1, <1>2, <1>3 DEF Pooled
<1> QED
  BY <1>4, <1>5

LEMMA PoolPopped ==
  ASSUME pool \in Seq(Containers), pool # <<>>, pool' = Tail(pool),
         \A k, l \in DOMAIN pool : pool[k] = pool[l] => k = l
  PROVE  /\ pool' \in Seq(Containers) /\ Head(pool) \in Pooled
         /\ Pooled' = Pooled \ {Head(pool)}
         /\ \A k, l \in DOMAIN pool' : pool'[k] = pool'[l] => k = l
<1>1. /\ DOMAIN pool = 1 .. Len(pool) /\ 1 \in DOMAIN pool
      /\ DOMAIN pool' = 1 .. Len(pool) - 1 /\ Head(pool) = pool[1]
  OBVIOUS
<1>2. \A k \in DOMAIN pool' : pool'[k] = pool[k + 1] /\ k + 1 \in DOMAIN pool
  BY <1>1
<1>3. \A k \in DOMAIN pool : k # 1 => k - 1 \in DOMAIN pool' /\ pool'[k - 1] = pool[k]
  BY <1>1
<1>4. Pooled' \subseteq Pooled \ {Head(pool)}
  BY <1>1, <1>2 DEF Pooled
<1>5. Pooled \ {Head(pool)} \subseteq Pooled'
  BY <1>1, <1>3 DEF Pooled
<1>6. \A k, l \in DOMAIN pool' : pool'[k] = pool'[l] => k = l
  BY <1>1, <1>2
<1> QED
  BY <1>1, <1>4, <1>5, <1>6 DEF Pooled

LEMMA PooledContainers == TypeOK => Pooled \subseteq Containers
BY DEF TypeOK, Pooled

LEMMA PooledSame == UNCHANGED pool => Pooled' = Pooled
BY DEF Pooled

LEMMA Hands ==
  Exclusive <=>
    /\ \A p, q \in Processes : box[p] = box[q] /\ p # q => box[p] = NoBox
    /\ \A p \in Processes : box[p] # NoBox => box[p] \notin Pooled
    /\ \A k, l \in DOMAIN pool : pool[k] = pool[l] => k = l
BY DEF Exclusive, InHand

-----------------------------------------------------------------------------
(* Hands and containers.                                                   *)

\* Without the pool.
HandsTyped ==
  /\ life \in [Containers -> {"unused", "created", "running", "stopped", "removed"}]
  /\ at \in [Processes -> UserStates \cup JobStates]
  /\ box \in [Processes -> Containers \cup {NoBox}]
  /\ needed \in [Jobs -> 0 .. Target]

Shared ==
  \A p, q \in Processes : box[p] = box[q] /\ p # q => box[p] = NoBox

\* What the pool is to the steps that do not touch it: started ones.
PoolApart ==
  /\ pool \in Seq(Containers)
  /\ \A p \in Processes : box[p] # NoBox => box[p] \notin Pooled
  /\ \A k, l \in DOMAIN pool : pool[k] = pool[l] => k = l
  /\ PoolIsStarted

LEMMA HandsStep ==
  ASSUME HandsTyped, HandsMatch, Shared, PoolApart, [Next]_vars
  PROVE  HandsTyped' /\ HandsMatch' /\ Shared'
<1> DEFINE Goal == HandsTyped' /\ HandsMatch' /\ Shared'
<1> USE NoBoxAssumption, ProcessAssumption, TargetAssumption
    DEF HandsTyped, HandsMatch, Shared, Processes, UserStates, JobStates, Free,
        Holding, Starting, Alive, Move, Hold
<1>1. ASSUME NEW p \in Processes, CreateContainer(p) PROVE Goal
  BY <1>1 DEF CreateContainer, Created
<1>2. ASSUME NEW p \in Processes, StartContainer(p) PROVE Goal
  BY <1>2 DEF StartContainer, Started
<1>3. ASSUME NEW p \in Processes, DockerFails(p) PROVE Goal
  <2>1. /\ at[p] \in {"create", "start", "destroy", "recreate", "restart"}
        /\ at' = [at EXCEPT ![p] = "idle"]
        /\ box' = [box EXCEPT ![p] = NoBox]
        /\ needed' = [j \in Jobs |-> IF j = p THEN 0 ELSE needed[j]]
    BY <1>3 DEF DockerFails
  <2>2. life' = life \/ life' \in Unanswered(p)
    BY <1>3 DEF DockerFails
  <2>3. /\ life' \in [Containers -> {"unused", "created", "running", "stopped", "removed"}]
        /\ \A q \in Processes : q # p /\ box[q] # NoBox => life'[box[q]] = life[box[q]]
    BY <2>2 DEF Unanswered
  <2> QED
    BY <2>1, <2>3
<1>4. ASSUME NEW u \in Users, PopPooled(u) PROVE Goal
  <2>1. /\ Head(pool) \in Containers /\ life[Head(pool)] \in Alive
        /\ \A q \in Processes : box[q] # Head(pool)
    BY <1>4, PoolPopped DEF PopPooled, PoolApart, PoolIsStarted
  <2>2. at[u] \in {"idle", "gone"} /\ at' = [at EXCEPT ![u] = "acquired"]
    BY <1>4 DEF PopPooled
  <2>3. box' = [box EXCEPT ![u] = Head(pool)] /\ UNCHANGED <<life, needed>>
    BY <1>4 DEF PopPooled
  <2> QED
    BY <2>1, <2>2, <2>3
<1>5. ASSUME NEW u \in Users, FindEmpty(u) PROVE Goal
  BY <1>5 DEF FindEmpty
<1>6. ASSUME NEW u \in Users, NEW j \in Jobs, SpawnJob(u, j) PROVE Goal
  BY <1>6 DEF SpawnJob
<1>7. ASSUME NEW u \in Users, ToolTimesOut(u) PROVE Goal
  BY <1>7 DEF ToolTimesOut
<1>8. ASSUME NEW u \in Users, BeginRelease(u) PROVE Goal
  BY <1>8 DEF BeginRelease
<1>9. ASSUME NEW u \in Users, Clean(u) PROVE Goal
  BY <1>9 DEF Clean
<1>10. ASSUME NEW u \in Users, CleanFails(u) PROVE Goal
  BY <1>10 DEF CleanFails
<1>11. ASSUME NEW u \in Users, Destroy(u) PROVE Goal
  BY <1>11 DEF Destroy
<1>12. ASSUME NEW u \in Users, PushReleased(u) PROVE Goal
  BY <1>12 DEF PushReleased
<1>13. ASSUME NEW u \in Users, Abort(u) PROVE Goal
  <2>1. /\ at[u] \notin {"idle", "gone", "acquired"}
        /\ at' = [at EXCEPT ![u] = "gone"]
        /\ box' = [box EXCEPT ![u] = NoBox] /\ UNCHANGED needed
    BY <1>13 DEF Abort
  <2>2. life' = life \/ life' \in Unanswered(u)
    BY <1>13 DEF Abort
  <2>3. /\ life' \in [Containers -> {"unused", "created", "running", "stopped", "removed"}]
        /\ \A q \in Processes : q # u /\ box[q] # NoBox => life'[box[q]] = life[box[q]]
    BY <2>2 DEF Unanswered
  <2> QED
    BY <2>1, <2>3
<1>14. ASSUME NEW c \in Containers, StrayWrites(c) PROVE Goal
  BY <1>14 DEF StrayWrites
<1>15. ASSUME NEW j \in Jobs, CheckPool(j) PROVE Goal
  BY <1>15 DEF CheckPool
<1>16. ASSUME NEW j \in Jobs, PushWarmed(j) PROVE Goal
  BY <1>16 DEF PushWarmed
<1>18. ASSUME NEW c \in Containers, Dies(c) PROVE Goal
  BY <1>18 DEF Dies
<1>17. CASE UNCHANGED vars
  BY <1>17 DEF vars
<1> QED
  BY <1>1, <1>2, <1>3, <1>4, <1>5, <1>6, <1>7, <1>8, <1>9, <1>10, <1>11,
     <1>12, <1>13, <1>14, <1>15, <1>16, <1>17, <1>18
  DEF Next

\* A container that is pooled was in the hands of one that has started it, and
\* no longer is.
LEMMA PoolStep ==
  ASSUME HandsTyped, HandsMatch, Shared, PoolApart, [Next]_vars
  PROVE  PoolApart'
<1> USE NoBoxAssumption, ProcessAssumption
    DEF HandsTyped, HandsMatch, Shared, PoolApart, PoolIsStarted, Processes, UserStates,
        JobStates, Free, Holding, Starting, Alive, Move, Hold
<1>0. UNCHANGED pool => Pooled' = Pooled
  BY PooledSame
<1>1. ASSUME NEW p \in Processes, CreateContainer(p) PROVE PoolApart'
  <2>1. PICK c \in Containers : /\ life[c] = "unused"
                               /\ life' = [life EXCEPT ![c] = "created"]
                               /\ box' = [box EXCEPT ![p] = c]
    BY <1>1 DEF CreateContainer
  <2>2. c \notin Pooled /\ Pooled \subseteq Containers
    BY <2>1 DEF Pooled
  <2> QED
    BY <1>1, <1>0, <2>1, <2>2 DEF CreateContainer
<1>2. ASSUME NEW p \in Processes, StartContainer(p) PROVE PoolApart'
  <2>1. Pooled \subseteq Containers /\ box[p] \notin Pooled
    BY <1>2 DEF StartContainer, Pooled
  <2> QED
    BY <1>2, <1>0, <2>1 DEF StartContainer
<1>3. ASSUME NEW p \in Processes, DockerFails(p) PROVE PoolApart'
  <2>1. box' = [box EXCEPT ![p] = NoBox] /\ UNCHANGED pool
    BY <1>3 DEF DockerFails
  <2>2. \A c \in Pooled : life'[c] = life[c]
    <3>1. life' = life \/ life' \in Unanswered(p)
      BY <1>3 DEF DockerFails
    <3>2. Pooled \subseteq Containers
      BY DEF Pooled
    <3> QED
      BY <3>1, <3>2 DEF Unanswered
  <2> QED
    BY <1>0, <2>1, <2>2
<1>4. ASSUME NEW u \in Users, PopPooled(u) PROVE PoolApart'
  <2>1. /\ pool' \in Seq(Containers) /\ Pooled' = Pooled \ {Head(pool)}
        /\ \A k, l \in DOMAIN pool' : pool'[k] = pool'[l] => k = l
    BY <1>4, PoolPopped DEF PopPooled
  <2>2. box' = [box EXCEPT ![u] = Head(pool)] /\ UNCHANGED life
    BY <1>4 DEF PopPooled
  <2> QED
    BY <2>1, <2>2
<1>5. ASSUME NEW u \in Users, FindEmpty(u) PROVE PoolApart'
  BY <1>5, <1>0 DEF FindEmpty
<1>6. ASSUME NEW u \in Users, NEW j \in Jobs, SpawnJob(u, j) PROVE PoolApart'
  BY <1>6, <1>0 DEF SpawnJob
<1>7. ASSUME NEW u \in Users, ToolTimesOut(u) PROVE PoolApart'
  BY <1>7, <1>0 DEF ToolTimesOut
<1>8. ASSUME NEW u \in Users, BeginRelease(u) PROVE PoolApart'
  BY <1>8, <1>0 DEF BeginRelease
<1>9. ASSUME NEW u \in Users, Clean(u) PROVE PoolApart'
  BY <1>9, <1>0 DEF Clean
<1>10. ASSUME NEW u \in Users, CleanFails(u) PROVE PoolApart'
  BY <1>10, <1>0 DEF CleanFails
<1>11. ASSUME NEW u \in Users, Destroy(u) PROVE PoolApart'
  <2>1. Pooled \subseteq Containers /\ box[u] \notin Pooled
    BY <1>11 DEF Destroy, Pooled
  <2> QED
    BY <1>11, <1>0, <2>1 DEF Destroy
<1>12. ASSUME NEW u \in Users, PushReleased(u) PROVE PoolApart'
  <2>1. box[u] \in Containers /\ box[u] \notin Pooled /\ life[box[u]] \in Alive
    BY <1>12 DEF PushReleased
  <2>2. /\ pool' = Append(pool, box[u]) /\ box' = [box EXCEPT ![u] = NoBox]
        /\ UNCHANGED life
    BY <1>12 DEF PushReleased
  <2>3. /\ pool' \in Seq(Containers) /\ Pooled' = Pooled \cup {box[u]}
        /\ \A k, l \in DOMAIN pool' : pool'[k] = pool'[l] => k = l
    BY <2>1, <2>2, PoolAppended
  <2> QED
    BY <2>1, <2>2, <2>3
<1>13. ASSUME NEW u \in Users, Abort(u) PROVE PoolApart'
  <2>1. box' = [box EXCEPT ![u] = NoBox] /\ UNCHANGED pool
    BY <1>13 DEF Abort
  <2>2. \A c \in Pooled : life'[c] = life[c]
    <3>1. life' = life \/ life' \in Unanswered(u)
      BY <1>13 DEF Abort
    <3>2. Pooled \subseteq Containers
      BY DEF Pooled
    <3> QED
      BY <3>1, <3>2 DEF Unanswered
  <2> QED
    BY <1>0, <2>1, <2>2
<1>14. ASSUME NEW c \in Containers, StrayWrites(c) PROVE PoolApart'
  BY <1>14, <1>0 DEF StrayWrites
<1>15. ASSUME NEW j \in Jobs, CheckPool(j) PROVE PoolApart'
  BY <1>15, <1>0 DEF CheckPool
<1>16. ASSUME NEW j \in Jobs, PushWarmed(j) PROVE PoolApart'
  <2>1. box[j] \in Containers /\ box[j] \notin Pooled /\ life[box[j]] \in Alive
    BY <1>16 DEF PushWarmed
  <2>2. /\ pool' = Append(pool, box[j]) /\ box' = [box EXCEPT ![j] = NoBox]
        /\ UNCHANGED life
    BY <1>16 DEF PushWarmed
  <2>3. /\ pool' \in Seq(Containers) /\ Pooled' = Pooled \cup {box[j]}
        /\ \A k, l \in DOMAIN pool' : pool'[k] = pool'[l] => k = l
    BY <2>1, <2>2, PoolAppended
  <2> QED
    BY <2>1, <2>2, <2>3
<1>18. ASSUME NEW c \in Containers, Dies(c) PROVE PoolApart'
  <2>1. Pooled \subseteq Containers /\ UNCHANGED <<pool, box>>
    BY <1>18 DEF Dies, Pooled
  <2>2. life' = [life EXCEPT ![c] = "stopped"]
    BY <1>18 DEF Dies
  <2> QED
    BY <1>0, <2>1, <2>2
<1>17. CASE UNCHANGED vars
  BY <1>17, <1>0 DEF vars
<1> QED
  BY <1>1, <1>2, <1>3, <1>4, <1>5, <1>6, <1>7, <1>8, <1>9, <1>10, <1>11,
     <1>12, <1>13, <1>14, <1>15, <1>16, <1>17, <1>18
  DEF Next

-----------------------------------------------------------------------------
(* What is left in the containers.                                         *)

FilesTyped == residue \subseteq Containers \X Kinds /\ strays \subseteq Containers

LEMMA CleanStep ==
  ASSUME HandsTyped, HandsMatch, Shared, PoolApart, FilesTyped, CleanHistory,
         CleanUnlessStrayed, [Next]_vars
  PROVE  FilesTyped' /\ CleanHistory' /\ CleanUnlessStrayed'
<1> DEFINE Goal == FilesTyped' /\ CleanHistory' /\ CleanUnlessStrayed'
<1> USE NoBoxAssumption, ProcessAssumption
    DEF HandsTyped, HandsMatch, Shared, PoolApart, PoolIsStarted, FilesTyped,
        CleanHistory, CleanUnlessStrayed, Kinds, Processes, UserStates, JobStates,
        Free, Holding, Starting, Alive, Move, Hold
<1>0. UNCHANGED pool => Pooled' = Pooled
  BY PooledSame
<1>00. Pooled \subseteq Containers
  BY DEF Pooled
<1>1. ASSUME NEW p \in Processes, CreateContainer(p) PROVE Goal
  BY <1>1, <1>0, <1>00 DEF CreateContainer, Created
<1>2. ASSUME NEW p \in Processes, StartContainer(p) PROVE Goal
  <2>1. /\ at[p] \in Starting /\ life[box[p]] = "created" /\ box[p] \in Containers
        /\ at' = [at EXCEPT ![p] = Started(p)]
    BY <1>2 DEF StartContainer
  <2>2. life' = [life EXCEPT ![box[p]] = "running"] /\ UNCHANGED <<pool, box, residue, strays>>
    BY <1>2 DEF StartContainer
  <2>3. \A k \in Kinds : <<box[p], k>> \notin residue
    BY <2>1
  <2>4. CleanHistory'
    BY <2>1, <2>2, <2>3
  <2> QED
    BY <1>0, <2>2, <2>4
<1>3. ASSUME NEW p \in Processes, DockerFails(p) PROVE Goal
  <2>1. /\ at' = [at EXCEPT ![p] = "idle"] /\ box' = [box EXCEPT ![p] = NoBox]
        /\ UNCHANGED <<pool, residue, strays>>
    BY <1>3 DEF DockerFails
  <2>2. \A c \in Containers : life'[c] \in {"unused", "created"} =>
          life[c] \in {"unused", "created"}
    <3>1. life' = life \/ life' \in Unanswered(p)
      BY <1>3 DEF DockerFails
    <3> QED
      BY <3>1 DEF Unanswered
  <2> QED
    BY <1>0, <2>1, <2>2
<1>4. ASSUME NEW u \in Users, PopPooled(u) PROVE Goal
  <2>1. Pooled' = Pooled \ {Head(pool)}
    BY <1>4, PoolPopped DEF PopPooled
  <2>2. /\ at' = [at EXCEPT ![u] = "acquired"] /\ box' = [box EXCEPT ![u] = Head(pool)]
        /\ UNCHANGED <<life, residue, strays>>
    BY <1>4 DEF PopPooled
  <2> QED
    BY <2>1, <2>2
<1>5. ASSUME NEW u \in Users, FindEmpty(u) PROVE Goal
  BY <1>5, <1>0, <1>00 DEF FindEmpty
<1>6. ASSUME NEW u \in Users, NEW j \in Jobs, SpawnJob(u, j) PROVE Goal
  BY <1>6, <1>0, <1>00 DEF SpawnJob
<1>7. ASSUME NEW u \in Users, ToolTimesOut(u) PROVE Goal
  BY <1>7, <1>0, <1>00 DEF ToolTimesOut
<1>8. ASSUME NEW u \in Users, BeginRelease(u) PROVE Goal
  BY <1>8, <1>0, <1>00 DEF BeginRelease
<1>9. ASSUME NEW u \in Users, Clean(u) PROVE Goal
  BY <1>9, <1>0, <1>00 DEF Clean
<1>10. ASSUME NEW u \in Users, CleanFails(u) PROVE Goal
  BY <1>10, <1>0, <1>00 DEF CleanFails
<1>11. ASSUME NEW u \in Users, Destroy(u) PROVE Goal
  BY <1>11, <1>0, <1>00 DEF Destroy
<1>12. ASSUME NEW u \in Users, PushReleased(u) PROVE Goal
  <2>1. box[u] \in Containers /\ box[u] \notin Pooled /\ at[u] = "push"
    BY <1>12 DEF PushReleased
  <2>2. /\ pool' = Append(pool, box[u]) /\ box' = [box EXCEPT ![u] = NoBox]
        /\ at' = [at EXCEPT ![u] = at'[u]] /\ at'[u] # "push"
        /\ UNCHANGED <<life, residue, strays>>
    BY <1>12 DEF PushReleased
  <2>3. Pooled' = Pooled \cup {box[u]}
    BY <2>1, <2>2, PoolAppended
  <2> QED
    BY <2>1, <2>2, <2>3
<1>13. ASSUME NEW u \in Users, Abort(u) PROVE Goal
  <2>1. /\ at' = [at EXCEPT ![u] = "gone"] /\ box' = [box EXCEPT ![u] = NoBox]
        /\ UNCHANGED <<pool, residue, strays>>
    BY <1>13 DEF Abort
  <2>2. \A c \in Containers : life'[c] \in {"unused", "created"} =>
          life[c] \in {"unused", "created"}
    <3>1. life' = life \/ life' \in Unanswered(u)
      BY <1>13 DEF Abort
    <3> QED
      BY <3>1 DEF Unanswered
  <2> QED
    BY <1>0, <2>1, <2>2
<1>14. ASSUME NEW c \in Containers, StrayWrites(c) PROVE Goal
  BY <1>14, <1>0, <1>00 DEF StrayWrites
<1>15. ASSUME NEW j \in Jobs, CheckPool(j) PROVE Goal
  BY <1>15, <1>0, <1>00 DEF CheckPool
<1>16. ASSUME NEW j \in Jobs, PushWarmed(j) PROVE Goal
  <2>1. box[j] \in Containers /\ box[j] \notin Pooled /\ at[j] = "push"
    BY <1>16 DEF PushWarmed
  <2>2. /\ pool' = Append(pool, box[j]) /\ box' = [box EXCEPT ![j] = NoBox]
        /\ at' = [at EXCEPT ![j] = at'[j]] /\ at'[j] # "push"
        /\ UNCHANGED <<life, residue, strays>>
    BY <1>16 DEF PushWarmed
  <2>3. Pooled' = Pooled \cup {box[j]}
    BY <2>1, <2>2, PoolAppended
  <2> QED
    BY <2>1, <2>2, <2>3
<1>18. ASSUME NEW c \in Containers, Dies(c) PROVE Goal
  BY <1>18, <1>0, <1>00 DEF Dies
<1>17. CASE UNCHANGED vars
  BY <1>17, <1>0 DEF vars
<1> QED
  BY <1>1, <1>2, <1>3, <1>4, <1>5, <1>6, <1>7, <1>8, <1>9, <1>10, <1>11,
     <1>12, <1>13, <1>14, <1>15, <1>16, <1>17, <1>18
  DEF Next

LEMMA Parts ==
  IInv <=> /\ HandsTyped /\ HandsMatch /\ Shared /\ PoolApart
           /\ FilesTyped /\ CleanHistory /\ CleanUnlessStrayed
BY Hands DEF IInv, TypeOK, HandsTyped, Shared, PoolApart, FilesTyped

LEMMA InitHolds == Init => IInv
<1> SUFFICES ASSUME Init PROVE IInv
  OBVIOUS
<1>1. Pooled = {}
  BY DEF Init, Pooled
<1>2. HandsTyped /\ HandsMatch /\ Shared
  BY TargetAssumption DEF Init, HandsTyped, HandsMatch, Shared, UserStates, JobStates,
     Free, Processes, Holding, Starting, Alive
<1>3. PoolApart
  BY <1>1 DEF Init, PoolApart, PoolIsStarted
<1>4. FilesTyped /\ CleanHistory /\ CleanUnlessStrayed
  BY <1>1 DEF Init, FilesTyped, CleanHistory, CleanUnlessStrayed
<1> QED
  BY <1>2, <1>3, <1>4, Parts

\* The inductive invariant.
THEOREM InvariantHolds == Spec => []IInv
<1>1. IInv /\ [Next]_vars => IInv'
  <2> SUFFICES ASSUME IInv, [Next]_vars PROVE IInv'
    OBVIOUS
  <2>1. /\ HandsTyped /\ HandsMatch /\ Shared /\ PoolApart
        /\ FilesTyped /\ CleanHistory /\ CleanUnlessStrayed
    BY Parts
  <2>2. (/\ HandsTyped /\ HandsMatch /\ Shared /\ PoolApart
         /\ FilesTyped /\ CleanHistory /\ CleanUnlessStrayed)'
    BY <2>1, HandsStep, PoolStep, CleanStep
  <2>3. (IInv <=> /\ HandsTyped /\ HandsMatch /\ Shared /\ PoolApart
                  /\ FilesTyped /\ CleanHistory /\ CleanUnlessStrayed)'
    BY Parts, PTL
  <2> QED
    BY <2>2, <2>3
<1> QED
  BY <1>1, InitHolds, PTL DEF Spec

\* Type correctness.
THEOREM TypeCorrect == Spec => []TypeOK
<1>1. IInv => TypeOK
  BY DEF IInv
<1> QED
  BY <1>1, InvariantHolds, PTL

\* No container is in two hands, in a hand and in the pool, or in the pool twice.
THEOREM NoSharing == Spec => []Exclusive
<1>1. IInv => Exclusive
  BY DEF IInv
<1> QED
  BY <1>1, InvariantHolds, PTL

\* The pool offers, and steps use, only containers that were started and were
\* not removed.
THEOREM ServedStarted == Spec => []OnlyStartedServed
<1>1. IInv => OnlyStartedServed
  BY DEF IInv, HandsMatch, PoolIsStarted, OnlyStartedServed, Processes, Holding,
     Starting, Alive
<1> QED
  BY <1>1, InvariantHolds, PTL

\* What the cleaning removes is not in a pooled container, unless a tool call
\* was left running there.
THEOREM PooledIsCleaned == Spec => []CleanUnlessStrayed
<1>1. IInv => CleanUnlessStrayed
  BY DEF IInv
<1> QED
  BY <1>1, InvariantHolds, PTL

-----------------------------------------------------------------------------
(* The books.                                                              *)

\* One that lets go of what it holds, with a request of its own unanswered,
\* makes the backend lose one container at most.
LEMMA LosesOne ==
  ASSUME IInv, NEW p \in Processes, box' = [box EXCEPT ![p] = NoBox], UNCHANGED pool,
         life' = life \/ life' \in Unanswered(p)
  PROVE  \/ Lost' \subseteq Lost
         \/ \E c \in Containers : Lost' \subseteq Lost \cup {c}
<1>0. HandsTyped /\ HandsMatch
  BY Parts
<1>1. Pooled' = Pooled
  BY PooledSame
<1>2. InHand \subseteq InHand' \cup {box[p]}
  BY <1>0 DEF InHand, HandsTyped
<1>3. CASE at[p] \in {"create", "recreate"}
  <2>1. box[p] = NoBox
    BY <1>3, <1>0 DEF HandsMatch, Holding
  <2>2. InHand \subseteq InHand'
    BY <2>1, <1>2 DEF InHand
  <2>3. \/ life' = life
        \/ \E c \in Containers : life' = [life EXCEPT ![c] = "created"]
    BY <1>3 DEF Unanswered
  <2>4. \/ Existing' \subseteq Existing
        \/ \E c \in Containers : Existing' \subseteq Existing \cup {c}
    BY <2>3, <1>0 DEF Existing, HandsTyped
  <2> QED
    BY <2>2, <2>4, <1>1 DEF Lost
<1>4. CASE at[p] \notin {"create", "recreate"}
  <2>1. life' = life \/ (box[p] # NoBox /\ \E v : life' = [life EXCEPT ![box[p]] = v])
    BY <1>4, <1>0 DEF Unanswered, HandsMatch, Holding
  <2>2. Existing' \subseteq Existing \cup {box[p]}
    BY <2>1, <1>0 DEF Existing, HandsTyped
  <2>3. Lost' \subseteq Lost \cup {box[p]}
    BY <2>2, <1>1, <1>2 DEF Lost
  <2>4. box[p] \in Containers \/ box[p] \notin Lost'
    BY <1>0, NoBoxAssumption DEF HandsTyped, Lost, Existing
  <2> QED
    BY <2>3, <2>4
<1> QED
  BY <1>3, <1>4

LEMMA LostStep ==
  ASSUME IInv, [Next]_vars
  PROVE  \/ Lost' \subseteq Lost
         \/ /\ \/ \E p \in Processes : DockerFails(p)
               \/ \E u \in Users : Abort(u)
            /\ \E c \in Containers : Lost' \subseteq Lost \cup {c}
<1> DEFINE Goal == \/ Lost' \subseteq Lost
                   \/ /\ \/ \E p \in Processes : DockerFails(p)
                         \/ \E u \in Users : Abort(u)
                      /\ \E c \in Containers : Lost' \subseteq Lost \cup {c}
<1>0. /\ HandsTyped /\ HandsMatch /\ Shared /\ PoolApart
  BY Parts
<1>01. UNCHANGED pool => Pooled' = Pooled
  BY PooledSame
<1>02. UNCHANGED box => InHand' = InHand
  BY DEF InHand
<1> USE <1>0, NoBoxAssumption, ProcessAssumption
    DEF HandsTyped, HandsMatch, Shared, PoolApart, PoolIsStarted, Processes, UserStates,
        JobStates, Free, Holding, Starting, Alive, Move, Hold
<1>1. ASSUME NEW p \in Processes, CreateContainer(p) PROVE Goal
  <2>1. PICK c \in Containers : /\ life' = [life EXCEPT ![c] = "created"]
                               /\ box' = [box EXCEPT ![p] = c]
    BY <1>1 DEF CreateContainer
  <2>2. box[p] = NoBox /\ UNCHANGED pool
    BY <1>1 DEF CreateContainer, Created
  <2>3. InHand' = InHand \cup {c}
    BY <2>1, <2>2 DEF InHand
  <2>4. Existing' \subseteq Existing \cup {c}
    BY <2>1 DEF Existing
  <2> QED
    BY <1>01, <2>2, <2>3, <2>4 DEF Lost
<1>2. ASSUME NEW p \in Processes, StartContainer(p) PROVE Goal
  <2>1. box[p] \in InHand /\ life' = [life EXCEPT ![box[p]] = "running"]
    BY <1>2 DEF StartContainer, InHand
  <2>2. UNCHANGED <<pool, box>>
    BY <1>2 DEF StartContainer
  <2>3. Existing' \subseteq Existing \cup {box[p]}
    BY <2>1 DEF Existing
  <2> QED
    BY <1>01, <1>02, <2>1, <2>2, <2>3 DEF Lost
<1>3. ASSUME NEW p \in Processes, DockerFails(p) PROVE Goal
  <2>1. /\ box' = [box EXCEPT ![p] = NoBox] /\ UNCHANGED pool
        /\ life' = life \/ life' \in Unanswered(p)
    BY <1>3 DEF DockerFails
  <2> QED
    BY <1>3, <2>1, LosesOne
<1>4. ASSUME NEW u \in Users, PopPooled(u) PROVE Goal
  <2>1. Pooled' = Pooled \ {Head(pool)} /\ Head(pool) \in Containers
    BY <1>4, PoolPopped DEF PopPooled
  <2>2. box[u] = NoBox /\ box' = [box EXCEPT ![u] = Head(pool)] /\ UNCHANGED life
    BY <1>4 DEF PopPooled
  <2>3. InHand' = InHand \cup {Head(pool)}
    BY <2>1, <2>2 DEF InHand
  <2> QED
    BY <2>1, <2>2, <2>3 DEF Lost, Existing
<1>5. ASSUME NEW u \in Users, FindEmpty(u) PROVE Goal
  BY <1>5, <1>01, <1>02 DEF FindEmpty, Lost, Existing
<1>6. ASSUME NEW u \in Users, NEW j \in Jobs, SpawnJob(u, j) PROVE Goal
  BY <1>6, <1>01, <1>02 DEF SpawnJob, Lost, Existing
<1>7. ASSUME NEW u \in Users, ToolTimesOut(u) PROVE Goal
  BY <1>7, <1>01, <1>02 DEF ToolTimesOut, Lost, Existing
<1>8. ASSUME NEW u \in Users, BeginRelease(u) PROVE Goal
  BY <1>8, <1>01, <1>02 DEF BeginRelease, Lost, Existing
<1>9. ASSUME NEW u \in Users, Clean(u) PROVE Goal
  BY <1>9, <1>01, <1>02 DEF Clean, Lost, Existing
<1>10. ASSUME NEW u \in Users, CleanFails(u) PROVE Goal
  BY <1>10, <1>01, <1>02 DEF CleanFails, Lost, Existing
<1>11. ASSUME NEW u \in Users, Destroy(u) PROVE Goal
  <2>1. box[u] \in Containers /\ box' = [box EXCEPT ![u] = NoBox]
        /\ life' = [life EXCEPT ![box[u]] = "removed"] /\ UNCHANGED pool
    BY <1>11 DEF Destroy
  <2>2. InHand \subseteq InHand' \cup {box[u]}
    BY <2>1 DEF InHand
  <2>3. Existing' \subseteq Existing /\ box[u] \notin Existing'
    BY <2>1 DEF Existing
  <2> QED
    BY <1>01, <2>1, <2>2, <2>3 DEF Lost
<1>12. ASSUME NEW u \in Users, PushReleased(u) PROVE Goal
  <2>1. box[u] \in Containers /\ box[u] \notin Pooled
    BY <1>12 DEF PushReleased
  <2>2. /\ pool' = Append(pool, box[u]) /\ box' = [box EXCEPT ![u] = NoBox]
        /\ UNCHANGED life
    BY <1>12 DEF PushReleased
  <2>3. Pooled' = Pooled \cup {box[u]}
    BY <2>1, <2>2, PoolAppended
  <2>4. InHand \subseteq InHand' \cup {box[u]}
    BY <2>2 DEF InHand
  <2> QED
    BY <2>2, <2>3, <2>4 DEF Lost, Existing
<1>13. ASSUME NEW u \in Users, Abort(u) PROVE Goal
  <2>1. /\ box' = [box EXCEPT ![u] = NoBox] /\ UNCHANGED pool
        /\ life' = life \/ life' \in Unanswered(u)
    BY <1>13 DEF Abort
  <2> QED
    BY <1>13, <2>1, LosesOne
<1>14. ASSUME NEW c \in Containers, StrayWrites(c) PROVE Goal
  BY <1>14, <1>01, <1>02 DEF StrayWrites, Lost, Existing
<1>15. ASSUME NEW j \in Jobs, CheckPool(j) PROVE Goal
  BY <1>15, <1>01, <1>02 DEF CheckPool, Lost, Existing
<1>16. ASSUME NEW j \in Jobs, PushWarmed(j) PROVE Goal
  <2>1. box[j] \in Containers /\ box[j] \notin Pooled
    BY <1>16 DEF PushWarmed
  <2>2. /\ pool' = Append(pool, box[j]) /\ box' = [box EXCEPT ![j] = NoBox]
        /\ UNCHANGED life
    BY <1>16 DEF PushWarmed
  <2>3. Pooled' = Pooled \cup {box[j]}
    BY <2>1, <2>2, PoolAppended
  <2>4. InHand \subseteq InHand' \cup {box[j]}
    BY <2>2 DEF InHand
  <2> QED
    BY <2>2, <2>3, <2>4 DEF Lost, Existing
<1>18. ASSUME NEW c \in Containers, Dies(c) PROVE Goal
  <2>1. life[c] = "running" /\ life' = [life EXCEPT ![c] = "stopped"]
    BY <1>18 DEF Dies
  <2>2. Pooled' = Pooled /\ InHand' = InHand
    BY <1>18, <1>01, <1>02 DEF Dies
  <2>3. Existing' = Existing
    BY <2>1 DEF Existing
  <2> QED
    BY <2>2, <2>3 DEF Lost
<1>17. CASE UNCHANGED vars
  BY <1>17, <1>01, <1>02 DEF vars, Lost, Existing
<1> QED
  BY <1>1, <1>2, <1>3, <1>4, <1>5, <1>6, <1>7, <1>8, <1>9, <1>10, <1>11,
     <1>12, <1>13, <1>14, <1>15, <1>16, <1>17, <1>18
  DEF Next

\* A container leaves the backend's books only where Docker refused something
\* or a step's future was dropped, one at a time.
THEOREM LostByFailure == Spec => LostOnlyByFailure
<1>1. IInv /\ [Next]_vars =>
        [\/ Lost' \subseteq Lost
         \/ /\ \/ \E p \in Processes : DockerFails(p)
               \/ \E u \in Users : Abort(u)
            /\ \E c \in Containers : Lost' \subseteq Lost \cup {c}]_vars
  BY LostStep
<1> QED
  BY <1>1, InvariantHolds, PTL DEF Spec, LostOnlyByFailure

-----------------------------------------------------------------------------
(* The population.                                                         *)

\* What the books have to add up to, whatever Docker has.
BooksBounded ==
  Len(pool) + Cardinality(Owed) + Cardinality(Busy)
    <= Cardinality(Users) + Target * Cardinality(Jobs)

LEMMA Sizes ==
  ASSUME HandsTyped
  PROVE  /\ Cardinality(Users) \in Nat /\ Cardinality(Jobs) \in Nat
         /\ Target * Cardinality(Jobs) \in Nat
         /\ IsFiniteSet(Busy) /\ Cardinality(Busy) \in Nat
         /\ Cardinality(Busy) <= Cardinality(Users)
         /\ IsFiniteSet(Owed) /\ Cardinality(Owed) \in Nat
         /\ Cardinality(Owed) <= Target * Cardinality(Jobs)
<1>1. Cardinality(Users) \in Nat /\ Cardinality(Jobs) \in Nat
  BY FiniteAssumption, FS_CardinalityType
<1>2. IsFiniteSet(1 .. Target) /\ Cardinality(1 .. Target) = Target
  BY FS_Interval, TargetAssumption
<1>3. /\ IsFiniteSet(Jobs \X (1 .. Target))
      /\ Cardinality(Jobs \X (1 .. Target)) = Cardinality(Jobs) * Target
  BY <1>2, FS_Product, FiniteAssumption
<1>4. IsFiniteSet(Busy) /\ Cardinality(Busy) <= Cardinality(Users)
  BY FS_Subset, FiniteAssumption DEF Busy
<1>5. /\ IsFiniteSet(Owed)
      /\ Cardinality(Owed) <= Cardinality(Jobs \X (1 .. Target))
  BY <1>3, FS_Subset DEF Owed
<1>6. Cardinality(Busy) \in Nat /\ Cardinality(Owed) \in Nat
  BY <1>4, <1>5, FS_CardinalityType
<1>7. /\ Cardinality(Jobs) * Target = Target * Cardinality(Jobs)
      /\ Target * Cardinality(Jobs) \in Nat
  BY <1>1, TargetAssumption
<1> QED
  BY <1>1, <1>3, <1>4, <1>5, <1>6, <1>7

\* A union is no larger than its parts together.
LEMMA UnionBound ==
  ASSUME NEW S, NEW T, IsFiniteSet(S), IsFiniteSet(T)
  PROVE  /\ IsFiniteSet(S \cup T) /\ Cardinality(S \cup T) \in Nat
         /\ Cardinality(S \cup T) <= Cardinality(S) + Cardinality(T)
<1>1. /\ IsFiniteSet(S \cup T)
      /\ Cardinality(S \cup T)
           = Cardinality(S) + Cardinality(T) - Cardinality(S \cap T)
  BY FS_Union
<1>2. IsFiniteSet(S \cap T)
  BY FS_Subset
<1>3. Cardinality(S) \in Nat /\ Cardinality(T) \in Nat /\ Cardinality(S \cap T) \in Nat
  BY <1>2, FS_CardinalityType
<1>4. Cardinality(S \cup T) \in Nat
  BY <1>1, FS_CardinalityType
<1> QED
  BY <1>1, <1>3, <1>4

\* A step that adds to none of the three.
LEMMA NoneAdded ==
  ASSUME HandsTyped, HandsTyped', BooksBounded, Len(pool) \in Nat,
         UNCHANGED pool, Owed' \subseteq Owed, Busy' \subseteq Busy
  PROVE  BooksBounded'
<1>1. Cardinality(Owed') <= Cardinality(Owed) /\ Cardinality(Busy') <= Cardinality(Busy)
  BY Sizes, FS_Subset
<1>2. Cardinality(Owed') \in Nat /\ Cardinality(Busy') \in Nat
  BY Sizes, FS_Subset, FS_CardinalityType
<1> QED
  BY <1>1, <1>2, Sizes DEF BooksBounded

\* A job whose check finds a short pool adds what is missing at that moment;
\* the other jobs add a target each at most, whatever they found.
LEMMA CheckedAdds ==
  ASSUME HandsTyped, HandsTyped', NEW j \in Jobs, CheckPool(j),
         pool \in Seq(Containers), Len(pool) < Target
  PROVE  Len(pool) + Cardinality(Owed') <= Target * Cardinality(Jobs)
<1> DEFINE others == (Jobs \ {j}) \X (1 .. Target)
           own == {j} \X (1 .. Target - Len(pool))
<1>1. Len(pool) \in Nat /\ Target \in Nat /\ Target - Len(pool) \in Nat
  BY TargetAssumption
<1>2. Owed' \subseteq others \cup own
  <2>1. needed' = [needed EXCEPT ![j] = Target - Len(pool)]
    BY DEF CheckPool
  <2>2. needed \in [Jobs -> 0 .. Target]
    BY DEF HandsTyped
  <2>3. ASSUME NEW o \in Owed' PROVE o \in others \cup own
    <3>1. o \in Jobs \X (1 .. Target) /\ o[2] <= needed'[o[1]]
      BY <2>3 DEF Owed
    <3>2. CASE o[1] = j
      <4>1. o[2] <= Target - Len(pool)
        BY <3>1, <3>2, <2>1, <2>2
      <4> QED
        BY <4>1, <3>1, <3>2, <1>1
    <3>3. CASE o[1] # j
      BY <3>3, <3>1
    <3> QED
      BY <3>2, <3>3
  <2> QED
    BY <2>3
<1>3. /\ IsFiniteSet(Jobs \ {j}) /\ Cardinality(Jobs \ {j}) = Cardinality(Jobs) - 1
  BY FS_RemoveElement, FiniteAssumption
<1>4. /\ IsFiniteSet(1 .. Target) /\ Cardinality(1 .. Target) = Target
      /\ IsFiniteSet(1 .. Target - Len(pool))
      /\ Cardinality(1 .. Target - Len(pool)) = Target - Len(pool)
  BY <1>1, FS_Interval
<1>5. IsFiniteSet({j}) /\ Cardinality({j}) = 1
  BY FS_Singleton
<1>6. IsFiniteSet(others) /\ Cardinality(others) = (Cardinality(Jobs) - 1) * Target
  <2>1. /\ IsFiniteSet(others)
        /\ Cardinality(others) = Cardinality(Jobs \ {j}) * Cardinality(1 .. Target)
    BY <1>3, <1>4, FS_Product, Zenon
  <2> HIDE DEF others
  <2> QED
    BY <2>1, <1>3, <1>4, Zenon
<1>7. IsFiniteSet(own) /\ Cardinality(own) = Target - Len(pool)
  <2>1. /\ IsFiniteSet(own)
        /\ Cardinality(own) = Cardinality({j}) * Cardinality(1 .. Target - Len(pool))
    BY <1>4, <1>5, FS_Product, Zenon
  <2> HIDE DEF own
  <2>2. Cardinality(own) = 1 * (Target - Len(pool))
    BY <2>1, <1>4, <1>5, Zenon
  <2> QED
    BY <2>1, <2>2, <1>1
<1>8. /\ IsFiniteSet(others \cup own)
      /\ Cardinality(others \cup own) <= Cardinality(others) + Cardinality(own)
  BY <1>6, <1>7, UnionBound
<1>9. Cardinality(Owed') <= Cardinality(others \cup own)
  BY <1>2, <1>8, FS_Subset
<1>10. /\ Cardinality(others \cup own) \in Nat /\ Cardinality(Owed') \in Nat
       /\ Cardinality(Jobs) \in Nat
  BY <1>8, <1>2, FS_Subset, FS_CardinalityType, FiniteAssumption
<1>11. (Cardinality(Jobs) - 1) * Target = Target * Cardinality(Jobs) - Target
  BY <1>10, <1>1
<1>12. Target * Cardinality(Jobs) \in Nat
  BY <1>10, <1>1
<1> HIDE DEF others, own
<1> QED
  BY <1>1, <1>6, <1>7, <1>8, <1>9, <1>10, <1>11, <1>12

LEMMA PopulationStep ==
  ASSUME IInv, IInv', BooksBounded, [Next]_vars
  PROVE  BooksBounded'
<1>0. /\ HandsTyped /\ HandsTyped' /\ pool \in Seq(Containers) /\ Len(pool) \in Nat
      /\ HandsMatch
  BY DEF IInv, TypeOK, HandsTyped
<1> USE <1>0, ProcessAssumption
<1> USE DEF Processes, Free, Move, Hold
<1>1. ASSUME NEW p \in Processes, CreateContainer(p) PROVE BooksBounded'
  <2>1. Owed' = Owed /\ UNCHANGED pool
    BY <1>1 DEF CreateContainer, Owed
  <2>2. Busy' \subseteq Busy
    BY <1>1 DEF CreateContainer, Created, Busy, HandsTyped
  <2> QED
    BY <2>1, <2>2, NoneAdded
<1>2. ASSUME NEW p \in Processes, StartContainer(p) PROVE BooksBounded'
  <2>1. Owed' = Owed /\ UNCHANGED pool
    BY <1>2 DEF StartContainer, Owed
  <2>2. Busy' \subseteq Busy
    BY <1>2 DEF StartContainer, Busy, HandsTyped
  <2> QED
    BY <2>1, <2>2, NoneAdded
<1>3. ASSUME NEW p \in Processes, DockerFails(p) PROVE BooksBounded'
  <2>1. Owed' \subseteq Owed
    <3>1. \A i \in Jobs : needed'[i] \in {0, needed[i]}
      BY <1>3 DEF DockerFails
    <3>2. \A o \in Jobs \X (1 .. Target) : o[2] \in Nat \ {0} /\ o[1] \in Jobs
      OBVIOUS
    <3> QED
      BY <3>1, <3>2 DEF Owed
  <2>2. Busy' \subseteq Busy
    BY <1>3 DEF DockerFails, Busy, HandsTyped
  <2>3. UNCHANGED pool
    BY <1>3 DEF DockerFails
  <2> QED
    BY <2>1, <2>2, <2>3, NoneAdded
<1>4. ASSUME NEW u \in Users, PopPooled(u) PROVE BooksBounded'
  <2>1. Len(pool') = Len(pool) - 1
    BY <1>4 DEF PopPooled
  <2>2. Owed' = Owed
    BY <1>4 DEF PopPooled, Owed
  <2>3. Busy' = Busy \cup {u} /\ u \notin Busy
    BY <1>4 DEF PopPooled, Busy, HandsTyped
  <2>4. Cardinality(Busy') = Cardinality(Busy) + 1
    BY <2>3, Sizes, FS_AddElement
  <2> QED
    BY <2>1, <2>2, <2>4, Sizes DEF BooksBounded
<1>5. ASSUME NEW u \in Users, FindEmpty(u) PROVE BooksBounded'
  <2>1. Len(pool') = 0
    BY <1>5 DEF FindEmpty
  <2>2. /\ Cardinality(Busy') <= Cardinality(Users) /\ Cardinality(Busy') \in Nat
        /\ Cardinality(Owed') <= Target * Cardinality(Jobs)
        /\ Cardinality(Owed') \in Nat
    <3>1. ASSUME NEW H \in SUBSET Users PROVE Cardinality(H) <= Cardinality(Users) /\ Cardinality(H) \in Nat
      BY <3>1, FiniteAssumption, FS_Subset, FS_CardinalityType
    <3>2. Busy' \in SUBSET Users
      BY DEF Busy
    <3>3. Owed' = Owed
      BY <1>5 DEF FindEmpty, Owed
    <3> QED
      BY <3>1, <3>2, <3>3, Sizes
  <2> QED
    BY <2>1, <2>2, Sizes DEF BooksBounded
<1>6. ASSUME NEW u \in Users, NEW j \in Jobs, SpawnJob(u, j) PROVE BooksBounded'
  <2>1. Owed' = Owed /\ UNCHANGED pool
    BY <1>6 DEF SpawnJob, Owed
  <2>2. Busy' \subseteq Busy
    BY <1>6 DEF SpawnJob, Busy, HandsTyped
  <2> QED
    BY <2>1, <2>2, NoneAdded
<1>7. ASSUME NEW u \in Users, ToolTimesOut(u) PROVE BooksBounded'
  BY <1>7 DEF ToolTimesOut, BooksBounded, Owed, Busy
<1>8. ASSUME NEW u \in Users, BeginRelease(u) PROVE BooksBounded'
  <2>1. Owed' = Owed /\ UNCHANGED pool
    BY <1>8 DEF BeginRelease, Owed
  <2>2. Busy' \subseteq Busy
    BY <1>8 DEF BeginRelease, Busy, HandsTyped
  <2> QED
    BY <2>1, <2>2, NoneAdded
<1>9. ASSUME NEW u \in Users, Clean(u) PROVE BooksBounded'
  <2>1. Owed' = Owed /\ UNCHANGED pool
    BY <1>9 DEF Clean, Owed
  <2>2. Busy' \subseteq Busy
    BY <1>9 DEF Clean, Busy, HandsTyped
  <2> QED
    BY <2>1, <2>2, NoneAdded
<1>10. ASSUME NEW u \in Users, CleanFails(u) PROVE BooksBounded'
  <2>1. Owed' = Owed /\ UNCHANGED pool
    BY <1>10 DEF CleanFails, Owed
  <2>2. Busy' \subseteq Busy
    BY <1>10 DEF CleanFails, Busy, HandsTyped
  <2> QED
    BY <2>1, <2>2, NoneAdded
<1>11. ASSUME NEW u \in Users, Destroy(u) PROVE BooksBounded'
  <2>1. Owed' = Owed /\ UNCHANGED pool
    BY <1>11 DEF Destroy, Owed
  <2>2. Busy' \subseteq Busy
    BY <1>11 DEF Destroy, Busy, HandsTyped
  <2> QED
    BY <2>1, <2>2, NoneAdded
<1>12. ASSUME NEW u \in Users, PushReleased(u) PROVE BooksBounded'
  <2>1. Len(pool') = Len(pool) + 1
    BY <1>12 DEF PushReleased
  <2>2. Owed' = Owed
    BY <1>12 DEF PushReleased, Owed
  <2>3. Busy' = Busy \ {u} /\ u \in Busy
    BY <1>12 DEF PushReleased, Busy, HandsTyped
  <2>4. Cardinality(Busy') = Cardinality(Busy) - 1
    BY <2>3, Sizes, FS_RemoveElement
  <2> QED
    BY <2>1, <2>2, <2>4, Sizes DEF BooksBounded
<1>13. ASSUME NEW u \in Users, Abort(u) PROVE BooksBounded'
  <2>1. Owed' = Owed /\ UNCHANGED pool
    BY <1>13 DEF Abort, Owed
  <2>2. Busy' \subseteq Busy
    BY <1>13 DEF Abort, Busy, HandsTyped
  <2> QED
    BY <2>1, <2>2, NoneAdded
<1>14. ASSUME NEW c \in Containers, StrayWrites(c) PROVE BooksBounded'
  BY <1>14 DEF StrayWrites, BooksBounded, Owed, Busy
<1>15. ASSUME NEW j \in Jobs, CheckPool(j) PROVE BooksBounded'
  <2>1. Busy' \subseteq Busy /\ UNCHANGED pool
    BY <1>15 DEF CheckPool, Busy, HandsTyped
  <2>2. CASE Len(pool) < Target
    <3>1. Len(pool) + Cardinality(Owed') <= Target * Cardinality(Jobs)
      BY <1>15, <2>2, CheckedAdds
    <3>2. /\ Cardinality(Busy') <= Cardinality(Users) /\ Cardinality(Busy') \in Nat
      BY <2>1, Sizes, FiniteAssumption, FS_Subset, FS_CardinalityType DEF Busy
    <3>3. IsFiniteSet(Owed') /\ Cardinality(Owed') \in Nat
      <4>1. IsFiniteSet(1 .. Target)
        BY FS_Interval, TargetAssumption
      <4>2. IsFiniteSet(Jobs \X (1 .. Target))
        BY <4>1, FS_Product, FiniteAssumption
      <4>3. \A H \in SUBSET (Jobs \X (1 .. Target)) : IsFiniteSet(H)
        BY <4>2, FS_Subset
      <4>4. Owed' \in SUBSET (Jobs \X (1 .. Target))
        BY DEF Owed
      <4>5. IsFiniteSet(Owed')
        BY <4>3, <4>4
      <4> QED
        BY <4>5, FS_CardinalityType
    <3> QED
      BY <3>1, <3>2, <3>3, <2>1, Sizes DEF BooksBounded
  <2>3. CASE ~ (Len(pool) < Target)
    <3>1. Owed' = Owed
      BY <1>15, <2>3 DEF CheckPool, Owed
    <3> QED
      BY <3>1, <2>1, NoneAdded
  <2> QED
    BY <2>2, <2>3
<1>16. ASSUME NEW j \in Jobs, PushWarmed(j) PROVE BooksBounded'
  <2>1. Len(pool') = Len(pool) + 1
    BY <1>16 DEF PushWarmed
  <2>2. Busy' \subseteq Busy
    BY <1>16 DEF PushWarmed, Busy, HandsTyped
  <2>3. needed[j] \in 1 .. Target /\ needed' = [needed EXCEPT ![j] = needed[j] - 1]
    BY <1>16, TargetAssumption DEF PushWarmed, HandsMatch, HandsTyped
  <2>4. Owed' = Owed \ {<<j, needed[j]>>} /\ <<j, needed[j]>> \in Owed
    <3>1. \A o \in Jobs \X (1 .. Target) :
            o[2] <= needed'[o[1]] <=> o[2] <= needed[o[1]] /\ o # <<j, needed[j]>>
      BY <2>3 DEF HandsTyped
    <3> QED
      BY <3>1, <2>3 DEF Owed
  <2>5. Cardinality(Owed') = Cardinality(Owed) - 1
    BY <2>4, Sizes, FS_RemoveElement
  <2>6. Cardinality(Busy') <= Cardinality(Busy) /\ Cardinality(Busy') \in Nat
    BY <2>2, Sizes, FS_Subset, FS_CardinalityType
  <2> QED
    BY <2>1, <2>5, <2>6, Sizes DEF BooksBounded
<1>18. ASSUME NEW c \in Containers, Dies(c) PROVE BooksBounded'
  BY <1>18 DEF Dies, BooksBounded, Owed, Busy
<1>17. CASE UNCHANGED vars
  BY <1>17 DEF vars, BooksBounded, Owed, Busy
<1> QED
  BY <1>1, <1>2, <1>3, <1>4, <1>5, <1>6, <1>7, <1>8, <1>9, <1>10, <1>11,
     <1>12, <1>13, <1>14, <1>15, <1>16, <1>17, <1>18
  DEF Next

LEMMA ImageBound ==
  ASSUME NEW S, NEW T, IsFiniteSet(S), NEW f \in [S -> T], \A t \in T : \E s \in S : f[s] = t
  PROVE  /\ IsFiniteSet(T) /\ Cardinality(T) \in Nat
         /\ Cardinality(T) <= Cardinality(S)
<1>1. f \in Surjection(S, T)
  BY DEF Surjection
<1> QED
  BY <1>1, FS_Surjection, FS_CardinalityType

\* A container that Docker has and the backend knows is in the pool, in the
\* hands of a user, or the next one that some job is about to add.
LEMMA Accounted ==
  ASSUME IInv
  PROVE  Cardinality(Existing \ Lost)
           <= Len(pool) + Cardinality(Owed) + Cardinality(Busy)
<1> DEFINE Adding == {j \in Jobs : needed[j] > 0}
           used == {box[u] : u \in Busy}
           added == {box[j] : j \in Adding}
<1>0. HandsTyped /\ HandsMatch /\ pool \in Seq(Containers)
  BY DEF IInv, TypeOK, HandsTyped
<1>1. /\ IsFiniteSet(Pooled) /\ Cardinality(Pooled) \in Nat
      /\ Cardinality(Pooled) <= Len(pool) /\ Len(pool) \in Nat
  <2>1. /\ pool \in [1 .. Len(pool) -> Pooled] /\ Len(pool) \in Nat
        /\ \A c \in Pooled : \E k \in 1 .. Len(pool) : pool[k] = c
    BY <1>0 DEF Pooled
  <2>2. ASSUME NEW n \in Nat PROVE IsFiniteSet(1 .. n) /\ Cardinality(1 .. n) = n
    BY FS_Interval
  <2>3. IsFiniteSet(1 .. Len(pool)) /\ Cardinality(1 .. Len(pool)) = Len(pool)
    BY <2>1, <2>2, Zenon
  <2>4. /\ IsFiniteSet(Pooled) /\ Cardinality(Pooled) \in Nat
        /\ Cardinality(Pooled) <= Cardinality(1 .. Len(pool))
    BY <2>1, <2>3, ImageBound, Zenon
  <2> QED
    BY <2>1, <2>3, <2>4
<1>2. /\ IsFiniteSet(used) /\ Cardinality(used) \in Nat
      /\ Cardinality(used) <= Cardinality(Busy)
  <2>1. /\ [u \in Busy |-> box[u]] \in [Busy -> used]
        /\ \A c \in used : \E u \in Busy : [v \in Busy |-> box[v]][u] = c
    OBVIOUS
  <2>2. IsFiniteSet(Busy)
    BY <1>0, Sizes
  <2> HIDE DEF used
  <2> QED
    BY <2>1, <2>2, ImageBound
<1>3. /\ IsFiniteSet(Adding) /\ Cardinality(Adding) <= Cardinality(Owed)
  <2>1. [j \in Adding |-> <<j, 1>>] \in Injection(Adding, Owed)
    <3>1. \A j \in Adding : <<j, 1>> \in Owed
      BY <1>0, TargetAssumption DEF HandsTyped, Owed
    <3> HIDE DEF Adding
    <3> QED
      BY <3>1 DEF Injection, IsInjective
  <2>2. IsFiniteSet(Owed)
    BY <1>0, Sizes
  <2> HIDE DEF Adding
  <2> QED
    BY <2>1, <2>2, FS_Injection
<1>4. /\ IsFiniteSet(added) /\ Cardinality(added) \in Nat
      /\ Cardinality(added) <= Cardinality(Adding)
  <2>1. /\ [j \in Adding |-> box[j]] \in [Adding -> added]
        /\ \A c \in added : \E j \in Adding : [i \in Adding |-> box[i]][j] = c
    OBVIOUS
  <2> HIDE DEF added, Adding
  <2> QED
    BY <2>1, <1>3, ImageBound
<1>5. Existing \ Lost \subseteq (Pooled \cup used) \cup added
  <2>1. ASSUME NEW p \in Processes, box[p] # NoBox PROVE box[p] \in used \cup added
    BY <2>1, <1>0 DEF HandsMatch, Holding, Busy, Free, Processes, JobStates
  <2> QED
    BY <2>1 DEF Lost, InHand
<1>6. Cardinality(Adding) \in Nat
  BY <1>3, FS_CardinalityType
<1> HIDE DEF Adding, used, added
<1>7. /\ IsFiniteSet(Pooled \cup used) /\ Cardinality(Pooled \cup used) \in Nat
      /\ Cardinality(Pooled \cup used) <= Cardinality(Pooled) + Cardinality(used)
  BY <1>1, <1>2, UnionBound
<1>8. /\ IsFiniteSet((Pooled \cup used) \cup added)
      /\ Cardinality((Pooled \cup used) \cup added) \in Nat
      /\ Cardinality((Pooled \cup used) \cup added)
           <= Cardinality(Pooled \cup used) + Cardinality(added)
  BY <1>4, <1>7, UnionBound
<1>9. /\ Cardinality(Existing \ Lost) <= Cardinality((Pooled \cup used) \cup added)
      /\ Cardinality(Existing \ Lost) \in Nat
  BY <1>5, <1>8, FS_Subset, FS_CardinalityType
<1>10. Cardinality(Busy) \in Nat /\ Cardinality(Owed) \in Nat
  BY <1>0, Sizes
<1> QED
  BY <1>1, <1>2, <1>3, <1>4, <1>6, <1>7, <1>8, <1>9, <1>10

\* The containers that Docker has and the backend has not lost stay bounded,
\* although jobs check and fill in separate steps.
THEOREM Bounded == Spec => []PopulationBounded
<1>1. Init => BooksBounded
  <2> SUFFICES ASSUME Init PROVE BooksBounded
    OBVIOUS
  <2>1. HandsTyped
    BY TargetAssumption DEF Init, HandsTyped, UserStates, JobStates, Free, Processes
  <2>2. Owed = {} /\ Busy = {} /\ Len(pool) = 0
    BY DEF Init, Owed, Busy, Processes, Free
  <2> QED
    BY <2>1, <2>2, Sizes, FS_EmptySet DEF BooksBounded
<1>2. IInv /\ IInv' /\ BooksBounded /\ [Next]_vars => BooksBounded'
  BY PopulationStep
<1>3. IInv /\ BooksBounded => PopulationBounded
  BY Accounted DEF BooksBounded, PopulationBounded
<1> QED
  BY <1>1, <1>2, <1>3, InvariantHolds, PTL DEF Spec

=============================================================================
