----------------------------- MODULE SandboxPool -----------------------------
(***************************************************************************)
(* SandboxManager (backend/src/sandbox.rs): the pool of containers, the    *)
(* step futures that acquire a container and release it, and the jobs that *)
(* acquire spawns to replenish the pool.  The pool is guarded by a lock    *)
(* held for one operation at a time; every call to Docker is an await, so  *)
(* that users and jobs interleave between them.                            *)
(***************************************************************************)
EXTENDS Integers, Sequences, FiniteSets

CONSTANTS
  Containers,  \* ids Docker may hand out, each at most once
  Users,       \* step futures: at most this many use the manager at a time
  Jobs,        \* replenish jobs: at most this many exist at a time
  NoBox,       \* in the hands of one that has no container
  Target,      \* pool_target_size
  Faults       \* the failures of the environment that are in scope

FaultKinds == {"docker",  \* create, start or remove returns an error
               "exec",    \* the cleaning command fails
               "tool",    \* a tool call times out, its process goes on
               "death",   \* a container stops by itself
               "abort"}   \* the step's future panics or is dropped

ASSUME NoBoxAssumption == NoBox \notin Containers
ASSUME ProcessAssumption == Users \cap Jobs = {}
ASSUME FiniteAssumption == IsFiniteSet(Users) /\ IsFiniteSet(Jobs)
ASSUME TargetAssumption == Target \in Nat
ASSUME PoolFaultsAssumption == Faults \subseteq FaultKinds

VARIABLES
  life,     \* of each container, in Docker
  pool,     \* VecDeque of container ids
  at,       \* where each user and each job is
  box,      \* the container in its hands
  needed,   \* containers each job has still to add
  residue,  \* the kinds of files an earlier use may have left, by container
  strays    \* containers in which a timed-out tool call may still be running

vars == <<life, pool, at, box, needed, residue, strays>>

\* Files as the cleaning command tells them apart: the shell's `*` matches no
\* name that starts with a dot.
Kinds == {"files", "dotfiles"}

Processes == Users \cup Jobs

Pooled == {pool[k] : k \in DOMAIN pool}

InHand == {box[p] : p \in Processes} \ {NoBox}

\* Containers that exist in Docker, and those of them that the backend no
\* longer knows.
Existing == {c \in Containers : life[c] \in {"created", "running", "stopped"}}

Lost == Existing \ (Pooled \cup InHand)

\* "gone": a step whose future was dropped; the next one takes its place.
Free == {"idle", "gone"}

UserStates == Free \cup {"create", "start", "acquired", "using", "cleaning",
               "push", "destroy", "recreate", "restart"}

JobStates == {"idle", "check", "create", "start", "push"}

-----------------------------------------------------------------------------

\* main.rs does not warm the pool: it starts empty.
Init ==
  /\ life = [c \in Containers |-> "unused"]
  /\ pool = <<>>
  /\ at = [p \in Processes |-> "idle"]
  /\ box = [p \in Processes |-> NoBox]
  /\ needed = [j \in Jobs |-> 0]
  /\ residue = {}
  /\ strays = {}

Move(p, from, to) ==
  /\ at[p] = from
  /\ at' = [at EXCEPT ![p] = to]

Hold(p, c) == box' = [box EXCEPT ![p] = c]

-----------------------------------------------------------------------------
(* create_container, for whoever calls it: create, then start.             *)

Created == [create |-> "start", recreate |-> "restart"]
Started(p) == IF p \in Jobs THEN "push" ELSE [start |-> "acquired", restart |-> "push"][at[p]]

CreateContainer(p) ==
  /\ at[p] \in DOMAIN Created
  /\ Move(p, at[p], Created[at[p]])
  /\ \E c \in Containers :
       /\ life[c] = "unused"
       /\ life' = [life EXCEPT ![c] = "created"]
       /\ Hold(p, c)
  /\ UNCHANGED <<pool, needed, residue, strays>>

StartContainer(p) ==
  /\ at[p] \in {"start", "restart"}
  /\ Move(p, at[p], Started(p))
  /\ life' = [life EXCEPT ![box[p]] = "running"]
  /\ UNCHANGED <<pool, box, needed, residue, strays>>

\* What Docker may have done, or still do, for a request whose answer never came.
Unanswered(p) ==
  CASE at[p] \in {"create", "recreate"} ->
         {[life EXCEPT ![c] = "created"] : c \in {d \in Containers : life[d] = "unused"}}
    [] at[p] \in {"start", "restart"} -> {[life EXCEPT ![box[p]] = "running"]}
    [] at[p] = "destroy" -> {[life EXCEPT ![box[p]] = "removed"]}
    [] OTHER -> {}

\* The caller gets the error, whether Docker did what it was asked to or not.  A
\* container that was created and not started is not removed, nor is one that
\* could not be removed.
DockerFails(p) ==
  /\ "docker" \in Faults
  /\ at[p] \in {"create", "start", "destroy", "recreate", "restart"}
  /\ Move(p, at[p], "idle")
  /\ Hold(p, NoBox)
  /\ needed' = [j \in Jobs |-> IF j = p THEN 0 ELSE needed[j]]
  /\ life' \in {life} \cup Unanswered(p)
  /\ UNCHANGED <<pool, residue, strays>>

\* Out of memory, killed, a restart of the daemon.  The backend is not told, and
\* acquire does not look: a stopped container may be served.
Dies(c) ==
  /\ "death" \in Faults
  /\ life[c] = "running"
  /\ life' = [life EXCEPT ![c] = "stopped"]
  /\ UNCHANGED <<pool, at, box, needed, residue, strays>>

-----------------------------------------------------------------------------
(* acquire, by user u.                                                     *)

\* Mutant: the id is read and left in the pool.
PopPooled_peek(u) ==
  /\ pool # <<>>
  /\ \E from \in Free : Move(u, from, "acquired")
  /\ Hold(u, Head(pool))
  /\ UNCHANGED <<life, pool, needed, residue, strays>>

PopPooled(u) ==
  /\ pool # <<>>
  /\ \E from \in Free : Move(u, from, "acquired")
  /\ Hold(u, Head(pool))
  /\ pool' = Tail(pool)
  /\ UNCHANGED <<life, needed, residue, strays>>

FindEmpty(u) ==
  /\ pool = <<>>
  /\ \E from \in Free : Move(u, from, "create")
  /\ UNCHANGED <<life, pool, box, needed, residue, strays>>

\* Spawn the replenish job, and hand the container to the step: from now on
\* its files are in it.
SpawnJob(u, j) ==
  /\ at[u] = "acquired" /\ at[j] = "idle"
  /\ at' = [at EXCEPT ![u] = "using", ![j] = "check"]
  /\ residue' = residue \cup ({box[u]} \X Kinds)
  /\ UNCHANGED <<life, pool, box, needed, strays>>

\* agent_runtime.rs gives up on a tool call; docker exec is not stopped.
ToolTimesOut(u) ==
  /\ "tool" \in Faults
  /\ at[u] = "using"
  /\ strays' = strays \cup {box[u]}
  /\ UNCHANGED <<life, pool, at, box, needed, residue>>

\* The process nobody waits for goes on writing files, in the pool as well.
StrayWrites(c) ==
  /\ c \in strays /\ life[c] = "running"
  /\ residue' = residue \cup ({c} \X Kinds)
  /\ UNCHANGED <<life, pool, at, box, needed, strays>>

-----------------------------------------------------------------------------
(* release, by user u.                                                     *)

BeginRelease(u) ==
  /\ Move(u, "using", "cleaning")
  /\ UNCHANGED <<life, pool, box, needed, residue, strays>>

\* rm -rf dir/* succeeded.
Clean(u) ==
  /\ Move(u, "cleaning", "push")
  /\ life[box[u]] = "running"
  /\ residue' = residue \ {<<box[u], "files">>}
  /\ UNCHANGED <<life, pool, box, needed, strays>>

\* Mutant: a failed cleaning is taken for a success.
CleanFails_ignored(u) ==
  /\ Move(u, "cleaning", "push")
  /\ "exec" \in Faults \/ life[box[u]] # "running"
  /\ UNCHANGED <<life, pool, box, needed, residue, strays>>

\* The command fails, or there is nothing running to run it in.
CleanFails(u) ==
  /\ Move(u, "cleaning", "destroy")
  /\ "exec" \in Faults \/ life[box[u]] # "running"
  /\ UNCHANGED <<life, pool, box, needed, residue, strays>>

\* Mutant: the id is kept.
Destroy_keep(u) ==
  /\ Move(u, "destroy", "push")
  /\ life' = [life EXCEPT ![box[u]] = "removed"]
  /\ residue' = residue \ ({box[u]} \X Kinds)
  /\ strays' = strays \ {box[u]}
  /\ UNCHANGED <<pool, box, needed>>

Destroy(u) ==
  /\ Move(u, "destroy", "recreate")
  /\ life' = [life EXCEPT ![box[u]] = "removed"]
  /\ Hold(u, NoBox)
  /\ residue' = residue \ ({box[u]} \X Kinds)
  /\ strays' = strays \ {box[u]}
  /\ UNCHANGED <<pool, needed>>

\* Mutant: a full pool does not take the container back.
PushReleased_capped(u) ==
  /\ Move(u, "push", "idle")
  /\ pool' = IF Len(pool) < Target THEN Append(pool, box[u]) ELSE pool
  /\ Hold(u, NoBox)
  /\ UNCHANGED <<life, needed, residue, strays>>

\* push_back, whatever the length of the pool.
PushReleased(u) ==
  /\ Move(u, "push", "idle")
  /\ pool' = Append(pool, box[u])
  /\ Hold(u, NoBox)
  /\ UNCHANGED <<life, needed, residue, strays>>

\* The step's future panics, or the timer drops it: nothing is released.
Abort(u) ==
  /\ "abort" \in Faults
  /\ at[u] \notin Free \cup {"acquired"}
  /\ at' = [at EXCEPT ![u] = "gone"]
  /\ Hold(u, NoBox)
  /\ life' \in {life} \cup Unanswered(u)
  /\ UNCHANGED <<pool, needed, residue, strays>>

-----------------------------------------------------------------------------
(* The job acquire spawned: read the length, then warm_pool(needed).       *)

\* Mutants: the job tops up by the target, whatever it found; it does not
\* compare before it subtracts.
CheckPool_unguarded(j) ==
  /\ at[j] = "check"
  /\ needed' = [needed EXCEPT ![j] = Target - Len(pool)]
  /\ at' = [at EXCEPT ![j] = "create"]
  /\ UNCHANGED <<life, pool, box, residue, strays>>

CheckPool_full(j) ==
  /\ at[j] = "check"
  /\ needed' = [needed EXCEPT ![j] = Target]
  /\ at' = [at EXCEPT ![j] = IF Target > 0 THEN "create" ELSE "idle"]
  /\ UNCHANGED <<life, pool, box, residue, strays>>

CheckPool(j) ==
  /\ at[j] = "check"
  /\ IF Len(pool) < Target
       THEN /\ needed' = [needed EXCEPT ![j] = Target - Len(pool)]
            /\ at' = [at EXCEPT ![j] = "create"]
       ELSE /\ at' = [at EXCEPT ![j] = "idle"]
            /\ UNCHANGED needed
  /\ UNCHANGED <<life, pool, box, residue, strays>>

PushWarmed(j) ==
  /\ j \in Jobs
  /\ Move(j, "push", IF needed[j] > 1 THEN "create" ELSE "idle")
  /\ pool' = Append(pool, box[j])
  /\ needed' = [needed EXCEPT ![j] = needed[j] - 1]
  /\ Hold(j, NoBox)
  /\ UNCHANGED <<life, residue, strays>>

-----------------------------------------------------------------------------

Next ==
  \/ \E p \in Processes : CreateContainer(p) \/ StartContainer(p) \/ DockerFails(p)
  \/ \E u \in Users :
       \/ PopPooled(u) \/ FindEmpty(u) \/ \E j \in Jobs : SpawnJob(u, j)
       \/ ToolTimesOut(u)
       \/ BeginRelease(u) \/ Clean(u) \/ CleanFails(u) \/ Destroy(u)
       \/ PushReleased(u) \/ Abort(u)
  \/ \E c \in Containers : StrayWrites(c) \/ Dies(c)
  \/ \E j \in Jobs : CheckPool(j) \/ PushWarmed(j)

Spec == Init /\ [][Next]_vars

-----------------------------------------------------------------------------
(* Properties.                                                             *)

TypeOK ==
  /\ life \in [Containers -> {"unused", "created", "running", "stopped", "removed"}]
  /\ pool \in Seq(Containers)
  /\ at \in [Processes -> UserStates \cup JobStates]
  /\ box \in [Processes -> Containers \cup {NoBox}]
  /\ needed \in [Jobs -> 0 .. Target]
  /\ residue \subseteq Containers \X Kinds
  /\ strays \subseteq Containers

\* "Each parallel step gets its own sandbox container": no container is in
\* two hands, in a hand and in the pool, or in the pool twice, whatever
\* Docker refuses and whichever step is dropped.
Exclusive ==
  /\ \A p, q \in Processes : box[p] = box[q] /\ p # q => box[p] = NoBox
  /\ InHand \cap Pooled = {}
  /\ \A k, l \in DOMAIN pool : pool[k] = pool[l] => k = l

\* The pool offers, and steps use, only containers that were started and were
\* not removed; one may have stopped by itself.
OnlyStartedServed ==
  /\ \A c \in Pooled : life[c] \in {"running", "stopped"}
  /\ \A u \in Users : at[u] \in {"acquired", "using", "cleaning"} =>
       life[box[u]] \in {"running", "stopped"}

\* A pooled container has none of the files in it that cleaning removes,
\* unless a tool call that timed out in it was left running: no failure makes
\* release put back a container that it could not clean.
CleanUnlessStrayed ==
  \A c \in Pooled : <<c, "files">> \in residue => c \in strays

\* A container that exists leaves the backend's books only in a step in which
\* Docker refused something or a step's future was dropped, and no more than
\* one container does.
LostOnlyByFailure ==
  [][\/ Lost' \subseteq Lost
     \/ /\ \/ \E p \in Processes : DockerFails(p)
           \/ \E u \in Users : Abort(u)
        /\ \E c \in Containers : Lost' \subseteq Lost \cup {c}]_vars

\* The containers that jobs have still to add: the first, second ... of job j.
Owed == {o \in Jobs \X (1 .. Target) : o[2] <= needed[o[1]]}

\* Users that have a container or are about to.
Busy == {u \in Users : at[u] \notin Free}

\* The check of the pool's length and the filling of the pool are not atomic,
\* and release pushes whatever the length; still the containers that exist in
\* Docker, the lost ones apart, are no more than those pooled, owed and in use,
\* and these no more than one per user and one target per replenish job at a
\* time.
PopulationBounded ==
  /\ Cardinality(Existing \ Lost)
       <= Len(pool) + Cardinality(Owed) + Cardinality(Busy)
  /\ Len(pool) + Cardinality(Owed) + Cardinality(Busy)
       <= Cardinality(Users) + Target * Cardinality(Jobs)

\* "Release a container back to the pool after cleaning it": nothing of an
\* earlier step is in a container of the pool.
PoolIsClean == \A c \in Pooled, k \in Kinds : <<c, k>> \notin residue

=============================================================================
