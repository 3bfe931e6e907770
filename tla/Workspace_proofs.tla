---------------------------- MODULE Workspace_proofs ----------------------------
(***************************************************************************)
(* Proofs about what keeps track of a workspace's files: Checkpoint, for   *)
(* any sessions, files, contents, turns and commands, and WatchCoordinator,*)
(* the watcher it hears of the changes from, for any callers and roots.    *)
(***************************************************************************)
EXTENDS Checkpoint, WatchCoordinator, TLAPS

Kinds == {"initial", "baseline", "turn", "reapply"}
Places == {"idle", "settling", "baseline", "staged", "running", "stopping", "flush",
           "add", "commit", "readHead", "queued", "saved", "checked"}
CommitRecord == [parent : Nat, tree : Tree, kind : Kinds]

\* TypeOK in three parts, with what each needs to be kept: git's tables, ...
GitOK ==
    /\ disk \in Tree /\ index \in Tree
    /\ repo \in Seq(CommitRecord)
    /\ \A i \in 1..Len(repo) : repo[i].parent \in 0..Len(repo)
    /\ alive \subseteq 1..Len(repo) /\ head \in alive
    /\ before \in 0..Len(repo)
    /\ reapplyId \in 0..Len(repo)

\* ... the watch, ...
WatchOK ==
    /\ watching \in BOOLEAN /\ subs \in Nat /\ ownSub \in BOOLEAN
    /\ ownSub => subs > 0

\* ... the actors, among them the holder of the lock, ...
Working == {"staged", "commit", "saved", "checked"}

ActorsOK ==
    /\ queue \in Seq(Actors) /\ chain \in Seq(Sessions)
    /\ pc \in [Actors -> Places]
    /\ awaits \in [Actors -> Nat]
    /\ WatchOK
    /\ pc[Finisher] # "idle" => chain # <<>>
    /\ \A a \in Actors : pc[a] \in Working => Holds(a)

\* ... and what has changed on the disk.
EventsOK ==
    /\ unseen \subseteq Change /\ debounce \subseteq Change
    /\ recording \subseteq Change /\ flushing \subseteq recording
    /\ buffer \subseteq Change
    /\ timer \in BOOLEAN
    /\ dirty \subseteq Files /\ added \subseteq Files

\* A guarded revert has a turn's commit with a parent to go back to.
OrderOK ==
    /\ order \in Order
    /\ pc[User] = "checked" => order.cmd = "guarded"
    /\ order.cmd = "guarded" =>
          order.id \in 1..Len(repo) /\ repo[order.id].parent # 0
    /\ order.cmd \in {"guarded", "plain", "reapply"} => order.file \in Files

\* A session on its way into a turn still waits for every finish of its own.
Settles ==
    \A s \in Sessions :
        /\ pc[s] \in {"baseline", "staged"} => awaits[s] = 0
        /\ pc[s] \in {"settling", "baseline", "staged"} =>
              \A i \in 1..Len(chain) : chain[i] = s => i <= awaits[s]

\* Between git operations the index is HEAD's tree; a snapshot that is not
\* committed yet differs from it in the files it has added.
Clean ==
    \A f \in Files :
        index[f] # repo[head].tree[f] => pc[Finisher] = "commit" /\ f \in added

IInv == GitOK /\ ActorsOK /\ EventsOK /\ OrderOK /\ Settles

LEMMA TypeParts == IInv => TypeOK
BY DEF IInv, GitOK, ActorsOK, WatchOK, EventsOK, OrderOK, TypeOK, CommitRecord, Kinds,
       Places

LEMMA InitIInv == Init => IInv
<1> SUFFICES ASSUME Init PROVE IInv
  OBVIOUS
<1>1. GitOK
  BY DEF Init, GitOK, Tree, CommitRecord, Kinds
<1>2. ActorsOK
  <2>1. queue \in Seq(Actors) /\ chain \in Seq(Sessions)
    BY DEF Init
  <2>2. /\ pc \in [Actors -> Places] /\ \A a \in Actors : pc[a] = "idle"
        /\ awaits \in [Actors -> Nat]
    BY DEF Init, Places
  <2>3. watching = FALSE /\ subs = 0 /\ ownSub = FALSE
    BY DEF Init
  <2>4. Finisher \in Actors
    BY DEF Actors
  <2> QED BY <2>1, <2>2, <2>3, <2>4 DEF ActorsOK, WatchOK, Working
<1>3. EventsOK
  BY DEF Init, EventsOK, Change
<1>4. OrderOK /\ Settles
  BY DEF Init, OrderOK, Settles, Order, NoOrder, Actors
<1> QED BY <1>1, <1>2, <1>3, <1>4 DEF IInv

-----------------------------------------------------------------------------
LEMMA Trees ==
    ASSUME GitOK, NEW i \in 1..Len(repo)
    PROVE  repo[i].tree \in Tree
<1>1. repo[i] \in CommitRecord
  BY DEF GitOK
<1> QED BY <1>1 DEF CommitRecord

\* What a commit does to git's tables.
LEMMA CommitKeeps ==
    ASSUME GitOK, NEW tree \in Tree, NEW kind \in Kinds, Commit(tree, kind)
    PROVE  /\ repo' \in Seq(CommitRecord)
           /\ Len(repo) <= Len(repo')
           /\ \A i \in 1..Len(repo) : repo'[i] = repo[i]
           /\ \A i \in 1..Len(repo') : repo'[i].parent \in 0..Len(repo')
           /\ alive' \subseteq 1..Len(repo') /\ head' \in alive'
           /\ repo'[head'].tree = tree
           /\ Len(repo') > Len(repo) =>
                 repo'[Len(repo')].kind = kind /\ repo'[Len(repo')].tree = tree
<1> DEFINE c == [parent |-> head, tree |-> tree, kind |-> kind]
<1>1. /\ repo \in Seq(CommitRecord) /\ head \in 1..Len(repo) /\ head \in alive
      /\ alive \subseteq 1..Len(repo) /\ Len(repo) \in Nat
      /\ \A i \in 1..Len(repo) : repo[i].parent \in 0..Len(repo)
  BY DEF GitOK
<1>2. CASE tree = repo[head].tree
  <2>1. repo' = repo /\ alive' = alive /\ head' = head
    BY <1>2 DEF Commit
  <2>2. Len(repo) <= Len(repo) /\ ~(Len(repo) > Len(repo))
    BY <1>1
  <2> QED BY <1>1, <1>2, <2>1, <2>2
<1>3. CASE tree # repo[head].tree
  <2>1. /\ repo' = Append(repo, c) /\ head' = Len(repo) + 1
        /\ alive' = alive \cup {Len(repo) + 1}
    BY <1>3 DEF Commit
  <2>2. c \in CommitRecord /\ c.parent = head /\ c.tree = tree /\ c.kind = kind
    BY <1>1 DEF CommitRecord
  <2> HIDE DEF c
  <2>3. /\ repo' \in Seq(CommitRecord) /\ Len(repo') = Len(repo) + 1
        /\ repo'[Len(repo) + 1] = c
        /\ \A i \in 1..Len(repo) : repo'[i] = repo[i]
    BY <1>1, <2>1, <2>2
  <2>4. \A i \in 1..Len(repo') : repo'[i].parent \in 0..Len(repo')
    <3> SUFFICES ASSUME NEW i \in 1..Len(repo')
                 PROVE  repo'[i].parent \in 0..Len(repo')
      OBVIOUS
    <3>1. CASE i \in 1..Len(repo)
      BY <1>1, <2>3, <3>1
    <3>2. CASE i = Len(repo) + 1
      BY <1>1, <2>2, <2>3, <3>2
    <3> QED BY <1>1, <2>3, <3>1, <3>2
  <2>5. alive' \subseteq 1..Len(repo') /\ head' \in alive'
    <3>1. \A n \in Nat : 1..n \cup {n + 1} = 1..(n + 1)
      OBVIOUS
    <3>2. 1..Len(repo) \cup {Len(repo) + 1} = 1..Len(repo')
      BY <1>1, <2>3, <3>1
    <3> QED BY <1>1, <2>1, <3>2
  <2>6. repo'[head'] = c /\ repo'[Len(repo')] = c
    BY <2>1, <2>3
  <2>7. Len(repo) <= Len(repo')
    BY <1>1, <2>3
  <2> QED BY <2>2, <2>3, <2>4, <2>5, <2>6, <2>7
<1> QED BY <1>2, <1>3

\* What staging the whole workspace does.
LEMMA StageAllKeeps ==
    ASSUME GitOK, NEW kind \in Kinds, StageAll(kind)
    PROVE  /\ index' = disk
           /\ repo' \in Seq(CommitRecord)
           /\ Len(repo) <= Len(repo')
           /\ \A i \in 1..Len(repo) : repo'[i] = repo[i]
           /\ \A i \in 1..Len(repo') : repo'[i].parent \in 0..Len(repo')
           /\ alive' \subseteq 1..Len(repo') /\ head' \in alive'
           /\ Len(repo') > Len(repo) =>
                 repo'[Len(repo')].kind = kind /\ repo'[Len(repo')].tree = disk
           /\ \/ repo'[head'].tree = disk
              \/ index = disk /\ repo' = repo /\ head' = head
<1>1. CASE disk = index
  <2>1. index' = disk /\ repo' = repo /\ alive' = alive /\ head' = head
    BY <1>1 DEF StageAll
  <2>2. Len(repo) <= Len(repo) /\ ~(Len(repo) > Len(repo))
    BY DEF GitOK
  <2> QED BY <1>1, <2>1, <2>2 DEF GitOK
<1>2. CASE disk # index
  <2>1. Commit(disk, kind) /\ index' = disk /\ disk \in Tree
    BY <1>2 DEF StageAll, GitOK
  <2> QED BY <2>1, CommitKeeps
<1> QED BY <1>1, <1>2

\* The lock is passed on only by its holder, and joining the queue takes it
\* from nobody.
LEMMA LockFacts ==
    ASSUME ActorsOK, NEW a \in Actors
    PROVE  /\ Enqueue(a) => /\ queue' \in Seq(Actors)
                            /\ \A b \in Actors : Holds(b) => Holds(b)'
           /\ Release /\ Holds(a) =>
                 /\ queue' \in Seq(Actors)
                 /\ \A b \in Actors \ {a} : ~Holds(b)
           /\ \A b \in Actors : Holds(a) /\ Holds(b) => a = b
<1>1. queue \in Seq(Actors)
  BY DEF ActorsOK
<1>2. ASSUME Enqueue(a)
      PROVE  queue' \in Seq(Actors) /\ \A b \in Actors : Holds(b) => Holds(b)'
  <2>1. queue' = Append(queue, a)
    BY <1>2 DEF Enqueue
  <2>2. queue' \in Seq(Actors) /\ queue' # <<>>
    BY <1>1, <2>1
  <2>3. queue # <<>> => Head(queue') = Head(queue)
    BY <1>1, <2>1
  <2> QED BY <2>2, <2>3 DEF Holds
<1>3. ASSUME Release, Holds(a)
      PROVE  queue' \in Seq(Actors)
  <2>1. queue' = Tail(queue) /\ queue # <<>>
    BY <1>3 DEF Release, Holds
  <2> QED BY <1>1, <2>1
<1>4. \A b \in Actors : Holds(a) /\ Holds(b) => a = b
  BY DEF Holds
<1> QED BY <1>2, <1>3, <1>4

-----------------------------------------------------------------------------
\* Whoever works on the repository has the lock, and lets nobody else in.
LEMMA OneWorks ==
    ASSUME ActorsOK, NEW a \in Actors, Holds(a)
    PROVE  \A b \in Actors \ {a} : pc[b] \notin Working
BY DEF ActorsOK, Holds

LEMMA ActorsApart ==
    /\ User \in Actors /\ Finisher \in Actors /\ Janitor \in Actors
    /\ Sessions \subseteq Actors
    /\ User \notin Sessions /\ Finisher \notin Sessions /\ Janitor \notin Sessions
    /\ User # Finisher /\ User # Janitor /\ Finisher # Janitor
BY CheckpointAssumption DEF Actors

\* Git's tables, as far as they do not grow.
LEMMA GitUnchanged ==
    ASSUME GitOK, UNCHANGED <<disk, index, repo, alive, head, before, reapplyId>>
    PROVE  GitOK'
BY DEF GitOK

\* Git's tables after a step that commits.
LEMMA GitGrows ==
    ASSUME GitOK,
           disk' \in Tree, index' \in Tree,
           repo' \in Seq(CommitRecord), Len(repo) <= Len(repo'),
           \A i \in 1..Len(repo') : repo'[i].parent \in 0..Len(repo'),
           alive' \subseteq 1..Len(repo'), head' \in alive',
           UNCHANGED before,
           reapplyId' \in {reapplyId, head'}
    PROVE  GitOK'
<1>1. Len(repo) \in Nat /\ Len(repo') \in Nat
  BY DEF GitOK
<1>2. 0..Len(repo) \subseteq 0..Len(repo') /\ 1..Len(repo') \subseteq 0..Len(repo')
  BY <1>1
<1>3. before' \in 0..Len(repo')
  BY <1>2 DEF GitOK
<1>4. reapplyId' \in 0..Len(repo')
  BY <1>2 DEF GitOK
<1> QED BY <1>3, <1>4 DEF GitOK

\* What a tree of the repository has of a file.
LEMMA TreeHolds ==
    ASSUME GitOK, NEW f \in Files, NEW i \in 1..Len(repo)
    PROVE  repo[i].tree[f] \in Contents \cup {Gone}
BY Trees DEF Tree

\* Restoring one file.
LEMMA RestoreKeeps ==
    ASSUME GitOK, NEW f \in Files, NEW c \in Contents \cup {Gone}, Restore(f, c)
    PROVE  GitOK'
<1>1. disk' \in Tree /\ index' \in Tree
  BY DEF Restore, GitOK, Tree
<1> QED BY <1>1 DEF GitOK, Restore

LEMMA GitStep ==
    ASSUME IInv, [Next]_vars
    PROVE  GitOK'
<1> USE DEF IInv
<1>1. CASE UNCHANGED vars
  BY <1>1, GitUnchanged DEF vars, git
<1>2. ASSUME NEW f \in Files, UserWrites(f) \/ \E s \in Sessions : AiWrites(s, f)
      PROVE  GitOK'
  <2>1. disk' \in Tree
    BY <1>2 DEF UserWrites, AiWrites, GitOK, Tree
  <2>2. UNCHANGED <<index, repo, alive, head, before, reapplyId>>
    BY <1>2 DEF UserWrites, AiWrites, git
  <2> QED BY <2>1, <2>2 DEF GitOK
<1>3. CASE EventStep
  BY <1>3, GitUnchanged DEF EventStep, HandleChange, DebounceFires, RecordChange, git
<1>4. ASSUME NEW s \in Sessions,
             \/ StartMessage(s) \/ StartWatching(s) \/ TurnSucceeds(s)
             \/ TurnFails(s) \/ StopAfterFailure(s)
      PROVE  GitOK'
  <2>1. UNCHANGED <<disk, index, repo, alive, head, before, reapplyId>>
    BY <1>4 DEF StartMessage, StartWatching, TurnSucceeds, TurnFails,
                StopAfterFailure, git
  <2> QED BY <2>1, GitUnchanged
<1>5. ASSUME NEW s \in Sessions, StaysWatching(s)
      PROVE  GitOK'
  BY <1>5 DEF StaysWatching, GitOK, git
<1>6. ASSUME NEW s \in Sessions, StageBaseline(s)
      PROVE  GitOK'
  <2>1. /\ StageAll("baseline") /\ "baseline" \in Kinds
        /\ UNCHANGED <<disk, before, reapplyId>>
    BY <1>6 DEF StageBaseline, Kinds
  <2>2. disk' \in Tree /\ index' \in Tree
    BY <2>1, StageAllKeeps DEF GitOK
  <2> QED BY <2>1, <2>2, StageAllKeeps, GitGrows
<1>7. ASSUME NEW s \in Sessions, BeginWatch(s)
      PROVE  GitOK'
  <2>1. head \in 0..Len(repo)
    BY DEF GitOK
  <2> QED BY <1>7, <2>1 DEF BeginWatch, GitOK, git
<1>8. CASE BeginFinish \/ Flushed \/ NothingToCommit \/ FinishFails
  <2>1. UNCHANGED <<disk, index, repo, alive, head, before, reapplyId>>
    BY <1>8 DEF BeginFinish, Flushed, NothingToCommit, FinishFails, git
  <2> QED BY <2>1, GitUnchanged
<1>9. CASE AddChanges
  <2>1. index' \in Tree
    BY <1>9 DEF AddChanges, Staged, GitOK, Tree
  <2> QED BY <1>9, <2>1 DEF AddChanges, GitOK
<1>10. CASE CommitChanges
  <2>1. /\ Commit(index, "turn") /\ "turn" \in Kinds /\ index \in Tree
        /\ UNCHANGED <<disk, index, before, reapplyId>>
    BY <1>10 DEF CommitChanges, Kinds, GitOK
  <2>2. disk' \in Tree /\ index' \in Tree
    BY <2>1 DEF GitOK
  <2> QED BY <2>1, <2>2, CommitKeeps, GitGrows
<1>11. CASE MaintenanceDue \/ GiveCommand \/ CommandQueued \/ CheckGuard \/ CommandRefused
  <2>1. UNCHANGED <<disk, index, repo, alive, head, before, reapplyId>>
    BY <1>11 DEF MaintenanceDue, GiveCommand, CommandQueued, CheckGuard,
                 CommandRefused, git
  <2> QED BY <2>1, GitUnchanged
<1>12. CASE Maintain
  <2>1. head \in Ancestors /\ Ancestors \subseteq 1..Len(repo)
    BY DEF Ancestors, Closed, GitOK
  <2>2. alive' \subseteq 1..Len(repo) /\ head \in alive'
    BY <1>12, <2>1 DEF Maintain, GitOK
  <2> QED BY <1>12, <2>2 DEF Maintain, GitOK
<1>13. CASE SaveBeforeRollback
  <2>1. /\ StageAll("reapply") /\ "reapply" \in Kinds /\ reapplyId' = head'
        /\ UNCHANGED <<disk, before>>
    BY <1>13 DEF SaveBeforeRollback, Kinds
  <2>2. disk' \in Tree /\ index' \in Tree
    BY <2>1, StageAllKeeps DEF GitOK
  <2> QED BY <2>1, <2>2, StageAllKeeps, GitGrows
<1>14. CASE RollbackTo
  <2>1. /\ order.id \in alive /\ disk' = Reset(repo[order.id].tree)
        /\ index' = repo[order.id].tree /\ head' = order.id
        /\ UNCHANGED <<repo, alive, before, reapplyId>>
    BY <1>14 DEF RollbackTo
  <2>2. repo[order.id].tree \in Tree
    BY <2>1, Trees DEF GitOK
  <2>3. disk' \in Tree
    BY <2>1, <2>2 DEF Reset, GitOK, Tree
  <2> QED BY <2>1, <2>2, <2>3 DEF GitOK
<1>15. CASE RevertGuarded
  <2>1. order.cmd = "guarded"
    BY <1>15 DEF RevertGuarded, OrderOK
  <2>2. repo[order.id].parent \in 1..Len(repo) /\ order.file \in Files
    BY <2>1 DEF OrderOK, GitOK
  <2> QED BY <1>15, <2>2, TreeHolds, RestoreKeeps DEF RevertGuarded
<1>16. CASE RevertPlain
  <2>1. order.file \in Files /\ alive \subseteq 1..Len(repo)
    BY <1>16 DEF RevertPlain, GitOK, OrderOK
  <2>2. InBase(order.file) \in Contents \cup {Gone}
    BY <2>1, TreeHolds DEF InBase
  <2> QED BY <1>16, <2>1, <2>2, RestoreKeeps DEF RevertPlain
<1>17. CASE Reapply
  <2>1. head \in 1..Len(repo) /\ order.file \in Files
    BY <1>17 DEF GitOK, OrderOK, Reapply
  <2> QED BY <1>17, <2>1, TreeHolds, RestoreKeeps DEF Reapply
<1> QED BY <1>1, <1>2, <1>3, <1>4, <1>5, <1>6, <1>7, <1>8, <1>9, <1>10, <1>11,
           <1>12, <1>13, <1>14, <1>15, <1>16, <1>17
        DEF Next, Edit, Turn, Begins, Finish, Runs

-----------------------------------------------------------------------------
\* One actor moves, and the lock goes with the move.
LEMMA ActorMoves ==
    ASSUME ActorsOK, NEW a \in Actors, NEW p \in Places,
           pc' = [pc EXCEPT ![a] = p],
           chain' \in Seq(Sessions), awaits' \in [Actors -> Nat], WatchOK',
           pc'[Finisher] # "idle" => chain' # <<>>,
           \/ UNCHANGED queue /\ (p \in Working => Holds(a))
           \/ Enqueue(a) /\ p \notin Working
           \/ Release /\ Holds(a) /\ p \notin Working
    PROVE  ActorsOK'
<1>1. pc' \in [Actors -> Places] /\ \A b \in Actors \ {a} : pc'[b] = pc[b]
  BY DEF ActorsOK
<1>2. pc'[a] = p
  BY DEF ActorsOK
<1>3. CASE UNCHANGED queue /\ (p \in Working => Holds(a))
  <2>1. \A b \in Actors : Holds(b)' <=> Holds(b)
    BY <1>3 DEF Holds
  <2>2. queue' \in Seq(Actors)
    BY <1>3 DEF ActorsOK
  <2>3. ASSUME NEW b \in Actors, pc'[b] \in Working
        PROVE  Holds(b)'
    BY <1>1, <1>2, <1>3, <2>1, <2>3 DEF ActorsOK
  <2> QED BY <1>1, <2>2, <2>3 DEF ActorsOK
<1>4. CASE Enqueue(a) /\ p \notin Working
  <2>1. queue' \in Seq(Actors) /\ \A b \in Actors : Holds(b) => Holds(b)'
    BY <1>4, LockFacts
  <2>2. ASSUME NEW b \in Actors, pc'[b] \in Working
        PROVE  Holds(b)'
    BY <1>1, <1>2, <1>4, <2>1, <2>2 DEF ActorsOK
  <2> QED BY <1>1, <2>1, <2>2 DEF ActorsOK
<1>5. CASE Release /\ Holds(a) /\ p \notin Working
  <2>1. queue' \in Seq(Actors)
    BY <1>5, LockFacts
  <2>2. \A b \in Actors \ {a} : pc[b] \notin Working
    BY <1>5, OneWorks
  <2>3. \A b \in Actors : pc'[b] \notin Working
    BY <1>1, <1>2, <1>5, <2>2
  <2> QED BY <1>1, <2>1, <2>3 DEF ActorsOK
<1> QED BY <1>3, <1>4, <1>5

LEMMA ActorsUnchanged ==
    ASSUME ActorsOK, UNCHANGED <<queue, chain, pc, awaits, watching, subs, ownSub>>
    PROVE  ActorsOK'
BY DEF ActorsOK, WatchOK, Holds

LEMMA StopsWatching ==
    ASSUME WatchOK, StopWatching
    PROVE  WatchOK'
<1>1. CASE ownSub
  <2>1. subs \in Nat /\ subs > 0 /\ subs' = subs - 1
    BY <1>1 DEF WatchOK, StopWatching
  <2>2. subs' \in Nat
    BY <2>1
  <2> QED BY <2>2 DEF WatchOK, StopWatching
<1>2. CASE ~ownSub
  BY <1>2 DEF WatchOK, StopWatching
<1> QED BY <1>1, <1>2

\* The snapshot at the head of the chain is done, well or badly.
LEMMA SnapshotDone ==
    ASSUME ActorsOK, JobDone, Holds(Finisher), pc[Finisher] # "idle", WatchOK'
    PROVE  ActorsOK'
<1>1. /\ chain \in Seq(Sessions) /\ chain # <<>> /\ awaits \in [Actors -> Nat]
      /\ chain' = Tail(chain) /\ Release
      /\ awaits' = [a \in Actors |-> IF awaits[a] > 0 THEN awaits[a] - 1 ELSE 0]
      /\ pc' = [pc EXCEPT ![Finisher] = "idle"] /\ pc \in [Actors -> Places]
  BY DEF ActorsOK, JobDone
<1>2. chain' \in Seq(Sessions)
  BY <1>1
<1>3. awaits' \in [Actors -> Nat]
  BY <1>1
<1>4. Finisher \in Actors /\ "idle" \in Places /\ "idle" \notin Working
  BY ActorsApart DEF Places, Working
<1>5. pc'[Finisher] = "idle"
  BY <1>1, <1>4
<1> QED BY <1>1, <1>2, <1>3, <1>4, <1>5, ActorMoves

LEMMA ActorsStep ==
    ASSUME IInv, [Next]_vars
    PROVE  ActorsOK'
<1> USE DEF IInv, Working
<1>1. CASE UNCHANGED vars
  BY <1>1, ActorsUnchanged DEF vars, watch
<1>2. CASE Edit \/ EventStep
  BY <1>2, ActorsUnchanged DEF Edit, EventStep, UserWrites, AiWrites, HandleChange,
     DebounceFires, RecordChange, watch
<1>3. ASSUME NEW s \in Sessions, Turn(s)
      PROVE  ActorsOK'
  <2>1. /\ s \in Actors /\ s # Finisher /\ chain \in Seq(Sessions)
        /\ WatchOK /\ awaits \in [Actors -> Nat] /\ pc \in [Actors -> Places]
        /\ pc[Finisher] # "idle" => chain # <<>>
        /\ Len(chain) \in Nat
    BY ActorsApart DEF ActorsOK
  <2>2. ASSUME NEW p \in Places, pc' = [pc EXCEPT ![s] = p]
        PROVE  pc'[Finisher] = pc[Finisher]
    BY <2>1, <2>2
  <2>3. CASE StartMessage(s) \/ TurnFails(s)
    <3>1. PICK p \in {"settling", "stopping"} : pc' = [pc EXCEPT ![s] = p]
      BY <2>3 DEF StartMessage, TurnFails
    <3>2. awaits' = [awaits EXCEPT ![s] = Len(chain)] /\ UNCHANGED <<queue, chain, watch>>
      BY <2>3 DEF StartMessage, TurnFails
    <3>3. p \in Places
      BY <3>1 DEF Places
    <3>4. awaits' \in [Actors -> Nat] /\ WatchOK'
      BY <2>1, <3>2 DEF WatchOK, watch
    <3> QED BY <2>1, <2>2, <3>1, <3>2, <3>3, <3>4, ActorMoves
  <2>4. CASE StaysWatching(s)
    <3>1. pc' = [pc EXCEPT ![s] = "running"] /\ "running" \in Places
      BY <2>4 DEF StaysWatching, Places
    <3>2. UNCHANGED <<queue, chain, awaits>> /\ WatchOK'
      BY <2>1, <2>4 DEF StaysWatching, watch, WatchOK
    <3> QED BY <2>1, <2>2, <3>1, <3>2, ActorMoves
  <2>5. CASE StartWatching(s)
    <3>1. pc' = [pc EXCEPT ![s] = "baseline"] /\ "baseline" \in Places /\ Enqueue(s)
      BY <2>5 DEF StartWatching, Places
    <3>2. UNCHANGED <<chain, awaits>> /\ WatchOK'
      BY <2>1, <2>5 DEF StartWatching, watch, WatchOK
    <3> QED BY <2>1, <2>2, <3>1, <3>2, ActorMoves
  <2>6. CASE StageBaseline(s)
    <3>1. pc' = [pc EXCEPT ![s] = "staged"] /\ "staged" \in Places /\ Holds(s)
      BY <2>6 DEF StageBaseline, Places
    <3>2. UNCHANGED <<queue, chain, awaits>> /\ WatchOK'
      BY <2>1, <2>6 DEF StageBaseline, watch, WatchOK
    <3> QED BY <2>1, <2>2, <3>1, <3>2, ActorMoves
  <2>7. CASE BeginWatch(s)
    <3>1. pc' = [pc EXCEPT ![s] = "running"] /\ "running" \in Places /\ Release
      BY <2>7 DEF BeginWatch, Places
    <3>2. Holds(s)
      BY <2>1, <2>7 DEF BeginWatch, ActorsOK
    <3>3. UNCHANGED <<chain, awaits>> /\ WatchOK'
      BY <2>1, <2>7 DEF BeginWatch, WatchOK
    <3> QED BY <2>1, <2>2, <3>1, <3>2, <3>3, ActorMoves
  <2>8. CASE TurnSucceeds(s)
    <3>1. /\ pc' = [pc EXCEPT ![s] = "idle"] /\ "idle" \in Places
          /\ chain' = Append(chain, s)
      BY <2>8 DEF TurnSucceeds, Places
    <3>2. UNCHANGED <<queue, awaits>> /\ WatchOK'
      BY <2>1, <2>8 DEF TurnSucceeds, watch, WatchOK
    <3>3. chain' \in Seq(Sessions) /\ chain' # <<>>
      BY <2>1, <3>1
    <3> QED BY <2>1, <2>2, <3>1, <3>2, <3>3, ActorMoves
  <2>9. CASE StopAfterFailure(s)
    <3>1. pc' = [pc EXCEPT ![s] = "idle"] /\ "idle" \in Places /\ StopWatching
      BY <2>9 DEF StopAfterFailure, Places
    <3>2. UNCHANGED <<queue, chain, awaits>> /\ WatchOK'
      BY <2>1, <2>9, <3>1, StopsWatching DEF StopAfterFailure
    <3> QED BY <2>1, <2>2, <3>1, <3>2, ActorMoves
  <2> QED BY <1>3, <2>3, <2>4, <2>5, <2>6, <2>7, <2>8, <2>9 DEF Turn, Begins
<1>4. CASE Finish
  <2>1. /\ Finisher \in Actors /\ WatchOK /\ chain \in Seq(Sessions)
        /\ awaits \in [Actors -> Nat] /\ pc \in [Actors -> Places]
        /\ pc[Finisher] # "idle" => chain # <<>>
    BY ActorsApart DEF ActorsOK
  <2>2. CASE BeginFinish
    <3>1. /\ pc' = [pc EXCEPT ![Finisher] = "flush"] /\ "flush" \in Places
          /\ chain # <<>> /\ UNCHANGED <<queue, chain, awaits>> /\ WatchOK'
      BY <2>1, <2>2 DEF BeginFinish, watch, WatchOK, Places
    <3> QED BY <2>1, <3>1, ActorMoves
  <2>3. CASE Flushed
    <3>1. PICK p \in {"readHead", "add"} : pc' = [pc EXCEPT ![Finisher] = p]
      BY <2>3 DEF Flushed
    <3>2. /\ p \in Places /\ chain # <<>> /\ Enqueue(Finisher)
          /\ UNCHANGED <<chain, awaits>> /\ WatchOK'
      BY <2>1, <2>3 DEF Flushed, watch, WatchOK, Places
    <3> QED BY <2>1, <3>1, <3>2, ActorMoves
  <2>4. CASE AddChanges
    <3>1. /\ pc' = [pc EXCEPT ![Finisher] = "commit"] /\ "commit" \in Places
          /\ chain # <<>> /\ Holds(Finisher)
          /\ UNCHANGED <<queue, chain, awaits>> /\ WatchOK'
      BY <2>1, <2>4 DEF AddChanges, watch, WatchOK, Places
    <3> QED BY <2>1, <3>1, ActorMoves
  <2>5. CASE CommitChanges
    <3>1. pc[Finisher] = "commit" /\ Holds(Finisher)
      BY <2>1, <2>5 DEF CommitChanges, ActorsOK
    <3>2. JobDone /\ StopWatching
      BY <2>5 DEF CommitChanges
    <3> QED BY <2>1, <3>1, <3>2, StopsWatching, SnapshotDone
  <2>6. CASE NothingToCommit
    <3>1. /\ pc[Finisher] = "readHead" /\ Holds(Finisher) /\ JobDone /\ StopWatching
      BY <2>6 DEF NothingToCommit
    <3> QED BY <2>1, <3>1, StopsWatching, SnapshotDone
  <2>7. CASE FinishFails
    <3>1. pc[Finisher] = "add" /\ Holds(Finisher) /\ JobDone
      BY <2>7 DEF FinishFails
    <3>2. WatchOK'
      BY <2>1, <2>7 DEF FinishFails, watch, WatchOK
    <3> QED BY <2>1, <3>1, <3>2, SnapshotDone
  <2> QED BY <1>4, <2>2, <2>3, <2>4, <2>5, <2>6, <2>7 DEF Finish
<1>5. CASE MaintenanceDue \/ Maintain
  <2>1. /\ Janitor \in Actors /\ Janitor # Finisher /\ WatchOK
        /\ pc \in [Actors -> Places] /\ awaits \in [Actors -> Nat]
        /\ chain \in Seq(Sessions)
        /\ pc[Finisher] # "idle" => chain # <<>>
    BY ActorsApart DEF ActorsOK
  <2>2. /\ UNCHANGED <<chain, awaits>> /\ WatchOK'
    BY <1>5, <2>1 DEF MaintenanceDue, Maintain, watch, WatchOK
  <2>3. PICK p \in {"queued", "idle"} :
           /\ pc' = [pc EXCEPT ![Janitor] = p]
           /\ Enqueue(Janitor) \/ (Release /\ Holds(Janitor))
    BY <1>5 DEF MaintenanceDue, Maintain
  <2>4. p \in Places /\ pc'[Finisher] = pc[Finisher]
    BY <2>1, <2>3 DEF Places
  <2> QED BY <2>1, <2>2, <2>3, <2>4, ActorMoves
<1>6. CASE GiveCommand \/ Runs
  <2>1. /\ User \in Actors /\ User # Finisher /\ WatchOK
        /\ pc \in [Actors -> Places] /\ awaits \in [Actors -> Nat]
        /\ chain \in Seq(Sessions)
        /\ pc[Finisher] # "idle" => chain # <<>>
        /\ Len(chain) \in Nat
    BY ActorsApart DEF ActorsOK
  <2>2. chain' = chain /\ WatchOK'
    BY <1>6, <2>1 DEF GiveCommand, Runs, CommandQueued, SaveBeforeRollback, RollbackTo,
       CheckGuard, RevertGuarded, RevertPlain, Reapply, Restore, CommandRefused,
       watch, WatchOK
  <2>3. ASSUME NEW p \in Places, pc' = [pc EXCEPT ![User] = p]
        PROVE  pc'[Finisher] = pc[Finisher]
    BY <2>1, <2>3
  <2>4. CASE GiveCommand
    <3>1. /\ pc' = [pc EXCEPT ![User] = "settling"] /\ "settling" \in Places
          /\ awaits' = [awaits EXCEPT ![User] = Len(chain)] /\ queue' = queue
      BY <2>4 DEF GiveCommand, Places
    <3>2. awaits' \in [Actors -> Nat]
      BY <2>1, <3>1
    <3> QED BY <2>1, <2>2, <2>3, <3>1, <3>2, ActorMoves
  <2>5. CASE CommandQueued
    <3>1. /\ pc' = [pc EXCEPT ![User] = "queued"] /\ "queued" \in Places
          /\ Enqueue(User) /\ awaits' = awaits
      BY <2>5 DEF CommandQueued, Places
    <3> QED BY <2>1, <2>2, <2>3, <3>1, ActorMoves
  <2>6. CASE SaveBeforeRollback \/ CheckGuard
    <3>1. PICK p \in {"saved", "checked"} : pc' = [pc EXCEPT ![User] = p]
      BY <2>6 DEF SaveBeforeRollback, CheckGuard
    <3>2. p \in Places /\ Holds(User) /\ queue' = queue /\ awaits' = awaits
      BY <2>6, <3>1 DEF SaveBeforeRollback, CheckGuard, Places
    <3> QED BY <2>1, <2>2, <2>3, <3>1, <3>2, ActorMoves
  <2>7. CASE RollbackTo \/ RevertGuarded \/ RevertPlain \/ Reapply \/ CommandRefused
    <3>1. CommandDone /\ awaits' = awaits
      BY <2>7 DEF RollbackTo, RevertGuarded, RevertPlain, Reapply, Restore,
                  CommandRefused
    <3>2. pc[User] \in Working \/ Holds(User)
      BY <2>7 DEF RollbackTo, RevertGuarded, RevertPlain, Reapply, CommandRefused
    <3>3. Holds(User)
      BY <2>1, <3>2 DEF ActorsOK
    <3>4. /\ pc' = [pc EXCEPT ![User] = "idle"] /\ "idle" \in Places /\ Release
      BY <3>1 DEF CommandDone, Places
    <3> QED BY <2>1, <2>2, <2>3, <3>1, <3>3, <3>4, ActorMoves
  <2> QED BY <1>6, <2>4, <2>5, <2>6, <2>7 DEF Runs
<1> QED BY <1>1, <1>2, <1>3, <1>4, <1>5, <1>6 DEF Next

-----------------------------------------------------------------------------
LEMMA ChangesAreChanges ==
    ASSUME NEW from, NEW to
    PROVE  Changes(from, to) \subseteq Change
<1> SUFFICES ASSUME NEW e \in Changes(from, to) PROVE e \in Change
  OBVIOUS
<1>1. PICK f \in Files :
         e = [kind |-> IF to[f] = Gone THEN "delete" ELSE "write", path |-> f]
  BY DEF Changes
<1> QED BY <1>1 DEF Change

LEMMA DirChangesAreChanges ==
    ASSUME NEW from, NEW to
    PROVE  DirChanges(from, to) \subseteq Change
<1> SUFFICES ASSUME NEW e \in DirChanges(from, to) PROVE e \in Change
  OBVIOUS
<1>1. PICK d \in Dirs :
         e = [kind |-> IF Empty(from, d) THEN "mkdir" ELSE "rmdir", path |-> d]
  BY DEF DirChanges
<1> QED BY <1>1 DEF Change

LEMMA SeenAreChanges ==
    ASSUME unseen \subseteq Change, WatcherSees
    PROVE  unseen' \subseteq Change
<1>1. PICK D \in SUBSET DirChanges(disk, disk') :
         unseen' = unseen \cup Changes(disk, disk') \cup D
  BY DEF WatcherSees
<1> QED BY <1>1, ChangesAreChanges, DirChangesAreChanges

LEMMA StagedAreFiles ==
    ASSUME EventsOK
    PROVE  ToAdd \cup ToRm \subseteq Files
<1>1. Recorded("write") \cup Recorded("delete") \subseteq Files
  BY DEF Recorded, EventsOK, Change
<1>2. Recorded("mkdir") \subseteq Dirs
  BY DEF Recorded, EventsOK, Change
<1>3. \A d \in Recorded("mkdir") : Inside[d] \subseteq Files
  BY <1>2, CheckpointAssumption
<1>4. UNION {Inside[d] : d \in Recorded("mkdir")} \subseteq Files
  BY <1>3
<1> QED BY <1>1, <1>4 DEF ToAdd, ToRm

LEMMA EventsStep ==
    ASSUME IInv, [Next]_vars
    PROVE  EventsOK'
<1> USE DEF IInv
<1>1. CASE UNCHANGED vars
  BY <1>1 DEF vars, events, EventsOK
<1>2. CASE Edit
  <2>1. PICK f \in Files :
           /\ dirty' = dirty \cup {f}
           /\ WatcherSees
           /\ UNCHANGED <<debounce, recording, flushing, buffer, timer, added>>
    BY <1>2 DEF Edit, UserWrites, AiWrites
  <2>2. unseen' \subseteq Change
    BY <2>1, SeenAreChanges DEF EventsOK
  <2> QED BY <2>1, <2>2 DEF EventsOK
<1>3. CASE EventStep
  <2>1. PICK e \in Change : HandleChange(e) \/ DebounceFires(e) \/ RecordChange(e)
    BY <1>3 DEF EventStep
  <2>2. UNCHANGED <<timer, dirty, added>>
    BY <2>1 DEF HandleChange, DebounceFires, RecordChange
  <2>3. CASE HandleChange(e)
    BY <2>2, <2>3 DEF HandleChange, EventsOK
  <2>4. CASE DebounceFires(e)
    BY <2>2, <2>4 DEF DebounceFires, EventsOK
  <2>5. CASE RecordChange(e)
    BY <2>2, <2>5 DEF RecordChange, EventsOK
  <2> QED BY <2>1, <2>3, <2>4, <2>5
<1>4. ASSUME NEW s \in Sessions, Turn(s)
      PROVE  EventsOK'
  <2>1. /\ UNCHANGED <<unseen, recording, flushing, timer, dirty, added>>
        /\ debounce' \in {debounce, {}} /\ buffer' \in {buffer, {}}
    BY <1>4 DEF Turn, Begins, StartMessage, StaysWatching, StartWatching, StageBaseline,
       BeginWatch, TurnSucceeds, TurnFails, StopAfterFailure, StopWatching, events
  <2> QED BY <2>1 DEF EventsOK
<1>5. CASE Finish
  <2>1. CASE BeginFinish
    BY <2>1 DEF BeginFinish, EventsOK
  <2>2. CASE Flushed \/ NothingToCommit \/ FinishFails
    <3>1. /\ UNCHANGED <<unseen, recording, flushing, timer, dirty, added>>
          /\ debounce' \in {debounce, {}} /\ buffer' \in {buffer, {}}
      BY <2>2 DEF Flushed, NothingToCommit, FinishFails, StopWatching, events
    <3> QED BY <3>1 DEF EventsOK
  <2>3. CASE AddChanges
    <3>1. ToAdd \cup ToRm \subseteq Files
      BY StagedAreFiles
    <3>2. added' \subseteq Files /\ UNCHANGED <<events, buffer, timer, dirty>>
      BY <2>3, <3>1 DEF AddChanges
    <3> QED BY <3>2 DEF events, EventsOK
  <2>4. CASE CommitChanges
    <3>1. /\ UNCHANGED <<unseen, recording, flushing, dirty, added>>
          /\ debounce' = {} /\ buffer' = {} /\ timer' \in BOOLEAN
      BY <2>4 DEF CommitChanges, StopWatching
    <3> QED BY <3>1 DEF EventsOK
  <2> QED BY <1>5, <2>1, <2>2, <2>3, <2>4 DEF Finish
<1>6. CASE MaintenanceDue \/ Maintain \/ GiveCommand
  <2>1. /\ UNCHANGED <<events, buffer, dirty, added>>
        /\ timer' = timer \/ timer' = FALSE
    BY <1>6 DEF MaintenanceDue, Maintain, GiveCommand
  <2> QED BY <2>1 DEF events, EventsOK
<1>7. CASE Runs
  <2>1. /\ dirty' \in {dirty, {}, Residue} /\ buffer' \in {buffer, {}}
        /\ UNCHANGED <<debounce, recording, flushing, timer, added>>
    BY <1>7 DEF Runs, CommandQueued, SaveBeforeRollback, RollbackTo, CheckGuard,
       RevertGuarded, RevertPlain, Reapply, Restore, CommandRefused, events
  <2>2. unseen' = unseen \/ WatcherSees
    BY <1>7 DEF Runs, CommandQueued, SaveBeforeRollback, RollbackTo, CheckGuard,
       RevertGuarded, RevertPlain, Reapply, Restore, CommandRefused, events
  <2>3. unseen' \subseteq Change
    BY <2>2, SeenAreChanges DEF EventsOK
  <2> QED BY <2>1, <2>3 DEF EventsOK, Residue
<1> QED BY <1>1, <1>2, <1>3, <1>4, <1>5, <1>6, <1>7 DEF Next

-----------------------------------------------------------------------------
\* The commits are those of a baseline, of a turn and before a rollback.
LEMMA WhoCommits ==
    ASSUME [Next]_vars
    PROVE  \/ repo' = repo \/ \E s \in Sessions : StageBaseline(s)
           \/ SaveBeforeRollback \/ CommitChanges
BY DEF Next, Edit, UserWrites, AiWrites, EventStep, HandleChange, DebounceFires,
   RecordChange, Turn, Begins, StartMessage, StaysWatching, StartWatching, BeginWatch,
   TurnSucceeds, TurnFails, StopAfterFailure, Finish, BeginFinish, Flushed, AddChanges,
   NothingToCommit, FinishFails, MaintenanceDue, Maintain, GiveCommand, Runs,
   CommandQueued, RollbackTo, CheckGuard, RevertGuarded, RevertPlain, Reapply, Restore,
   CommandRefused, git, vars

\* Commits are added and never changed.
LEMMA RepoGrows ==
    ASSUME IInv, [Next]_vars
    PROVE  /\ Len(repo) \in Nat /\ Len(repo') \in Nat /\ Len(repo) <= Len(repo')
           /\ \A i \in 1..Len(repo) : repo'[i] = repo[i]
<1> USE DEF IInv
<1>1. Len(repo) \in Nat
  BY DEF GitOK
<1>2. CASE repo' = repo
  BY <1>1, <1>2
<1>3. ASSUME NEW s \in Sessions, StageBaseline(s)
      PROVE  Len(repo) <= Len(repo') /\ \A i \in 1..Len(repo) : repo'[i] = repo[i]
  <2>1. StageAll("baseline") /\ "baseline" \in Kinds
    BY <1>3 DEF StageBaseline, Kinds
  <2> QED BY <2>1, StageAllKeeps
<1>4. ASSUME SaveBeforeRollback
      PROVE  Len(repo) <= Len(repo') /\ \A i \in 1..Len(repo) : repo'[i] = repo[i]
  <2>1. StageAll("reapply") /\ "reapply" \in Kinds
    BY <1>4 DEF SaveBeforeRollback, Kinds
  <2> QED BY <2>1, StageAllKeeps
<1>5. ASSUME CommitChanges
      PROVE  Len(repo) <= Len(repo') /\ \A i \in 1..Len(repo) : repo'[i] = repo[i]
  <2>1. Commit(index, "turn") /\ "turn" \in Kinds /\ index \in Tree
    BY <1>5 DEF CommitChanges, Kinds, GitOK
  <2> QED BY <2>1, CommitKeeps
<1>6. \/ repo' = repo \/ \E s \in Sessions : StageBaseline(s)
      \/ SaveBeforeRollback \/ CommitChanges
  BY WhoCommits
<1>7. Len(repo') \in Nat
  BY GitStep DEF GitOK
<1> QED BY <1>1, <1>2, <1>3, <1>4, <1>5, <1>6, <1>7

LEMMA OrdersAreOrders ==
    ASSUME IInv, NEW o \in Orders
    PROVE  /\ o \in Order
           /\ o.cmd = "guarded" => o.id \in 1..Len(repo) /\ repo[o.id].parent # 0
           /\ o.cmd \in {"guarded", "plain", "reapply"} => o.file \in Files
<1>1. Len(repo) \in Nat
  BY DEF IInv, GitOK
<1>2. 1..Len(repo) \subseteq Nat /\ 0 \in Nat
  BY <1>1
<1>3. CASE o \in [cmd : Commands \cap {"rollback"}, id : 1 .. Len(repo), file : {Gone}]
  BY <1>2, <1>3 DEF Order
<1>4. CASE o \in {q \in [cmd : Commands \cap {"guarded"}, id : 1 .. Len(repo), file : Files] :
                    repo[q.id].kind = "turn" /\ Differs(q.id, q.file)}
  BY <1>2, <1>4 DEF Order, Differs
<1>5. CASE o \in [cmd : Commands \cap {"plain", "reapply"}, id : {0}, file : Files]
  BY <1>2, <1>5 DEF Order
<1> QED BY <1>3, <1>4, <1>5 DEF Orders

LEMMA OrderStep ==
    ASSUME IInv, [Next]_vars
    PROVE  OrderOK'
<1> USE DEF IInv
<1>0. User \in Actors /\ pc \in [Actors -> Places]
  BY ActorsApart DEF ActorsOK
<1>1. ASSUME order' = order, pc'[User] = "checked" => order.cmd = "guarded"
      PROVE  OrderOK'
  <2>1. order.id \in 1..Len(repo) =>
           order.id \in 1..Len(repo') /\ repo'[order.id] = repo[order.id]
    BY RepoGrows
  <2> QED BY <1>1, <2>1 DEF OrderOK
<1>2. CASE UNCHANGED vars
  BY <1>1, <1>2 DEF vars, OrderOK
<1>3. CASE Edit \/ EventStep
  <2>1. order' = order /\ pc' = pc
    BY <1>3 DEF Edit, UserWrites, AiWrites, EventStep, HandleChange, DebounceFires,
       RecordChange
  <2> QED BY <1>1, <2>1 DEF OrderOK
<1>4. ASSUME NEW s \in Sessions, Turn(s)
      PROVE  OrderOK'
  <2>1. order' = order /\ \E p \in Places : pc' = [pc EXCEPT ![s] = p]
    BY <1>4 DEF Turn, Begins, StartMessage, StaysWatching, StartWatching, StageBaseline,
       BeginWatch, TurnSucceeds, TurnFails, StopAfterFailure, Places
  <2>2. pc'[User] = pc[User]
    BY <1>0, <2>1, ActorsApart
  <2> QED BY <1>1, <2>1, <2>2 DEF OrderOK
<1>5. CASE Finish
  <2>1. order' = order /\ \E p \in Places : pc' = [pc EXCEPT ![Finisher] = p]
    BY <1>5 DEF Finish, BeginFinish, Flushed, AddChanges, CommitChanges, NothingToCommit,
       FinishFails, JobDone, Places
  <2>2. pc'[User] = pc[User]
    BY <1>0, <2>1, ActorsApart
  <2> QED BY <1>1, <2>1, <2>2 DEF OrderOK
<1>6. CASE MaintenanceDue \/ Maintain
  <2>1. order' = order /\ \E p \in Places : pc' = [pc EXCEPT ![Janitor] = p]
    BY <1>6 DEF MaintenanceDue, Maintain, Places
  <2>2. pc'[User] = pc[User]
    BY <1>0, <2>1, ActorsApart
  <2> QED BY <1>1, <2>1, <2>2 DEF OrderOK
<1>7. CASE GiveCommand
  <2>1. order' \in Orders /\ pc'[User] = "settling" /\ repo' = repo
    BY <1>0, <1>7 DEF GiveCommand, git
  <2> QED BY <2>1, OrdersAreOrders DEF OrderOK
<1>8. CASE CommandQueued \/ SaveBeforeRollback \/ CheckGuard
  <2>1. order' = order /\ pc'[User] = "checked" => order.cmd = "guarded"
    BY <1>0, <1>8 DEF CommandQueued, SaveBeforeRollback, CheckGuard
  <2>2. order' = order
    BY <1>8 DEF CommandQueued, SaveBeforeRollback, CheckGuard
  <2> QED BY <1>1, <2>1, <2>2
<1>9. CASE RollbackTo \/ RevertGuarded \/ RevertPlain \/ Reapply \/ CommandRefused
  <2>1. order' = NoOrder /\ pc'[User] = "idle"
    BY <1>0, <1>9 DEF RollbackTo, RevertGuarded, RevertPlain, Reapply, Restore,
       CommandRefused, CommandDone
  <2> QED BY <2>1 DEF OrderOK, NoOrder, Order
<1> QED BY <1>2, <1>3, <1>4, <1>5, <1>6, <1>7, <1>8, <1>9 DEF Next, Runs

-----------------------------------------------------------------------------
LEMMA SettlesUnchanged ==
    ASSUME Settles, UNCHANGED <<chain, awaits>>,
           \A s \in Sessions : \/ pc'[s] = pc[s]
                               \/ pc'[s] \notin {"settling", "baseline", "staged"}
    PROVE  Settles'
BY DEF Settles

LEMMA SettlesStep ==
    ASSUME IInv, [Next]_vars
    PROVE  Settles'
<1> USE DEF IInv
<1>0. /\ Sessions \subseteq Actors /\ User \notin Sessions /\ Finisher \notin Sessions
      /\ Janitor \notin Sessions /\ Finisher \in Actors
      /\ pc \in [Actors -> Places] /\ awaits \in [Actors -> Nat]
      /\ chain \in Seq(Sessions) /\ Len(chain) \in Nat
  BY ActorsApart DEF ActorsOK
<1>1. CASE UNCHANGED vars
  BY <1>1, SettlesUnchanged DEF vars
<1>2. CASE Edit \/ EventStep
  <2>1. UNCHANGED <<pc, chain, awaits>>
    BY <1>2 DEF Edit, UserWrites, AiWrites, EventStep, HandleChange, DebounceFires,
       RecordChange
  <2> QED BY <2>1, SettlesUnchanged
<1>3. ASSUME NEW t \in Sessions, StartMessage(t)
      PROVE  Settles'
  <2>1. /\ pc' = [pc EXCEPT ![t] = "settling"] /\ chain' = chain
        /\ awaits' = [awaits EXCEPT ![t] = Len(chain)]
    BY <1>3 DEF StartMessage
  <2>2. ASSUME NEW s \in Sessions \ {t}
        PROVE  pc'[s] = pc[s] /\ awaits'[s] = awaits[s]
    BY <1>0, <2>1
  <2>3. pc'[t] = "settling" /\ awaits'[t] = Len(chain)
    BY <1>0, <2>1
  <2>4. \A i \in 1..Len(chain) : i <= awaits'[t]
    BY <1>0, <2>3
  <2> QED BY <2>1, <2>2, <2>3, <2>4 DEF Settles
<1>4. ASSUME NEW t \in Sessions, StaysWatching(t) \/ BeginWatch(t) \/ StopAfterFailure(t)
      PROVE  Settles'
  <2>1. PICK p \in {"running", "idle"} : pc' = [pc EXCEPT ![t] = p]
    BY <1>4 DEF StaysWatching, BeginWatch, StopAfterFailure
  <2>2. UNCHANGED <<chain, awaits>>
    BY <1>4 DEF StaysWatching, BeginWatch, StopAfterFailure
  <2> QED BY <1>0, <2>1, <2>2, SettlesUnchanged
<1>5. ASSUME NEW t \in Sessions, StartWatching(t) \/ StageBaseline(t)
      PROVE  Settles'
  <2>1. PICK p \in {"baseline", "staged"} : pc' = [pc EXCEPT ![t] = p]
    BY <1>5 DEF StartWatching, StageBaseline
  <2>2. UNCHANGED <<chain, awaits>> /\ pc[t] \in {"settling", "baseline"}
    BY <1>5 DEF StartWatching, StageBaseline
  <2>3. awaits[t] = 0
    BY <1>5 DEF StartWatching, StageBaseline, Settles
  <2>4. \A s \in Sessions : s # t => pc'[s] = pc[s]
    BY <1>0, <2>1
  <2> QED BY <2>2, <2>3, <2>4 DEF Settles
<1>6. ASSUME NEW t \in Sessions, TurnSucceeds(t)
      PROVE  Settles'
  <2>1. /\ pc' = [pc EXCEPT ![t] = "idle"] /\ chain' = Append(chain, t)
        /\ awaits' = awaits
    BY <1>6 DEF TurnSucceeds
  <2>2. /\ Len(chain') = Len(chain) + 1 /\ chain'[Len(chain) + 1] = t
        /\ \A i \in 1..Len(chain) : chain'[i] = chain[i]
    BY <1>0, <2>1
  <2>3. \A i \in 1..Len(chain') : i \in 1..Len(chain) \/ i = Len(chain) + 1
    BY <1>0, <2>2
  <2>4. pc'[t] = "idle" /\ \A s \in Sessions : s # t => pc'[s] = pc[s]
    BY <1>0, <2>1
  <2> QED BY <2>1, <2>2, <2>3, <2>4 DEF Settles
<1>7. ASSUME NEW t \in Sessions, TurnFails(t)
      PROVE  Settles'
  <2>1. /\ pc' = [pc EXCEPT ![t] = "stopping"] /\ chain' = chain
        /\ awaits' = [awaits EXCEPT ![t] = Len(chain)]
    BY <1>7 DEF TurnFails
  <2>2. ASSUME NEW s \in Sessions \ {t}
        PROVE  pc'[s] = pc[s] /\ awaits'[s] = awaits[s]
    BY <1>0, <2>1
  <2>3. pc'[t] = "stopping"
    BY <1>0, <2>1
  <2> QED BY <2>1, <2>2, <2>3 DEF Settles
<1>8. CASE BeginFinish \/ Flushed \/ AddChanges
  <2>1. UNCHANGED <<chain, awaits>> /\ \E p \in Places : pc' = [pc EXCEPT ![Finisher] = p]
    BY <1>8 DEF BeginFinish, Flushed, AddChanges, Places
  <2>2. \A s \in Sessions : pc'[s] = pc[s]
    BY <1>0, <2>1
  <2> QED BY <2>1, <2>2, SettlesUnchanged
<1>9. CASE CommitChanges \/ NothingToCommit \/ FinishFails
  <2>1. JobDone /\ pc[Finisher] # "idle"
    BY <1>9 DEF CommitChanges, NothingToCommit, FinishFails
  <2>2. chain # <<>> /\ chain' = Tail(chain) /\ pc' = [pc EXCEPT ![Finisher] = "idle"]
    BY <2>1 DEF ActorsOK, JobDone
  <2>3. \A s \in Sessions : pc'[s] = pc[s]
    BY <1>0, <2>2
  <2>4. \A s \in Sessions :
           awaits'[s] = IF awaits[s] > 0 THEN awaits[s] - 1 ELSE 0
    BY <1>0, <2>1 DEF JobDone
  <2>5. /\ Len(chain') = Len(chain) - 1
        /\ \A i \in 1..Len(chain') : chain'[i] = chain[i + 1] /\ i + 1 \in 1..Len(chain)
    BY <1>0, <2>2
  <2>6. ASSUME NEW s \in Sessions, NEW i \in 1..Len(chain'), chain'[i] = s,
               pc'[s] \in {"settling", "baseline", "staged"}
        PROVE  i <= awaits'[s]
    <3>1. chain[i + 1] = s /\ i + 1 \in 1..Len(chain) /\ i \in Nat
      BY <1>0, <2>5, <2>6
    <3>2. i + 1 <= awaits[s] /\ awaits[s] \in Nat
      BY <1>0, <2>3, <2>6, <3>1 DEF Settles
    <3> QED BY <2>4, <3>1, <3>2
  <2>7. ASSUME NEW s \in Sessions, pc'[s] \in {"baseline", "staged"}
        PROVE  awaits'[s] = 0
    BY <2>3, <2>4, <2>7 DEF Settles
  <2> QED BY <2>6, <2>7 DEF Settles
<1>10. CASE MaintenanceDue \/ Maintain
  <2>1. UNCHANGED <<chain, awaits>> /\ \E p \in Places : pc' = [pc EXCEPT ![Janitor] = p]
    BY <1>10 DEF MaintenanceDue, Maintain, Places
  <2>2. \A s \in Sessions : pc'[s] = pc[s]
    BY <1>0, <2>1
  <2> QED BY <2>1, <2>2, SettlesUnchanged
<1>11. CASE GiveCommand \/ Runs
  <2>1. chain' = chain /\ \E p \in Places : pc' = [pc EXCEPT ![User] = p]
    BY <1>11 DEF GiveCommand, Runs, CommandQueued, SaveBeforeRollback, RollbackTo,
       CheckGuard, RevertGuarded, RevertPlain, Reapply, Restore, CommandRefused,
       CommandDone, Places
  <2>2. awaits' = awaits \/ awaits' = [awaits EXCEPT ![User] = Len(chain)]
    BY <1>11 DEF GiveCommand, Runs, CommandQueued, SaveBeforeRollback, RollbackTo,
       CheckGuard, RevertGuarded, RevertPlain, Reapply, Restore, CommandRefused
  <2>3. \A s \in Sessions : pc'[s] = pc[s] /\ awaits'[s] = awaits[s]
    BY <1>0, <2>1, <2>2
  <2> QED BY <2>1, <2>3 DEF Settles
<1> QED BY <1>1, <1>2, <1>3, <1>4, <1>5, <1>6, <1>7, <1>8, <1>9, <1>10, <1>11
        DEF Next, Turn, Begins, Finish

LEMMA Invariance == Spec => []IInv
<1>1. Init => IInv
  BY InitIInv
<1>2. IInv /\ [Next]_vars => IInv'
  BY GitStep, ActorsStep, EventsStep, OrderStep, SettlesStep DEF IInv
<1> QED BY <1>1, <1>2, PTL DEF Spec

\* The checkpoint's fields, git's tables and the actors' places keep their
\* types: HEAD, the baselines and the commit a rollback can reapply exist, and
\* flushing only names reads that are under way.
THEOREM TypeCorrect == Spec => []TypeOK
<1> QED BY Invariance, TypeParts, PTL

\* However turns of several sessions, snapshots in the background, maintenance
\* and commands interleave, a session's turn never begins before the snapshot
\* of its last turn is done: startMessage waits for the finishes it finds, and
\* a session adds none while it waits.
THEOREM OwnSnapshotFirstAlways == Spec => OwnSnapshotFirst
<1> DEFINE Waits == \A s \in Sessions : pc[s] # "running" /\ pc'[s] = "running" =>
                      \A i \in 1 .. Len(chain) : chain[i] # s
<1>1. ASSUME IInv, Next PROVE Waits
  <2> SUFFICES ASSUME NEW s \in Sessions, pc[s] # "running", pc'[s] = "running",
                      NEW i \in 1 .. Len(chain), chain[i] = s
               PROVE  FALSE
    OBVIOUS
  <2>1. StaysWatching(s) \/ BeginWatch(s)
    <3>0. /\ s \in Actors /\ s # User /\ s # Finisher /\ s # Janitor
          /\ pc \in [Actors -> Places]
      BY <1>1, ActorsApart DEF IInv, ActorsOK
    <3>1. CASE Edit \/ EventStep
      <4>1. pc' = pc
        BY <3>1 DEF Edit, UserWrites, AiWrites, EventStep, HandleChange, DebounceFires,
           RecordChange
      <4> QED BY <4>1
    <3>2. CASE Finish \/ MaintenanceDue \/ Maintain \/ GiveCommand \/ Runs
      <4>1. \E a \in {User, Finisher, Janitor}, p \in Places : pc' = [pc EXCEPT ![a] = p]
        BY <3>2 DEF Finish, BeginFinish, Flushed, AddChanges, CommitChanges,
           NothingToCommit, FinishFails, JobDone, MaintenanceDue, Maintain, GiveCommand,
           Runs, CommandQueued, SaveBeforeRollback, RollbackTo, CheckGuard,
           RevertGuarded, RevertPlain, Reapply, Restore, CommandRefused, CommandDone,
           Places
      <4>2. pc'[s] = pc[s]
        BY <3>0, <4>1
      <4> QED BY <4>2
    <3>3. ASSUME NEW t \in Sessions, Turn(t)
          PROVE  StaysWatching(s) \/ BeginWatch(s)
      <4>1. CASE StaysWatching(t) \/ BeginWatch(t)
        <5>1. pc' = [pc EXCEPT ![t] = "running"]
          BY <4>1 DEF StaysWatching, BeginWatch
        <5>2. s = t
          BY <3>0, <5>1
        <5> QED BY <4>1, <5>2
      <4>2. CASE \/ StartMessage(t) \/ StartWatching(t) \/ StageBaseline(t)
                 \/ TurnSucceeds(t) \/ TurnFails(t) \/ StopAfterFailure(t)
        <5>1. \E p \in Places \ {"running"} : pc' = [pc EXCEPT ![t] = p]
          BY <4>2 DEF StartMessage, StartWatching, StageBaseline, TurnSucceeds,
             TurnFails, StopAfterFailure, Places
        <5> QED BY <3>0, <5>1
      <4> QED BY <3>3, <4>1, <4>2 DEF Turn, Begins
    <3> QED BY <1>1, <3>1, <3>2, <3>3 DEF Next
  <2>2. pc[s] \in {"settling", "staged"} /\ awaits[s] = 0
    BY <1>1, <2>1 DEF StaysWatching, BeginWatch, IInv, Settles
  <2>3. i <= 0
    BY <1>1, <2>2 DEF IInv, Settles
  <2>4. Len(chain) \in Nat
    BY <1>1 DEF IInv, ActorsOK
  <2> QED BY <2>3, <2>4
<1>2. IInv /\ [Next]_vars => [Waits]_vars
  BY <1>1
<1> QED BY <1>2, Invariance, PTL DEF Spec, OwnSnapshotFirst

-----------------------------------------------------------------------------
LEMMA CleanUnchanged ==
    ASSUME Clean, UNCHANGED <<index, repo, head, added>>,
           pc'[Finisher] = pc[Finisher] \/ pc[Finisher] # "commit"
    PROVE  Clean'
BY DEF Clean

LEMMA CleanStaged ==
    ASSUME IInv, Clean, NEW a \in Actors, a # Finisher, Holds(a),
           NEW kind \in Kinds, StageAll(kind)
    PROVE  Clean'
<1>1. pc[Finisher] # "commit"
  BY OneWorks, ActorsApart DEF IInv, Working
<1>2. \A f \in Files : index[f] = repo[head].tree[f]
  BY <1>1 DEF Clean
<1>3. /\ index' = disk
      /\ repo'[head'].tree = disk \/ (index = disk /\ repo' = repo /\ head' = head)
  BY StageAllKeeps DEF IInv
<1> QED BY <1>2, <1>3 DEF Clean

LEMMA CleanStep ==
    ASSUME IInv, Clean, Commands \subseteq {"rollback"}, [Next]_vars
    PROVE  Clean'
<1> USE DEF IInv
<1>0. /\ Sessions \subseteq Actors /\ User \in Actors /\ Finisher \in Actors
      /\ User # Finisher /\ Janitor # Finisher /\ Finisher \notin Sessions
      /\ pc \in [Actors -> Places]
  BY ActorsApart DEF ActorsOK
<1>1. CASE UNCHANGED vars
  BY <1>1, CleanUnchanged DEF vars, git
<1>2. CASE Edit \/ EventStep
  <2>1. UNCHANGED <<index, repo, head, added, pc>>
    BY <1>2 DEF Edit, UserWrites, AiWrites, EventStep, HandleChange, DebounceFires,
       RecordChange, git
  <2> QED BY <2>1, CleanUnchanged
<1>3. ASSUME NEW s \in Sessions, StageBaseline(s)
      PROVE  Clean'
  <2>1. Holds(s) /\ StageAll("baseline") /\ "baseline" \in Kinds
    BY <1>3 DEF StageBaseline, Kinds
  <2> QED BY <1>0, <2>1, CleanStaged
<1>4. ASSUME NEW s \in Sessions,
             \/ StartMessage(s) \/ StaysWatching(s) \/ StartWatching(s) \/ BeginWatch(s)
             \/ TurnSucceeds(s) \/ TurnFails(s) \/ StopAfterFailure(s)
      PROVE  Clean'
  <2>1. UNCHANGED <<index, repo, head, added>> /\ \E p \in Places : pc' = [pc EXCEPT ![s] = p]
    BY <1>4 DEF StartMessage, StaysWatching, StartWatching, BeginWatch, TurnSucceeds,
       TurnFails, StopAfterFailure, git, Places
  <2>2. pc'[Finisher] = pc[Finisher]
    BY <1>0, <2>1
  <2> QED BY <2>1, <2>2, CleanUnchanged
<1>5. CASE BeginFinish \/ Flushed \/ NothingToCommit \/ FinishFails
  <2>1. UNCHANGED <<index, repo, head, added>> /\ pc[Finisher] # "commit"
    BY <1>5 DEF BeginFinish, Flushed, NothingToCommit, FinishFails, git
  <2> QED BY <2>1, CleanUnchanged
<1>6. CASE AddChanges
  <2>1. /\ pc[Finisher] = "add" /\ pc' = [pc EXCEPT ![Finisher] = "commit"]
        /\ added' = ToAdd \cup ToRm /\ UNCHANGED <<repo, head>>
        /\ index' = [f \in Files |->
                       IF f \in ToRm /\ ~RmRefused THEN Gone ELSE Staged[f]]
    BY <1>6 DEF AddChanges
  <2>2. pc'[Finisher] = "commit"
    BY <1>0, <2>1
  <2>3. \A f \in Files : index[f] = repo[head].tree[f]
    BY <2>1 DEF Clean
  <2>4. \A f \in Files : f \notin added' => index'[f] = index[f]
    BY <2>1 DEF Staged
  <2> QED BY <2>1, <2>2, <2>3, <2>4 DEF Clean
<1>7. CASE CommitChanges
  <2>1. /\ Commit(index, "turn") /\ "turn" \in Kinds /\ index \in Tree
        /\ index' = index
    BY <1>7 DEF CommitChanges, Kinds, GitOK
  <2>2. repo'[head'].tree = index
    BY <2>1, CommitKeeps
  <2> QED BY <2>1, <2>2 DEF Clean
<1>8. CASE MaintenanceDue \/ Maintain
  <2>1. UNCHANGED <<index, repo, head, added>> /\ \E p \in Places : pc' = [pc EXCEPT ![Janitor] = p]
    BY <1>8 DEF MaintenanceDue, Maintain, git, Places
  <2>2. pc'[Finisher] = pc[Finisher]
    BY <1>0, <2>1
  <2> QED BY <2>1, <2>2, CleanUnchanged
<1>9. CASE GiveCommand \/ CommandQueued \/ CheckGuard \/ CommandRefused
  <2>1. UNCHANGED <<index, repo, head, added>> /\ \E p \in Places : pc' = [pc EXCEPT ![User] = p]
    BY <1>9 DEF GiveCommand, CommandQueued, CheckGuard, CommandRefused, CommandDone, git,
       Places
  <2>2. pc'[Finisher] = pc[Finisher]
    BY <1>0, <2>1
  <2> QED BY <2>1, <2>2, CleanUnchanged
<1>10. CASE SaveBeforeRollback
  <2>1. Holds(User) /\ StageAll("reapply") /\ "reapply" \in Kinds
    BY <1>10 DEF SaveBeforeRollback, Kinds
  <2> QED BY <1>0, <2>1, CleanStaged
<1>11. CASE RollbackTo
  BY <1>11 DEF RollbackTo, Clean
<1>12. CASE RevertGuarded \/ RevertPlain \/ Reapply
  <2>1. order.cmd \in {"guarded", "plain", "reapply"}
    BY <1>12 DEF RevertGuarded, RevertPlain, Reapply, OrderOK
  <2>2. order.cmd \in Commands \cup {"none"}
    BY DEF OrderOK, Order
  <2> QED BY <2>1, <2>2
<1> QED BY <1>1, <1>2, <1>3, <1>4, <1>5, <1>6, <1>7, <1>8, <1>9, <1>10, <1>11, <1>12
        DEF Next, Turn, Begins, Finish, Runs

\* As long as nobody reverts single files, whose index entries no commit takes
\* up at once, the snapshot of a turn changes only files of its change buffer
\* and files beneath a directory of its change buffer: git's index is HEAD's tree whenever the lock is free, so that the commit of
\* one turn carries nothing another operation has left behind.
THEOREM TurnCommitsOnlyItsFilesAlways ==
    ASSUME Commands \subseteq {"rollback"}
    PROVE  Spec => TurnCommitsOnlyItsFiles
<1>1. Init => Clean
  BY DEF Init, Clean
<1>2. IInv /\ Clean /\ [Next]_vars => Clean'
  BY CleanStep
<1>3. ASSUME IInv, Clean, Next, NewCommit("turn")
      PROVE  NewFiles \subseteq added
  <2>1. Len(repo) \in Nat /\ ~(repo' = repo)
    BY <1>3 DEF NewCommit, IInv, GitOK
  <2>2. ASSUME NEW kind \in {"baseline", "reapply"}, StageAll(kind)
        PROVE  FALSE
    <3>1. repo'[Len(repo')].kind = kind
      BY <1>3, <2>2, StageAllKeeps DEF IInv, Kinds, NewCommit
    <3> QED BY <1>3, <3>1 DEF NewCommit
  <2>3. CommitChanges
    BY <1>3, <2>1, <2>2, WhoCommits DEF StageBaseline, SaveBeforeRollback
  <2>4. Commit(index, "turn") /\ "turn" \in Kinds /\ index \in Tree
    BY <1>3, <2>3 DEF CommitChanges, Kinds, IInv, GitOK
  <2>5. repo'[Len(repo')].tree = index
    BY <1>3, <2>4, CommitKeeps DEF IInv, NewCommit
  <2> QED BY <1>3, <2>5 DEF NewFiles, Clean
<1>4. IInv /\ Clean /\ [Next]_vars =>
         [NewCommit("turn") => NewFiles \subseteq added]_vars
  BY <1>3
<1> QED BY <1>1, <1>2, <1>4, Invariance, PTL DEF Spec, TurnCommitsOnlyItsFiles

-----------------------------------------------------------------------------
\* While a command has looked at the disk and not yet written, what it looked at is kept:
\* a rollback's save has all the rest of the workspace, a guarded revert's file is as its
\* commit has it.
Saved ==
    pc[User] = "saved" =>
        /\ order.cmd = "rollback" /\ reapplyId \in alive
        /\ \A f \in Files \ dirty : repo[reapplyId].tree[f] = disk[f]

Checked ==
    pc[User] = "checked" =>
        /\ order.id \in alive
        /\ order.file \notin dirty => repo[order.id].tree[order.file] = disk[order.file]

Looked == Saved /\ Checked

\* Nothing but edits, to files that become dirty, and commits, on top of the others.
LEMMA LookedGrows ==
    ASSUME IInv, Looked, [Next]_vars, pc'[User] = pc[User],
           UNCHANGED <<order, reapplyId>>, alive \subseteq alive', dirty \subseteq dirty',
           \A f \in Files : disk'[f] # disk[f] => f \in dirty'
    PROVE  Looked'
<1>1. \A i \in alive : repo'[i] = repo[i]
    BY RepoGrows DEF IInv, GitOK
<1>2. pc[User] = "checked" => order.file \in Files
    BY DEF IInv, OrderOK
<1> QED BY <1>1, <1>2 DEF Looked, Saved, Checked

\* A command that is not between looking and writing.
LEMMA LookedElsewhere ==
    ASSUME pc'[User] \notin {"saved", "checked"}
    PROVE  Looked'
BY DEF Looked, Saved, Checked

LEMMA LookedStep ==
    ASSUME IInv, Looked, [Next]_vars
    PROVE  Looked'
<1>0. /\ Sessions \subseteq Actors /\ User \in Actors /\ Finisher # User /\ Janitor # User
      /\ User \notin Sessions /\ pc \in [Actors -> Places] /\ disk \in Tree
  BY ActorsApart DEF IInv, ActorsOK, GitOK
<1>1. CASE UNCHANGED vars
  BY <1>1, LookedGrows DEF vars, git
<1>2. CASE Edit \/ EventStep
  <2>1. UNCHANGED <<pc, order, reapplyId, alive>> /\ dirty \subseteq dirty'
    BY <1>2 DEF Edit, UserWrites, AiWrites, EventStep, HandleChange, DebounceFires,
       RecordChange, git
  <2>2. \A f \in Files : disk'[f] # disk[f] => f \in dirty'
    <3>1. CASE Edit
      <4>1. PICK g \in Files, c \in Contents \cup {Gone} :
                disk' = [disk EXCEPT ![g] = c] /\ dirty' = dirty \cup {g}
        BY <3>1 DEF Edit, UserWrites, AiWrites
      <4> QED BY <1>0, <4>1 DEF Tree
    <3>2. CASE EventStep
      BY <3>2 DEF EventStep, HandleChange, DebounceFires, RecordChange
    <3> QED BY <1>2, <3>1, <3>2
  <2> QED BY <2>1, <2>2, LookedGrows
<1>3. ASSUME NEW s \in Sessions, Turn(s)
      PROVE  Looked'
  <2>1. UNCHANGED <<disk, order, reapplyId, dirty>> /\ \E p \in Places : pc' = [pc EXCEPT ![s] = p]
    BY <1>3 DEF Turn, Begins, StartMessage, StaysWatching, StartWatching, StageBaseline,
       BeginWatch, TurnSucceeds, TurnFails, StopAfterFailure, Places
  <2>2. alive \subseteq alive'
    BY <1>3 DEF Turn, Begins, StartMessage, StaysWatching, StartWatching, StageBaseline,
       BeginWatch, TurnSucceeds, TurnFails, StopAfterFailure, StageAll, Commit, git
  <2>3. pc'[User] = pc[User]
    BY <1>0, <2>1
  <2> QED BY <2>1, <2>2, <2>3, LookedGrows
<1>4. CASE Finish
  <2>1. UNCHANGED <<disk, order, reapplyId, dirty>>
        /\ \E p \in Places : pc' = [pc EXCEPT ![Finisher] = p]
    BY <1>4 DEF Finish, BeginFinish, Flushed, AddChanges, CommitChanges, NothingToCommit,
       FinishFails, JobDone, Places
  <2>2. alive \subseteq alive'
    BY <1>4 DEF Finish, BeginFinish, Flushed, AddChanges, CommitChanges, NothingToCommit,
       FinishFails, Commit, git
  <2>3. pc'[User] = pc[User]
    BY <1>0, <2>1
  <2> QED BY <2>1, <2>2, <2>3, LookedGrows
<1>5. CASE MaintenanceDue
  <2>1. UNCHANGED <<disk, order, reapplyId, dirty, alive>> /\ pc'[User] = pc[User]
    BY <1>0, <1>5 DEF MaintenanceDue, git
  <2> QED BY <2>1, LookedGrows
\* gc prunes while the user's command does not hold the lock.
<1>6. CASE Maintain
  <2>1. Holds(Janitor) /\ Janitor \in Actors /\ pc'[User] = pc[User]
    BY <1>0, <1>6, ActorsApart DEF Maintain
  <2>2. pc[User] \notin Working
    BY <1>0, <2>1, OneWorks DEF IInv
  <2> QED BY <2>1, <2>2, LookedElsewhere DEF Working
<1>7. CASE \/ GiveCommand \/ CommandQueued \/ RollbackTo \/ RevertGuarded \/ RevertPlain
           \/ Reapply \/ CommandRefused
  <2>1. pc'[User] \in {"settling", "queued", "idle"}
    BY <1>0, <1>7 DEF GiveCommand, CommandQueued, RollbackTo, RevertGuarded, RevertPlain,
       Reapply, Restore, CommandRefused, CommandDone
  <2> QED BY <2>1, LookedElsewhere
<1>8. CASE CheckGuard
  <2>1. /\ pc'[User] = "checked" /\ order.id \in alive /\ Unchanged(order)
        /\ UNCHANGED <<disk, repo, alive, order>>
    BY <1>0, <1>8 DEF CheckGuard, git
  <2> QED BY <2>1 DEF Unchanged, Looked, Saved, Checked
<1>9. CASE SaveBeforeRollback
  <2>1. /\ pc'[User] = "saved" /\ order.cmd = "rollback" /\ StageAll("reapply")
        /\ reapplyId' = head' /\ dirty' = Residue /\ UNCHANGED <<disk, order>>
        /\ "reapply" \in Kinds
    BY <1>0, <1>9 DEF SaveBeforeRollback, Kinds
  <2>2. head' \in alive'
    BY GitStep DEF GitOK
  <2>3. repo'[head'].tree = disk \/ (index = disk /\ repo' = repo /\ head' = head)
    BY <2>1, StageAllKeeps DEF IInv
  <2>4. \A f \in Files \ Residue : repo'[head'].tree[f] = disk[f]
    BY <2>3 DEF Residue
  <2>5. Saved'
    BY <2>1, <2>2, <2>4 DEF Saved
  <2> QED BY <2>1, <2>5 DEF Looked, Checked
<1> QED BY <1>1, <1>2, <1>3, <1>4, <1>5, <1>6, <1>7, <1>8, <1>9 DEF Next, Runs

Counted == edits \in Nat

\* Who else writes to the disk than those who edit.
LEMMA WhoOverwrites ==
    ASSUME Counted, Next, edits' = edits, order.cmd \in {"rollback", "guarded"}
    PROVE  disk' = disk \/ RollbackTo \/ RevertGuarded
BY DEF Next, Edit, UserWrites, AiWrites, EventStep, HandleChange, DebounceFires,
   RecordChange, Turn, Begins, StartMessage, StaysWatching, StartWatching, StageBaseline,
   BeginWatch, TurnSucceeds, TurnFails, StopAfterFailure, Finish, BeginFinish, Flushed,
   AddChanges, CommitChanges, NothingToCommit, FinishFails, MaintenanceDue, Maintain,
   GiveCommand, Runs, CommandQueued, SaveBeforeRollback, CheckGuard, RevertPlain, Reapply,
   CommandRefused, vars, Counted

LEMMA EditsCount == Spec => []Counted
<1>1. Init => Counted
  BY DEF Init, Counted
<1>2. [Next]_vars => edits' \in {edits, edits + 1}
  BY DEF Next, Edit, UserWrites, AiWrites, EventStep, HandleChange, DebounceFires,
   RecordChange, Turn, Begins, StartMessage, StaysWatching, StartWatching, StageBaseline,
   BeginWatch, TurnSucceeds, TurnFails, StopAfterFailure, Finish, BeginFinish, Flushed,
   AddChanges, CommitChanges, NothingToCommit, FinishFails, MaintenanceDue, Maintain,
   GiveCommand, Runs, CommandQueued, SaveBeforeRollback, RollbackTo, CheckGuard,
   RevertGuarded, RevertPlain, Reapply, Restore, CommandRefused, count, vars
<1>3. Counted /\ [Next]_vars => Counted'
  BY <1>2 DEF Counted
<1> QED BY <1>1, <1>3, PTL DEF Spec

\* A rollback or a guarded revert overwrites nothing git has not kept, for any sessions,
\* files, turns, edits and commands: from the moment the command looks at the workspace to
\* the moment it writes it holds the lock, so that nothing prunes what it has found or saved,
\* and whoever edits a file meanwhile makes it dirty.
THEOREM OverwritesKeepACopyAlways == Spec => OverwritesKeepACopy
<1> DEFINE Kept(f) == \E i \in alive' : /\ repo'[i].tree[f] = disk[f]
                                        /\ order.cmd = "rollback" => i = reapplyId'
           Keeps   == order.cmd \in {"rollback", "guarded"} /\ edits' = edits =>
                        \A f \in Files \ dirty : disk'[f] # disk[f] => Kept(f)
<1>1. ASSUME IInv, Looked, Counted, Next PROVE Keeps
  <2> SUFFICES ASSUME order.cmd \in {"rollback", "guarded"}, edits' = edits,
                      NEW f \in Files \ dirty, disk'[f] # disk[f]
               PROVE  Kept(f)
    OBVIOUS
  <2>1. CASE RollbackTo
    <3>1. pc[User] = "saved" /\ UNCHANGED <<repo, alive, reapplyId>>
      BY <2>1 DEF RollbackTo
    <3> QED BY <1>1, <3>1 DEF Looked, Saved
  <2>2. CASE RevertGuarded
    <3>1. /\ pc[User] = "checked" /\ UNCHANGED <<repo, alive>>
          /\ \E c : disk' = [disk EXCEPT ![order.file] = c]
      BY <2>2 DEF RevertGuarded, Restore
    <3>2. f = order.file /\ order.cmd = "guarded"
      BY <1>1, <3>1 DEF IInv, GitOK, Tree, OrderOK
    <3> QED BY <1>1, <3>1, <3>2 DEF Looked, Checked
  <2> QED BY <1>1, <2>1, <2>2, WhoOverwrites
<1>2. Init => Looked
  BY ActorsApart DEF Init, Looked, Saved, Checked
<1>3. IInv /\ Looked /\ [Next]_vars => Looked'
  BY LookedStep
<1>4. IInv /\ Looked /\ Counted /\ [Next]_vars => [Keeps]_vars
  BY <1>1
<1> QED BY <1>2, <1>3, <1>4, Invariance, EditsCount, PTL DEF Spec, OverwritesKeepACopy

---------------------------------------------------------------------------
(* The watcher that tells of the changes.                                  *)

NativeRecord == [st : {"unused", "loading", "opening"} \cup Settled,
                 root : Roots \cup {NoRoot}]
StopRecord   == [at : {"idle", "startup", "closing"}, on : 0 .. MaxNatives,
                 next : Roots \cup {NoRoot}]
Rooted       == {"opening", "open", "closing", "closed"}

\* WatchTypeOK in two parts: the native watchers and the calls that drive them, ...
DriveOK ==
    /\ started \in BOOLEAN /\ degraded \in BOOLEAN /\ overlapped \in BOOLEAN
    /\ rootDir \in Roots \cup {NoRoot}
    /\ startup \in 0 .. MaxNatives /\ subscription \in 0 .. MaxNatives
    /\ native \in [Natives -> NativeRecord]
    /\ \A n \in Natives : native[n].st \in Rooted => native[n].root \in Roots
    /\ stops \in [Calls -> StopRecord]

\* ... and the table of the subscribers.
TableOK ==
    /\ subscribers \subseteq Ids /\ buffered \subseteq Ids /\ timers \subseteq Ids
    /\ held \in [Callers -> 0 .. MaxIds]
    /\ lastId \in 0 .. MaxIds
    /\ late \in BOOLEAN

\* Whoever is in the table has not left, and whoever is still to be called back
\* is in the table.
HeldOnes ==
    /\ \A s \in subscribers : \E c \in Callers : held[c] = s
    /\ buffered \subseteq subscribers /\ timers \subseteq subscribers

\* The native watcher of the last start will hear the root, hears it, or has failed loudly.
OnItsWay(n) ==
    \/ native[n].st = "loading"
    \/ native[n].st = "opening" /\ native[n].root = rootDir
    \/ native[n].st = "open" /\ native[n].root = rootDir /\ subscription = n
    \/ native[n].st = "failed" /\ degraded

\* A start that met no stop and no start under way meets none as long as it stands.
Alone ==
    started /\ ~overlapped =>
       /\ Active = {}
       /\ rootDir \in Roots
       /\ startup \in Natives
       /\ Opening \subseteq {startup}
       /\ OnItsWay(startup)

WatchInv == DriveOK /\ TableOK /\ HeldOnes /\ Alone /\ ~late

LEMMA WatchParts == WatchInv => WatchTypeOK /\ NoCallAfterUnsubscribe
BY DEF WatchInv, DriveOK, TableOK, NativeRecord, StopRecord, Rooted, WatchTypeOK,
       NoCallAfterUnsubscribe

LEMMA WatchInitInv == WatchInit => WatchInv
<1> SUFFICES ASSUME WatchInit PROVE WatchInv
    OBVIOUS
<1> USE DEF WatchInit
<1>1. DriveOK
    <2>1. 0 \in 0 .. MaxNatives
        BY WatchAssumption
    <2>2. Idle \in StopRecord
        BY <2>1 DEF StopRecord, Idle
    <2>3. native \in [Natives -> NativeRecord]
        BY DEF NativeRecord
    <2>4. \A n \in Natives : native[n].st \notin Rooted
        BY DEF Rooted
    <2> QED BY <2>1, <2>2, <2>3, <2>4 DEF DriveOK
<1>2. TableOK
    <2>1. 0 \in 0 .. MaxIds
        BY WatchAssumption
    <2> QED BY <2>1 DEF TableOK
<1> QED BY <1>1, <1>2 DEF WatchInv, HeldOnes, Alone

---------------------------------------------------------------------------
(* The native watchers and the calls that drive them.                      *)

\* What a start leaves in the fields; stops and subscription are its caller's.
LEMMA OpenKeeps ==
    ASSUME DriveOK, NEW r \in Roots, NEW i, Open(r, i), subscription' \in 0 .. MaxNatives,
           stops' \in [Calls -> StopRecord], degraded' = degraded
    PROVE  DriveOK'
BY DEF DriveOK, Open, NativeRecord, Rooted, Natives

\* A start that says it met nobody has met nobody.
LEMMA OpenIsAlone ==
    ASSUME DriveOK, NEW r \in Roots, NEW i, Open(r, i), Active' \subseteq Active \ {i}
    PROVE  Alone'
<1>1. PICK n \in Natives :
          /\ native[n].st = "unused"
          /\ startup' = n /\ rootDir' = r
          /\ native' = [native EXCEPT ![n].st = "loading"]
          /\ overlapped' = (Active \ {i} # {} \/ Opening # {})
    BY DEF Open
<1> SUFFICES ASSUME ~overlapped'
             PROVE  /\ Active' = {} /\ rootDir' \in Roots /\ startup' \in Natives
                    /\ Opening' \subseteq {startup'} /\ OnItsWay(startup)'
    BY DEF Alone
<1>2. Active' = {} /\ Opening = {}
    BY <1>1
<1>3. native'[n].st = "loading" /\ \A m \in Natives \ {n} : native'[m] = native[m]
    BY <1>1 DEF DriveOK
<1>4. Opening' \subseteq {n}
    BY <1>2, <1>3 DEF Opening
<1> QED BY <1>1, <1>2, <1>3, <1>4 DEF OnItsWay

\* A native watcher that is told to close, if it is open.
LEMMA UnsubscribingKeeps ==
    ASSUME DriveOK, NEW n, native' = Unsubscribing(n)
    PROVE  /\ native' \in [Natives -> NativeRecord]
           /\ \A m \in Natives : native'[m].st \in Rooted => native'[m].root \in Roots
BY DEF DriveOK, Unsubscribing, NativeRecord, Rooted, Settled

\* stop() up to its first await.
LEMMA StopSyncKeeps ==
    ASSUME DriveOK, NEW i \in Calls, Slot(i), NEW r \in Roots \cup {NoRoot}, StopSync(i, r),
           degraded' = degraded
    PROVE  DriveOK' /\ Alone'
<1>1. CASE /\ startup # 0
           /\ started' = FALSE
           /\ stops' = [stops EXCEPT ![i] = [at |-> "startup", on |-> startup, next |-> r]]
           /\ UNCHANGED <<rootDir, startup, subscription, native, overlapped>>
    BY <1>1 DEF DriveOK, StopRecord, Alone
<1>2. CASE /\ started' = FALSE
           /\ stops' = [stops EXCEPT ![i] = [at |-> "closing", on |-> subscription, next |-> r]]
           /\ native' = Unsubscribing(subscription)
           /\ UNCHANGED <<rootDir, startup, subscription, overlapped>>
    BY <1>2, UnsubscribingKeeps DEF DriveOK, StopRecord, Alone
<1>3. CASE /\ started' = FALSE
           /\ rootDir' = NoRoot
           /\ UNCHANGED <<startup, subscription, native, stops, overlapped>>
    BY <1>3 DEF DriveOK, Alone
<1>4. CASE /\ r # NoRoot
           /\ Open(r, i)
           /\ UNCHANGED <<subscription, stops>>
    <2>1. DriveOK'
        BY <1>4, OpenKeeps DEF DriveOK
    <2>2. Active' \subseteq Active \ {i}
        BY <1>4 DEF Active, Slot
    <2> QED BY <1>4, <2>1, <2>2, OpenIsAlone
<1> QED BY <1>1, <1>2, <1>3, <1>4 DEF StopSync

\* The last lines of stop(): a stop under way is one the start has met.
LEMMA StopEndsKeeps ==
    ASSUME DriveOK, Alone, NEW i \in Calls, stops[i].at # "idle", NEW st \in 0 .. MaxNatives,
           StopEnds(i, st), degraded' = degraded
    PROVE  DriveOK' /\ Alone'
<1>0. ~(started /\ ~overlapped)
    BY DEF Alone, Active
<1>1. stops[i].next \in Roots \cup {NoRoot} /\ Idle \in StopRecord /\ 0 \in 0 .. MaxNatives
    BY WatchAssumption DEF DriveOK, StopRecord, Idle
<1>2. CASE /\ stops' = [stops EXCEPT ![i] = Idle]
           /\ rootDir' = NoRoot
           /\ startup' = st
           /\ subscription' = 0
           /\ UNCHANGED <<started, native, overlapped>>
    BY <1>0, <1>1, <1>2 DEF DriveOK, Alone
<1>3. CASE /\ stops[i].next # NoRoot
           /\ subscription' = 0
           /\ stops' = [stops EXCEPT ![i] = Idle]
           /\ Open(stops[i].next, i)
    <2>1. stops' \in [Calls -> StopRecord]
        BY <1>1, <1>3 DEF DriveOK
    <2>2. Active' \subseteq Active \ {i}
        BY <1>3 DEF Active, DriveOK, Idle
    <2> QED BY <1>1, <1>3, <2>1, <2>2, OpenKeeps, OpenIsAlone
<1>4. CASE /\ stops' = [stops EXCEPT ![i] = [at |-> "startup", on |-> st,
                                            next |-> stops[i].next]]
           /\ started' = FALSE
           /\ rootDir' = NoRoot
           /\ startup' = st
           /\ subscription' = 0
           /\ UNCHANGED <<native, overlapped>>
    BY <1>1, <1>4 DEF DriveOK, StopRecord, Alone
<1> QED BY <1>2, <1>3, <1>4 DEF StopEnds

LEMMA DriveUnchanged ==
    ASSUME DriveOK, Alone,
           UNCHANGED <<started, rootDir, startup, subscription, native, stops, degraded, overlapped>>
    PROVE  DriveOK' /\ Alone'
BY DEF DriveOK, Alone, Active, Opening, OnItsWay

LEMMA NativeBecomes ==
    ASSUME DriveOK, NEW n \in Natives, NEW x, native' = [native EXCEPT ![n].st = x]
    PROVE  native' = [native EXCEPT ![n] = [st |-> x, root |-> native[n].root]]
<1>1. native[n] \in NativeRecord
    BY DEF DriveOK
<1>2. [native[n] EXCEPT !.st = x] = [st |-> x, root |-> native[n].root]
    BY <1>1 DEF NativeRecord
<1> QED BY <1>2

\* One native watcher moves: which one it is, and what it becomes.
LEMMA NativeMoves ==
    ASSUME DriveOK, Alone, NEW n \in Natives, NEW v \in NativeRecord,
           native' = [native EXCEPT ![n] = v],
           v.st \in Rooted => v.root \in Roots,
           subscription' \in 0 .. MaxNatives, degraded' \in BOOLEAN,
           UNCHANGED <<started, rootDir, startup, stops, overlapped>>,
           v.st \in {"loading", "opening"} => n \in Opening,
           started /\ ~overlapped => OnItsWay(startup)'
    PROVE  DriveOK' /\ Alone'
<1>1. native'[n] = v /\ \A m \in Natives \ {n} : native'[m] = native[m]
    BY DEF DriveOK
<1>2. DriveOK'
    BY <1>1 DEF DriveOK
<1>3. Opening' \subseteq Opening
    BY <1>1 DEF Opening
<1>4. Active' = Active
    BY DEF Active
<1> QED BY <1>2, <1>3, <1>4 DEF Alone

LEMMA DriveStep == WatchInv /\ WatchNext => DriveOK' /\ Alone'
<1> SUFFICES ASSUME WatchInv, WatchNext PROVE DriveOK' /\ Alone'
    OBVIOUS
<1>a. DriveOK /\ Alone
    BY DEF WatchInv
<1>1. ASSUME NEW c \in Callers, NEW r \in Roots, Watch(c, r) PROVE DriveOK' /\ Alone'
    <2>1. CASE UNCHANGED core /\ UNCHANGED overlapped
        BY <1>a, <1>1, <2>1, DriveUnchanged DEF Watch, core
    <2>2. CASE Open(r, 0) /\ UNCHANGED <<subscription, stops>>
        <3>1. Active' \subseteq Active \ {0}
            BY <2>2 DEF Active, Calls
        <3> QED BY <1>a, <1>1, <2>2, <3>1, OpenKeeps, OpenIsAlone DEF Watch, DriveOK
    <2>3. CASE \E i \in Calls : Slot(i) /\ StopSync(i, r)
        BY <1>a, <1>1, <2>3, StopSyncKeeps DEF Watch
    <2> QED BY <1>1, <2>1, <2>2, <2>3 DEF Watch
<1>2. ASSUME NEW c \in Callers, Unsubscribe(c) PROVE DriveOK' /\ Alone'
    <2>1. CASE UNCHANGED <<core, overlapped>>
        BY <1>a, <1>2, <2>1, DriveUnchanged DEF Unsubscribe, core
    <2>2. CASE \E i \in Calls : Slot(i) /\ StopSync(i, NoRoot)
        BY <1>a, <1>2, <2>2, StopSyncKeeps DEF Unsubscribe
    <2> QED BY <1>2, <2>1, <2>2 DEF Unsubscribe
<1>3. ASSUME NEW i \in Calls, StopAfterStartup(i) PROVE DriveOK' /\ Alone'
    <2>1. CASE subscription # 0
        <3>1. /\ startup' = 0
              /\ stops' = [stops EXCEPT ![i].at = "closing", ![i].on = subscription]
              /\ native' = Unsubscribing(subscription)
              /\ UNCHANGED <<started, rootDir, subscription, degraded, overlapped>>
            BY <1>3, <2>1 DEF StopAfterStartup
        <3>2. ~(started /\ ~overlapped)
            BY <1>a, <1>3 DEF StopAfterStartup, Alone, Active
        <3>3. stops' \in [Calls -> StopRecord] /\ 0 \in 0 .. MaxNatives
            <4>1. stops[i] \in StopRecord /\ subscription \in 0 .. MaxNatives
                BY <1>a DEF DriveOK
            <4>2. [stops[i] EXCEPT !.at = "closing", !.on = subscription] \in StopRecord
                BY <4>1 DEF StopRecord
            <4>3. stops' = [stops EXCEPT ![i] =
                              [stops[i] EXCEPT !.at = "closing", !.on = subscription]]
                BY <3>1
            <4> QED BY <1>a, <4>2, <4>3, WatchAssumption DEF DriveOK
        <3> QED BY <1>a, <3>1, <3>2, <3>3, UnsubscribingKeeps DEF DriveOK, Alone
    <2>2. CASE subscription = 0
        BY <1>a, <1>3, <2>2, StopEndsKeeps, WatchAssumption DEF StopAfterStartup
    <2> QED BY <2>1, <2>2
<1>4. ASSUME NEW i \in Calls, StopAfterClose(i) PROVE DriveOK' /\ Alone'
    BY <1>a, <1>4, StopEndsKeeps DEF StopAfterClose, DriveOK
<1>5. ASSUME NEW n \in Natives, Loaded(n) PROVE DriveOK' /\ Alone'
    <2> DEFINE v == IF rootDir = NoRoot THEN [st |-> "failed", root |-> NoRoot]
                                        ELSE [st |-> "opening", root |-> rootDir]
    <2>1. v \in NativeRecord /\ (v.st \in Rooted => v.root \in Roots)
        BY <1>a DEF DriveOK, NativeRecord, Settled, Rooted
    <2>2. native' = [native EXCEPT ![n] = v] /\ native[n].st = "loading"
        BY <1>5 DEF Loaded
    <2>3. started /\ ~overlapped => OnItsWay(startup)'
        BY <1>a, <1>5, <2>2, WatchAssumption DEF Alone, OnItsWay, Opening, Loaded, DriveOK
    <2>4. UNCHANGED <<started, rootDir, startup, subscription, stops, overlapped>>
          /\ degraded' \in BOOLEAN /\ subscription \in 0 .. MaxNatives
        BY <1>a, <1>5 DEF Loaded, DriveOK
    <2> HIDE DEF v
    <2> QED BY <1>a, <2>1, <2>2, <2>3, <2>4, NativeMoves DEF Opening
<1>6. ASSUME NEW n \in Natives, Opened(n) PROVE DriveOK' /\ Alone'
    <2> DEFINE v == [st |-> "open", root |-> native[n].root]
    <2>0. native[n] \in NativeRecord /\ n \in Opening
        BY <1>a, <1>6 DEF Opened, DriveOK, Opening
    <2>1. v \in NativeRecord /\ (v.st \in Rooted => v.root \in Roots)
        BY <1>a, <1>6, <2>0 DEF Opened, DriveOK, NativeRecord, Settled, Rooted
    <2>2. native' = [native EXCEPT ![n] = v]
        BY <1>a, <1>6, NativeBecomes DEF Opened
    <2>3. UNCHANGED <<started, rootDir, startup, stops, overlapped>>
          /\ degraded' = FALSE /\ subscription' = n
        BY <1>6 DEF Opened
    <2>5. n \in 0 .. MaxNatives
        BY WatchAssumption DEF Natives
    <2>4. started /\ ~overlapped => OnItsWay(startup)'
        <3>1. SUFFICES ASSUME started, ~overlapped PROVE OnItsWay(startup)'
            OBVIOUS
        <3>2. startup = n /\ native[n].root = rootDir
            BY <1>a, <1>6, <2>0, <3>1 DEF Alone, OnItsWay, Opened
        <3>3. native'[n] = v
            BY <1>a, <2>2 DEF DriveOK
        <3> QED BY <2>3, <3>2, <3>3 DEF OnItsWay
    <2> HIDE DEF v
    <2> QED BY <1>a, <2>0, <2>1, <2>2, <2>3, <2>4, <2>5, NativeMoves
<1>7. ASSUME NEW n \in Natives, OpenFails(n) PROVE DriveOK' /\ Alone'
    <2> DEFINE v == [st |-> "failed", root |-> native[n].root]
    <2>0. native[n] \in NativeRecord
        BY <1>a DEF DriveOK
    <2>1. v \in NativeRecord /\ v.st \notin Rooted /\ v.st \notin {"loading", "opening"}
        BY <2>0 DEF NativeRecord, Settled, Rooted
    <2>2. native' = [native EXCEPT ![n] = v]
        BY <1>a, <1>7, NativeBecomes DEF OpenFails
    <2>3. UNCHANGED <<started, rootDir, startup, subscription, stops, overlapped>>
          /\ degraded' = TRUE /\ subscription' \in 0 .. MaxNatives
        BY <1>a, <1>7 DEF OpenFails, DriveOK
    <2>4. started /\ ~overlapped => OnItsWay(startup)'
        <3>1. SUFFICES ASSUME started, ~overlapped PROVE OnItsWay(startup)'
            OBVIOUS
        <3>2. startup = n
            BY <1>a, <1>7, <3>1 DEF Alone, OpenFails, Opening
        <3>3. native'[n] = v
            BY <1>a, <2>2 DEF DriveOK
        <3> QED BY <2>3, <3>2, <3>3 DEF OnItsWay
    <2> HIDE DEF v
    <2> QED BY <1>a, <2>1, <2>2, <2>3, <2>4, NativeMoves
<1>8. ASSUME NEW n \in Natives, NativeClosed(n) PROVE DriveOK' /\ Alone'
    <2> DEFINE v == [st |-> "closed", root |-> native[n].root]
    <2>0. native[n] \in NativeRecord
        BY <1>a DEF DriveOK
    <2>1. v \in NativeRecord /\ v.st \notin {"loading", "opening"} /\ v.root \in Roots
        BY <1>a, <1>8, <2>0 DEF NativeClosed, DriveOK, NativeRecord, Settled, Rooted
    <2>2. native' = [native EXCEPT ![n] = v]
        BY <1>a, <1>8, NativeBecomes DEF NativeClosed
    <2>3. UNCHANGED <<started, rootDir, startup, subscription, stops, degraded, overlapped>>
          /\ degraded \in BOOLEAN /\ subscription \in 0 .. MaxNatives
        BY <1>a, <1>8 DEF NativeClosed, DriveOK
    <2>4. started /\ ~overlapped => OnItsWay(startup)'
        <3>1. SUFFICES ASSUME started, ~overlapped PROVE OnItsWay(startup)'
            OBVIOUS
        <3>2. startup # n /\ startup \in Natives /\ OnItsWay(startup)
            BY <1>a, <1>8, <3>1 DEF Alone, NativeClosed, OnItsWay
        <3>3. native'[startup] = native[startup]
            BY <1>a, <2>2, <3>2 DEF DriveOK
        <3> QED BY <2>3, <3>2, <3>3 DEF OnItsWay
    <2> HIDE DEF v
    <2> QED BY <1>a, <2>1, <2>2, <2>3, <2>4, NativeMoves
<1>9. ASSUME NEW n \in Natives, Event(n) PROVE DriveOK' /\ Alone'
    BY <1>a, <1>9, DriveUnchanged DEF Event, core
<1>10. ASSUME NEW s \in Ids, Flush(s) PROVE DriveOK' /\ Alone'
    BY <1>a, <1>10, DriveUnchanged DEF Flush, core
<1> QED
    BY <1>1, <1>2, <1>3, <1>4, <1>5, <1>6, <1>7, <1>8, <1>9, <1>10
    DEF WatchNext, CallerStep, StopStep, NativeStep, TimerStep

---------------------------------------------------------------------------
(* The table of the subscribers.                                           *)

\* Nothing enters the table, nobody joins or leaves.
LEMMA TableShrinks ==
    ASSUME TableOK, HeldOnes, ~late, UNCHANGED <<held, lastId, late>>,
           subscribers' \subseteq subscribers,
           buffered' \subseteq subscribers', timers' \subseteq subscribers'
    PROVE  TableOK' /\ HeldOnes' /\ ~late'
BY DEF TableOK, HeldOnes

\* A stop leaves the table as it is, or empty.
LEMMA StopEndsTable ==
    ASSUME NEW i, NEW st, StopEnds(i, st)
    PROVE  \/ UNCHANGED table
           \/ subscribers' = {} /\ buffered' = {} /\ timers' = {}
BY DEF StopEnds, table

LEMMA TableStep == WatchInv /\ WatchNext => TableOK' /\ HeldOnes' /\ ~late'
<1> SUFFICES ASSUME WatchInv, WatchNext PROVE TableOK' /\ HeldOnes' /\ ~late'
    OBVIOUS
<1>a. TableOK /\ HeldOnes /\ ~late
    BY DEF WatchInv
<1>1. ASSUME NEW c \in Callers, NEW r \in Roots, Watch(c, r)
      PROVE  TableOK' /\ HeldOnes' /\ ~late'
    <2>1. /\ held[c] = 0 /\ lastId < MaxIds /\ late' = late
          /\ lastId' = lastId + 1 /\ held' = [held EXCEPT ![c] = lastId + 1]
          /\ subscribers' \subseteq subscribers \cup {lastId + 1}
          /\ \/ /\ subscribers \subseteq subscribers'
                /\ buffered' = buffered /\ timers' = timers
             \/ buffered' = {} /\ timers' = {}
        BY <1>1 DEF Watch
    <2>2. lastId + 1 \in Ids /\ lastId + 1 \in 0 .. MaxIds
        BY <1>a, <2>1, WatchAssumption DEF TableOK, Ids
    <2>3. TableOK'
        BY <1>a, <2>1, <2>2 DEF TableOK
    <2>4. ASSUME NEW s \in subscribers'
          PROVE  \E d \in Callers : held'[d] = s
        <3>1. CASE s = lastId + 1
            BY <1>a, <2>1, <3>1 DEF TableOK
        <3>2. CASE s # lastId + 1
            <4>1. s \in subscribers
                BY <2>1, <3>2
            <4>2. PICK d \in Callers : held[d] = s
                BY <1>a, <4>1 DEF HeldOnes
            <4>3. s # 0
                BY <1>a, <4>1 DEF TableOK, Ids
            <4> QED BY <1>a, <2>1, <4>2, <4>3 DEF TableOK
        <3> QED BY <3>1, <3>2
    <2>5. buffered' \subseteq subscribers' /\ timers' \subseteq subscribers'
        BY <1>a, <2>1 DEF HeldOnes
    <2> QED BY <1>a, <2>1, <2>3, <2>4, <2>5 DEF HeldOnes
<1>2. ASSUME NEW c \in Callers, Unsubscribe(c) PROVE TableOK' /\ HeldOnes' /\ ~late'
    <2>1. /\ held' = [held EXCEPT ![c] = 0]
          /\ subscribers' = subscribers \ {held[c]}
          /\ buffered' = buffered \ ({held[c]} \cap subscribers)
          /\ timers' = timers \ ({held[c]} \cap subscribers)
          /\ UNCHANGED <<lastId, late>>
        BY <1>2 DEF Unsubscribe
    <2>2. 0 \in 0 .. MaxIds
        BY WatchAssumption
    <2>3. TableOK'
        BY <1>a, <2>1, <2>2 DEF TableOK
    <2>4. ASSUME NEW s \in subscribers'
          PROVE  \E d \in Callers : held'[d] = s
        <3>1. s \in subscribers /\ s # held[c]
            BY <2>1
        <3>2. PICK d \in Callers : held[d] = s
            BY <1>a, <3>1 DEF HeldOnes
        <3> QED BY <1>a, <2>1, <3>1, <3>2 DEF TableOK
    <2>5. buffered' \subseteq subscribers' /\ timers' \subseteq subscribers'
        BY <1>a, <2>1 DEF HeldOnes
    <2> QED BY <1>a, <2>1, <2>3, <2>4, <2>5 DEF HeldOnes
<1>3. ASSUME NEW i \in Calls, StopAfterStartup(i) \/ StopAfterClose(i)
      PROVE  TableOK' /\ HeldOnes' /\ ~late'
    <2>1. /\ \/ UNCHANGED table
             \/ subscribers' = {} /\ buffered' = {} /\ timers' = {}
          /\ UNCHANGED <<held, lastId, late>>
        BY <1>3, StopEndsTable DEF StopAfterStartup, StopAfterClose
    <2> QED BY <1>a, <2>1, TableShrinks DEF table, HeldOnes
<1>4. ASSUME NEW n \in Natives,
             Loaded(n) \/ Opened(n) \/ OpenFails(n) \/ NativeClosed(n) \/ Event(n)
      PROVE  TableOK' /\ HeldOnes' /\ ~late'
    <2>1. /\ subscribers' = subscribers
          /\ buffered' \subseteq subscribers \cup buffered
          /\ timers' \subseteq subscribers \cup timers
          /\ UNCHANGED <<held, lastId, late>>
        BY <1>4 DEF Loaded, Opened, OpenFails, NativeClosed, Event, table
    <2> QED BY <1>a, <2>1, TableShrinks DEF HeldOnes
<1>5. ASSUME NEW s \in Ids, Flush(s) PROVE TableOK' /\ HeldOnes' /\ ~late'
    <2>1. /\ s \in timers /\ subscribers' = subscribers
          /\ buffered' \subseteq buffered /\ timers' \subseteq timers
          /\ UNCHANGED <<held, lastId>>
        BY <1>5 DEF Flush
    <2>2. late' = late
        <3>1. s \in subscribers /\ \E c \in Callers : held[c] = s
            BY <1>a, <2>1 DEF HeldOnes
        <3>2. late' = (late \/ s \notin subscribers \/ \A c \in Callers : held[c] # s)
            BY <1>5 DEF Flush
        <3> QED BY <3>1, <3>2, <1>a DEF TableOK
    <2> QED BY <1>a, <2>1, <2>2, TableShrinks DEF HeldOnes
<1> QED
    BY <1>1, <1>2, <1>3, <1>4, <1>5
    DEF WatchNext, CallerStep, StopStep, NativeStep, TimerStep

LEMMA WatchUnchanged == WatchInv /\ UNCHANGED watchVars => WatchInv'
<1> SUFFICES ASSUME WatchInv, UNCHANGED watchVars PROVE WatchInv'
    OBVIOUS
<1>1. DriveOK' /\ Alone'
    BY DriveUnchanged DEF WatchInv, watchVars, core
<1>2. TableOK' /\ HeldOnes' /\ ~late'
    BY TableShrinks DEF WatchInv, watchVars, table, HeldOnes
<1> QED BY <1>1, <1>2 DEF WatchInv

LEMMA WatchInvariance == WatchSpec => []WatchInv
<1>1. WatchInv /\ [WatchNext]_watchVars => WatchInv'
    BY DriveStep, TableStep, WatchUnchanged DEF WatchInv
<1> QED BY WatchInitInv, <1>1, PTL DEF WatchSpec

\* The fields, the native watchers and the table of the shared watcher stay well-typed for
\* any callers, roots, native watchers and subscriptions.
THEOREM WatchTyped == WatchSpec => []WatchTypeOK
BY WatchInvariance, WatchParts, PTL

\* Nobody is called back after he has left, or after a stop or a change of root has emptied
\* the table: for any callers, whatever comes between a change and its timer.
THEOREM NoCallAfterUnsubscribeAlways == WatchSpec => []NoCallAfterUnsubscribe
BY WatchInvariance, WatchParts, PTL

\* A watcher started while no stop and no start was under way hears its root or says that it
\* does not, for any callers and roots, however many starts and stops came before.
THEOREM FedIfStartedAloneAlways == WatchSpec => []FedIfStartedAlone
<1>1. WatchInv => FedIfStartedAlone
    <2> SUFFICES ASSUME WatchInv, Quiet, started, ~overlapped, ~degraded PROVE Fed
        BY DEF FedIfStartedAlone
    <2>1. /\ rootDir \in Roots /\ startup \in Natives /\ startup \notin Opening
          /\ OnItsWay(startup)
        BY DEF WatchInv, Alone, Quiet
    <2>2. startup # 0 /\ rootDir # NoRoot
        BY <2>1, WatchAssumption DEF Natives
    <2> QED BY <2>1, <2>2 DEF OnItsWay, Opening, Fed
<1> QED BY WatchInvariance, <1>1, PTL
=================================================================================
