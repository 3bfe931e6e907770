------------------------------ MODULE Checkpoint ------------------------------
(***************************************************************************)
(* File checkpoints of one workspace: src/packages/core/src/runtime/       *)
(* checkpoint/ShadowGitCheckpoint.ts (a private git repository whose work  *)
(* tree is the workspace) and runtimeCheckpointService.ts (when snapshots  *)
(* are taken around a turn), as runtimeOrchestrator.ts and the rollback    *)
(* commands call them.  Before a turn the workspace is committed as the    *)
(* turn's baseline; while it runs, watcher events say which files it       *)
(* touched; after it those files are committed in the background.          *)
(*                                                                         *)
(* A file's content is a value, Gone when it does not exist.  A commit is  *)
(* a position in repo; index is git's index.  An await is the end of an    *)
(* action.  The watcher (WatchCoordinator.tla) is here only the delay      *)
(* between a change and its event, and the loss of events nobody           *)
(* subscribes to.                                                          *)
(***************************************************************************)
EXTENDS Integers, Sequences

CONSTANTS Sessions,     \* sessions that run turns in the workspace
          Files,
          Dirs,         \* directories the watcher tells of
          Inside,       \* the files that lie beneath a directory
          Contents,     \* what a file can hold
          Gone,         \* the file does not exist
          Commands,     \* the user's commands: rollback, guarded, plain, reapply
          MayFail,      \* turns may fail
          MaxEdits,     \* bound: writes by turns and user
          MaxTurns,     \* bound: turns started
          MaxCommands   \* bound: commands given

CONSTANTS User, Finisher, Janitor   \* who else uses git

ASSUME CheckpointAssumption ==
  /\ Gone \notin Contents
  /\ Inside \in [Dirs -> SUBSET Files]
  /\ Commands \subseteq {"rollback", "guarded", "plain", "reapply"}
  /\ MayFail \in BOOLEAN
  /\ MaxEdits \in Nat /\ MaxTurns \in Nat /\ MaxCommands \in Nat
  /\ {User, Finisher, Janitor} \cap Sessions = {}
  /\ User # Finisher /\ User # Janitor /\ Finisher # Janitor

Actors == Sessions \cup {User, Finisher, Janitor}
Tree   == [Files -> Contents \cup {Gone}]
Change == [kind : {"write", "delete"}, path : Files]
          \cup [kind : {"mkdir", "rmdir"}, path : Dirs]
Order  == [cmd : Commands \cup {"none"}, id : Nat, file : Files \cup {Gone}]

VARIABLES
  disk,       \* the workspace
  index,      \* git's index
  repo,       \* all commits ever made: parent, tree, kind
  alive,      \* the commits gc has not pruned
  head,       \* HEAD
  queue,      \* gitOperationLock: its holder and those who wait behind him
  pc,         \* where each actor is
  awaits,     \* settled(): how many finishes he still waits for
  chain,      \* pendingFinish: the sessions whose turns are being finished
  watching,   \* isWatching
  subs,       \* live subscriptions of this workspace's events
  ownSub,     \* watchSubscriptionId is not null
  before,     \* beforeCheckpointId, 0 for null
  unseen,     \* changes of which the watcher has not told yet
  debounce,   \* debounceMap
  recording,  \* recordChange calls under way
  flushing,   \* those of them that createCheckpoint waits for
  buffer,     \* changeBuffer
  timer,      \* maintenanceTimer is armed
  order,      \* the user's command under way
  reapplyId,  \* lastRollbackFromId, 0 for null
  dirty,      \* history: files written since the command looked at the disk,
              \* and those its save has skipped
  added,      \* history: the files of the last git add and git rm of a turn
  edits, turns, commands   \* counters for the bounds

git    == <<index, repo, alive, head>>
events == <<unseen, debounce, recording, flushing>>
watch  == <<watching, subs, ownSub>>
count  == <<edits, turns, commands>>
vars   == <<disk, git, queue, pc, awaits, chain, watch, before,
            events, buffer, timer, order, reapplyId, dirty, added, count>>

NoOrder == [cmd |-> "none", id |-> 0, file |-> Gone]

Init ==
  /\ disk \in Tree
  /\ index = [f \in Files |-> Gone]
  /\ repo = <<[parent |-> 0, tree |-> [f \in Files |-> Gone], kind |-> "initial"]>>
  /\ alive = {1} /\ head = 1
  /\ queue = <<>>
  /\ pc = [a \in Actors |-> "idle"]
  /\ awaits = [a \in Actors |-> 0]
  /\ chain = <<>>
  /\ watching = FALSE /\ subs = 0 /\ ownSub = FALSE
  /\ before = 0
  /\ unseen = {} /\ debounce = {} /\ recording = {} /\ flushing = {}
  /\ buffer = {}
  /\ timer = FALSE
  /\ order = NoOrder
  /\ reapplyId = 0
  /\ dirty = {} /\ added = {}
  /\ edits = 0 /\ turns = 0 /\ commands = 0

---------------------------------------------------------------------------
(* Git and its lock.                                                       *)

(* withGitLock: a promise chain.                                           *)
Holds(a)   == queue # <<>> /\ Head(queue) = a
Enqueue(a) == queue' = Append(queue, a)
Release    == queue' = Tail(queue)

Changes(from, to) ==
  {[kind |-> IF to[f] = Gone THEN "delete" ELSE "write", path |-> f] :
     f \in {g \in Files : from[g] # to[g]}}

Empty(tree, d) == \A f \in Inside[d] : tree[f] = Gone

(* The first file of a directory may come with it, the last go with it;    *)
(* the watcher tells of a directory that is gone as of a deleted file.     *)
DirChanges(from, to) ==
  {[kind |-> IF Empty(from, d) THEN "mkdir" ELSE "rmdir", path |-> d] :
     d \in {e \in Dirs : ~(Empty(from, e) <=> Empty(to, e))}}

(* Whatever changes the workspace is seen by the watcher later.            *)
WatcherSees ==
  \E D \in SUBSET DirChanges(disk, disk') :
    unseen' = unseen \cup Changes(disk, disk') \cup D

(* git commit: the index becomes a commit on top of HEAD; with nothing     *)
(* to commit git fails, which every caller expects.                        *)
Commit(tree, kind) ==
  IF tree = repo[head].tree
  THEN UNCHANGED <<repo, alive, head>>
  ELSE /\ repo' = Append(repo, [parent |-> head, tree |-> tree, kind |-> kind])
       /\ alive' = alive \cup {Len(repo) + 1}
       /\ head' = Len(repo) + 1

(* stageWorkingTreeWithinBudget and the commit after it: only a workspace  *)
(* that differs from the index is staged, and only then is there a commit. *)
StageAll(kind) ==
  /\ index' = disk
  /\ IF disk = index THEN UNCHANGED <<repo, alive, head>> ELSE Commit(disk, kind)

(* The commits that HEAD reaches.                                          *)
Closed(S) == head \in S /\ \A i \in S : repo[i].parent \in S \cup {0}

Ancestors ==
  {i \in 1 .. Len(repo) : \A S \in SUBSET (1 .. Len(repo)) : Closed(S) => i \in S}

Differs(i, f) ==
  /\ repo[i].parent # 0
  /\ repo[i].tree[f] # repo[repo[i].parent].tree[f]

---------------------------------------------------------------------------
(* Events.                                                                 *)

AiWrites(s, f) ==
  /\ pc[s] = "running"
  /\ edits < MaxEdits
  /\ \E c \in (Contents \cup {Gone}) \ {disk[f]} : disk' = [disk EXCEPT ![f] = c]
  /\ WatcherSees
  /\ dirty' = dirty \cup {f}
  /\ edits' = edits + 1
  /\ UNCHANGED <<git, queue, pc, awaits, chain, watch, before, debounce,
                 recording, flushing, buffer, timer, order, reapplyId, turns,
                 commands, added>>

UserWrites(f) ==
  /\ edits < MaxEdits
  /\ \E c \in (Contents \cup {Gone}) \ {disk[f]} : disk' = [disk EXCEPT ![f] = c]
  /\ WatcherSees
  /\ dirty' = dirty \cup {f}
  /\ edits' = edits + 1
  /\ UNCHANGED <<git, queue, pc, awaits, chain, watch, before, debounce,
                 recording, flushing, buffer, timer, order, reapplyId, turns,
                 commands, added>>

(* handleChange: an event arms its debounce timer, if anybody listens.     *)
HandleChange(e) ==
  /\ e \in unseen
  /\ unseen' = unseen \ {e}
  /\ debounce' = IF subs > 0 /\ watching THEN debounce \cup {e} ELSE debounce
  /\ UNCHANGED <<disk, git, queue, pc, awaits, chain, watch, before, recording,
                 flushing, buffer, timer, order, reapplyId, dirty, count,
                 added>>

(* The timer fires and recordChange begins to read the file.               *)
DebounceFires(e) ==
  /\ e \in debounce
  /\ debounce' = debounce \ {e}
  /\ recording' = recording \cup {e}
  /\ UNCHANGED <<disk, git, queue, pc, awaits, chain, watch, before, unseen,
                 flushing, buffer, timer, order, reapplyId, dirty, count,
                 added>>

(* The end of recordChange, whatever has become of the turn.               *)
RecordChange(e) ==
  /\ e \in recording
  /\ recording' = recording \ {e}
  /\ flushing' = flushing \ {e}
  /\ buffer' = buffer \cup {e}
  /\ UNCHANGED <<disk, git, queue, pc, awaits, chain, watch, before, unseen,
                 debounce, timer, order, reapplyId, dirty, count, added>>

---------------------------------------------------------------------------
(* A turn.                                                                 *)

(* Bug: startMessage does not wait.                                     *)
StartMessage_Eager(s) ==
  /\ pc[s] = "idle"
  /\ turns < MaxTurns
  /\ turns' = turns + 1
  /\ pc' = [pc EXCEPT ![s] = "settling"]
  /\ UNCHANGED <<disk, git, queue, awaits, chain, watch, before, events,
                 buffer, timer, order, reapplyId, dirty, edits, commands,
                 added>>

(* startMessage waits for the finishes that are under way.                 *)
StartMessage(s) ==
  /\ pc[s] = "idle"
  /\ turns < MaxTurns
  /\ turns' = turns + 1
  /\ pc' = [pc EXCEPT ![s] = "settling"]
  /\ awaits' = [awaits EXCEPT ![s] = Len(chain)]
  /\ UNCHANGED <<disk, git, queue, chain, watch, before, events, buffer, timer,
                 order, reapplyId, dirty, edits, commands, added>>

(* startWatching, while this workspace is being watched: the old baseline. *)
StaysWatching(s) ==
  /\ pc[s] = "settling" /\ awaits[s] = 0
  /\ watching
  /\ buffer' = {}
  /\ pc' = [pc EXCEPT ![s] = "running"]
  /\ UNCHANGED <<disk, git, queue, awaits, chain, watch, before, events, timer,
                 order, reapplyId, dirty, count, added>>

(* startWatching otherwise: up to the lock.                                *)
StartWatching(s) ==
  /\ pc[s] = "settling" /\ awaits[s] = 0
  /\ ~watching
  /\ buffer' = {}
  /\ pc' = [pc EXCEPT ![s] = "baseline"]
  /\ Enqueue(s)
  /\ UNCHANGED <<disk, git, awaits, chain, watch, before, events, timer, order,
                 reapplyId, dirty, count, added>>

StageBaseline(s) ==
  /\ pc[s] = "baseline" /\ Holds(s)
  /\ StageAll("baseline")
  /\ pc' = [pc EXCEPT ![s] = "staged"]
  /\ UNCHANGED <<disk, queue, awaits, chain, watch, before, events, buffer,
                 timer, order, reapplyId, dirty, count, added>>

(* HEAD is read, the lock given up, and the watch begins.                  *)
BeginWatch(s) ==
  /\ pc[s] = "staged"
  /\ before' = head
  /\ Release
  /\ watching' = TRUE /\ subs' = subs + 1 /\ ownSub' = TRUE
  /\ pc' = [pc EXCEPT ![s] = "running"]
  /\ UNCHANGED <<disk, git, awaits, chain, events, buffer, timer, order,
                 reapplyId, dirty, count, added>>

(* finishMessageInBackground: the turn is over, its snapshot is to come.   *)
TurnSucceeds(s) ==
  /\ pc[s] = "running"
  /\ chain' = Append(chain, s)
  /\ pc' = [pc EXCEPT ![s] = "idle"]
  /\ UNCHANGED <<disk, git, queue, awaits, watch, before, events, buffer,
                 timer, order, reapplyId, dirty, count, added>>

(* A turn that throws takes no snapshot, but stops the watch.              *)
TurnFails(s) ==
  /\ MayFail
  /\ pc[s] = "running"
  /\ pc' = [pc EXCEPT ![s] = "stopping"]
  /\ awaits' = [awaits EXCEPT ![s] = Len(chain)]
  /\ UNCHANGED <<disk, git, queue, chain, watch, before, events, buffer, timer,
                 order, reapplyId, dirty, count, added>>

(* stopWatching                                                            *)
StopWatching ==
  /\ subs' = IF ownSub THEN subs - 1 ELSE subs
  /\ ownSub' = FALSE
  /\ watching' = FALSE
  /\ debounce' = {}
  /\ buffer' = {}

StopAfterFailure(s) ==
  /\ pc[s] = "stopping" /\ awaits[s] = 0
  /\ StopWatching
  /\ pc' = [pc EXCEPT ![s] = "idle"]
  /\ UNCHANGED <<disk, git, queue, awaits, chain, before, unseen, recording,
                 flushing, timer, order, reapplyId, dirty, count, added>>

---------------------------------------------------------------------------
(* The snapshot of a turn: finishMessage, one after the other.             *)

(* createCheckpoint: flushPendingChanges hurries the timers.               *)
BeginFinish ==
  /\ pc[Finisher] = "idle" /\ chain # <<>>
  /\ recording' = recording \cup debounce
  /\ flushing' = debounce
  /\ debounce' = {}
  /\ pc' = [pc EXCEPT ![Finisher] = "flush"]
  /\ UNCHANGED <<disk, git, queue, awaits, chain, watch, before, unseen,
                 buffer, timer, order, reapplyId, dirty, count, added>>

Flushed ==
  /\ pc[Finisher] = "flush" /\ flushing = {}
  /\ pc' = [pc EXCEPT ![Finisher] = IF buffer = {} THEN "readHead" ELSE "add"]
  /\ Enqueue(Finisher)
  /\ UNCHANGED <<disk, git, awaits, chain, watch, before, events, buffer,
                 timer, order, reapplyId, dirty, count, added>>

Recorded(kind) == {e.path : e \in {x \in buffer : x.kind = kind}}

(* git add of a directory stages all that is, or was, beneath it.          *)
ToAdd == Recorded("write") \cup UNION {Inside[d] : d \in Recorded("mkdir")}
ToRm  == Recorded("delete")

(* git add fails as a whole over one path it finds nowhere; an empty       *)
(* directory it may find.                                                  *)
AddFails == \E f \in Recorded("write") : disk[f] = Gone /\ index[f] = Gone
AddMayFail ==
  AddFails \/ \E d \in Recorded("mkdir") : Empty(disk, d) /\ Empty(index, d)

Staged == [f \in Files |-> IF f \in ToAdd THEN disk[f] ELSE index[f]]

(* git rm without -r removes nothing at all when one path is a directory   *)
(* the index has files of, or a file with content only the index has.      *)
RmRefused ==
  \/ \E d \in Recorded("rmdir") : ~Empty(Staged, d)
  \/ \E f \in ToRm :
       disk[f] # Gone /\ Staged[f] \notin {disk[f], repo[head].tree[f], Gone}

(* Bug: git add of the whole workspace, as it was once done.            *)
AddChanges_All ==
  /\ pc[Finisher] = "add" /\ Holds(Finisher)
  /\ index' = disk
  /\ added' = ToAdd \cup ToRm
  /\ pc' = [pc EXCEPT ![Finisher] = "commit"]
  /\ UNCHANGED <<disk, repo, alive, head, queue, awaits, chain, watch, before,
                 events, buffer, timer, order, reapplyId, dirty, count>>

(* git add of what was written or made, then git rm --cached of what was   *)
(* deleted, whose failure is ignored.                                      *)
AddChanges ==
  /\ pc[Finisher] = "add" /\ Holds(Finisher) /\ ~AddFails
  /\ index' = [f \in Files |->
                 IF f \in ToRm /\ ~RmRefused THEN Gone ELSE Staged[f]]
  /\ added' = ToAdd \cup ToRm
  /\ pc' = [pc EXCEPT ![Finisher] = "commit"]
  /\ UNCHANGED <<disk, repo, alive, head, queue, awaits, chain, watch, before,
                 events, buffer, timer, order, reapplyId, dirty, count>>

(* The job at the head of the chain is done; those who wait for it count.  *)
JobDone ==
  /\ chain' = Tail(chain)
  /\ awaits' = [a \in Actors |-> IF awaits[a] > 0 THEN awaits[a] - 1 ELSE 0]
  /\ pc' = [pc EXCEPT ![Finisher] = "idle"]
  /\ Release

(* The commit, if the index has anything new, and the end of the watch.    *)
CommitChanges ==
  /\ pc[Finisher] = "commit"
  /\ Commit(index, "turn")
  /\ timer' = (timer \/ index # repo[head].tree)
  /\ StopWatching
  /\ JobDone
  /\ UNCHANGED <<disk, index, before, unseen, recording, flushing, order,
                 reapplyId, dirty, count, added>>

(* Nothing was recorded: HEAD is read and the watch ends.                  *)
NothingToCommit ==
  /\ pc[Finisher] = "readHead" /\ Holds(Finisher)
  /\ StopWatching
  /\ JobDone
  /\ UNCHANGED <<disk, git, before, unseen, recording, flushing, timer, order,
                 reapplyId, dirty, count, added>>

(* git add throws, and with it createCheckpoint and finishMessage: the     *)
(* watch goes on.                                                          *)
FinishFails ==
  /\ pc[Finisher] = "add" /\ Holds(Finisher) /\ AddMayFail
  /\ JobDone
  /\ UNCHANGED <<disk, git, watch, before, events, buffer, timer, order,
                 reapplyId, dirty, count, added>>

---------------------------------------------------------------------------
(* Maintenance, 30 seconds after a commit and not while a turn is watched. *)

MaintenanceDue ==
  /\ timer /\ ~watching
  /\ pc[Janitor] = "idle"
  /\ timer' = FALSE
  /\ pc' = [pc EXCEPT ![Janitor] = "queued"]
  /\ Enqueue(Janitor)
  /\ UNCHANGED <<disk, git, awaits, chain, watch, before, events, buffer,
                 order, reapplyId, dirty, count, added>>

(* cleanupOldCheckpoints: every tenth commit, compressRepository prunes    *)
(* what HEAD does not reach.                                               *)
Maintain ==
  /\ pc[Janitor] = "queued" /\ Holds(Janitor)
  /\ alive' \in {alive, Ancestors}
  /\ pc' = [pc EXCEPT ![Janitor] = "idle"]
  /\ Release
  /\ UNCHANGED <<disk, index, repo, head, awaits, chain, watch, before, events,
                 buffer, timer, order, reapplyId, dirty, count, added>>

---------------------------------------------------------------------------
(* The user's commands, one at a time.                                     *)

Orders ==
  [cmd : Commands \cap {"rollback"}, id : 1 .. Len(repo), file : {Gone}]
  \cup {o \in [cmd : Commands \cap {"guarded"}, id : 1 .. Len(repo), file : Files] :
          repo[o.id].kind = "turn" /\ Differs(o.id, o.file)}
  \cup [cmd : Commands \cap {"plain", "reapply"}, id : {0}, file : Files]

(* rollbackToCheckpoint, rollbackSingleFile and reapplySingleFile wait for *)
(* the finishes under way.                                                 *)
GiveCommand ==
  /\ pc[User] = "idle"
  /\ commands < MaxCommands
  /\ commands' = commands + 1
  /\ \E o \in Orders : order' = o
  /\ pc' = [pc EXCEPT ![User] = "settling"]
  /\ awaits' = [awaits EXCEPT ![User] = Len(chain)]
  /\ UNCHANGED <<disk, git, queue, chain, watch, before, events, buffer, timer,
                 reapplyId, dirty, edits, turns, added>>

CommandQueued ==
  /\ pc[User] = "settling" /\ awaits[User] = 0
  /\ pc' = [pc EXCEPT ![User] = "queued"]
  /\ Enqueue(User)
  /\ UNCHANGED <<disk, git, awaits, chain, watch, before, events, buffer,
                 timer, order, reapplyId, dirty, count, added>>

CommandDone ==
  /\ pc' = [pc EXCEPT ![User] = "idle"]
  /\ order' = NoOrder
  /\ Release

(* What a revert of one file has put in the index and nobody committed:    *)
(* git sees nothing to stage, and the save skips it.                       *)
Residue == {f \in Files : index[f] = disk[f] /\ index[f] # repo[head].tree[f]}

(* Bug: the workspace is staged, but not committed.                     *)
SaveBeforeRollback_Stages ==
  /\ pc[User] = "queued" /\ Holds(User) /\ order.cmd = "rollback"
  /\ index' = disk
  /\ reapplyId' = head
  /\ dirty' = Residue
  /\ pc' = [pc EXCEPT ![User] = "saved"]
  /\ UNCHANGED <<disk, repo, alive, head, queue, awaits, chain, watch, before,
                 events, buffer, timer, order, count, added>>

(* Bug: the save takes the lock that rollbackTo has already.            *)
SaveBeforeRollback_Nested ==
  /\ pc[User] = "queued" /\ Holds(User) /\ order.cmd = "rollback"
  /\ Enqueue(User)
  /\ pc' = [pc EXCEPT ![User] = "nested"]
  /\ UNCHANGED <<disk, git, awaits, chain, watch, before, events, buffer,
                 timer, order, reapplyId, dirty, count, added>>

(* rollbackTo: the workspace is committed, so that it can be reapplied.    *)
SaveBeforeRollback ==
  /\ pc[User] = "queued" /\ Holds(User) /\ order.cmd = "rollback"
  /\ StageAll("reapply")
  /\ reapplyId' = head'
  /\ dirty' = Residue
  /\ pc' = [pc EXCEPT ![User] = "saved"]
  /\ UNCHANGED <<disk, queue, awaits, chain, watch, before, events, buffer,
                 timer, order, count, added>>

(* git reset --hard leaves alone only what neither the index nor the       *)
(* commit knows.                                                           *)
Reset(tree) ==
  [f \in Files |-> IF tree[f] = Gone /\ index[f] = Gone THEN disk[f] ELSE tree[f]]

RollbackTo ==
  /\ pc[User] = "saved"
  /\ order.id \in alive
  /\ disk' = Reset(repo[order.id].tree)
  /\ index' = repo[order.id].tree
  /\ head' = order.id
  /\ buffer' = {}
  /\ WatcherSees
  /\ CommandDone
  /\ UNCHANGED <<repo, alive, awaits, chain, watch, before, debounce,
                 recording, flushing, timer, reapplyId, dirty, count, added>>

(* compareFileWithCommitUnlocked: the file must be as the commit has it.   *)
Unchanged(o) ==
  disk[o.file] = IF o.id \in alive THEN repo[o.id].tree[o.file] ELSE Gone

CheckGuard ==
  /\ pc[User] = "queued" /\ Holds(User) /\ order.cmd = "guarded"
  /\ Unchanged(order) /\ order.id \in alive
  /\ dirty' = {}
  /\ pc' = [pc EXCEPT ![User] = "checked"]
  /\ UNCHANGED <<disk, git, queue, awaits, chain, watch, before, events,
                 buffer, timer, order, reapplyId, count, added>>

(* One file and its index entry become what a tree has.                    *)
Restore(f, c) ==
  /\ disk' = [disk EXCEPT ![f] = c]
  /\ index' = [index EXCEPT ![f] = c]
  /\ WatcherSees
  /\ CommandDone
  /\ UNCHANGED <<repo, alive, head, awaits, chain, watch, before, debounce,
                 recording, flushing, buffer, timer, reapplyId, dirty, count,
                 added>>

RevertGuarded ==
  /\ pc[User] = "checked"
  /\ Restore(order.file, repo[repo[order.id].parent].tree[order.file])

(* resolveRevertBase: the turn's baseline while one is watched, else the   *)
(* parent of the last commit that touched the file; 0 if there is none.    *)
RevertBase(f) ==
  LET touched == {i \in Ancestors : Differs(i, f)} IN
  IF watching /\ before # 0 THEN before
  ELSE IF touched = {} THEN 0
  ELSE repo[CHOOSE i \in touched : \A j \in touched : j <= i].parent

(* In a commit that gc has pruned git finds no file, as if a turn had made *)
(* it: the file is deleted.                                                *)
InBase(f) ==
  LET base == RevertBase(f) IN IF base \in alive THEN repo[base].tree[f] ELSE Gone

RevertPlain ==
  /\ pc[User] = "queued" /\ Holds(User) /\ order.cmd = "plain"
  /\ RevertBase(order.file) # 0
  /\ Restore(order.file, InBase(order.file))

(* reapplySingleFile: from HEAD.                                           *)
Reapply ==
  /\ pc[User] = "queued" /\ Holds(User) /\ order.cmd = "reapply"
  /\ repo[head].tree[order.file] # Gone
  /\ Restore(order.file, repo[head].tree[order.file])

(* A command that finds no commit, no file, or a file changed since.       *)
CommandRefused ==
  /\ \/ pc[User] = "saved" /\ order.id \notin alive
     \/ /\ pc[User] = "queued" /\ Holds(User)
        /\ \/ order.cmd = "guarded" /\ ~(Unchanged(order) /\ order.id \in alive)
           \/ order.cmd = "plain" /\ RevertBase(order.file) = 0
           \/ order.cmd = "reapply" /\ repo[head].tree[order.file] = Gone
  /\ CommandDone
  /\ UNCHANGED <<disk, git, awaits, chain, watch, before, events, buffer,
                 timer, reapplyId, dirty, count, added>>

---------------------------------------------------------------------------
Edit == \/ \E f \in Files : UserWrites(f)
        \/ \E s \in Sessions, f \in Files : AiWrites(s, f)

EventStep ==
  \E e \in Change : HandleChange(e) \/ DebounceFires(e) \/ RecordChange(e)

Begins(s) ==
  StaysWatching(s) \/ StartWatching(s) \/ StageBaseline(s) \/ BeginWatch(s)

Turn(s) == \/ StartMessage(s) \/ Begins(s)
           \/ TurnSucceeds(s) \/ TurnFails(s) \/ StopAfterFailure(s)

Finish == BeginFinish \/ Flushed \/ AddChanges \/ CommitChanges
          \/ NothingToCommit \/ FinishFails

Runs == CommandQueued \/ SaveBeforeRollback \/ RollbackTo \/ CheckGuard
        \/ RevertGuarded \/ RevertPlain \/ Reapply \/ CommandRefused

Next ==
  \/ Edit
  \/ EventStep
  \/ \E s \in Sessions : Turn(s)
  \/ Finish
  \/ MaintenanceDue \/ Maintain
  \/ GiveCommand \/ Runs

(* Files are read and git commands end; edits, turns, commands and timers  *)
(* come when they come.                                                    *)
Fairness ==
  /\ \A e \in Change : WF_vars(RecordChange(e))
  /\ \A s \in Sessions : WF_vars(Begins(s)) /\ WF_vars(StopAfterFailure(s))
  /\ WF_vars(Finish)
  /\ WF_vars(Maintain)
  /\ WF_vars(Runs)

Spec     == Init /\ [][Next]_vars
FairSpec == Spec /\ Fairness

---------------------------------------------------------------------------
(* Type invariant: the checkpoint's fields, git's and the actors'.         *)
TypeOK ==
  /\ disk \in Tree /\ index \in Tree
  /\ repo \in Seq([parent : Nat, tree : Tree,
                   kind : {"initial", "baseline", "turn", "reapply"}])
  /\ alive \subseteq 1 .. Len(repo) /\ head \in alive
  /\ queue \in Seq(Actors) /\ chain \in Seq(Sessions)
  /\ pc \in [Actors -> {"idle", "settling", "baseline", "staged", "running",
       "stopping", "flush", "add", "commit", "readHead", "queued", "saved",
       "checked"}]
  /\ awaits \in [Actors -> Nat]
  /\ watching \in BOOLEAN /\ subs \in Nat /\ ownSub \in BOOLEAN
  /\ before \in 0 .. Len(repo)
  /\ unseen \subseteq Change /\ debounce \subseteq Change
  /\ recording \subseteq Change /\ flushing \subseteq recording
  /\ buffer \subseteq Change
  /\ timer \in BOOLEAN
  /\ order \in Order
  /\ reapplyId \in 0 .. Len(repo)
  /\ dirty \subseteq Files /\ added \subseteq Files

(* The commit of this step, and the files it changes.                      *)
NewCommit(kind) == Len(repo') > Len(repo) /\ repo'[Len(repo')].kind = kind
NewFiles == {f \in Files : repo'[Len(repo')].tree[f] # repo[head].tree[f]}

(* A turn's commit changes only files that the turn was seen to write or   *)
(* delete, or that lie beneath a directory it was seen to make, although   *)
(* all git operations of all sessions share one index.                     *)
TurnCommitsOnlyItsFiles ==
  [][NewCommit("turn") => NewFiles \subseteq added]_vars

(* A session's next turn does not take its baseline before the snapshot of *)
(* its last turn is done, although that is taken in the background.        *)
OwnSnapshotFirst ==
  [][\A s \in Sessions :
       pc[s] # "running" /\ pc'[s] = "running" =>
         \A i \in 1 .. Len(chain) : chain[i] # s]_vars

(* A rollback or a guarded revert overwrites nothing that git has not      *)
(* kept, but for what was written after the command looked and what the    *)
(* save skips because only the index has it; after a rollback the commit   *)
(* to reapply has all the rest.                                            *)
OverwritesKeepACopy ==
  [][order.cmd \in {"rollback", "guarded"} /\ edits' = edits =>
       \A f \in Files \ dirty :
         disk'[f] # disk[f] =>
           \E i \in alive' :
             /\ repo'[i].tree[f] = disk[f]
             /\ order.cmd = "rollback" => i = reapplyId']_vars

(* Whoever starts a turn gets to run it, behind finishes, maintenance and  *)
(* commands that wait for each other and for the lock.                     *)
StartsRun == \A s \in Sessions : pc[s] = "settling" ~> pc[s] = "running"
=============================================================================
