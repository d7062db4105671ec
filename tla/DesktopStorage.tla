--------------------------- MODULE DesktopStorage ---------------------------
(***************************************************************************)
(* The desktop app's history files: the storage slot (SharedStorage), the  *)
(* commands that release, reclaim, swap or replace what is in it, and the  *)
(* end and the start of the app at any moment.                             *)
(*                                                                         *)
(* A database is a number; a file name holds a database until it is        *)
(* renamed.  Of DuckDB the model assumes that one process at a time may    *)
(* open a file; that closing a connection writes its log into the file;    *)
(* and that the log of a connection that was not closed is found again     *)
(* beside the name the file was opened under, and nowhere else.            *)
(***************************************************************************)
EXTENDS Integers, FiniteSets

CONSTANTS
  Stack,       (* the running windows, one per stack                       *)
  Root,        (* the stack without a name                                 *)
  Fallible,    (* an open, a rename, a checkpoint or a save may fail       *)
  MaxBatches,  (* batches recorded in a behaviour (bound)                  *)
  MaxFiles     (* databases created in a behaviour (bound)                 *)

ASSUME StackAssumption == Stack # {} /\ Fallible \in BOOLEAN
ASSUME BoundAssumption == MaxBatches \in Nat /\ MaxFiles \in Nat

VARIABLES
  disk,      (* the database under each name, or None                      *)
  archived,  (* the databases under snapshots/                             *)
  main,      (* the batches in each file                                   *)
  log,       (* the batches in each write-ahead log                        *)
  made,      (* databases created                                          *)
  batches,   (* batches recorded                                           *)
  up, slot, config,
  stored,    (* the mode in the settings file                              *)
  job,       (* the command under way in each window                       *)
  mishap     (* history: a command failed, or was cut off, halfway         *)

files == <<disk, archived, main, log, made>>
app == <<up, slot, config, stored, job>>
vars == <<files, app, batches, mishap>>

None == 0
Db == None..MaxFiles
Mode == {"embedded", "remote"}
Path == [dir : Stack \cup {Root}, name : {"history", "local", "next"}]
Named(dir, name) == [dir |-> dir, name |-> name]

\* StorageConfig, and StorageMode::to_storage_config.
Config(dir, mode) == [dir |-> dir, mode |-> mode]
DbPath(c) == Named(c.dir, IF c.mode = "embedded" THEN "history" ELSE "local")
Staging(c) == Named(c.dir, "next")

\* StorageHandle: a database, the name it was opened under, and whether the
\* observed tables are the daemon's.
Handle(db, at, remote) == [db |-> db, at |-> at, remote |-> remote]
NoHandle == Handle(None, Named(Root, "history"), FALSE)

Job(step, new, old, c) == [step |-> step, new |-> new, old |-> old, config |-> c]
NoJob == Job("idle", NoHandle, NoHandle, Config(Root, "embedded"))

Init ==
  /\ disk = [p \in Path |-> None] /\ archived = {}
  /\ main = [d \in Db |-> {}] /\ log = [d \in Db |-> {}]
  /\ made = 0 /\ batches = 0 /\ mishap = FALSE
  /\ up = [s \in Stack |-> FALSE] /\ slot = [s \in Stack |-> NoHandle]
  /\ config = [s \in Stack |-> Config(s, "embedded")]
  /\ stored = [s \in Stack |-> "embedded"]
  /\ job = [s \in Stack |-> NoJob]

-----------------------------------------------------------------------------
(* DuckDB.                                                                 *)

\* The handles a window holds.
Held(s) == {slot[s], job[s].new, job[s].old} \ {NoHandle}

\* The database StorageHandle::open finds, or creates, under a name.
DbAt(p) == IF disk[p] = None THEN made + 1 ELSE disk[p]

\* A file that another process holds cannot be opened.
CanOpen(s, p) ==
  /\ DbAt(p) <= MaxFiles
  /\ \A t \in Stack \ {s} : \A h \in Held(t) : h.db # DbAt(p)

Open(p) ==
  /\ disk' = [disk EXCEPT ![p] = DbAt(p)]
  /\ made' = IF disk[p] = None THEN made + 1 ELSE made
  /\ UNCHANGED archived

\* The last clone of handle h is dropped: its log goes into the file.
Closed(h) ==
  /\ main' = [main EXCEPT ![h.db] = @ \cup log[h.db]]
  /\ log' = [log EXCEPT ![h.db] = {}]

\* The connection of h ends with its process; is its log found again?
LogFound(h) == disk[h.at] = h.db

-----------------------------------------------------------------------------
(* The app.                                                                *)

\* init_storage: the stored mode, in the stack's own directory.
Start(s) ==
  /\ ~up[s] /\ up' = [up EXCEPT ![s] = TRUE]
  /\ LET c == Config(s, stored[s])
     IN /\ config' = [config EXCEPT ![s] = c]
        /\ \/ /\ CanOpen(s, DbPath(c)) /\ Open(DbPath(c))
              /\ slot' = [slot EXCEPT ![s] =
                            Handle(DbAt(DbPath(c)), DbPath(c), c.mode = "remote")]
           \/ /\ Fallible \/ ~CanOpen(s, DbPath(c))
              /\ UNCHANGED <<disk, made, archived, slot>>
  /\ UNCHANGED <<main, log, stored, job, batches, mishap>>

\* The app exits or is killed: nothing is closed.
End(s) ==
  /\ up[s] /\ up' = [up EXCEPT ![s] = FALSE]
  /\ LET found == {h.db : h \in {h \in Held(s) : LogFound(h)}}
     IN main' = [d \in Db |-> IF d \in found THEN main[d] \cup log[d] ELSE main[d]]
  /\ log' = [d \in Db |-> IF d \in {h.db : h \in Held(s)} THEN {} ELSE log[d]]
  /\ slot' = [slot EXCEPT ![s] = NoHandle]
  /\ job' = [job EXCEPT ![s] = NoJob]
  /\ mishap' = (mishap \/ job[s] # NoJob)
  /\ UNCHANGED <<disk, archived, made, config, stored, batches>>

\* persist_batch and persist_raw_batch; DuckDB writes the log into the file when
\* it pleases.  In remote mode the daemon records.
Record(s) ==
  /\ slot[s] # NoHandle /\ ~slot[s].remote /\ batches < MaxBatches
  /\ batches' = batches + 1
  /\ LET d == slot[s].db
     IN \/ log' = [log EXCEPT ![d] = @ \cup {batches + 1}] /\ UNCHANGED main
        \/ /\ main' = [main EXCEPT ![d] = @ \cup log[d] \cup {batches + 1}]
           /\ log' = [log EXCEPT ![d] = {}]
  /\ UNCHANGED <<disk, archived, made, app, mishap>>

Idle(s) == up[s] /\ job[s] = NoJob

\* release_storage, offered while storage is available.  When its checkpoint
\* fails it changes nothing.
Release(s) ==
  /\ Idle(s) /\ slot[s] # NoHandle
  /\ slot' = [slot EXCEPT ![s] = NoHandle]
  /\ Closed(slot[s])
  /\ UNCHANGED <<disk, archived, made, up, config, stored, job, batches, mishap>>

-----------------------------------------------------------------------------
(* reclaim_storage, offered while storage is released.                     *)

Reclaim(s) ==
  /\ Idle(s) /\ slot[s] = NoHandle
  /\ LET p == DbPath(config[s])
     IN /\ CanOpen(s, p) /\ Open(p)
        /\ job' = [job EXCEPT ![s] =
             Job("reopened", Handle(DbAt(p), p, config[s].mode = "remote"), NoHandle, config[s])]
  /\ UNCHANGED <<main, log, up, slot, config, stored, batches, mishap>>

Reclaimed(s) ==
  /\ job[s].step = "reopened"
  /\ slot' = [slot EXCEPT ![s] = job[s].new] /\ job' = [job EXCEPT ![s] = NoJob]
  /\ UNCHANGED <<files, up, config, stored, batches, mishap>>

-----------------------------------------------------------------------------
(* swap_database.                                                          *)

\* The fresh database is created, outside any lock.
Stage(s) ==
  /\ Idle(s)
  /\ LET p == Staging(config[s])
     IN /\ CanOpen(s, p) /\ Open(p)
        /\ job' = [job EXCEPT ![s] =
             Job("staged", Handle(DbAt(p), p, FALSE), NoHandle, config[s])]
  /\ UNCHANGED <<main, log, up, slot, config, stored, batches, mishap>>

Replacement(s) == job[s].new

\* Under the write lock.
Replace(s) ==
  /\ job[s].step = "staged"
  /\ slot' = [slot EXCEPT ![s] = Replacement(s)]
  /\ job' = [job EXCEPT ![s] = Job("replaced", NoHandle, slot[s], @.config)]
  /\ UNCHANGED <<files, up, config, stored, batches, mishap>>

\* The old handle is checkpointed and dropped.
Retire(s) ==
  /\ job[s].step = "replaced"
  /\ Closed(job[s].old)
  /\ job' = [job EXCEPT ![s] = Job("retired", NoHandle, NoHandle, @.config)]
  /\ UNCHANGED <<disk, archived, made, up, slot, config, stored, batches, mishap>>

\* An error return between the two renames, or before them.
GiveUp(s) ==
  /\ job' = [job EXCEPT ![s] = NoJob] /\ mishap' = TRUE
  /\ UNCHANGED <<disk, archived>>

\* Mutant of Archived: the old database is removed, not moved.
ArchivedNone(p) == archived

Archived(p) == archived \cup {disk[p]}

\* move_database_to_snapshot
Move(s) ==
  /\ job[s].step = "retired"
  /\ LET p == DbPath(job[s].config)
     IN \/ /\ disk[p] # None
           /\ archived' = Archived(p) /\ disk' = [disk EXCEPT ![p] = None]
           /\ job' = [job EXCEPT ![s].step = "moved"] /\ UNCHANGED mishap
        \/ (Fallible \/ disk[p] = None) /\ GiveUp(s)
  /\ UNCHANGED <<main, log, made, up, slot, config, stored, batches>>

\* Mutant of Renamed: the fresh database keeps its staging name.
RenamedNone(p, staging) == disk

Renamed(p, staging) == [disk EXCEPT ![p] = disk[staging], ![staging] = None]

Rename(s) ==
  /\ job[s].step = "moved"
  /\ LET c == job[s].config
     IN \/ /\ disk[Staging(c)] # None
           /\ disk' = Renamed(DbPath(c), Staging(c)) /\ UNCHANGED <<archived, mishap>>
           /\ job' = [job EXCEPT ![s] = NoJob]
        \/ (Fallible \/ disk[Staging(c)] = None) /\ GiveUp(s)
  /\ UNCHANGED <<main, log, made, up, slot, config, stored, batches>>

-----------------------------------------------------------------------------
(* set_storage_mode.                                                       *)

\* Mutant of Taken: the old handle stays in the slot until the new one is there.
TakenNone(s) == slot[s]

Taken(s) == NoHandle

\* The old handle goes first.
Take(s, mode) ==
  /\ Idle(s)
  /\ slot' = [slot EXCEPT ![s] = Taken(s)] /\ Closed(slot[s])
  /\ job' = [job EXCEPT ![s] = Job("taken", NoHandle, NoHandle, Config(Root, mode))]
  /\ UNCHANGED <<disk, archived, made, up, config, stored, batches, mishap>>

\* "On failure the previous storage is left released."
Reopen(s) ==
  /\ job[s].step = "taken"
  /\ LET c == job[s].config
         p == DbPath(c)
     IN \/ /\ CanOpen(s, p) /\ Open(p)
           /\ job' = [job EXCEPT ![s] =
                Job("opened", Handle(DbAt(p), p, c.mode = "remote"), NoHandle, c)]
        \/ /\ Fallible \/ ~CanOpen(s, p)
           /\ job' = [job EXCEPT ![s] = NoJob]
           /\ UNCHANGED <<disk, made, archived>>
  /\ UNCHANGED <<main, log, up, slot, config, stored, batches, mishap>>

\* Mutant of ConfigAfter: the slot is filled and the config left as it was.
ConfigAfterKept(s) == config[s]

ConfigAfter(s) == job[s].config

\* The slot, the config, the mode, and last the settings file.
Install(s) ==
  /\ job[s].step = "opened"
  /\ slot' = [slot EXCEPT ![s] = job[s].new]
  /\ config' = [config EXCEPT ![s] = ConfigAfter(s)]
  /\ \/ stored' = [stored EXCEPT ![s] = job[s].config.mode] /\ UNCHANGED mishap
     \/ Fallible /\ mishap' = TRUE /\ UNCHANGED stored
  /\ job' = [job EXCEPT ![s] = NoJob]
  /\ UNCHANGED <<files, up, batches>>

-----------------------------------------------------------------------------

Next ==
  \E s \in Stack :
    \/ Start(s) \/ End(s) \/ Record(s) \/ Release(s)
    \/ Reclaim(s) \/ Reclaimed(s)
    \/ Stage(s) \/ Replace(s) \/ Retire(s) \/ Move(s) \/ Rename(s)
    \/ (\E mode \in Mode : Take(s, mode)) \/ Reopen(s) \/ Install(s)

Spec == Init /\ [][Next]_vars

-----------------------------------------------------------------------------
(* Properties.                                                             *)

Handles == [db : Db, at : Path, remote : BOOLEAN]
Configs == [dir : Stack \cup {Root}, mode : Mode]
Steps == {"idle", "reopened", "staged", "replaced", "retired", "moved", "taken", "opened"}

\* The types of the variables; no handle is open on a database that does not
\* exist or that is a snapshot ("must be closed before calling this function").
TypeOK ==
  /\ disk \in [Path -> Db] /\ archived \subseteq Db \ {None}
  /\ main \in [Db -> SUBSET (1..MaxBatches)] /\ log \in [Db -> SUBSET (1..MaxBatches)]
  /\ made \in 0..MaxFiles /\ batches \in 0..MaxBatches /\ mishap \in BOOLEAN
  /\ up \in [Stack -> BOOLEAN] /\ slot \in [Stack -> Handles]
  /\ config \in [Stack -> Configs] /\ stored \in [Stack -> Mode]
  /\ job \in [Stack -> [step : Steps, new : Handles, old : Handles, config : Configs]]
  /\ \A s \in Stack : \A h \in Held(s) : h.db \in (1..made) \ archived

HasName(d) == d \in archived \/ \E p \in Path : disk[p] = d

\* Rows that reached a file stay in a file with a name, whatever command the app
\* ends or fails in: no rename overwrites or removes the last name of one.
FiledRowsKept == \A d \in Db : main[d] # {} => HasName(d)

\* "Archive the current database as a snapshot and start fresh": the database a
\* swap puts into the slot is empty, unless an earlier command ended halfway.
StartsFresh ==
  [][\A s \in Stack :
       job[s].step = "staged" /\ job'[s].step = "replaced" /\ ~mishap =>
         main[slot'[s].db] = {} /\ log[slot'[s].db] = {}]_vars

\* Between commands, a reclaim or the next start of the app opens the database
\* the slot holds now, unless an earlier command ended halfway.
ReopensTheSame ==
  \A s \in Stack :
    ~mishap /\ Idle(s) /\ slot[s] # NoHandle =>
      /\ disk[DbPath(config[s])] = slot[s].db
      /\ disk[DbPath(Config(s, stored[s]))] = slot[s].db

Twice(s) == slot[s].db # None /\ slot[s].db \in {job[s].new.db, job[s].old.db}

\* A swap failed before its last rename, and what it put into the slot still has
\* the staging name.
LeftStaged(s) == mishap /\ slot[s].db = disk[Staging(config[s])]

\* "A second exclusive-lock owner, which is how a DuckDB file gets corrupted": a
\* window has one handle on a database, and none on one that is a snapshot, but for
\* one case: after a swap that failed the next swap opens the database of the slot
\* a second time, as its fresh one (commands.rs:690-710).
OneOwner ==
  /\ TypeOK
  /\ \A s \in Stack : Twice(s) => job[s].step \in {"staged", "replaced"} /\ LeftStaged(s)

\* "This is a zero-loss operation": every batch recorded is in a log or a file
\* that has a name.
ZeroLoss == 1..batches \subseteq UNION {main[d] \cup log[d] : d \in {d \in Db : HasName(d)}}
=============================================================================
