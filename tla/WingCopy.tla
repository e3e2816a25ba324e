------------------------------ MODULE WingCopy ------------------------------
(***************************************************************************)
(* The two scripts that copy drawers out of a MemPalace over its MCP API:   *)
(* mempalace_remote_backup.py writes the drawers of every included wing to   *)
(* a snapshot of two files, mempalace_migrate_wing.py replays one wing into  *)
(* another palace.  They share _rpc, with its retries, and the listing page  *)
(* by page.                                                                 *)
(*                                                                         *)
(* One run of a script at a time, started by hand; the palace goes on being  *)
(* used meanwhile.  Every request is one action.                            *)
(***************************************************************************)
EXTENDS Naturals, Sequences, FiniteSets, SequencesExt, FiniteSetsExt

CONSTANTS
    Wings,
    Excluded,   \* --exclude-wing
    Migrated,   \* --wing
    Stored,     \* the drawers of each wing at first, in the server's order
    Fresh,      \* the drawers users may add
    None,
    PageSize,   \* LIST_PAGE_SIZE
    MaxRetries, \* MAX_RETRIES
    MaxRuns,    \* bound: runs of the scripts
    MaxFaults,  \* bound: requests that fail or are answered with an error
    MaxWrites   \* bound: drawers added or deleted by users

Drawers == Fresh \cup UNION {ToSet(Stored[w]) : w \in Wings}

ASSUME WingAssumption == Excluded \subseteq Wings /\ Migrated \in Wings
ASSUME DrawerAssumption ==
    /\ None \notin Wings \cup Drawers \cup Seq([id : Drawers, full : BOOLEAN])
    /\ Stored \in [Wings -> Seq(Drawers)]
    /\ \A w \in Wings : IsInjective(Stored[w]) /\ ToSet(Stored[w]) \cap Fresh = {}
    /\ \A v, w \in Wings : v # w => ToSet(Stored[v]) \cap ToSet(Stored[w]) = {}
ASSUME NumberAssumption ==
    /\ {PageSize, MaxRetries} \subseteq Nat \ {0}
    /\ {MaxRuns, MaxFaults, MaxWrites} \subseteq Nat

VARIABLES
    palace,  \* the drawers of each wing, in the order they are listed
    dest,    \* the drawers of the destination palace
    disk,    \* the two files of the snapshot: records, and their number
    script,  \* "backup" or "migrate"
    pc,      \* where the run is
    todo,    \* the wings still to list
    wing,    \* the wing at hand
    ids,     \* the drawers listed of it; the offset is their number
    next,    \* the place in ids of the drawer at hand
    attempt, \* of the request at hand
    records, \* all_records
    warned,  \* the wings and drawers with a warning
    counts,  \* results
    env      \* [runs, faults, writes, refused, before, deleted, added]: see Begin,
             \* Refused, Change

local == <<script, pc, todo, wing, ids, next, attempt, records, warned, counts>>
vars  == <<palace, dest, disk, local, env>>

Ended   == {"idle", "done", "dead"}
Present == UNION {ToSet(palace[w]) : w \in Wings}
Zero    == [ok |-> 0, already |-> 0, error |-> 0]

Init ==
    /\ palace = Stored
    /\ dest = {}
    /\ disk = [drawers |-> None, manifest |-> None]
    /\ script = "backup"
    /\ pc = "idle"
    /\ todo = {} /\ wing = None
    /\ ids = <<>> /\ next = 1
    /\ attempt = 1
    /\ records = <<>> /\ warned = {} /\ counts = Zero
    /\ env = [runs |-> 0, faults |-> 0, writes |-> 0, refused |-> FALSE,
              before |-> {}, deleted |-> 0, added |-> 0]

----------------------------------------------------------------------------
(* A run. *)

\* What a run has in memory, before it starts and when it has died.
Forget ==
    /\ todo' = {} /\ ids' = <<>> /\ next' = 1 /\ attempt' = 1
    /\ records' = <<>> /\ warned' = {} /\ counts' = Zero

\* Someone starts a script; env remembers what was there then.
Begin(s) ==
    /\ pc \in Ended /\ env.runs < MaxRuns
    /\ script' = s
    /\ env' = [env EXCEPT !.runs = @ + 1, !.refused = FALSE, !.before = Present,
                          !.deleted = 0, !.added = 0]
    /\ Forget
    /\ UNCHANGED <<palace, dest, disk>>

StartBackup ==
    /\ Begin("backup")
    /\ pc' = "wings" /\ wing' = None

StartMigration ==
    /\ Begin("migrate")
    /\ pc' = "list" /\ wing' = Migrated

\* mempalace_status.
GetWings ==
    /\ pc = "wings"
    /\ todo' = {w \in Wings : palace[w] # <<>>} \ Excluded
    /\ pc' = "wing" /\ attempt' = 1
    /\ UNCHANGED <<palace, dest, disk, script, wing, ids, next, records, warned, counts, env>>

\* The wings come in the order of their names, which is any order here.
NextWing ==
    /\ pc = "wing"
    /\ \E w \in todo : wing' = w /\ todo' = todo \ {w}
    /\ ids' = <<>> /\ next' = 1
    /\ pc' = "list"
    /\ UNCHANGED <<palace, dest, disk, script, attempt, records, warned, counts, env>>

Page(w, offset) == SubSeq(palace[w], offset + 1, Min({offset + PageSize, Len(palace[w])}))

\* The drawer after the n-th of a list, or what follows the last.
After(n, list) ==
    IF n < Len(list) THEN "fetch" ELSE IF script = "backup" THEN "wing" ELSE "done"

\* Mutant: every page starts one drawer early.
ListPageOverlaps ==
    LET page == Page(wing, IF ids = <<>> THEN 0 ELSE Len(ids) - 1)
        got  == ids \o page
    IN  /\ pc = "list"
        /\ ids' = got
        /\ pc' = IF page = <<>> \/ Len(got) >= Len(palace[wing])
                 THEN After(0, got) ELSE "list"
        /\ attempt' = 1
        /\ UNCHANGED <<palace, dest, disk, script, todo, wing, next, records, warned, counts, env>>

\* Mutant: the listing ends only at exactly the total.
ListPageUntilTotal ==
    LET got == ids \o Page(wing, Len(ids))
    IN  /\ pc = "list"
        /\ ids' = got
        /\ pc' = IF Len(got) = Len(palace[wing]) THEN After(0, got) ELSE "list"
        /\ attempt' = 1
        /\ UNCHANGED <<palace, dest, disk, script, todo, wing, next, records, warned, counts, env>>

ListPage ==
    LET page == Page(wing, Len(ids))
        got  == ids \o page
    IN  /\ pc = "list"
        /\ ids' = got
        /\ pc' = IF page = <<>> \/ Len(got) >= Len(palace[wing])
                 THEN After(0, got) ELSE "list"
        /\ attempt' = 1
        /\ UNCHANGED <<palace, dest, disk, script, todo, wing, next, records, warned, counts, env>>

\* The drawer at hand is dealt with.
Advance == next' = next + 1 /\ pc' = After(next, ids) /\ attempt' = 1

\* A drawer that is gone is answered without content and saved as it is.
FetchDrawer ==
    /\ pc = "fetch" /\ script = "backup"
    /\ records' = Append(records, [id |-> ids[next], full |-> ids[next] \in Present])
    /\ Advance
    /\ UNCHANGED <<palace, dest, disk, script, todo, wing, ids, warned, counts, env>>

\* A drawer that is gone has no "wing": see DrawerGone.
GetDrawer ==
    /\ pc = "fetch" /\ script = "migrate"
    /\ ids[next] \in Present
    /\ pc' = "add" /\ attempt' = 1
    /\ UNCHANGED <<palace, dest, disk, script, todo, wing, ids, next, records, warned, counts, env>>

\* add_drawer does nothing to a drawer that is there.
AddDrawer ==
    /\ pc = "add"
    /\ dest' = dest \cup {ids[next]}
    /\ counts' = IF ids[next] \in dest THEN [counts EXCEPT !.already = @ + 1]
                                       ELSE [counts EXCEPT !.ok = @ + 1]
    /\ Advance
    /\ UNCHANGED <<palace, disk, script, todo, wing, ids, records, warned, env>>

----------------------------------------------------------------------------
(* Requests a tool answers with an error: to _rpc they are results, and the  *)
(* scripts read in them what is not there.                                  *)

Refused ==
    /\ env.faults < MaxFaults
    /\ env' = [env EXCEPT !.faults = @ + 1, !.refused = TRUE]

\* A status without "wings": the snapshot is empty.
WingsRefused ==
    /\ pc = "wings" /\ Refused
    /\ todo' = {}
    /\ pc' = "wing" /\ attempt' = 1
    /\ UNCHANGED <<palace, dest, disk, script, wing, ids, next, records, warned, counts>>

\* A page without "drawers" is the last.
PageRefused ==
    /\ pc = "list" /\ Refused
    /\ pc' = After(0, ids) /\ attempt' = 1
    /\ UNCHANGED <<palace, dest, disk, script, todo, wing, ids, next, records, warned, counts>>

\* A drawer without "content" is saved without any.  (A migration stops at the
\* missing "wing": see Killed.)
FetchRefused ==
    /\ pc = "fetch" /\ script = "backup" /\ Refused
    /\ records' = Append(records, [id |-> ids[next], full |-> FALSE])
    /\ Advance
    /\ UNCHANGED <<palace, dest, disk, script, todo, wing, ids, warned, counts>>

\* Whatever does not exist already counts as added.
AddRefused ==
    /\ pc = "add" /\ Refused
    /\ counts' = [counts EXCEPT !.ok = @ + 1]
    /\ Advance
    /\ UNCHANGED <<palace, dest, disk, script, todo, wing, ids, records, warned>>

----------------------------------------------------------------------------
(* Requests that fail: _rpc repeats them, then gives up. *)

Fault ==
    /\ env.faults < MaxFaults
    /\ env' = [env EXCEPT !.faults = @ + 1]

\* A request whose answer is lost may have been carried out.
MaybeAdded ==
    dest' \in {dest} \cup (IF pc = "add" THEN {dest \cup {ids[next]}} ELSE {})

\* Mutant: the attempts are not counted.
RetryUncounted ==
    /\ pc \in {"wings", "list", "fetch", "add"} /\ attempt < MaxRetries
    /\ Fault /\ MaybeAdded
    /\ UNCHANGED <<palace, disk, script, attempt, pc, todo, wing, ids, next, records, warned, counts>>

Retry ==
    /\ pc \in {"wings", "list", "fetch", "add"} /\ attempt < MaxRetries
    /\ Fault /\ MaybeAdded
    /\ attempt' = attempt + 1
    /\ UNCHANGED <<palace, disk, script, pc, todo, wing, ids, next, records, warned, counts>>

LastAttempt == attempt = MaxRetries /\ Fault

\* Mutant: the wing is skipped without a warning.
SkipWingQuietly ==
    /\ pc = "list" /\ script = "backup"
    /\ LastAttempt
    /\ pc' = "wing" /\ attempt' = 1
    /\ UNCHANGED <<palace, dest, disk, script, todo, wing, ids, next, records, warned, counts>>

SkipWing ==
    /\ pc = "list" /\ script = "backup"
    /\ LastAttempt
    /\ warned' = warned \cup {wing}
    /\ pc' = "wing" /\ attempt' = 1
    /\ UNCHANGED <<palace, dest, disk, script, todo, wing, ids, next, records, counts>>

SkipDrawer ==
    /\ pc = "fetch" /\ script = "backup"
    /\ LastAttempt
    /\ warned' = warned \cup {ids[next]}
    /\ Advance
    /\ UNCHANGED <<palace, dest, disk, script, todo, wing, ids, records, counts>>

CountError ==
    /\ pc \in {"fetch", "add"} /\ script = "migrate"
    /\ LastAttempt /\ MaybeAdded
    /\ counts' = [counts EXCEPT !.error = @ + 1]
    /\ Advance
    /\ UNCHANGED <<palace, disk, script, todo, wing, ids, records, warned>>

Dies ==
    /\ pc' = "dead" /\ wing' = None
    /\ Forget
    /\ UNCHANGED <<palace, dest, disk, script>>

\* Nothing catches the RuntimeError of these.
GiveUp ==
    /\ pc = "wings" \/ (pc = "list" /\ script = "migrate")
    /\ LastAttempt
    /\ Dies

\* full["wing"] of a drawer that is gone: a KeyError, which nothing catches.
DrawerGone ==
    /\ pc = "fetch" /\ script = "migrate"
    /\ ids[next] \notin Present
    /\ Dies /\ UNCHANGED env

\* The run is killed, or ended by an answer it cannot read.
Killed ==
    /\ pc \notin Ended
    /\ Dies /\ UNCHANGED env

----------------------------------------------------------------------------
(* The snapshot: each file is truncated, then filled. *)

Write(file, contents, from, to) ==
    /\ pc = from
    /\ disk' = [disk EXCEPT ![file] = contents]
    /\ pc' = to
    /\ UNCHANGED <<palace, dest, script, todo, wing, ids, next, attempt, records, warned, counts, env>>

OpenDrawers   == todo = {} /\ Write("drawers", None, "wing", "drawers")
CloseDrawers  == Write("drawers", records, "drawers", "opening")
OpenManifest  == Write("manifest", None, "opening", "manifest")

\* Mutant: the manifest counts the drawers that were skipped as well.
CloseManifestOfAll ==
    Write("manifest", Len(records) + Cardinality(warned \ Wings), "manifest", "done")

CloseManifest == Write("manifest", Len(records), "manifest", "done")

----------------------------------------------------------------------------
(* The users of the palace. *)

Listing(w) == pc = "list" /\ wing = w

Change(w, drawers, field) ==
    /\ env.writes < MaxWrites
    /\ palace' = [palace EXCEPT ![w] = drawers]
    /\ env' = [env EXCEPT !.writes = @ + 1,
                          ![field] = IF Listing(w) THEN @ + 1 ELSE @]
    /\ UNCHANGED <<dest, disk, local>>

Delete(w, i) == Change(w, RemoveAt(palace[w], i), "deleted")

\* A drawer added is listed wherever its id sorts.  None comes back in a run
\* that has listed it.
Add(w, i, d) ==
    /\ d \notin Present \cup env.before \cup ToSet(ids) \cup {r.id : r \in ToSet(records)}
    /\ Change(w, InsertAt(palace[w], i, d), "added")

Step ==
    \/ GetWings \/ NextWing \/ ListPage \/ FetchDrawer \/ GetDrawer \/ AddDrawer
    \/ WingsRefused \/ PageRefused \/ FetchRefused \/ AddRefused
    \/ Retry \/ SkipWing \/ SkipDrawer \/ CountError \/ GiveUp \/ DrawerGone
    \/ OpenDrawers \/ CloseDrawers \/ OpenManifest \/ CloseManifest

Next ==
    \/ StartBackup \/ StartMigration
    \/ Step \/ Killed
    \/ \E w \in Wings :
          \/ \E i \in 1..Len(palace[w]) : Delete(w, i)
          \/ \E i \in 1..(Len(palace[w]) + 1), d \in Fresh : Add(w, i, d)

Spec     == Init /\ [][Next]_vars
FairSpec == Spec /\ WF_vars(Step)

----------------------------------------------------------------------------
(* Properties. *)

TypeOK ==
    /\ Present \subseteq Drawers /\ \A w \in Wings : IsInjective(palace[w])
    /\ dest \subseteq Drawers
    /\ script \in {"backup", "migrate"}
    /\ todo \subseteq Wings \ Excluded /\ wing \in Wings \cup {None}
    /\ ToSet(ids) \subseteq Drawers
    /\ pc \in {"fetch", "add"} => next \in 1..Len(ids)
    /\ attempt \in 1..MaxRetries
    /\ warned \subseteq Wings \cup Drawers

\* What the snapshot holds with its content.
Saved   == {record.id : record \in {r \in ToSet(disk.drawers) : r.full}}
Success == pc = "done" /\ (script = "migrate" => counts.error = 0)

\* The wings a run should have copied, but for those it warned of.
Due == IF script = "backup" THEN Wings \ (Excluded \cup warned) ELSE {Migrated}

\* "Full verbatim content, not summaries" of whatever was not excluded: a drawer
\* that was there all along is copied with its content or named in a warning, by
\* a backup that ends and by a migration that exits 0, whatever requests failed,
\* were repeated or lost their answers.  Each deletion from a wing while it is
\* being listed moves one drawer past the offset, and no other is missed.  The
\* scripts hold to this only while no tool answers with an error: Refused says
\* what they lose without a word when one does.
LossBounded ==
    Success /\ ~env.refused =>
       LET kept   == env.before \cap UNION {ToSet(palace[w]) : w \in Due}
           copied == IF script = "backup" THEN Saved ELSE dest
       IN  Cardinality(kept \ (copied \cup warned)) <= env.deleted

\* Each addition to a wing while it is being listed repeats at most one drawer
\* in the snapshot; requests that failed, were repeated or were answered with an
\* error repeat none.
RecordsFaithful ==
    Len(records) <= Cardinality({r.id : r \in ToSet(records)}) + env.added

\* Whenever a manifest is written it counts what the drawers file then holds: no
\* run, whatever it skipped and wherever an earlier one died, completes a pair
\* of files that do not agree.
ManifestLast ==
    [][disk'.manifest # None =>
          disk'.drawers # None /\ disk'.manifest = Len(disk'.drawers)]_(disk.manifest)

\* The listing ends however the wing shrinks and grows under it, and every
\* request is given up in the end.
RunEnds == pc = "wings" \/ pc = "list" ~> pc \in {"done", "dead"}

\* How far a run is from its end: the stages before it, the places left in the
\* stage at hand, and the attempts left to the request at hand.
Rest == [idle |-> 0, dead |-> 0, done |-> 0, manifest |-> 1, opening |-> 2,
         drawers |-> 3, wing |-> 4, fetch |-> 5, add |-> 5, list |-> 6,
         wings |-> 3 * Cardinality(Wings) + 5]

Stages == Rest[pc] + 3 * Cardinality(todo)

Places ==
    CASE pc = "list"  -> IF Len(ids) < Len(palace[wing]) THEN Len(palace[wing]) - Len(ids) ELSE 0
      [] pc = "fetch" -> 2 * (Len(ids) + 1 - next)
      [] pc = "add"   -> 2 * (Len(ids) + 1 - next) - 1
      [] OTHER        -> 0

Tries == MaxRetries - attempt

\* Every step of a run, the failures and the repetitions among them, brings it
\* nearer its end, and a user can put that off only by adding a drawer to the
\* wing at hand while it is listed, by one place each.
ComesNearer ==
    [][/\ Step =>
             \/ Stages' < Stages
             \/ Stages' = Stages /\ Places' < Places
             \/ Stages' = Stages /\ Places' = Places /\ Tries' < Tries
       /\ palace' # palace =>
             /\ Stages' = Stages /\ Tries' = Tries
             /\ Places' <= Places + env'.added - env.added]_vars
=============================================================================
