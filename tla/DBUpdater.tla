------------------------------- MODULE DBUpdater -------------------------------
(* The update of the world database at startup: UpdateFetcher::Update goes     *)
(* through the files of the update directory in the order of their names,      *)
(* applies those the `updates` table does not know, recognises renamed ones by *)
(* their hash, and removes the entries of missing files.  A file is applied in *)
(* one transaction; its entry is written afterwards.  The table the files      *)
(* change is `creature`, a row is its spawn id and what was spawned.           *)
EXTENDS Integers, FiniteSets

CONSTANTS
    MaxId,                 \* bound on the spawn ids
    Entries,               \* creature entries
    None,                  \* no row
    CleanDeadRefMaxCount,  \* Updates.CleanDeadRefMaxCount, when not negative
    MaxFailures            \* bound: files marked `failed` at a time

ASSUME MaxIdAssumption == MaxId \in Nat \ {0}
ASSUME EntriesAssumption == Entries # {} /\ None \notin Entries
ASSUME CleanAssumption == CleanDeadRefMaxCount \in Nat
ASSUME FailuresAssumption == MaxFailures \in Nat

VARIABLES
    server,    \* "down", "update", "record" (in UpdateFetcher::Update), "load", "running"
    db,        \* the rows of `creature`
    files,     \* the update directory
    updates,   \* the rows of `updates`
    todo,      \* the files Update has not come to
    applied,   \* its local map of the rows it has not met
    known,     \* its cache of hashes
    spoiled    \* history: a file marked `failed` was applied, since the last load

updaterVars == <<server, db, files, updates, todo, applied, known, spoiled>>
loop == <<todo, applied, known>>

Ids == 1..MaxId
Rows == [Ids -> Entries \cup {None}]

(* A change is a statement or two: it deletes the row of a spawn or inserts it *)
(* afresh.  The changes of one file are about different spawns, their order    *)
(* does not matter.                                                            *)
Change == [type : {"delete", "spawn"}, spawn : Ids, entry : Entries \cup {None}]

(* A file: its name (a number for the day and the index of the day), its text  *)
(* as far as the hash tells it from other texts, its changes, whether it ends  *)
(* inside a statement; and `failed`, history: a commit that failed left it, or *)
(* it was applied and the entry of it failed.                                  *)
File == [name : Nat, text : Nat, sql : SUBSET Change, cut : BOOLEAN, failed : BOOLEAN]

FewFailures(others) == Cardinality({f \in others : f.failed}) < MaxFailures

Entry(f) == [name |-> f.name, text |-> f.text]

Execute(rows, sql) ==
    [s \in Ids |-> IF \E c \in sql : c.spawn = s THEN (CHOOSE c \in sql : c.spawn = s).entry
                                                ELSE rows[s]]

UpdaterInit ==
    /\ server = "down"
    /\ db = [s \in Ids |-> IF s = 1 THEN CHOOSE e \in Entries : TRUE ELSE None]
    /\ files = {} /\ updates = {}
    /\ todo = {} /\ applied = {} /\ known = {}
    /\ spoiled = FALSE
-----------------------------------------------------------------------------
(* The local variables of Update end.                                          *)
Return == todo' = {} /\ applied' = {} /\ known' = {}

(* Update begins: the list of files, the applied ones, the cache of hashes.    *)
BeginUpdate ==
    /\ server = "down"
    /\ server' = "update"
    /\ todo' = files /\ applied' = updates /\ known' = updates
    /\ UNCHANGED <<db, files, updates, spoiled>>

(* The file at hand.                                                           *)
NextFile(f) == server = "update" /\ f \in todo /\ \A g \in todo : f.name <= g.name

IsApplied(f) == \E r \in applied : r.name = f.name
Erased(f) == {r \in applied : r.name # f.name}

(* Applied, and its hash is the one in the table.  Variant: the hash is not    *)
(* looked at, as without Updates.Redundancy.                                   *)
NameKnown(f) == IsApplied(f)
UpToDate(f) == Entry(f) \in applied

SkipFile(f) ==
    /\ NextFile(f) /\ UpToDate(f)
    /\ todo' = todo \ {f} /\ applied' = Erased(f)
    /\ UNCHANGED <<server, db, files, updates, known, spoiled>>

(* Not applied under this name, but a file of this content was, and is gone.   *)
RenamedFrom(f) ==
    {r \in known : r.text = f.text /\ ~IsApplied(f) /\ \A g \in files : g.name # r.name}

RenameEntry(f) ==
    /\ NextFile(f)
    /\ \E r \in RenamedFrom(f) :
          /\ updates' = {q \in updates : q.name \notin {f.name, r.name}}
                            \cup (IF r \in updates THEN {Entry(f)} ELSE {})
          /\ applied' = applied \ {r}
    /\ todo' = todo \ {f}
    /\ UNCHANGED <<server, db, files, known, spoiled>>

(* Anything else is applied: a new file, a changed one, a copy.                *)
MustApply(f) == NextFile(f) /\ ~UpToDate(f) /\ RenamedFrom(f) = {}

Apply(f) ==
    /\ MustApply(f) /\ ~f.cut
    /\ db' = Execute(db, f.sql)
    /\ server' = "record"
    /\ spoiled' = (spoiled \/ f.failed)
    /\ UNCHANGED <<files, updates, loop>>

(* A file that ends inside a statement: the statement is refused, the          *)
(* transaction rolled back, and the server does not start ...                  *)
ApplyRefused(f) ==
    /\ MustApply(f) /\ f.cut
    /\ server' = "down" /\ Return
    /\ UNCHANGED <<db, files, updates, spoiled>>

(* ... or what is left of it is a statement too: of a DELETE cut before its    *)
(* WHERE, one that empties the table.                                          *)
ApplyCut(f) ==
    /\ MustApply(f) /\ f.cut
    /\ db' = [s \in Ids |-> None]
    /\ server' = "record" /\ spoiled' = TRUE
    /\ UNCHANGED <<files, updates, loop>>

(* UpdateEntry, for the file that was applied last.                            *)
UpdateEntry(f) ==
    /\ server = "record" /\ f \in todo /\ \A g \in todo : f.name <= g.name
    /\ updates' = {r \in updates : r.name # f.name} \cup {Entry(f)}
    /\ todo' = todo \ {f} /\ applied' = Erased(f)
    /\ server' = "update"
    /\ UNCHANGED <<db, files, known, spoiled>>

(* Nobody looks at the result of the statement.  When it fails, the loop goes  *)
(* on and the next start applies the file again.                               *)
UpdateEntryFails(f) ==
    /\ server = "record" /\ f \in todo /\ \A g \in todo : f.name <= g.name
    /\ FewFailures(files \ {f})
    /\ files' = (files \ {f}) \cup {[f EXCEPT !.failed = TRUE]}
    /\ todo' = todo \ {f} /\ applied' = Erased(f)
    /\ server' = "update"
    /\ UNCHANGED <<db, updates, known, spoiled>>

(* The end: the entries of missing files, if they are few, are removed.        *)
CleanUp ==
    /\ server = "update" /\ todo = {}
    /\ updates' = IF Cardinality(applied) <= CleanDeadRefMaxCount THEN updates \ applied ELSE updates
    /\ server' = "load" /\ Return
    /\ UNCHANGED <<db, files, spoiled>>

UpdateStep ==
    \/ BeginUpdate \/ CleanUp
    \/ \E f \in files : \/ SkipFile(f) \/ RenameEntry(f)
                        \/ UpdateEntry(f) \/ UpdateEntryFails(f)
                        \/ Apply(f) \/ ApplyRefused(f) \/ ApplyCut(f)
=============================================================================
