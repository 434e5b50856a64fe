-------------------------------- MODULE Kvdb --------------------------------
(***************************************************************************)
(* The key-value store (lib_bsp/kvdb): KvdbOperateFile, which keeps a key   *)
(* in a main file and a backup file of one folder, called through           *)
(* KvdbNetClientImpl.  A third file of the key, <key>_match, holds the rule *)
(* its values must obey and their default; nothing in the code writes it.   *)
(* BackupDatabase and RestoreDatabase copy the folder to a second one and   *)
(* back.                                                                    *)
(*                                                                          *)
(* crit_ serialises all operations but Clear and SetProperty: call is the   *)
(* operation that holds it, sweep the files a Clear has still to remove.    *)
(* The process may be killed at any point, inside a write too, and opening, *)
(* writing, copying or removing a file may fail.  Bytes reach the disk in   *)
(* the order they are written.                                              *)
(*                                                                          *)
(* No SetKey of the model has the empty value.  In the code a SetKey of     *)
(* length 0 replaces both files by an empty record and reports a failure,   *)
(* because write_data gives -1 for a count of 0.                            *)
(***************************************************************************)
EXTENDS Naturals, FiniteSets

CONSTANTS Key, Value,
          Empty, Garbage,  \* the empty string; a part of a value
          Joined,          \* the text of an old file appended to itself
          RuleText,        \* what a match file says
          Valid, Default,  \* the values the rule accepts, and its default
          OldText,         \* values that files of the old format may hold
          MaxCalls, MaxFaults  \* bounds: calls; crashes and failed file operations

ASSUME DataAssumption ==
  /\ Valid \subseteq Value /\ Default \in Valid /\ OldText \subseteq Value
  /\ {Empty, Garbage, Joined, RuleText} \cap Value = {}
  /\ Empty \notin {Garbage, Joined, RuleText}
  /\ Garbage \notin {Joined, RuleText} /\ Joined # RuleText
ASSUME KeyAssumption == Key # {}
ASSUME BoundAssumption == MaxCalls \in Nat /\ MaxFaults \in Nat

File == Key \X {"main", "bak", "match"}

\* The file names of a key, as GetWholePath makes them.
Main(k) == <<k, "main">>
Bak(k) == <<k, "bak">>
Match(k) == <<k, "match">>

Data == Value \cup {Empty, Garbage, Joined, RuleText}

VARIABLES
  db, saved,   \* file -> content, in the folder of the database and in that of its backup
  property_,   \* KVDB_SAFE_MODE is set
  call, sweep, \* the operation under crit_; what a Clear has still to remove
  calls, faults,
  \* For the properties:
  truth,       \* key -> the value of the last SetKey that succeeded, those of later ones that did not
  kept,        \* keys whose backup was written in full together with the main file, and not touched since
  exposed,     \* keys of which one copy is older than the last SetKey that succeeded
  mistaken,    \* <<key, text>>: a text nobody set that a read has made of a damaged file of the key
  snap,        \* truth, exposed and mistaken when the backup was made
  got          \* what the last GetKey returned

files == <<db, saved>>
ghosts == <<truth, kept, exposed, mistaken, snap>>
vars == <<files, property_, call, sweep, calls, faults, ghosts, got>>

---------------------------------------------------------------------------
(* Files.  A record is written in four calls: flag, length, checksum, data. *)
(* parts counts the calls whose bytes are in the file, 4 standing for a     *)
(* part of the data.  A file of the old format is the text alone; a file    *)
(* that was only truncated is an empty text.                                *)

Content == [form : {"none", "text", "record"}, val : Data, parts : 0..5]

Text(v) == [form |-> "text", val |-> v, parts |-> 0]
NoFile == [form |-> "none", val |-> Empty, parts |-> 0]

Size(v) == IF v = Empty THEN 3 ELSE 5

Record(v, n) ==
  IF n = 0 THEN Text(Empty)
  ELSE [form |-> "record", val |-> IF n = 1 THEN Empty ELSE v, parts |-> n]

Whole(v) == Record(v, Size(v))
Complete(c) == c.form = "record" /\ c.parts = Size(c.val)

\* Too short for the flag or the length.
CutInHeader(c) == c.parts < Size(c.val) /\ c.parts <= 2

\* The first bytes of c, the file of a copy that was cut off.
Prefixes(c) ==
  IF c.form = "record" THEN {Record(c.val, n) : n \in 0..c.parts}
  ELSE {c, Text(Empty)} \cup (IF c.val = Empty THEN {} ELSE {Text(Garbage)})

\* What ReadFile returns for a file that is not there.
NotThere == [ret |-> "absent", val |-> Empty]

\* Mutant: the number of bytes read is not compared with the length.
ReadFile_noCheck(c, safe, isbak) ==
  IF c.form = "none" THEN {NotThere}
  ELSE IF c.form = "text"
  THEN {[ret |-> IF isbak THEN "check" ELSE "convert", val |-> Empty]}
  ELSE {[ret |-> "ok", val |-> IF Complete(c) THEN c.val
                               ELSE IF c.parts = 4 THEN Garbage ELSE Empty]}

\* What ReadFile may return for a file of content c.  flag, len and checksum are not
\* initialised, so that for a file too short to fill them they hold anything, the values of
\* an empty record included.
ReadFile(c, safe, isbak) ==
  LET Ok(v) == [ret |-> "ok", val |-> v]
      Bad == [ret |-> "check", val |-> Empty]
  IN IF c.form = "none" THEN {NotThere}
     ELSE IF c.form = "text"
     THEN {IF isbak THEN Bad ELSE [ret |-> "convert", val |-> Empty]}
          \cup (IF c.val = Empty THEN {Bad, Ok(Empty)} ELSE {})
     ELSE IF Complete(c) THEN {Ok(c.val)}
     ELSE IF ~safe THEN {Ok(IF c.parts = 4 THEN Garbage ELSE Empty)}
     ELSE {Bad} \cup (IF c.parts = 1 \/ (c.parts = 2 /\ c.val = Empty) THEN {Ok(Empty)} ELSE {})

\* Mutant: one write more than the record has parts.
WriteFile_long(c, v) ==
  {[file |-> Record(v, Size(v) + 1), opened |-> TRUE, ok |-> TRUE, failed |-> 0]}

\* What WriteFile may make of a file of content c, whether it opened and so truncated it,
\* what it returns, and the failed system calls this takes.  It cannot open the file, or the
\* disk takes no more from some point on, or all is well.  write_data ignores what fflush
\* returns and so notices a failed write only of data that go past the buffer of the stream;
\* a write of no data counts as failed.
WriteFile(c, v) ==
  {[file |-> c, opened |-> FALSE, ok |-> FALSE, failed |-> 1]}
    \cup {[file |-> Record(v, n), opened |-> TRUE, ok |-> ok, failed |-> 1] :
             n \in 0..(Size(v) - 1), ok \in {FALSE, v # Empty}}
    \cup {[file |-> Whole(v), opened |-> TRUE, ok |-> v # Empty, failed |-> 0]}

---------------------------------------------------------------------------
(* Calls.                                                                   *)

Idle == [op |-> "none"]

NewCall(op, k, v, at, todo) ==
  [op |-> op, key |-> k, val |-> v, at |-> at,
   rule |-> Empty,       \* what the match file said
   converting |-> FALSE, \* ReadFile is about to rewrite a file of the old format
   acc |-> Empty,        \* get_data so far
   opened |-> FALSE,     \* the WriteFile of the main file opened it
   safe |-> TRUE,        \* every file so far was read in safe mode
   todo |-> todo,        \* files to wipe or copy
   clean |-> TRUE]       \* nothing went wrong so far and no Clear interfered

Call ==
  [op : {"set", "get", "delete", "backup", "restore"}, key : Key, val : Data,
   at : {"match", "main", "bak", "wipe", "copy"},
   rule : Data, converting : BOOLEAN, acc : Data, opened : BOOLEAN, safe : BOOLEAN,
   todo : SUBSET File, clean : BOOLEAN]

NoResult == [key |-> CHOOSE k \in Key : TRUE, ok |-> FALSE, val |-> Empty, safe |-> FALSE]

TypeOK ==
  /\ db \in [File -> Content] /\ saved \in [File -> Content]
  /\ property_ \in BOOLEAN
  /\ call \in Call \cup {Idle}
  /\ sweep \subseteq {"db", "saved"} \X File
  /\ calls \in 0..MaxCalls /\ faults \in 0..MaxFaults
  /\ truth \in [Key -> SUBSET Value]
  /\ kept \subseteq Key /\ exposed \subseteq Key /\ mistaken \subseteq Key \X Data
  /\ snap \in [truth : [Key -> SUBSET Value], exposed : SUBSET Key,
                mistaken : SUBSET (Key \X Data)]
  /\ got \in [key : Key, ok : BOOLEAN, val : Data, safe : BOOLEAN]

\* A folder left by an older program, or by an orderly run of this one.
Init ==
  /\ db \in [File -> {NoFile} \cup {Text(v) : v \in OldText}
                            \cup {Whole(v) : v \in Valid \cup {RuleText}}]
  /\ \A k \in Key :
       /\ db[Match(k)] \in {NoFile, Whole(RuleText)}
       /\ db[Main(k)] # Whole(RuleText)
       /\ db[Bak(k)] = IF db[Main(k)].form = "record" THEN db[Main(k)] ELSE NoFile
  /\ saved = [f \in File |-> NoFile]
  /\ property_ = TRUE
  /\ call = Idle /\ sweep = {}
  /\ calls = 0 /\ faults = 0
  /\ truth = [k \in Key |-> IF db[Main(k)] = NoFile THEN {} ELSE {db[Main(k)].val}]
  /\ kept = {k \in Key : db[Bak(k)] # NoFile}
  /\ exposed = {} /\ mistaken = {}
  /\ snap = [truth |-> [k \in Key |-> {}], exposed |-> {}, mistaken |-> {}]
  /\ got = NoResult

Begin(c) ==
  /\ call = Idle
  /\ calls < MaxCalls
  /\ calls' = calls + 1
  /\ call' = c
  /\ got' = NoResult

SetKey(k, v) ==
  /\ Begin(NewCall("set", k, v, "match", {}))
  /\ UNCHANGED <<files, property_, sweep, faults, ghosts>>

GetKey(k) ==
  /\ Begin(NewCall("get", k, Empty, "match", {}))
  /\ UNCHANGED <<files, property_, sweep, faults, ghosts>>

Fail(n) == faults + n <= MaxFaults /\ faults' = faults + n

Return == call' = Idle

---------------------------------------------------------------------------
(* Reading.  SetKey and GetKey read the match file, GetKey then the main    *)
(* file and perhaps the backup.                                             *)

\* A read makes of a file of key k the text v, which nobody set.
Mistake(k, v) == mistaken \cup {<<k, v>>}

\* The mistakes about other keys than k, once no copy of k can hold one.
Forgiven(k) == {e \in mistaken : e[1] # k}

\* The file the call is at.
Here == <<call.key, call.at>>

Reading == call # Idle /\ (call.at = "match" \/ call.op = "get")

Join(v, w) == IF v = Empty THEN w ELSE IF w = Empty THEN v ELSE Joined

\* ReadFile meets a file without the flag: it appends the text to get_data ...
ReadOld ==
  /\ Reading /\ ~call.converting
  /\ \E r \in ReadFile(db[Here], property_, call.at = "bak") : r.ret = "convert"
  /\ LET text == Join(call.acc, db[Here].val)
     IN /\ call' = [call EXCEPT !.converting = TRUE, !.acc = text]
        /\ mistaken' = IF call.at = "main" /\ text \in {Empty, Garbage}
                       THEN Mistake(call.key, text) ELSE mistaken
  /\ UNCHANGED <<files, property_, sweep, calls, faults, truth, kept, exposed, snap, got>>

\* ... writes get_data back as a record, whether or not that succeeds, and starts again
\* without clearing get_data.  The file may have been removed since.
Convert ==
  /\ Reading /\ call.converting
  /\ \E w \in WriteFile(db[Here], call.acc) :
       /\ Fail(w.failed)
       /\ db' = [db EXCEPT ![Here] = w.file]
       /\ mistaken' = IF call.at = "main" /\ ~w.opened
                      THEN Mistake(call.key, Joined) ELSE mistaken
  /\ call' = [call EXCEPT !.converting = FALSE]
  /\ UNCHANGED <<saved, property_, sweep, calls, truth, kept, exposed, snap, got>>

\* The match file has been read: SetKey checks the value, which nothing passes if the rule
\* makes no sense.
AfterMatch(r) ==
  /\ call.at = "match"
  /\ IF call.op = "set" /\ r.ret = "ok" /\ (r.val # RuleText \/ call.val \notin Valid)
     THEN Return
     ELSE call' = [call EXCEPT !.at = "main", !.rule = r.val, !.acc = Empty,
                               !.safe = property_]
  /\ UNCHANGED <<mistaken, got>>

\* What GetKey returns when the last file read gave r.
GetReturns(r) ==
  LET known == call.rule = RuleText
  IN got' = [key |-> call.key,
             ok |-> r.ret = "ok" \/ known,
             val |-> IF known /\ (r.ret # "ok" \/ r.val \notin Valid) THEN Default ELSE r.val,
             safe |-> call.safe /\ property_]

\* The main or the backup file has been read: in safe mode the backup replaces a main file
\* that cannot be used.
AfterData(r) ==
  /\ call.at \in {"main", "bak"}
  /\ mistaken' = IF r.ret = "ok" /\ property_ /\ CutInHeader(db[Here])
                 THEN Mistake(call.key, r.val) ELSE mistaken
  /\ IF r.ret # "ok" /\ call.at = "main" /\ property_
     THEN call' = [call EXCEPT !.at = "bak", !.acc = Empty] /\ UNCHANGED got
     ELSE GetReturns(r) /\ Return

ReadKey ==
  /\ Reading /\ ~call.converting
  /\ \/ /\ \E r \in ReadFile(db[Here], property_, call.at = "bak") :
             r.ret # "convert" /\ (AfterMatch(r) \/ AfterData(r))
        /\ UNCHANGED faults
     \/ \* a file that cannot be opened is taken for missing
        /\ db[Here] # NoFile /\ Fail(1)
        /\ AfterMatch(NotThere) \/ AfterData(NotThere)
  /\ UNCHANGED <<files, property_, sweep, calls, truth, kept, exposed, snap>>

---------------------------------------------------------------------------
(* Writing and removing.                                                    *)

Writing == call # Idle /\ call.op = "set" /\ call.at \in {"main", "bak"}

\* SetKey returns; both says that the backup is the new record and the main file no older
\* one, stale that one of them may be old.
SetReturns(ok, both, stale) ==
  LET k == call.key
  IN /\ Return
     /\ truth' = [truth EXCEPT ![k] = IF ok THEN {call.val} ELSE @ \cup {call.val}]
     /\ kept' = IF both THEN kept \cup {k} ELSE kept \ {k}
     /\ exposed' = IF ok THEN IF stale THEN exposed \cup {k} ELSE exposed \ {k}
                   ELSE exposed
     /\ mistaken' = IF both THEN Forgiven(k) ELSE mistaken

\* The main file; without KVDB_SAFE_MODE that is all.
WriteMain ==
  /\ Writing /\ call.at = "main"
  /\ \E w \in WriteFile(db[Here], call.val) :
       /\ Fail(w.failed)
       /\ db' = [db EXCEPT ![Here] = w.file]
       /\ IF property_
          THEN /\ call' = [call EXCEPT !.at = "bak", !.opened = w.opened]
               /\ truth' = [truth EXCEPT ![call.key] = @ \cup {call.val}]
               /\ UNCHANGED <<kept, exposed, mistaken>>
          ELSE SetReturns(w.ok, FALSE, TRUE)
  /\ UNCHANGED <<saved, property_, sweep, calls, snap, got>>

\* Mutant: a backup file that is in order is left alone.
WriteBackup_once ==
  /\ Writing /\ call.at = "bak"
  /\ db' = [db EXCEPT ![Here] = IF Complete(db[Here]) THEN @ ELSE Whole(call.val)]
  /\ SetReturns(TRUE, call.opened, ~call.opened)
  /\ UNCHANGED <<saved, property_, sweep, calls, faults, snap, got>>

\* The backup file, whose result is what SetKey returns.
WriteBackup ==
  /\ Writing /\ call.at = "bak"
  /\ \E w \in WriteFile(db[Here], call.val) :
       /\ Fail(w.failed)
       /\ db' = [db EXCEPT ![Here] = w.file]
       /\ SetReturns(w.ok, w.ok /\ Complete(w.file) /\ call.opened, ~call.opened)
  /\ UNCHANGED <<saved, property_, sweep, calls, snap, got>>

\* DeleteKey; it gives up when the main file cannot be removed or is not there.
DeleteKey(k) ==
  /\ \/ /\ db[Main(k)] = NoFile
        /\ Begin(Idle)
        /\ UNCHANGED <<db, faults, kept>>
     \/ /\ Begin(Idle)
        /\ Fail(1)
        /\ UNCHANGED <<db, kept>>
     \/ /\ db[Main(k)] # NoFile
        /\ Begin(NewCall("delete", k, Empty, "bak", {}))
        /\ db' = [db EXCEPT ![Main(k)] = NoFile]
        /\ kept' = kept \ {k}
        /\ UNCHANGED faults
  /\ UNCHANGED <<saved, property_, sweep, truth, exposed, mistaken, snap>>

\* Mutant: only the main file is removed.
DeleteBackup_stays ==
  /\ call # Idle /\ call.op = "delete"
  /\ Return
  /\ truth' = [truth EXCEPT ![call.key] = {}]
  /\ UNCHANGED <<files, property_, sweep, calls, faults, kept, exposed, mistaken, snap, got>>

\* That the backup file could not be removed is ignored.
DeleteBackup ==
  /\ call # Idle /\ call.op = "delete"
  /\ Return
  /\ truth' = [truth EXCEPT ![call.key] = {}]
  /\ \/ /\ db' = [db EXCEPT ![Bak(call.key)] = NoFile]
        /\ exposed' = exposed \ {call.key} /\ mistaken' = Forgiven(call.key)
        /\ UNCHANGED faults
     \/ /\ Fail(1)
        /\ exposed' = exposed \cup {call.key}
        /\ UNCHANGED <<db, mistaken>>
  /\ UNCHANGED <<saved, property_, sweep, calls, kept, snap, got>>

\* Clear, without crit_: the files of the folder, of that of its backup, or of both, one by
\* one; those it cannot remove stay.
Clear(folders) ==
  /\ sweep = {} /\ calls < MaxCalls
  /\ calls' = calls + 1
  /\ sweep' = {e \in folders \X File : (IF e[1] = "db" THEN db ELSE saved)[e[2]] # NoFile}
  /\ sweep' # {}
  /\ UNCHANGED <<files, property_, call, faults, ghosts, got>>

Uncleaned(c) == IF c = Idle THEN c ELSE [c EXCEPT !.clean = FALSE]

ClearFile(folder, f) ==
  /\ <<folder, f>> \in sweep
  /\ folder = "saved" => \A e \in sweep : e[1] = "saved"
  /\ sweep' = sweep \ {<<folder, f>>}
  /\ call' = Uncleaned(call)
  /\ \/ /\ folder = "db"
        /\ db' = [db EXCEPT ![f] = NoFile]
        /\ kept' = kept \ {f[1]}
        /\ UNCHANGED <<saved, faults>>
     \/ /\ folder = "saved"
        /\ saved' = [saved EXCEPT ![f] = NoFile]
        /\ UNCHANGED <<db, kept, faults>>
     \/ Fail(1) /\ UNCHANGED <<files, kept>>
  /\ UNCHANGED <<property_, calls, truth, exposed, mistaken, snap, got>>

SetProperty(p) ==
  /\ p # property_ /\ calls < MaxCalls
  /\ calls' = calls + 1
  /\ property_' = p
  /\ UNCHANGED <<files, call, sweep, faults, ghosts, got>>

---------------------------------------------------------------------------
(* BackupDatabase and RestoreDatabase: FoldCopy wipes the target folder and *)
(* copies the files one by one.                                             *)

Copying == call # Idle /\ call.op \in {"backup", "restore"}
Source == IF call.op = "backup" THEN db ELSE saved
Target == IF call.op = "backup" THEN saved ELSE db

PutTarget(f, c) ==
  IF call.op = "backup" THEN saved' = [saved EXCEPT ![f] = c] /\ UNCHANGED db
  ELSE db' = [db EXCEPT ![f] = c] /\ UNCHANGED saved

FoldCall(op, target) ==
  NewCall(op, CHOOSE k \in Key : TRUE, Empty, "wipe", {f \in File : target[f] # NoFile})

BackupDatabase ==
  /\ Begin(FoldCall("backup", saved))
  /\ snap' = [truth |-> [k \in Key |-> snap.truth[k] \cup truth[k]],
              exposed |-> snap.exposed \cup exposed,
              mistaken |-> snap.mistaken \cup mistaken]
  /\ UNCHANGED <<files, property_, sweep, faults, truth, kept, exposed, mistaken>>

RestoreDatabase ==
  /\ Begin(FoldCall("restore", db))
  /\ truth' = [k \in Key |-> snap.truth[k] \cup truth[k]]
  /\ exposed' = snap.exposed \cup exposed /\ mistaken' = snap.mistaken \cup mistaken
  /\ kept' = {}
  /\ UNCHANGED <<files, property_, sweep, faults, snap>>

\* Clear of the target folder; its result is ignored.
FoldWipe(f) ==
  /\ Copying /\ call.at = "wipe" /\ f \in call.todo
  /\ \/ /\ PutTarget(f, NoFile)
        /\ call' = [call EXCEPT !.todo = @ \ {f}]
        /\ UNCHANGED faults
     \/ /\ Fail(1)
        /\ call' = [call EXCEPT !.todo = @ \ {f}, !.clean = FALSE]
        /\ UNCHANGED files
  /\ UNCHANGED <<property_, sweep, calls, ghosts, got>>

FoldOpen ==
  /\ Copying /\ call.at = "wipe" /\ call.todo = {}
  /\ call' = [call EXCEPT !.at = "copy", !.todo = {f \in File : Source[f] # NoFile}]
  /\ UNCHANGED <<files, property_, sweep, calls, faults, ghosts, got>>

\* FileCopy.  A file that has gone is passed over; that fputc failed is not noticed.
FoldFile(f) ==
  /\ Copying /\ call.at = "copy" /\ f \in call.todo
  /\ \/ /\ IF Source[f] = NoFile THEN UNCHANGED files ELSE PutTarget(f, Source[f])
        /\ call' = [call EXCEPT !.todo = @ \ {f}]
        /\ UNCHANGED faults
     \/ /\ Source[f] # NoFile
        /\ Fail(1)
        /\ \E c \in Prefixes(Source[f]) : PutTarget(f, c)
        /\ call' = [call EXCEPT !.todo = @ \ {f}, !.clean = FALSE]
  /\ UNCHANGED <<property_, sweep, calls, ghosts, got>>

\* A file that cannot be opened ends the copying.
FoldFails ==
  /\ Copying /\ call.at = "copy" /\ call.todo # {}
  /\ Fail(1)
  /\ Return
  /\ UNCHANGED <<files, property_, sweep, calls, ghosts, got>>

FoldDone ==
  /\ Copying /\ call.at = "copy" /\ call.todo = {}
  /\ Return
  /\ IF ~call.clean THEN UNCHANGED <<truth, exposed, mistaken, snap>>
     ELSE IF call.op = "backup"
     THEN /\ snap' = [truth |-> truth, exposed |-> exposed, mistaken |-> mistaken]
          /\ UNCHANGED <<truth, exposed, mistaken>>
     ELSE /\ truth' = snap.truth /\ exposed' = snap.exposed /\ mistaken' = snap.mistaken
          /\ UNCHANGED snap
  /\ UNCHANGED <<files, property_, sweep, calls, faults, kept, got>>

---------------------------------------------------------------------------
\* The process is killed, perhaps inside a write or a copy; a new one starts in safe mode.
Crash ==
  /\ Fail(1)
  /\ call' = Idle /\ sweep' = {} /\ property_' = TRUE /\ got' = NoResult
  /\ \/ UNCHANGED <<files, truth, kept>>
     \/ /\ Writing
        /\ \E n \in 0..Size(call.val) : db' = [db EXCEPT ![Here] = Record(call.val, n)]
        /\ truth' = [truth EXCEPT ![call.key] = @ \cup {call.val}]
        /\ kept' = IF call.at = "bak" THEN kept \ {call.key} ELSE kept
        /\ UNCHANGED saved
     \/ /\ Reading /\ call.converting
        /\ \E n \in 0..Size(call.acc) : db' = [db EXCEPT ![Here] = Record(call.acc, n)]
        /\ UNCHANGED <<saved, truth, kept>>
     \/ /\ Copying /\ call.at = "copy"
        /\ \E f \in call.todo : \E c \in Prefixes(Source[f]) :
             Source[f] # NoFile /\ PutTarget(f, c)
        /\ UNCHANGED <<truth, kept>>
  /\ UNCHANGED <<calls, exposed, mistaken, snap>>

Step ==
  \/ ReadOld \/ Convert \/ ReadKey
  \/ WriteMain \/ WriteBackup \/ DeleteBackup
  \/ \E f \in File : FoldWipe(f) \/ FoldFile(f)
  \/ FoldOpen \/ FoldFails \/ FoldDone

Next ==
  \/ \E k \in Key : GetKey(k) \/ DeleteKey(k) \/ \E v \in Value : SetKey(k, v)
  \/ BackupDatabase \/ RestoreDatabase
  \/ Step
  \/ \E folders \in SUBSET {"db", "saved"} \ {{}} : Clear(folders)
  \/ \E f \in File : ClearFile("db", f) \/ ClearFile("saved", f)
  \/ \E p \in BOOLEAN : SetProperty(p)
  \/ Crash

Spec == Init /\ [][Next]_vars

---------------------------------------------------------------------------
(* Properties.                                                              *)

\* A key whose backup was written in full is never lost by crashes or failed writes: the
\* main file holds the last value set, or one whose SetKey did not succeed, or it is damaged
\* and the backup file does.  The exception is a main file rewritten by a read that took a
\* text nobody set for the value (mistaken): with two copies written that is the empty text
\* of a file cut off in its header (MainErrorReadsBackup).
CrashSafe ==
  \A k \in kept :
    LET Good(c) == Complete(c) /\ c.val \in truth[k]
    IN IF Complete(db[Main(k)])
       THEN Good(db[Main(k)]) \/ <<k, db[Main(k)].val>> \in mistaken
       ELSE Good(db[Bak(k)])

\* A GetKey in safe mode that succeeds returns the value last set, or one whose SetKey did
\* not succeed, or the default of the rule: never an older value, never one that was deleted
\* or replaced by RestoreDatabase.  The exceptions are a key whose failed main write was
\* reported as a success, or whose last value was set without KVDB_SAFE_MODE, or whose backup
\* file DeleteKey failed to remove (exposed), and the texts of NeverInvents (mistaken).
ReadRecent ==
  got.ok /\ got.safe /\ got.key \notin exposed
    => \/ got.val \in truth[got.key] \cup {Default}
       \/ <<got.key, got.val>> \in mistaken

\* Whatever fails, a GetKey in safe mode returns a value somebody set for some key, or a text
\* that reads of this key made of a damaged file in one of three ways the code leaves open:
\* the empty text of a file cut off in its header; a part of a file of the old format, of
\* which only a part was copied and which has no length to compare with; a file of the old
\* format appended to itself, after ReadFile could not open it to rewrite it and read it
\* again without clearing get_data.  So a record cut off in its checksum or data is never
\* returned, nor a text made of two while the rewrites of the key's old file open it.
NeverInvents ==
  got.ok /\ got.safe => got.val \in Value \/ <<got.key, got.val>> \in mistaken

\* "KVDB_SAFE_MODE: ... a main file with an error makes the check file be read; if that has
\* an error too the read fails" (kvdbclient.h): with two copies written, a successful read
\* returns what was set.
MainErrorReadsBackup ==
  got.ok /\ got.safe /\ got.key \in kept => got.val \in truth[got.key] \cup {Default}
=============================================================================
