----------------------------- MODULE Kvdb_proof -----------------------------
(***************************************************************************)
(* Kvdb keeps its types, a key whose two copies were written survives every *)
(* crash, and GetKey in safe mode returns only what it may, for every set   *)
(* of keys and values and any number of calls and faults.                   *)
(*                                                                          *)
(* CrashSafe is not inductive: it says nothing of the backup while the main *)
(* file is in order, and the next write damages the main file.  KInv adds   *)
(* what each copy holds by itself, and what the call under way has done so  *)
(* far.  What GetKey returned says nothing of the files either: RInv says   *)
(* it of every full copy in both folders, each against its own history, and *)
(* of a copy between them that is under way.                                *)
(***************************************************************************)
EXTENDS Kvdb, TLAPS

\* The backup of a kept key is complete and holds a value the key may have.
BackupHolds ==
  \A k \in kept : Complete(db[Bak(k)]) /\ db[Bak(k)].val \in truth[k]

\* A main file of key k that is complete holds such a value, or a text a read has made of the
\* file; one without the flag was only truncated.
Holds(c, k, tr, mi) ==
  /\ Complete(c) => c.val \in tr[k] \/ <<k, c.val>> \in mi
  /\ c.form = "text" => c.val = Empty

MainHolds == \A k \in kept : Holds(db[Main(k)], k, truth, mistaken)

\* c may be what a write of the record of v has left.
PartOf(c, v) == (Complete(c) => c.val = v) /\ (c.form = "text" => c.val = Empty)

\* Where the call under way may be, and what it has done.
CallOK ==
  call # Idle =>
    /\ call.op = "set" => call.val \in Value /\ call.at \in {"match", "main", "bak"}
    /\ call.op = "get" => call.at \in {"match", "main", "bak"}
    /\ call.op = "delete" => call.at = "bak" /\ call.key \notin kept
    /\ call.op \in {"backup", "restore"} => call.at \in {"wipe", "copy"}
    /\ call.op = "restore" => kept = {}
    /\ call.converting => call.at = "match" \/ (call.op = "get" /\ call.at = "main")
    /\ call.op = "set" /\ call.at = "bak" /\ call.opened
         => PartOf(db[Main(call.key)], call.val)
    /\ call.op = "get" /\ call.at = "main" /\ call.key \in kept
         => /\ call.acc = Empty
            /\ call.converting => <<call.key, Empty>> \in mistaken

KInv == TypeOK /\ BackupHolds /\ MainHolds /\ CallOK

---------------------------------------------------------------------------
(* Files.                                                                   *)

\* A part of a record is a content, and it is complete only if it is the whole record.
LEMMA RecordFacts ==
  ASSUME NEW v \in Data, NEW n \in 0..5
  PROVE  /\ Record(v, n) \in Content
         /\ PartOf(Record(v, n), v)
BY DEF Record, Text, Content, Complete, Size, Data, PartOf

LEMMA WholeFacts ==
  ASSUME NEW v \in Data
  PROVE  Whole(v) \in Content /\ Complete(Whole(v)) /\ Whole(v).val = v /\ PartOf(Whole(v), v)
BY DEF Whole, Record, Text, Content, Complete, Size, Data, PartOf

LEMMA NoFileFacts == NoFile \in Content /\ \A v : PartOf(NoFile, v)
BY DEF NoFile, Content, Complete, Data, PartOf

\* WriteFile leaves the file alone or makes it a part of the record; it returns success
\* only for the whole one.
LEMMA WriteFileFacts ==
  ASSUME NEW c \in Content, NEW v \in Data, NEW w \in WriteFile(c, v)
  PROVE  /\ w.file \in Content /\ w.ok \in BOOLEAN /\ w.failed \in {0, 1}
         /\ w.opened \in BOOLEAN
         /\ w.file = c \/ PartOf(w.file, v)
         /\ w.opened => PartOf(w.file, v)
         /\ w.ok => w.opened
<1>1. CASE w = [file |-> c, opened |-> FALSE, ok |-> FALSE, failed |-> 1]
  BY <1>1
<1>2. CASE \E n \in 0..(Size(v) - 1), ok \in {FALSE, v # Empty} :
             w = [file |-> Record(v, n), opened |-> TRUE, ok |-> ok, failed |-> 1]
  <2>1. PICK n \in 0..(Size(v) - 1), ok \in {FALSE, v # Empty} :
          w = [file |-> Record(v, n), opened |-> TRUE, ok |-> ok, failed |-> 1]
    BY <1>2
  <2>2. n \in 0..5
    BY DEF Size
  <2>3. QED
    BY <2>1, <2>2, RecordFacts
<1>3. CASE w = [file |-> Whole(v), opened |-> TRUE, ok |-> v # Empty, failed |-> 0]
  BY <1>3, WholeFacts
<1>4. QED
  BY <1>1, <1>2, <1>3 DEF WriteFile

LEMMA PrefixFacts ==
  ASSUME NEW c \in Content, NEW d \in Prefixes(c)
  PROVE  d \in Content
<1>1. Text(Empty) \in Content /\ Text(Garbage) \in Content
  BY DEF Text, Content, Data
<1>2. \A n \in 0..c.parts : n \in 0..5
  BY DEF Content
<1>3. c.val \in Data
  BY DEF Content
<1>4. QED
  BY <1>1, <1>2, <1>3, RecordFacts DEF Prefixes

LEMMA ReadFileFacts ==
  ASSUME NEW c \in Content, NEW safe \in BOOLEAN, NEW isbak \in BOOLEAN,
         NEW r \in ReadFile(c, safe, isbak)
  PROVE  r.val \in Data /\ (r.ret = "convert" => ~isbak /\ c.form = "text")
BY DEF ReadFile, NotThere, Data, Content

LEMMA JoinType == \A v, w \in Data : Join(v, w) \in Data
BY DEF Join, Data

\* A mistake about a key is one, and the others stay.
LEMMA MistakeFacts ==
  ASSUME TypeOK, NEW k \in Key, NEW v \in Data
  PROVE  Mistake(k, v) \subseteq Key \X Data /\ mistaken \subseteq Mistake(k, v)
BY DEF Mistake, TypeOK

---------------------------------------------------------------------------
(* Calls.                                                                   *)

LEMMA NewCallType ==
  ASSUME NEW op \in {"set", "get", "delete", "backup", "restore"}, NEW k \in Key,
         NEW v \in Data, NEW at \in {"match", "main", "bak", "wipe", "copy"},
         NEW todo \in SUBSET File
  PROVE  NewCall(op, k, v, at, todo) \in Call
BY DEF NewCall, Call, Data

LEMMA FirstKey == (CHOOSE k \in Key : TRUE) \in Key
BY KeyAssumption

LEMMA NoResultType == NoResult \in [key : Key, ok : BOOLEAN, val : Data, safe : BOOLEAN]
BY FirstKey DEF NoResult, Data

LEMMA FailType ==
  ASSUME TypeOK, NEW n \in {0, 1}, Fail(n)
  PROVE  faults' \in 0..MaxFaults
BY BoundAssumption DEF TypeOK, Fail

LEMMA BeginType ==
  ASSUME TypeOK, NEW c \in Call \cup {Idle}, Begin(c)
  PROVE  /\ calls' \in 0..MaxCalls /\ call' \in Call \cup {Idle}
         /\ got' \in [key : Key, ok : BOOLEAN, val : Data, safe : BOOLEAN]
BY BoundAssumption, NoResultType DEF TypeOK, Begin

\* The call under way is at a file of its key, unless it copies the folder.
LEMMA HereFile ==
  ASSUME KInv, call # Idle, call.op \notin {"backup", "restore"}
  PROVE  call \in Call /\ call.key \in Key /\ Here \in File
BY DEF KInv, TypeOK, CallOK, Call, Here, File

LEMMA ReadingHere ==
  ASSUME KInv, Reading
  PROVE  call # Idle /\ call.op \in {"set", "get"} /\ call \in Call /\ call.key \in Key
         /\ Here \in File /\ db[Here] \in Content
<1>1. call # Idle /\ call \in Call
  BY DEF KInv, TypeOK, Reading
<1>2. call.op \in {"set", "get"}
  BY <1>1 DEF KInv, CallOK, Reading, Call
<1>3. QED
  BY <1>1, <1>2, HereFile DEF KInv, TypeOK

---------------------------------------------------------------------------
(* Every step keeps KInv.                                                   *)

LEMMA InitKInv == Init => KInv
<1> SUFFICES ASSUME Init PROVE KInv
  OBVIOUS
<1> USE DEF Init
<1>1. \A f \in File : db[f] \in Content
  <2>1. \A v \in OldText : Text(v) \in Content
    BY DataAssumption DEF Text, Content, Data
  <2>2. \A v \in Valid \cup {RuleText} : Whole(v) \in Content
    BY DataAssumption, WholeFacts DEF Data
  <2>3. QED
    BY <2>1, <2>2, NoFileFacts
<1>2. db \in [File -> Content]
  BY <1>1
<1>3. \A k \in Key : Main(k) \in File /\ Bak(k) \in File
  BY DEF Main, Bak, File
<1>4. \A k \in Key : db[Main(k)] # NoFile => db[Main(k)].val \in Value
  <2>1. \A v \in OldText : Text(v).val \in Value
    BY DataAssumption DEF Text
  <2>2. \A v \in Valid : Whole(v).val \in Value
    BY DataAssumption, WholeFacts DEF Data
  <2>3. QED
    BY <1>3, <2>1, <2>2
<1>5. truth \in [Key -> SUBSET Value]
  BY <1>4
<1>6. TypeOK
  BY <1>2, <1>5, BoundAssumption, NoFileFacts, NoResultType DEF TypeOK
<1>7. BackupHolds /\ MainHolds
  <2> SUFFICES ASSUME NEW k \in kept
               PROVE  Complete(db[Bak(k)]) /\ db[Bak(k)] = db[Main(k)]
                      /\ db[Main(k)].val \in truth[k]
    BY DEF BackupHolds, MainHolds, Holds, Complete
  <2>1. k \in Key /\ db[Bak(k)] # NoFile
    OBVIOUS
  <2>2. db[Main(k)].form = "record" /\ db[Bak(k)] = db[Main(k)]
    BY <2>1
  <2>3. \A v \in OldText : Text(v).form = "text"
    BY DEF Text
  <2>4. PICK v \in Valid \cup {RuleText} : db[Main(k)] = Whole(v)
    BY <1>3, <2>1, <2>2, <2>3 DEF NoFile
  <2>5. Complete(db[Main(k)])
    BY <2>4, WholeFacts, DataAssumption DEF Data
  <2>6. QED
    BY <2>1, <2>2, <2>5
<1>8. CallOK
  BY DEF CallOK
<1>9. QED
  BY <1>6, <1>7, <1>8 DEF KInv

\* Steps that change neither the files of the database nor what is known of its keys.
LEMMA QuietStep ==
  ASSUME KInv, UNCHANGED <<db, truth, kept>>, mistaken \subseteq mistaken'
  PROVE  BackupHolds' /\ MainHolds'
BY DEF KInv, BackupHolds, MainHolds, Holds, Complete, Main, Bak

LEMMA BeginsKInv ==
  ASSUME KInv, NEW k \in Key, NEW v \in Value, SetKey(k, v) \/ GetKey(k)
  PROVE  KInv'
<1> USE DEF ghosts, files
<1>1. v \in Data /\ Empty \in Data
  BY DEF Data
<1>2. /\ NewCall("set", k, v, "match", {}) \in Call
      /\ NewCall("get", k, Empty, "match", {}) \in Call
  BY <1>1, NewCallType
<1>3. TypeOK'
  <2>1. TypeOK
    BY DEF KInv
  <2>2. CASE SetKey(k, v)
    BY <1>2, <2>1, <2>2, BeginType DEF SetKey, TypeOK
  <2>3. CASE GetKey(k)
    BY <1>2, <2>1, <2>3, BeginType DEF GetKey, TypeOK
  <2>4. QED
    BY <2>2, <2>3
<1>4. BackupHolds' /\ MainHolds'
  BY QuietStep DEF SetKey, GetKey
<1>5. CallOK'
  BY DEF SetKey, GetKey, Begin, NewCall, CallOK
<1>6. QED
  BY <1>3, <1>4, <1>5 DEF KInv

LEMMA ReadOldKInv ==
  ASSUME KInv, ReadOld
  PROVE  KInv'
<1> DEFINE text == Join(call.acc, db[Here].val)
<1>1. /\ call # Idle /\ call \in Call /\ db[Here] \in Content /\ call.key \in Key
      /\ call.op \in {"set", "get"} /\ TypeOK
  BY ReadingHere DEF ReadOld, KInv
<1>2. /\ call' = [call EXCEPT !.converting = TRUE, !.acc = text]
      /\ mistaken' = IF call.at = "main" /\ text \in {Empty, Garbage}
                     THEN Mistake(call.key, text) ELSE mistaken
      /\ UNCHANGED <<db, saved, property_, sweep, calls, faults, truth, kept, exposed, snap, got>>
  BY DEF ReadOld, files
<1>3. call.at # "bak" /\ db[Here].form = "text"
  <2>1. PICK r \in ReadFile(db[Here], property_, call.at = "bak") : r.ret = "convert"
    BY DEF ReadOld
  <2>2. property_ \in BOOLEAN /\ (call.at = "bak") \in BOOLEAN
    BY <1>1 DEF TypeOK
  <2>3. QED
    BY <1>1, <2>1, <2>2, ReadFileFacts
<1>4. text \in Data
  BY <1>1, JoinType DEF Call, Content
<1>5. call.op = "get" /\ call.at = "main" /\ call.key \in kept => text = Empty
  BY <1>1, <1>3 DEF KInv, MainHolds, Holds, CallOK, Here, Main, Join
<1> HIDE DEF text
<1>6. /\ call' \in Call /\ call' # Idle /\ call'.op = call.op /\ call'.key = call.key
      /\ call'.val = call.val /\ call'.at = call.at /\ call'.acc = text /\ call'.converting
  BY <1>1, <1>2, <1>4 DEF Call, Idle
<1>7. mistaken \subseteq mistaken' /\ mistaken' \subseteq Key \X Data
  BY <1>1, <1>2, <1>4, MistakeFacts DEF TypeOK
<1>8. TypeOK'
  BY <1>1, <1>2, <1>6, <1>7 DEF TypeOK
<1>9. BackupHolds' /\ MainHolds'
  BY <1>2, <1>7, QuietStep
<1>10. CallOK'
  <2>1. Reading
    BY DEF ReadOld
  <2>2. text = Empty /\ call.at = "main" => <<call.key, Empty>> \in mistaken'
    BY <1>2 DEF Mistake
  <2>3. QED
    BY <1>1, <1>2, <1>3, <1>5, <1>6, <2>1, <2>2 DEF KInv, CallOK, Call, Reading
<1>11. QED
  BY <1>8, <1>9, <1>10 DEF KInv

\* A file of the call's key, the main or the match file, becomes a part of the record of
\* acc: for a key that is kept acc is empty, and known as a mistake.
LEMMA ConvertedHolds ==
  ASSUME KInv, Reading, call.converting, NEW c \in Content,
         c = db[Here] \/ PartOf(c, call.acc),
         db' = [db EXCEPT ![Here] = c], UNCHANGED <<truth, kept>>,
         mistaken \subseteq mistaken'
  PROVE  /\ db' \in [File -> Content]
         /\ BackupHolds' /\ MainHolds'
<1>1. /\ call # Idle /\ call \in Call /\ Here \in File /\ call.key \in Key
      /\ call.at \in {"match", "main"}
  BY ReadingHere DEF KInv, CallOK
<1>2. db' \in [File -> Content]
  BY <1>1 DEF KInv, TypeOK
<1>3. \A k \in Key : db'[Bak(k)] = db[Bak(k)]
  BY <1>1 DEF KInv, TypeOK, Here, Bak, File
<1>4. \A k \in Key : db'[Main(k)] = db[Main(k)] \/ (k = call.key /\ call.at = "main" /\ db'[Main(k)] = c)
  BY <1>1 DEF KInv, TypeOK, Here, Main, File
<1>5. BackupHolds'
  BY <1>3 DEF KInv, TypeOK, BackupHolds, Complete
<1>6. MainHolds'
  <2> SUFFICES ASSUME NEW k \in kept
               PROVE  Holds(db'[Main(k)], k, truth, mistaken')
    BY DEF MainHolds
  <2>1. k \in Key
    BY DEF KInv, TypeOK
  <2>2. CASE db'[Main(k)] = db[Main(k)]
    BY <2>1, <2>2 DEF KInv, MainHolds, Holds
  <2>3. CASE k = call.key /\ call.at = "main" /\ db'[Main(k)] = c /\ db'[Main(k)] # db[Main(k)]
    <3>1. c # db[Here]
      BY <2>3 DEF Here, Main
    <3>2. PartOf(c, call.acc)
      BY <3>1
    <3>3. call.acc = Empty /\ <<k, Empty>> \in mistaken
      BY <1>1, <2>3 DEF KInv, CallOK
    <3>4. QED
      BY <2>3, <3>2, <3>3 DEF PartOf, Holds
  <2>4. QED
    BY <2>1, <2>2, <2>3, <1>4
<1>7. QED
  BY <1>2, <1>5, <1>6

LEMMA ConvertKInv ==
  ASSUME KInv, Convert
  PROVE  KInv'
<1>1. /\ call # Idle /\ call \in Call /\ Here \in File /\ call.key \in Key
      /\ call.op \in {"set", "get"} /\ db[Here] \in Content /\ call.acc \in Data
      /\ call.at \in {"match", "main"}
  BY ReadingHere DEF KInv, CallOK, Call, Convert
<1>2. PICK w \in WriteFile(db[Here], call.acc) :
        /\ Fail(w.failed) /\ db' = [db EXCEPT ![Here] = w.file]
        /\ mistaken' = IF call.at = "main" /\ ~w.opened
                       THEN Mistake(call.key, Joined) ELSE mistaken
  BY DEF Convert
<1>3. /\ w.file \in Content /\ w.failed \in {0, 1}
      /\ w.file = db[Here] \/ PartOf(w.file, call.acc)
  BY <1>1, WriteFileFacts
<1>4. /\ db' \in [File -> Content] /\ mistaken' \subseteq Key \X Data
      /\ mistaken \subseteq mistaken' /\ BackupHolds' /\ MainHolds'
  <2>1. TypeOK /\ Joined \in Data
    BY DEF KInv, Data
  <2>2. mistaken' \subseteq Key \X Data /\ mistaken \subseteq mistaken'
    BY <1>1, <1>2, <2>1, MistakeFacts DEF TypeOK
  <2>3. QED
    BY <1>2, <1>3, <2>2, ConvertedHolds DEF Convert
<1>5. faults' \in 0..MaxFaults
  BY <1>2, <1>3, FailType DEF KInv
<1>6. call' \in Call
  BY <1>1 DEF Convert, Call
<1>7. TypeOK'
  BY <1>4, <1>5, <1>6 DEF Convert, KInv, TypeOK
<1>8. CallOK'
  <2>1. /\ call' # Idle /\ call'.op = call.op /\ call'.key = call.key /\ call'.val = call.val
        /\ call'.at = call.at /\ call'.acc = call.acc /\ ~call'.converting /\ kept' = kept
    BY <1>1 DEF Convert, Call, Idle
  <2>2. QED
    BY <1>1, <2>1 DEF KInv, CallOK
<1>9. QED
  BY <1>4, <1>7, <1>8 DEF KInv

LEMMA ReadKeyKInv ==
  ASSUME KInv, ReadKey
  PROVE  KInv'
<1> USE DEF ReadKey, files
<1>1. /\ call # Idle /\ call \in Call /\ Here \in File /\ call.key \in Key
      /\ call.op \in {"set", "get"} /\ db[Here] \in Content /\ ~call.converting
  BY ReadingHere
<1>2. PICK r \in ReadFile(db[Here], property_, call.at = "bak") \cup {NotThere} :
        AfterMatch(r) \/ AfterData(r)
  OBVIOUS
<1>3. r.val \in Data /\ faults' \in 0..MaxFaults
  <2>1. property_ \in BOOLEAN /\ (call.at = "bak") \in BOOLEAN
    BY DEF KInv, TypeOK
  <2>2. r.val \in Data
    <3>1. CASE r = NotThere
      BY <3>1 DEF NotThere, Data
    <3>2. CASE r \in ReadFile(db[Here], property_, call.at = "bak")
      BY <1>1, <2>1, <3>2, ReadFileFacts
    <3>3. QED
      BY <3>1, <3>2
  <2>3. faults' \in 0..MaxFaults
    BY FailType DEF KInv, TypeOK
  <2>4. QED
    BY <2>2, <2>3
<1>4. mistaken \subseteq mistaken' /\ mistaken' \subseteq Key \X Data
  BY <1>1, <1>2, <1>3, MistakeFacts DEF AfterMatch, AfterData, KInv, TypeOK
<1>5. call' \in Call \cup {Idle}
  <2>1. CASE call' = Idle
    BY <2>1
  <2>2. CASE call' = [call EXCEPT !.at = "main", !.rule = r.val, !.acc = Empty,
                                  !.safe = property_]
    BY <1>1, <1>3, <2>2 DEF KInv, TypeOK, Call, Data
  <2>3. CASE call' = [call EXCEPT !.at = "bak", !.acc = Empty]
    BY <1>1, <2>3 DEF Call, Data
  <2>4. QED
    BY <1>2, <2>1, <2>2, <2>3 DEF AfterMatch, AfterData, Return
<1>6. got' \in [key : Key, ok : BOOLEAN, val : Data, safe : BOOLEAN]
  <2>1. CASE got' = got
    BY <2>1 DEF KInv, TypeOK
  <2>2. CASE GetReturns(r)
    <3>1. Default \in Data
      BY DataAssumption DEF Data
    <3>2. call.safe \in BOOLEAN /\ property_ \in BOOLEAN
      BY <1>1 DEF Call, KInv, TypeOK
    <3>3. QED
      BY <1>1, <1>3, <2>2, <3>1, <3>2 DEF GetReturns
  <2>3. QED
    BY <1>2, <2>1, <2>2 DEF AfterMatch, AfterData
<1>7. TypeOK'
  BY <1>3, <1>4, <1>5, <1>6 DEF KInv, TypeOK
<1>8. BackupHolds' /\ MainHolds'
  BY <1>4, QuietStep
<1>9. CallOK'
  <2>1. CASE call' = Idle
    BY <2>1 DEF CallOK
  <2>2. CASE call' # Idle /\ AfterMatch(r)
    BY <1>1, <2>2 DEF AfterMatch, Return, KInv, CallOK, Call
  <2>3. CASE call' # Idle /\ AfterData(r)
    <3>1. call.op = "get"
      BY <1>1, <2>3 DEF AfterData, Reading
    <3>2. QED
      BY <1>1, <2>3, <3>1 DEF AfterData, Return, KInv, CallOK, Call
  <2>4. QED
    BY <1>2, <2>1, <2>2, <2>3
<1>10. QED
  BY <1>7, <1>8, <1>9 DEF KInv

\* Where a call that writes is.
LEMMA WritingHere ==
  ASSUME KInv, Writing
  PROVE  /\ call # Idle /\ call \in Call /\ call.op = "set" /\ call.key \in Key
         /\ call.val \in Value /\ call.val \in Data /\ call.at \in {"main", "bak"}
         /\ Here \in File /\ db[Here] \in Content
<1>1. call # Idle /\ call \in Call /\ call.op = "set" /\ call.at \in {"main", "bak"}
  BY DEF KInv, TypeOK, Writing
<1>2. call.val \in Value /\ call.val \in Data
  BY <1>1 DEF KInv, CallOK, Data
<1>3. QED
  BY <1>1, <1>2, HereFile DEF KInv, TypeOK

LEMMA ForgivenFacts ==
  ASSUME NEW k
  PROVE  /\ Forgiven(k) \subseteq mistaken
         /\ \A j, v : j # k => (<<j, v>> \in Forgiven(k) <=> <<j, v>> \in mistaken)
BY DEF Forgiven

LEMMA SetReturnsType ==
  ASSUME KInv, Writing, NEW ok \in BOOLEAN, NEW both \in BOOLEAN, NEW stale \in BOOLEAN,
         SetReturns(ok, both, stale)
  PROVE  /\ call' = Idle
         /\ truth' \in [Key -> SUBSET Value]
         /\ kept' \subseteq Key /\ exposed' \subseteq Key /\ mistaken' \subseteq Key \X Data
<1>1. call.key \in Key /\ call.val \in Value
  BY WritingHere
<1>2. QED
  BY <1>1, ForgivenFacts DEF SetReturns, Return, KInv, TypeOK

\* What a write of the main file leaves of the other files and of this one.
LEMMA MainWritten ==
  ASSUME KInv, Writing, call.at = "main", NEW c \in Content, db' = [db EXCEPT ![Here] = c]
  PROVE  /\ db' \in [File -> Content] /\ db'[Main(call.key)] = c
         /\ \A k \in Key : db'[Bak(k)] = db[Bak(k)]
         /\ \A k \in Key : k # call.key => db'[Main(k)] = db[Main(k)]
<1>1. call.key \in Key
  BY WritingHere
<1>2. \A k \in Key : Main(k) \in File /\ Bak(k) \in File
  BY DEF Main, Bak, File
<1>3. Here = Main(call.key)
  BY DEF Here, Main
<1>4. \A k \in Key : Bak(k) # Here /\ (k # call.key => Main(k) # Here)
  BY DEF Here, Main, Bak
<1>5. QED
  BY <1>1, <1>2, <1>3, <1>4 DEF KInv, TypeOK

LEMMA BackupWritten ==
  ASSUME KInv, Writing, call.at = "bak", NEW c \in Content, db' = [db EXCEPT ![Here] = c]
  PROVE  /\ db' \in [File -> Content] /\ db'[Bak(call.key)] = c
         /\ \A k \in Key : db'[Main(k)] = db[Main(k)]
         /\ \A k \in Key : k # call.key => db'[Bak(k)] = db[Bak(k)]
<1>1. call.key \in Key
  BY WritingHere
<1>2. \A k \in Key : Main(k) \in File /\ Bak(k) \in File
  BY DEF Main, Bak, File
<1>3. Here = Bak(call.key)
  BY DEF Here, Bak
<1>4. \A k \in Key : Main(k) # Here /\ (k # call.key => Bak(k) # Here)
  BY DEF Here, Main, Bak
<1>5. QED
  BY <1>1, <1>2, <1>3, <1>4 DEF KInv, TypeOK

\* A main file that became a part of the record of a value added to truth.
LEMMA MainWriteHolds ==
  ASSUME KInv, Writing, call.at = "main", NEW c \in Content, db' = [db EXCEPT ![Here] = c],
         c = db[Here] \/ PartOf(c, call.val),
         truth' = [truth EXCEPT ![call.key] = @ \cup {call.val}],
         kept' \subseteq kept, mistaken' = mistaken
  PROVE  BackupHolds' /\ MainHolds'
<1>1. call.key \in Key /\ Here = Main(call.key)
  BY WritingHere DEF Here, Main
<1>2. /\ db'[Main(call.key)] = c
      /\ \A k \in Key : db'[Bak(k)] = db[Bak(k)]
      /\ \A k \in Key : k # call.key => db'[Main(k)] = db[Main(k)]
  BY MainWritten
<1>3. \A k \in Key : truth[k] \subseteq truth'[k] /\ call.val \in truth'[call.key]
  BY <1>1 DEF KInv, TypeOK
<1>4. kept \subseteq Key
  BY DEF KInv, TypeOK
<1>5. BackupHolds'
  BY <1>2, <1>3, <1>4 DEF KInv, BackupHolds, Complete
<1>6. MainHolds'
  <2> SUFFICES ASSUME NEW k \in kept'
               PROVE  Holds(db'[Main(k)], k, truth', mistaken)
    BY DEF MainHolds
  <2>1. k \in Key /\ k \in kept
    BY <1>4
  <2>2. CASE db'[Main(k)] = db[Main(k)]
    BY <1>3, <2>1, <2>2 DEF KInv, MainHolds, Holds
  <2>3. CASE db'[Main(k)] # db[Main(k)]
    <3>1. k = call.key /\ db'[Main(k)] = c /\ PartOf(c, call.val)
      BY <1>1, <1>2, <2>1, <2>3
    <3>2. QED
      BY <1>3, <2>1, <3>1 DEF PartOf, Holds
  <2>4. QED
    BY <2>2, <2>3
<1>7. QED
  BY <1>5, <1>6

LEMMA WriteMainKInv ==
  ASSUME KInv, WriteMain
  PROVE  KInv'
<1> USE DEF WriteMain
<1>1. /\ call # Idle /\ call \in Call /\ call.op = "set" /\ call.key \in Key
      /\ call.val \in Value /\ call.val \in Data /\ Here \in File /\ db[Here] \in Content
  BY WritingHere
<1>2. PICK w \in WriteFile(db[Here], call.val) :
       /\ Fail(w.failed)
       /\ db' = [db EXCEPT ![Here] = w.file]
       /\ IF property_
          THEN /\ call' = [call EXCEPT !.at = "bak", !.opened = w.opened]
               /\ truth' = [truth EXCEPT ![call.key] = @ \cup {call.val}]
               /\ UNCHANGED <<kept, exposed, mistaken>>
          ELSE SetReturns(w.ok, FALSE, TRUE)
  OBVIOUS
<1>3. /\ w.file \in Content /\ w.ok \in BOOLEAN /\ w.failed \in {0, 1}
      /\ w.opened \in BOOLEAN
      /\ w.file = db[Here] \/ PartOf(w.file, call.val)
      /\ w.opened => PartOf(w.file, call.val)
  BY <1>1, WriteFileFacts
<1>4. faults' \in 0..MaxFaults
  BY <1>2, <1>3, FailType DEF KInv
<1>5. /\ db' \in [File -> Content] /\ db'[Main(call.key)] = w.file
      /\ \A k \in Key : db'[Bak(k)] = db[Bak(k)]
      /\ \A k \in Key : k # call.key => db'[Main(k)] = db[Main(k)]
  BY <1>2, <1>3, MainWritten
<1>6. CASE property_
  <2>1. call' \in Call /\ call' # Idle
    BY <1>1, <1>2, <1>3, <1>6 DEF Call, Idle
  <2>2. truth' \in [Key -> SUBSET Value]
    BY <1>1, <1>2, <1>6 DEF KInv, TypeOK
  <2>3. TypeOK'
    BY <1>2, <1>4, <1>5, <1>6, <2>1, <2>2 DEF KInv, TypeOK
  <2>4. BackupHolds' /\ MainHolds'
    BY <1>2, <1>3, <1>6, MainWriteHolds
  <2>5. CallOK'
    <3>1. ~call.converting
      BY <1>1 DEF KInv, CallOK
    <3>2. /\ call'.op = "set" /\ call'.key = call.key /\ call'.val = call.val
          /\ call'.at = "bak" /\ ~call'.converting /\ call'.opened = w.opened
      BY <1>1, <1>2, <1>6, <3>1 DEF Call
    <3>3. QED
      BY <1>1, <1>3, <1>5, <3>2 DEF CallOK
  <2>6. QED
    BY <2>3, <2>4, <2>5 DEF KInv
<1>7. CASE ~property_
  <2>1. SetReturns(w.ok, FALSE, TRUE)
    BY <1>2, <1>7
  <2>2. /\ call' = Idle
        /\ truth' \in [Key -> SUBSET Value]
        /\ kept' \subseteq Key /\ exposed' \subseteq Key /\ mistaken' \subseteq Key \X Data
    BY <1>3, <2>1, SetReturnsType
  <2>3. TypeOK'
    BY <1>4, <1>5, <2>2 DEF KInv, TypeOK
  <2>4. /\ kept' = kept \ {call.key} /\ mistaken' = mistaken
        /\ \A k \in Key : k # call.key => truth'[k] = truth[k]
    BY <1>1, <2>1 DEF SetReturns, KInv, TypeOK
  <2>5. BackupHolds' /\ MainHolds'
    BY <1>5, <2>2, <2>4 DEF KInv, TypeOK, BackupHolds, MainHolds, Holds, Complete
  <2>6. CallOK'
    BY <2>2 DEF CallOK
  <2>7. QED
    BY <2>3, <2>5, <2>6 DEF KInv
<1>8. QED
  BY <1>6, <1>7 DEF KInv, TypeOK

LEMMA WriteBackupKInv ==
  ASSUME KInv, WriteBackup
  PROVE  KInv'
<1> USE DEF WriteBackup
<1>1. /\ call # Idle /\ call \in Call /\ call.op = "set" /\ call.key \in Key
      /\ call.val \in Value /\ call.val \in Data /\ Here \in File /\ db[Here] \in Content
      /\ call.opened \in BOOLEAN
  BY WritingHere DEF Call
<1>2. PICK w \in WriteFile(db[Here], call.val) :
       /\ Fail(w.failed)
       /\ db' = [db EXCEPT ![Here] = w.file]
       /\ SetReturns(w.ok, w.ok /\ Complete(w.file) /\ call.opened, ~call.opened)
  OBVIOUS
<1>3. /\ w.file \in Content /\ w.ok \in BOOLEAN /\ w.failed \in {0, 1}
      /\ w.ok /\ Complete(w.file) => w.file.val = call.val
  BY <1>1, WriteFileFacts DEF PartOf
<1>4. faults' \in 0..MaxFaults
  BY <1>2, <1>3, FailType DEF KInv
<1>5. /\ db' \in [File -> Content] /\ db'[Bak(call.key)] = w.file
      /\ \A k \in Key : db'[Main(k)] = db[Main(k)]
      /\ \A k \in Key : k # call.key => db'[Bak(k)] = db[Bak(k)]
  BY <1>2, <1>3, BackupWritten
<1>6. (w.ok /\ Complete(w.file) /\ call.opened) \in BOOLEAN /\ (~call.opened) \in BOOLEAN
  OBVIOUS
<1>7. /\ call' = Idle
      /\ truth' \in [Key -> SUBSET Value]
      /\ kept' \subseteq Key /\ exposed' \subseteq Key /\ mistaken' \subseteq Key \X Data
  BY <1>2, <1>3, <1>6, SetReturnsType
<1>8. TypeOK'
  BY <1>4, <1>5, <1>7 DEF KInv, TypeOK
<1>9. CASE w.ok /\ Complete(w.file) /\ call.opened
  <2>1. /\ kept' = kept \cup {call.key} /\ mistaken' = Forgiven(call.key)
        /\ truth'[call.key] = {call.val}
        /\ \A k \in Key : k # call.key => truth'[k] = truth[k]
    BY <1>1, <1>2, <1>3, <1>9 DEF SetReturns, KInv, TypeOK
  <2>2. Holds(db[Main(call.key)], call.key, truth', mistaken')
    BY <1>1, <1>9, <2>1 DEF KInv, CallOK, PartOf, Holds, Writing
  <2>3. BackupHolds'
    BY <1>3, <1>5, <1>7, <1>9, <2>1 DEF KInv, BackupHolds, Complete
  <2>4. MainHolds'
    <3> SUFFICES ASSUME NEW k \in kept'
                 PROVE  Holds(db'[Main(k)], k, truth', mistaken')
      BY DEF MainHolds
    <3>1. CASE k = call.key
      BY <1>1, <1>5, <2>2, <3>1
    <3>2. CASE k # call.key
      <4>1. k \in kept /\ k \in Key
        BY <1>7, <2>1, <3>2
      <4>2. Holds(db[Main(k)], k, truth, mistaken)
        BY <4>1 DEF KInv, MainHolds
      <4>3. QED
        BY <1>5, <2>1, <3>2, <4>1, <4>2, ForgivenFacts DEF Holds
    <3>3. QED
      BY <3>1, <3>2
  <2>5. QED
    BY <1>7, <1>8, <2>3, <2>4 DEF KInv, CallOK
<1>10. CASE ~(w.ok /\ Complete(w.file) /\ call.opened)
  <2>1. /\ kept' = kept \ {call.key} /\ mistaken' = mistaken
        /\ \A k \in Key : k # call.key => truth'[k] = truth[k]
    BY <1>1, <1>2, <1>10 DEF SetReturns, KInv, TypeOK
  <2>2. BackupHolds' /\ MainHolds'
    BY <1>5, <1>7, <2>1 DEF KInv, TypeOK, BackupHolds, MainHolds, Holds, Complete
  <2>3. QED
    BY <1>7, <1>8, <2>2 DEF KInv, CallOK
<1>11. QED
  BY <1>9, <1>10

LEMMA DeleteKeyKInv ==
  ASSUME KInv, NEW k \in Key, DeleteKey(k)
  PROVE  KInv'
<1> USE DEF DeleteKey
<1>1. CASE UNCHANGED <<db, kept>> /\ Begin(Idle) /\ (UNCHANGED faults \/ Fail(1))
  <2>1. TypeOK'
    BY <1>1, BeginType, FailType DEF KInv, TypeOK
  <2>2. BackupHolds' /\ MainHolds'
    BY <1>1, QuietStep
  <2>3. QED
    BY <1>1, <2>1, <2>2 DEF KInv, CallOK, Begin
<1>2. CASE /\ Begin(NewCall("delete", k, Empty, "bak", {}))
           /\ db' = [db EXCEPT ![Main(k)] = NoFile]
           /\ kept' = kept \ {k}
           /\ UNCHANGED faults
  <2>1. NewCall("delete", k, Empty, "bak", {}) \in Call
    BY NewCallType DEF Data
  <2>2. \A j \in Key : Main(j) \in File /\ Bak(j) \in File /\ Bak(j) # Main(k)
                       /\ (j # k => Main(j) # Main(k))
    BY DEF Main, Bak, File
  <2>3. TypeOK'
    BY <1>2, <2>1, <2>2, BeginType, NoFileFacts DEF KInv, TypeOK
  <2>4. \A j \in Key : db'[Bak(j)] = db[Bak(j)] /\ (j # k => db'[Main(j)] = db[Main(j)])
    BY <1>2, <2>2 DEF KInv, TypeOK
  <2>5. BackupHolds' /\ MainHolds'
    BY <1>2, <2>4 DEF KInv, TypeOK, BackupHolds, MainHolds, Holds, Complete
  <2>6. CallOK'
    BY <1>2 DEF CallOK, Begin, NewCall
  <2>7. QED
    BY <2>3, <2>5, <2>6 DEF KInv
<1>3. QED
  BY <1>1, <1>2

LEMMA DeleteBackupKInv ==
  ASSUME KInv, DeleteBackup
  PROVE  KInv'
<1> USE DEF DeleteBackup
<1>1. /\ call \in Call /\ call.key \in Key /\ call.key \notin kept /\ call' = Idle
      /\ kept \subseteq Key
  BY HereFile DEF KInv, TypeOK, CallOK, Return
<1>2. truth' \in [Key -> SUBSET Value]
      /\ \A j \in Key : j # call.key => truth'[j] = truth[j]
  BY <1>1 DEF KInv, TypeOK
<1>3. /\ faults' \in 0..MaxFaults
      /\ exposed' \subseteq Key /\ mistaken' \subseteq Key \X Data
      /\ \A j \in Key : \A v : j # call.key => (<<j, v>> \in mistaken' <=> <<j, v>> \in mistaken)
  BY <1>1, FailType, ForgivenFacts DEF KInv, TypeOK
<1>4. db' \in [File -> Content]
  BY NoFileFacts DEF KInv, TypeOK
<1>5. \A j \in Key : j # call.key =>
        db'[Bak(j)] = db[Bak(j)] /\ db'[Main(j)] = db[Main(j)]
  <2>1. \A j \in Key : Main(j) \in File /\ Bak(j) \in File /\ Main(j) # Bak(call.key)
                       /\ (j # call.key => Bak(j) # Bak(call.key))
    BY DEF Main, Bak, File
  <2>2. QED
    BY <2>1 DEF KInv, TypeOK
<1>6. TypeOK'
  BY <1>1, <1>2, <1>3, <1>4 DEF KInv, TypeOK
<1>7. BackupHolds' /\ MainHolds'
  BY <1>1, <1>2, <1>3, <1>5 DEF KInv, BackupHolds, MainHolds, Holds, Complete
<1>8. QED
  BY <1>1, <1>6, <1>7 DEF KInv, CallOK

LEMMA ClearKInv ==
  ASSUME KInv, NEW folders \in SUBSET {"db", "saved"}, Clear(folders)
  PROVE  KInv'
<1> USE DEF Clear, ghosts, files
<1>1. sweep' \subseteq {"db", "saved"} \X File
  OBVIOUS
<1>2. TypeOK'
  BY <1>1, BoundAssumption DEF KInv, TypeOK
<1>3. BackupHolds' /\ MainHolds'
  BY QuietStep
<1>4. QED
  BY <1>2, <1>3 DEF KInv, CallOK, PartOf, Complete

\* What marks a call as disturbed leaves its other fields.
LEMMA UncleanedFacts ==
  ASSUME NEW c \in Call \cup {Idle}
  PROVE  /\ Uncleaned(c) \in Call \cup {Idle}
         /\ c # Idle => /\ Uncleaned(c).op = c.op /\ Uncleaned(c).key = c.key
                        /\ Uncleaned(c).val = c.val /\ Uncleaned(c).at = c.at
                        /\ Uncleaned(c).converting = c.converting
                        /\ Uncleaned(c).opened = c.opened /\ Uncleaned(c).acc = c.acc
         /\ Uncleaned(c) # Idle => c # Idle
BY DEF Uncleaned, Call

\* Files of the database vanish, and with them their keys from kept.
LEMMA RemovedCallOK ==
  ASSUME KInv, call' = Uncleaned(call), kept' \subseteq kept, UNCHANGED mistaken,
         \A k \in Key : db'[Main(k)] = db[Main(k)] \/ db'[Main(k)] = NoFile
  PROVE  CallOK'
<1> SUFFICES ASSUME call' # Idle PROVE CallOK'
  BY DEF CallOK
<1>1. call # Idle /\ call \in Call /\ call.key \in Key
  BY UncleanedFacts DEF KInv, TypeOK, Call
<1>2. /\ call'.op = call.op /\ call'.key = call.key /\ call'.val = call.val
      /\ call'.at = call.at /\ call'.converting = call.converting
      /\ call'.opened = call.opened /\ call'.acc = call.acc
  BY <1>1, UncleanedFacts
<1>3. PartOf(db[Main(call.key)], call.val) => PartOf(db'[Main(call.key)], call.val)
  BY <1>1, NoFileFacts
<1>4. QED
  BY <1>1, <1>2, <1>3 DEF KInv, CallOK

LEMMA ClearFileKInv ==
  ASSUME KInv, NEW f \in File, NEW folder \in {"db", "saved"}, ClearFile(folder, f)
  PROVE  KInv'
<1> USE DEF ClearFile, files
<1>1. call' \in Call \cup {Idle}
  BY UncleanedFacts DEF KInv, TypeOK
<1>2. f[1] \in Key /\ f = <<f[1], f[2]>>
  BY DEF File
<1>3. CASE db' = [db EXCEPT ![f] = NoFile] /\ kept' = kept \ {f[1]} /\ UNCHANGED <<saved, faults>>
  <2>1. TypeOK'
    BY <1>1, <1>3, NoFileFacts DEF KInv, TypeOK
  <2>2. \A k \in Key : Main(k) \in File /\ Bak(k) \in File
                       /\ (k # f[1] => Main(k) # f /\ Bak(k) # f)
    BY <1>2 DEF Main, Bak, File
  <2>3. \A k \in Key : k # f[1] => db'[Main(k)] = db[Main(k)] /\ db'[Bak(k)] = db[Bak(k)]
    BY <1>3, <2>2 DEF KInv, TypeOK
  <2>4. BackupHolds' /\ MainHolds'
    BY <1>3, <2>3 DEF KInv, TypeOK, BackupHolds, MainHolds, Holds, Complete
  <2>5. \A k \in Key : db'[Main(k)] = db[Main(k)] \/ db'[Main(k)] = NoFile
    BY <1>3, <2>2 DEF KInv, TypeOK
  <2>6. CallOK'
    BY <1>3, <2>5, RemovedCallOK
  <2>7. QED
    BY <2>1, <2>4, <2>6 DEF KInv
<1>4. CASE /\ UNCHANGED <<db, kept>> /\ saved' \in {saved, [saved EXCEPT ![f] = NoFile]}
           /\ (UNCHANGED faults \/ Fail(1))
  <2>1. TypeOK'
    BY <1>1, <1>4, NoFileFacts, FailType DEF KInv, TypeOK
  <2>2. BackupHolds' /\ MainHolds'
    BY <1>4, QuietStep
  <2>3. CallOK'
    BY <1>4, RemovedCallOK
  <2>4. QED
    BY <2>1, <2>2, <2>3 DEF KInv
<1>5. QED
  BY <1>3, <1>4

LEMMA SetPropertyKInv ==
  ASSUME KInv, NEW p \in BOOLEAN, SetProperty(p)
  PROVE  KInv'
<1> USE DEF SetProperty, ghosts, files
<1>1. TypeOK'
  BY BoundAssumption DEF KInv, TypeOK
<1>2. BackupHolds' /\ MainHolds'
  BY QuietStep
<1>3. QED
  BY <1>1, <1>2 DEF KInv, CallOK, PartOf, Complete

LEMMA FoldCallType ==
  ASSUME NEW op \in {"backup", "restore"}, NEW target
  PROVE  /\ FoldCall(op, target) \in Call
         /\ FoldCall(op, target).op = op /\ FoldCall(op, target).at = "wipe"
         /\ ~FoldCall(op, target).converting
<1>1. FoldCall(op, target) \in Call
  BY FirstKey, NewCallType DEF FoldCall, Data
<1>2. QED
  BY <1>1 DEF FoldCall, NewCall

LEMMA FoldBeginsKInv ==
  ASSUME KInv, BackupDatabase \/ RestoreDatabase
  PROVE  KInv'
<1>1. CASE BackupDatabase
  <2> USE DEF BackupDatabase, files
  <2>1. TypeOK'
    BY <1>1, FoldCallType, BeginType DEF KInv, TypeOK
  <2>2. BackupHolds' /\ MainHolds'
    BY <1>1, QuietStep
  <2>3. CallOK'
    BY <1>1, FoldCallType DEF CallOK, Begin
  <2>4. QED
    BY <2>1, <2>2, <2>3 DEF KInv
<1>2. CASE RestoreDatabase
  <2> USE DEF RestoreDatabase, files
  <2>1. TypeOK'
    BY <1>2, FoldCallType, BeginType DEF KInv, TypeOK
  <2>2. BackupHolds' /\ MainHolds'
    BY <1>2 DEF BackupHolds, MainHolds
  <2>3. CallOK'
    BY <1>2, FoldCallType DEF CallOK, Begin
  <2>4. QED
    BY <2>1, <2>2, <2>3 DEF KInv
<1>3. QED
  BY <1>1, <1>2

\* A step of a copy puts a file into the target folder: with a restore under way no key is
\* kept, and a backup does not touch the database.
LEMMA PutTargetHolds ==
  ASSUME KInv, Copying, NEW f \in File, NEW c \in Content, PutTarget(f, c),
         UNCHANGED <<truth, kept>>, mistaken' = mistaken
  PROVE  /\ db' \in [File -> Content] /\ saved' \in [File -> Content]
         /\ BackupHolds' /\ MainHolds'
<1>1. db' \in [File -> Content] /\ saved' \in [File -> Content]
  BY DEF PutTarget, KInv, TypeOK
<1>2. CASE call.op = "backup"
  BY <1>1, <1>2, QuietStep DEF PutTarget
<1>3. CASE call.op # "backup"
  <2>1. kept' = {}
    BY <1>3 DEF Copying, KInv, CallOK
  <2>2. QED
    BY <1>1, <2>1 DEF BackupHolds, MainHolds
<1>4. QED
  BY <1>2, <1>3

\* A copy that goes on stays a copy.
LEMMA CopyingCallOK ==
  ASSUME KInv, Copying, UNCHANGED kept, call' \in Call, call'.op = call.op,
         call'.at \in {"wipe", "copy"}, call'.converting = call.converting
  PROVE  CallOK'
<1>1. ~call.converting
  BY DEF KInv, CallOK, Copying
<1>2. call.op = "restore" => kept = {}
  BY DEF KInv, CallOK, Copying
<1>3. QED
  BY <1>1, <1>2 DEF CallOK, Copying

LEMMA FoldWipeKInv ==
  ASSUME KInv, NEW f \in File, FoldWipe(f)
  PROVE  KInv'
<1> USE DEF FoldWipe, files, ghosts
<1>1. call \in Call /\ call.at = "wipe"
  BY DEF KInv, TypeOK, Copying
<1>2. /\ call' \in Call /\ call'.op = call.op /\ call'.at = "wipe"
      /\ call'.converting = call.converting
  BY <1>1 DEF Call
<1>3. CallOK'
  BY <1>2, CopyingCallOK
<1>4. CASE PutTarget(f, NoFile) /\ UNCHANGED faults
  BY <1>2, <1>3, <1>4, NoFileFacts, PutTargetHolds DEF KInv, TypeOK
<1>5. CASE Fail(1) /\ UNCHANGED files
  <2>1. TypeOK'
    BY <1>2, <1>5, FailType DEF KInv, TypeOK
  <2>2. QED
    BY <1>3, <1>5, <2>1, QuietStep DEF KInv
<1>6. QED
  BY <1>4, <1>5

LEMMA FoldOpenKInv ==
  ASSUME KInv, FoldOpen
  PROVE  KInv'
<1> USE DEF FoldOpen, files, ghosts
<1>1. call \in Call
  BY DEF KInv, TypeOK, Copying
<1>2. /\ call' \in Call /\ call'.op = call.op /\ call'.at = "copy"
      /\ call'.converting = call.converting
  BY <1>1 DEF Call
<1>3. CallOK'
  BY <1>2, CopyingCallOK
<1>4. TypeOK'
  BY <1>2 DEF KInv, TypeOK
<1>5. QED
  BY <1>3, <1>4, QuietStep DEF KInv

LEMMA FoldFileKInv ==
  ASSUME KInv, NEW f \in File, FoldFile(f)
  PROVE  KInv'
<1> USE DEF FoldFile, files, ghosts
<1>1. call \in Call /\ Source[f] \in Content
  BY DEF KInv, TypeOK, Copying, Source
<1>2. /\ call' \in Call /\ call'.op = call.op /\ call'.at = "copy"
      /\ call'.converting = call.converting
  BY <1>1 DEF Call
<1>3. CallOK'
  BY <1>2, CopyingCallOK
<1>4. faults' \in 0..MaxFaults
  BY FailType DEF KInv, TypeOK
<1>5. CASE UNCHANGED files
  <2>1. TypeOK'
    BY <1>2, <1>4, <1>5 DEF KInv, TypeOK
  <2>2. QED
    BY <1>3, <1>5, <2>1, QuietStep DEF KInv
<1>6. CASE \E c \in Content : PutTarget(f, c)
  <2>1. PICK c \in Content : PutTarget(f, c)
    BY <1>6
  <2>2. /\ db' \in [File -> Content] /\ saved' \in [File -> Content]
        /\ BackupHolds' /\ MainHolds'
    BY <2>1, PutTargetHolds
  <2>3. TypeOK'
    BY <1>2, <1>4, <2>2 DEF KInv, TypeOK
  <2>4. QED
    BY <1>3, <2>2, <2>3 DEF KInv
<1>7. QED
  BY <1>1, <1>5, <1>6, PrefixFacts

LEMMA FoldEndsKInv ==
  ASSUME KInv, FoldFails \/ FoldDone
  PROVE  KInv'
<1> USE DEF files, ghosts, Return
<1>1. CASE FoldFails
  <2>1. TypeOK'
    BY <1>1, FailType DEF FoldFails, KInv, TypeOK
  <2>2. QED
    BY <1>1, <2>1, QuietStep DEF FoldFails, KInv, CallOK
<1>2. CASE FoldDone
  <2>1. TypeOK'
    BY <1>2 DEF FoldDone, KInv, TypeOK
  <2>2. CASE kept = {}
    BY <1>2, <2>1, <2>2 DEF FoldDone, KInv, CallOK, BackupHolds, MainHolds
  <2>3. CASE kept # {}
    <3>1. UNCHANGED <<truth, mistaken>>
      BY <1>2, <2>3 DEF FoldDone, Copying, KInv, CallOK
    <3>2. QED
      BY <1>2, <2>1, <3>1, QuietStep DEF FoldDone, KInv, CallOK
  <2>4. QED
    BY <2>2, <2>3
<1>3. QED
  BY <1>1, <1>2

LEMMA CrashKInv ==
  ASSUME KInv, Crash
  PROVE  KInv'
<1> USE DEF Crash
<1>1. /\ faults' \in 0..MaxFaults
      /\ got' \in [key : Key, ok : BOOLEAN, val : Data, safe : BOOLEAN]
  BY FailType, NoResultType DEF KInv
<1>2. CallOK'
  BY DEF CallOK
<1>3. SUFFICES /\ db' \in [File -> Content] /\ saved' \in [File -> Content]
               /\ truth' \in [Key -> SUBSET Value]
               /\ kept' \subseteq Key /\ mistaken' \subseteq Key \X Data
               /\ BackupHolds' /\ MainHolds'
  BY <1>1, <1>2 DEF KInv, TypeOK
<1>4. CASE UNCHANGED <<files, truth, kept>>
  BY <1>4, QuietStep DEF files, KInv, TypeOK
<1>5. CASE /\ Writing
           /\ \E n \in 0..Size(call.val) : db' = [db EXCEPT ![Here] = Record(call.val, n)]
           /\ truth' = [truth EXCEPT ![call.key] = @ \cup {call.val}]
           /\ kept' = IF call.at = "bak" THEN kept \ {call.key} ELSE kept
           /\ UNCHANGED saved
  <2>1. PICK n \in 0..Size(call.val) : db' = [db EXCEPT ![Here] = Record(call.val, n)]
    BY <1>5
  <2>2. n \in 0..5
    BY DEF Size
  <2>3. /\ call.key \in Key /\ call.val \in Value /\ call.val \in Data
        /\ call.at \in {"main", "bak"}
    BY <1>5, WritingHere
  <2>4. /\ Record(call.val, n) \in Content
        /\ PartOf(Record(call.val, n), call.val)
    BY <2>2, <2>3, RecordFacts
  <2>5. /\ truth' \in [Key -> SUBSET Value] /\ kept' \subseteq Key /\ mistaken' \subseteq Key \X Data
        /\ saved' \in [File -> Content]
    BY <1>5, <2>3 DEF KInv, TypeOK
  <2>6. CASE call.at = "main"
    BY <1>5, <2>1, <2>4, <2>5, <2>6, MainWritten, MainWriteHolds
  <2>7. CASE call.at = "bak"
    <3>1. /\ db' \in [File -> Content]
          /\ \A k \in Key : db'[Main(k)] = db[Main(k)]
          /\ \A k \in Key : k # call.key => db'[Bak(k)] = db[Bak(k)]
      BY <1>5, <2>1, <2>4, <2>7, BackupWritten
    <3>2. \A k \in Key : k # call.key => truth'[k] = truth[k]
      BY <1>5, <2>3 DEF KInv, TypeOK
    <3>3. BackupHolds' /\ MainHolds'
      BY <1>5, <2>5, <2>7, <3>1, <3>2 DEF KInv, TypeOK, BackupHolds, MainHolds, Holds, Complete
    <3>4. QED
      BY <2>5, <3>1, <3>3
  <2>8. QED
    BY <2>3, <2>6, <2>7
<1>6. CASE /\ Reading /\ call.converting
           /\ \E n \in 0..Size(call.acc) : db' = [db EXCEPT ![Here] = Record(call.acc, n)]
           /\ UNCHANGED <<saved, truth, kept>>
  <2>1. PICK n \in 0..Size(call.acc) : db' = [db EXCEPT ![Here] = Record(call.acc, n)]
    BY <1>6
  <2>2. n \in 0..5 /\ call.acc \in Data
    BY <1>6, ReadingHere DEF Size, Call
  <2>3. /\ Record(call.acc, n) \in Content
        /\ PartOf(Record(call.acc, n), call.acc)
    BY <2>2, RecordFacts
  <2>4. db' \in [File -> Content] /\ BackupHolds' /\ MainHolds'
    BY <1>6, <2>1, <2>3, ConvertedHolds
  <2>5. QED
    BY <1>6, <2>4 DEF KInv, TypeOK
<1>7. CASE /\ Copying
           /\ \E f \in call.todo : \E c \in Prefixes(Source[f]) :
                Source[f] # NoFile /\ PutTarget(f, c)
           /\ UNCHANGED <<truth, kept>>
  <2>1. PICK f \in call.todo : \E c \in Prefixes(Source[f]) : PutTarget(f, c)
    BY <1>7
  <2>2. f \in File /\ Source[f] \in Content
    BY <1>7, <2>1 DEF Copying, KInv, TypeOK, Call, Source
  <2>3. PICK c \in Content : PutTarget(f, c)
    BY <2>1, <2>2, PrefixFacts
  <2>4. /\ db' \in [File -> Content] /\ saved' \in [File -> Content]
        /\ BackupHolds' /\ MainHolds'
    BY <1>7, <2>2, <2>3, PutTargetHolds
  <2>5. QED
    BY <1>7, <2>4 DEF KInv, TypeOK
<1>8. QED
  BY <1>4, <1>5, <1>6, <1>7

LEMMA NextKInv ==
  ASSUME KInv, [Next]_vars
  PROVE  KInv'
<1>1. CASE UNCHANGED vars
  BY <1>1 DEF vars, files, ghosts, KInv, TypeOK, BackupHolds, MainHolds, Holds, CallOK,
              PartOf, Complete
<1>2. CASE Step
  BY <1>2, ReadOldKInv, ConvertKInv, ReadKeyKInv, WriteMainKInv, WriteBackupKInv,
     DeleteBackupKInv, FoldWipeKInv, FoldFileKInv, FoldOpenKInv, FoldEndsKInv DEF Step
<1>3. CASE \E k \in Key : GetKey(k) \/ DeleteKey(k) \/ \E v \in Value : SetKey(k, v)
  <2>1. PICK k \in Key : GetKey(k) \/ DeleteKey(k) \/ \E v \in Value : SetKey(k, v)
    BY <1>3
  <2>2. Default \in Value
    BY DataAssumption
  <2>3. QED
    BY <2>1, <2>2, BeginsKInv, DeleteKeyKInv
<1>4. CASE BackupDatabase \/ RestoreDatabase
  BY <1>4, FoldBeginsKInv
<1>5. CASE \E folders \in SUBSET {"db", "saved"} \ {{}} : Clear(folders)
  BY <1>5, ClearKInv
<1>6. CASE \E f \in File : ClearFile("db", f) \/ ClearFile("saved", f)
  BY <1>6, ClearFileKInv
<1>7. CASE \E p \in BOOLEAN : SetProperty(p)
  BY <1>7, SetPropertyKInv
<1>8. CASE Crash
  BY <1>8, CrashKInv
<1>9. QED
  BY <1>1, <1>2, <1>3, <1>4, <1>5, <1>6, <1>7, <1>8 DEF Next

---------------------------------------------------------------------------
LEMMA SpecKInv == Spec => []KInv
BY InitKInv, NextKInv, PTL DEF Spec

\* The files, the call under way and the history keep their types, for any number of keys,
\* values, calls and faults.
THEOREM SpecTypeOK == Spec => []TypeOK
BY SpecKInv, PTL DEF KInv

\* A key whose main and backup file were both written by SetKey survives every crash, inside
\* any later write of the main file too, whatever else the process was doing: one complete
\* file holds a value it may have, and a main file complete with another text is one that a
\* read has rewritten, having taken a text nobody set for its value (mistaken).
THEOREM SpecCrashSafe == Spec => []CrashSafe
<1>1. KInv => CrashSafe
  BY DEF KInv, BackupHolds, MainHolds, Holds, CrashSafe
<1>2. QED
  BY <1>1, SpecKInv, PTL


---------------------------------------------------------------------------
(* What GetKey may return.                                                  *)

\* All parts of a record are there.
Full(c) == c.form = "record" /\ c.parts >= Size(c.val)

\* v is a value somebody set, and unless k is exposed one k may have now, or it is a mistake
\* known of k: tr, ex and mi are the truth, exposed and mistaken of the folder.
Fit(v, k, tr, ex, mi) ==
  \/ v \in Value /\ (k \notin ex => v \in tr[k])
  \/ <<k, v>> \in mi

\* A full copy of key k holds such a text; a file without the flag holds one too, or only the
\* first part of one.
Sound(c, k, tr, ex, mi) ==
  /\ c.form = "text" =>
       c.parts = 0 /\ (c.val \in {Empty, Garbage} \/ Fit(c.val, k, tr, ex, mi))
  /\ Full(c) => Fit(c.val, k, tr, ex, mi)

AllSound(folder, tr, ex, mi) ==
  \A k \in Key : Sound(folder[Main(k)], k, tr, ex, mi) /\ Sound(folder[Bak(k)], k, tr, ex, mi)

\* What a GetKey has made of the main file so far: get_data is empty or fits the key, and
\* meets another text in the file only after a rewrite that could not open it.
GetSound ==
  call.op = "get" /\ call.at = "main" =>
    /\ (call.acc = Empty /\ ~call.converting)
         \/ Fit(call.acc, call.key, truth, exposed, mistaken)
    /\ ~call.converting /\ call.acc # Empty
         => \/ db[Main(call.key)].form # "text" \/ db[Main(call.key)].val = Empty
            \/ <<call.key, Joined>> \in mistaken

\* What the call under way has done so far: a copy not yet complete is covered by both
\* histories, and one that nothing disturbed can replace the one by the other.
CallSound ==
  /\ call # Idle => ~got.ok /\ GetSound
  /\ call # Idle /\ call.op = "delete" => db[Main(call.key)] = NoFile
  /\ call # Idle /\ call.op = "set" /\ call.at = "bak" /\ call.opened
       => (Full(db[Main(call.key)]) => db[Main(call.key)].val = call.val)
  /\ call # Idle /\ call.op = "backup" =>
       /\ \A k \in Key : truth[k] \subseteq snap.truth[k]
       /\ exposed \subseteq snap.exposed /\ mistaken \subseteq snap.mistaken
       /\ call.clean /\ call.at = "wipe" => \A f \in File \ call.todo : saved[f] = NoFile
       /\ call.clean /\ call.at = "copy" => AllSound(saved, truth, exposed, mistaken)
  /\ call # Idle /\ call.op = "restore" =>
       /\ \A k \in Key : snap.truth[k] \subseteq truth[k]
       /\ snap.exposed \subseteq exposed /\ snap.mistaken \subseteq mistaken
       /\ call.clean /\ call.at = "wipe" => \A f \in File \ call.todo : db[f] = NoFile
       /\ call.clean /\ call.at = "copy" => AllSound(db, snap.truth, snap.exposed, snap.mistaken)

DbSound == AllSound(db, truth, exposed, mistaken)
SavedSound == AllSound(saved, snap.truth, snap.exposed, snap.mistaken)

GotSound == NeverInvents /\ ReadRecent

RInv == DbSound /\ SavedSound /\ CallSound /\ GotSound

LEMMA FitGrows ==
  ASSUME NEW v, NEW k, NEW tr, NEW ex, NEW mi, NEW mi2, Fit(v, k, tr, ex, mi), mi \subseteq mi2
  PROVE  Fit(v, k, tr, ex, mi2)
BY DEF Fit

LEMMA SoundNoFile == \A k, tr, ex, mi : Sound(NoFile, k, tr, ex, mi)
BY DEF Sound, NoFile, Full

LEMMA NoFilesSound ==
  ASSUME NEW d, \A f \in File : d[f] = NoFile, NEW tr, NEW ex, NEW mi
  PROVE  AllSound(d, tr, ex, mi)
BY SoundNoFile DEF AllSound, Main, Bak, File

\* A part of the record of v is sound if v is.
LEMMA SoundRecord ==
  ASSUME NEW v \in Data, NEW n \in 0..Size(v), NEW k, NEW tr, NEW ex, NEW mi,
         Fit(v, k, tr, ex, mi)
  PROVE  Sound(Record(v, n), k, tr, ex, mi)
<1>1. n \in Nat /\ Size(v) \in {3, 5}
  BY DEF Size
<1>2. CASE n = 0
  BY <1>2 DEF Record, Text, Sound, Full
<1>3. CASE n = 1
  BY <1>3 DEF Record, Sound, Full, Size
<1>4. CASE n > 1
  <2>1. Record(v, n) = [form |-> "record", val |-> v, parts |-> n]
    BY <1>1, <1>4 DEF Record
  <2>2. QED
    BY <2>1 DEF Sound
<1>5. QED
  BY <1>1, <1>2, <1>3, <1>4

\* So is what FileCopy makes of a sound file.
LEMMA SoundPrefix ==
  ASSUME NEW c \in Content, NEW d \in Prefixes(c), NEW k, NEW tr, NEW ex, NEW mi,
         Sound(c, k, tr, ex, mi)
  PROVE  Sound(d, k, tr, ex, mi)
<1>1. CASE c.form # "record"
  BY <1>1 DEF Prefixes, Text, Sound, Full
<1>2. CASE c.form = "record"
  <2>1. PICK n \in 0..c.parts : d = Record(c.val, n)
    BY <1>2 DEF Prefixes
  <2>2. n \in Nat /\ c.parts \in Nat /\ n <= c.parts /\ Size(c.val) \in {3, 5}
    BY <2>1 DEF Content, Size
  <2>3. CASE n = 0
    BY <2>1, <2>3 DEF Record, Text, Sound, Full
  <2>4. CASE n = 1
    BY <2>1, <2>4 DEF Record, Sound, Full, Size
  <2>5. CASE n > 1
    <3>1. d = [form |-> "record", val |-> c.val, parts |-> n]
      BY <2>1, <2>2, <2>5 DEF Record
    <3>2. n >= Size(c.val) => c.parts >= Size(c.val)
      BY <2>2
    <3>3. QED
      BY <1>2, <3>1, <3>2 DEF Sound, Full
  <2>6. QED
    BY <2>2, <2>3, <2>4, <2>5
<1>3. QED
  BY <1>1, <1>2

\* What WriteFile leaves is the old file or a part of the record.
LEMMA WriteFileSound ==
  ASSUME NEW c \in Content, NEW v \in Data, NEW w \in WriteFile(c, v)
  PROVE  /\ \/ w.file = c /\ ~w.opened /\ ~w.ok
            \/ \E n \in 0..Size(v) : w.file = Record(v, n)
         /\ w.opened => \E n \in 0..Size(v) : w.file = Record(v, n)
<1>1. CASE w = [file |-> c, opened |-> FALSE, ok |-> FALSE, failed |-> 1]
  BY <1>1
<1>2. CASE \E n \in 0..(Size(v) - 1), ok \in {FALSE, v # Empty} :
             w = [file |-> Record(v, n), opened |-> TRUE, ok |-> ok, failed |-> 1]
  <2>1. PICK n \in 0..(Size(v) - 1), ok \in {FALSE, v # Empty} :
          w = [file |-> Record(v, n), opened |-> TRUE, ok |-> ok, failed |-> 1]
    BY <1>2
  <2>2. n \in 0..Size(v)
    BY DEF Size
  <2>3. QED
    BY <2>1, <2>2
<1>3. CASE w = [file |-> Whole(v), opened |-> TRUE, ok |-> v # Empty, failed |-> 0]
  <2>1. Size(v) \in 0..Size(v)
    BY DEF Size
  <2>2. QED
    BY <1>3, <2>1 DEF Whole
<1>4. QED
  BY <1>1, <1>2, <1>3 DEF WriteFile

\* A full part of the record of v holds v.
LEMMA FullRecord ==
  ASSUME NEW v \in Data, NEW n \in 0..Size(v), Full(Record(v, n))
  PROVE  Record(v, n).val = v
<1>1. n \in Nat /\ Size(v) \in {3, 5}
  BY DEF Size
<1>2. CASE n = 0
  BY <1>2 DEF Record, Text, Full
<1>3. CASE n = 1
  BY <1>3 DEF Record, Full, Size
<1>4. CASE n > 1
  BY <1>1, <1>4 DEF Record
<1>5. QED
  BY <1>1, <1>2, <1>3, <1>4

\* A successful read in safe mode returns a complete file, or one cut off in its header.
LEMMA ReadFileSound ==
  ASSUME NEW c \in Content, NEW isbak \in BOOLEAN, NEW r \in ReadFile(c, TRUE, isbak),
         r.ret = "ok", c.form = "text" => c.parts = 0
  PROVE  (Full(c) /\ r.val = c.val) \/ CutInHeader(c)
<1>1. CASE c.form = "none"
  BY <1>1 DEF ReadFile, NotThere
<1>2. CASE c.form = "text"
  <2>1. c.val = Empty
    BY <1>2 DEF ReadFile
  <2>2. QED
    BY <1>2, <2>1 DEF CutInHeader, Size
<1>3. CASE c.form = "record" /\ Complete(c)
  <2>1. r.val = c.val
    BY <1>3 DEF ReadFile
  <2>2. Size(c.val) \in Nat /\ c.parts = Size(c.val)
    BY <1>3 DEF Size, Complete
  <2>3. QED
    BY <1>3, <2>1, <2>2 DEF Full
<1>4. CASE c.form = "record" /\ ~Complete(c)
  <2>1. c.parts = 1 \/ (c.parts = 2 /\ c.val = Empty)
    BY <1>4 DEF ReadFile
  <2>2. QED
    BY <2>1 DEF CutInHeader, Size
<1>5. QED
  BY <1>1, <1>2, <1>3, <1>4 DEF Content

\* More histories cover no less.
LEMMA SoundGrows ==
  ASSUME NEW d, NEW tr, NEW ex, NEW mi, NEW tr2, NEW ex2, NEW mi2, AllSound(d, tr, ex, mi),
         \A k \in Key : tr[k] \subseteq tr2[k], ex \subseteq ex2, mi \subseteq mi2
  PROVE  AllSound(d, tr2, ex2, mi2)
BY DEF AllSound, Sound, Fit

\* One file of a folder is replaced.
LEMMA SoundUpdate ==
  ASSUME NEW d \in [File -> Content], NEW f \in File, NEW c,
         NEW tr, NEW ex, NEW mi, AllSound(d, tr, ex, mi),
         f[2] = "match" \/ Sound(c, f[1], tr, ex, mi)
  PROVE  AllSound([d EXCEPT ![f] = c], tr, ex, mi)
<1> DEFINE e == [d EXCEPT ![f] = c]
<1>1. \A k \in Key : Main(k) \in File /\ Bak(k) \in File
  BY DEF Main, Bak, File
<1>2. \A g \in File : e[g] = IF g = f THEN c ELSE d[g]
  OBVIOUS
<1> HIDE DEF e
<1>3. SUFFICES ASSUME NEW k \in Key
               PROVE  Sound(e[Main(k)], k, tr, ex, mi) /\ Sound(e[Bak(k)], k, tr, ex, mi)
  BY DEF AllSound, e
<1>4. f = Main(k) \/ f = Bak(k) => f[1] = k /\ f[2] # "match"
  BY DEF Main, Bak
<1>5. Sound(d[Main(k)], k, tr, ex, mi) /\ Sound(d[Bak(k)], k, tr, ex, mi)
  BY DEF AllSound
<1>6. QED
  BY <1>1, <1>2, <1>4, <1>5

\* Which key of a file is meant.
LEMMA SoundOf ==
  ASSUME NEW d, NEW tr, NEW ex, NEW mi, AllSound(d, tr, ex, mi), NEW f \in File, f[2] # "match"
  PROVE  f[1] \in Key /\ Sound(d[f], f[1], tr, ex, mi)
<1>1. f[1] \in Key /\ f[2] \in {"main", "bak"} /\ f = <<f[1], f[2]>>
  BY DEF File
<1>2. f = Main(f[1]) \/ f = Bak(f[1])
  BY <1>1 DEF Main, Bak
<1>3. QED
  BY <1>1, <1>2 DEF AllSound

\* The result of the last GetKey stays what it is.
LEMMA GotKept ==
  ASSUME RInv,
         \/ got' = NoResult
         \/ got' = got /\ (call # Idle \/ UNCHANGED <<truth, exposed, mistaken>>)
  PROVE  GotSound'
<1>1. CASE got' = NoResult
  BY <1>1 DEF GotSound, NeverInvents, ReadRecent, NoResult
<1>2. CASE got' = got /\ call # Idle
  BY <1>2 DEF RInv, CallSound, GotSound, NeverInvents, ReadRecent
<1>3. CASE got' = got /\ UNCHANGED <<truth, exposed, mistaken>>
  BY <1>3 DEF RInv, GotSound, NeverInvents, ReadRecent
<1>4. QED
  BY <1>1, <1>2, <1>3

LEMMA InitRInv == Init => RInv
<1> SUFFICES ASSUME Init PROVE RInv
  OBVIOUS
<1> USE DEF Init
<1>1. KInv
  BY InitKInv
<1>2. SavedSound /\ CallSound /\ GotSound
  BY NoFilesSound DEF SavedSound, CallSound, GotSound, NeverInvents, ReadRecent, NoResult
<1>3. DbSound
  <2>1. SUFFICES ASSUME NEW k \in Key
                 PROVE  /\ Sound(db[Main(k)], k, truth, exposed, mistaken)
                        /\ Sound(db[Bak(k)], k, truth, exposed, mistaken)
    BY DEF DbSound, AllSound
  <2>2. Main(k) \in File
    BY DEF Main, File
  <2>3. db[Main(k)] # NoFile => db[Main(k)].val \in truth[k]
    OBVIOUS
  <2>4. truth[k] \subseteq Value
    BY <1>1 DEF KInv, TypeOK
  <2>5. db[Main(k)].form = "text" => db[Main(k)].parts = 0
    <3>1. \A v \in Valid \cup {RuleText} : Whole(v).form = "record"
      BY DEF Whole, Record, Size
    <3>2. QED
      BY <2>2, <3>1 DEF Text, NoFile
  <2>6. Sound(db[Main(k)], k, truth, exposed, mistaken)
    BY <2>3, <2>4, <2>5 DEF Sound, Fit, Full, NoFile
  <2>7. QED
    BY <2>6, SoundNoFile
<1>4. QED
  BY <1>2, <1>3 DEF RInv

\* Nothing but the call changes.
LEMMA QuietSound ==
  ASSUME RInv, UNCHANGED <<db, saved, truth, exposed, mistaken, snap>>
  PROVE  DbSound' /\ SavedSound'
BY DEF RInv, DbSound, SavedSound

\* The call is over, or it is a SetKey or GetKey under way.
LEMMA SimpleCall ==
  ASSUME \/ call' = Idle
         \/ /\ ~got'.ok /\ call'.op \in {"set", "get"} /\ GetSound'
            /\ call'.op = "set" /\ call'.at = "bak" /\ call'.opened
                 => (Full(db'[Main(call'.key)]) => db'[Main(call'.key)].val = call'.val)
  PROVE  CallSound'
BY DEF CallSound, Full, Main

LEMMA BeginsRInv ==
  ASSUME KInv, RInv, NEW k \in Key, NEW v \in Value, SetKey(k, v) \/ GetKey(k)
  PROVE  RInv'
<1> USE DEF ghosts, files
<1>1. DbSound' /\ SavedSound'
  BY QuietSound DEF SetKey, GetKey
<1>2. GotSound'
  BY GotKept DEF SetKey, GetKey, Begin
<1>3. ~got'.ok /\ call'.op \in {"set", "get"} /\ call'.at = "match" /\ GetSound'
  BY DEF SetKey, GetKey, Begin, NewCall, NoResult, GetSound
<1>4. CallSound'
  BY <1>3, SimpleCall
<1>5. QED
  BY <1>1, <1>2, <1>4 DEF RInv

LEMMA ReadOldRInv ==
  ASSUME KInv, RInv, ReadOld
  PROVE  RInv'
<1> DEFINE text == Join(call.acc, db[Here].val)
<1>1. /\ call # Idle /\ call \in Call /\ call.op \in {"set", "get"} /\ ~got.ok /\ GetSound
      /\ call.key \in Key /\ Here \in File /\ db[Here] \in Content /\ ~call.converting
  BY ReadingHere DEF RInv, CallSound, ReadOld
<1>2. /\ call' = [call EXCEPT !.converting = TRUE, !.acc = text]
      /\ mistaken' = IF call.at = "main" /\ text \in {Empty, Garbage}
                     THEN Mistake(call.key, text) ELSE mistaken
      /\ UNCHANGED <<db, saved, truth, exposed, snap, got>>
  BY DEF ReadOld, files
<1>3. db[Here].form = "text"
  <2>1. PICK r \in ReadFile(db[Here], property_, call.at = "bak") : r.ret = "convert"
    BY DEF ReadOld
  <2>2. property_ \in BOOLEAN /\ (call.at = "bak") \in BOOLEAN
    BY DEF KInv, TypeOK
  <2>3. QED
    BY <1>1, <2>1, <2>2, ReadFileFacts
<1>4. mistaken \subseteq mistaken'
  BY <1>2 DEF Mistake
<1>5. ASSUME call.op = "get", call.at = "main"
      PROVE  Fit(text, call.key, truth, exposed, mistaken')
  <2>1. Here = Main(call.key)
    BY <1>5 DEF Here, Main
  <2>2. db[Here].val \in {Empty, Garbage} \/ Fit(db[Here].val, call.key, truth, exposed, mistaken)
    BY <1>1, <1>3, <2>1 DEF RInv, DbSound, AllSound, Sound
  <2>3. text \in {Empty, Garbage} => <<call.key, text>> \in mistaken'
    BY <1>2, <1>5 DEF Mistake
  <2>4. CASE text \in {Empty, Garbage}
    BY <2>3, <2>4 DEF Fit
  <2>5. CASE call.acc = Empty /\ text \notin {Empty, Garbage}
    <3>1. text = db[Here].val
      BY <2>5 DEF Join
    <3>2. QED
      BY <1>4, <2>2, <2>5, <3>1, FitGrows
  <2>6. CASE call.acc # Empty /\ db[Here].val = Empty
    <3>1. text = call.acc
      BY <2>6 DEF Join
    <3>2. Fit(call.acc, call.key, truth, exposed, mistaken)
      BY <1>1, <1>5, <2>6 DEF GetSound
    <3>3. QED
      BY <1>4, <3>1, <3>2, FitGrows
  <2>7. CASE call.acc # Empty /\ db[Here].val # Empty
    <3>1. text = Joined
      BY <2>7 DEF Join
    <3>2. <<call.key, Joined>> \in mistaken
      BY <1>1, <1>3, <1>5, <2>1, <2>7 DEF GetSound
    <3>3. QED
      BY <1>4, <3>1, <3>2 DEF Fit
  <2>8. QED
    BY <2>4, <2>5, <2>6, <2>7
<1> HIDE DEF text
<1>6. AllSound(db, truth, exposed, mistaken')
  BY <1>4, SoundGrows DEF RInv, DbSound
<1>7. DbSound' /\ SavedSound' /\ GotSound'
  BY <1>1, <1>2, <1>6, GotKept DEF DbSound, RInv, SavedSound
<1>8. /\ call'.op = call.op /\ call'.at = call.at /\ call'.key = call.key
      /\ call'.acc = text /\ call'.converting
  BY <1>1, <1>2 DEF Call
<1>9. GetSound'
  BY <1>2, <1>5, <1>8 DEF GetSound
<1>10. CallSound'
  BY <1>1, <1>2, <1>8, <1>9, SimpleCall DEF ReadOld, Reading
<1>11. QED
  BY <1>7, <1>10 DEF RInv

\* ReadFile rewrites the main or the match file of the call as a part of the record of acc.
LEMMA ConvertedSound ==
  ASSUME KInv, RInv, Reading, call.converting, NEW c \in Content,
         c = db[Here] \/ \E n \in 0..Size(call.acc) : c = Record(call.acc, n),
         db' = [db EXCEPT ![Here] = c], UNCHANGED <<saved, truth, exposed, snap>>,
         mistaken \subseteq mistaken'
  PROVE  DbSound' /\ SavedSound'
<1>1. /\ call # Idle /\ call \in Call /\ Here \in File /\ call.key \in Key
      /\ call.at \in {"match", "main"} /\ call.acc \in Data
      /\ call.at = "main" => call.op = "get"
  BY ReadingHere DEF KInv, CallOK, Call
<1>2. AllSound(db, truth, exposed, mistaken')
  BY SoundGrows DEF RInv, DbSound
<1>3. Here[1] = call.key /\ Here[2] = call.at
  BY DEF Here
<1>4. Here[2] = "match" \/ Sound(c, Here[1], truth, exposed, mistaken')
  <2>1. CASE call.at = "match"
    BY <1>3, <2>1
  <2>2. CASE call.at = "main" /\ c = db[Here]
    BY <1>1, <1>2, <1>3, <2>2, SoundOf
  <2>3. CASE call.at = "main" /\ \E n \in 0..Size(call.acc) : c = Record(call.acc, n)
    <3>1. Fit(call.acc, call.key, truth, exposed, mistaken)
      BY <1>1, <2>3 DEF RInv, CallSound, GetSound
    <3>2. Fit(call.acc, call.key, truth, exposed, mistaken')
      BY <3>1, FitGrows
    <3>3. PICK n \in 0..Size(call.acc) : c = Record(call.acc, n)
      BY <2>3
    <3>4. Sound(Record(call.acc, n), call.key, truth, exposed, mistaken')
      BY <1>1, <3>2, SoundRecord
    <3>5. QED
      BY <1>3, <3>3, <3>4
  <2>4. QED
    BY <1>1, <2>1, <2>2, <2>3
<1>5. db \in [File -> Content]
  BY DEF KInv, TypeOK
<1>6. AllSound(db', truth, exposed, mistaken')
  BY <1>1, <1>2, <1>4, <1>5, SoundUpdate
<1>7. QED
  BY <1>6 DEF DbSound, RInv, SavedSound

LEMMA ConvertRInv ==
  ASSUME KInv, RInv, Convert
  PROVE  RInv'
<1>1. /\ call # Idle /\ call \in Call /\ Here \in File /\ call.op \in {"set", "get"}
      /\ db[Here] \in Content /\ call.acc \in Data /\ ~got.ok /\ GetSound /\ call.key \in Key
      /\ db \in [File -> Content] /\ call.converting /\ Reading
  BY ReadingHere DEF Call, RInv, CallSound, Convert, KInv, TypeOK
<1>2. PICK w \in WriteFile(db[Here], call.acc) :
        /\ db' = [db EXCEPT ![Here] = w.file]
        /\ mistaken' = IF call.at = "main" /\ ~w.opened
                       THEN Mistake(call.key, Joined) ELSE mistaken
  BY DEF Convert
<1>3. /\ w.file \in Content /\ (w.opened => PartOf(w.file, call.acc))
      /\ w.file = db[Here] \/ \E n \in 0..Size(call.acc) : w.file = Record(call.acc, n)
  BY <1>1, WriteFileFacts, WriteFileSound
<1>4. mistaken \subseteq mistaken'
  BY <1>2 DEF Mistake
<1>5. DbSound' /\ SavedSound'
  BY <1>1, <1>2, <1>3, <1>4, ConvertedSound DEF Convert
<1>6. GotSound'
  BY <1>1, GotKept DEF Convert
<1>7. /\ call'.op = call.op /\ call'.at = call.at /\ call'.key = call.key
      /\ call'.acc = call.acc /\ ~call'.converting
  BY <1>1 DEF Call, Convert
<1>8. GetSound'
  <2>1. SUFFICES ASSUME call.op = "get", call.at = "main"
                 PROVE  /\ Fit(call.acc, call.key, truth, exposed, mistaken')
                        /\ \/ db'[Main(call.key)].form # "text"
                           \/ db'[Main(call.key)].val = Empty
                           \/ <<call.key, Joined>> \in mistaken'
    BY <1>7 DEF GetSound, Convert
  <2>2. Fit(call.acc, call.key, truth, exposed, mistaken')
    BY <1>1, <1>4, <2>1, FitGrows DEF GetSound
  <2>3. Here = Main(call.key) /\ db'[Main(call.key)] = w.file
    BY <1>1, <1>2, <2>1 DEF Here, Main
  <2>4. CASE w.opened
    BY <1>3, <2>2, <2>3, <2>4 DEF PartOf
  <2>5. CASE ~w.opened
    BY <1>2, <2>1, <2>2, <2>5 DEF Mistake
  <2>6. QED
    BY <2>4, <2>5
<1>9. CallSound'
  BY <1>1, <1>7, <1>8, SimpleCall DEF Reading, Convert
<1>10. QED
  BY <1>5, <1>6, <1>9 DEF RInv

\* What GetKey returns in safe mode fits the key.
LEMMA GetReturnsSound ==
  ASSUME KInv, RInv, Reading, call.at \in {"main", "bak"},
         NEW r, r = NotThere \/ r \in ReadFile(db[Here], property_, call.at = "bak"),
         GetReturns(r), UNCHANGED <<truth, exposed>>,
         mistaken' = IF r.ret = "ok" /\ property_ /\ CutInHeader(db[Here])
                     THEN Mistake(call.key, r.val) ELSE mistaken
  PROVE  GotSound'
<1>1. /\ call # Idle /\ call \in Call /\ Here \in File /\ call.key \in Key
      /\ db[Here] \in Content
  BY ReadingHere
<1>2. SUFFICES ASSUME got'.ok, got'.safe
               PROVE  got'.val = Default \/ Fit(got'.val, call.key, truth, exposed, mistaken')
  <2>1. got'.key = call.key
    BY DEF GetReturns
  <2>2. Default \in Value
    BY DataAssumption
  <2>3. QED
    BY <1>2, <2>1, <2>2 DEF GotSound, NeverInvents, ReadRecent, Fit
<1>3. property_ = TRUE /\ mistaken \subseteq mistaken'
  BY <1>2 DEF GetReturns, KInv, TypeOK, Mistake
<1>4. CASE r.ret # "ok"
  BY <1>2, <1>4 DEF GetReturns
<1>5. CASE r.ret = "ok"
  <2>1. r \in ReadFile(db[Here], TRUE, call.at = "bak")
    <3>1. r # NotThere
      BY <1>5 DEF NotThere
    <3>2. r \in ReadFile(db[Here], property_, call.at = "bak")
      BY <3>1
    <3>3. property_ = TRUE
      BY <1>3
    <3>4. QED
      BY <3>2, <3>3, Zenon
  <2>2. Sound(db[Here], call.key, truth, exposed, mistaken)
    <3>1. Here[1] = call.key /\ Here[2] = call.at /\ call.at # "match"
      BY DEF Here
    <3>2. QED
      BY <1>1, <3>1, SoundOf DEF RInv, DbSound
  <2>3. (Full(db[Here]) /\ r.val = db[Here].val) \/ CutInHeader(db[Here])
    <3>1. db[Here].form = "text" => db[Here].parts = 0
      BY <2>2 DEF Sound
    <3>2. (call.at = "bak") \in BOOLEAN
      OBVIOUS
    <3>3. QED
      BY <1>1, <1>5, <2>1, <3>1, <3>2, ReadFileSound
  <2>4. Fit(r.val, call.key, truth, exposed, mistaken')
    <3>1. CASE Full(db[Here]) /\ r.val = db[Here].val
      BY <1>3, <2>2, <3>1, FitGrows DEF Sound
    <3>2. CASE CutInHeader(db[Here])
      BY <1>3, <1>5, <3>2 DEF Mistake, Fit
    <3>3. QED
      BY <2>3, <3>1, <3>2
  <2>5. got'.val \in {Default, r.val}
    BY DEF GetReturns
  <2>6. QED
    BY <2>4, <2>5
<1>6. QED
  BY <1>4, <1>5

LEMMA ReadKeyRInv ==
  ASSUME KInv, RInv, ReadKey
  PROVE  RInv'
<1> USE DEF ReadKey, files
<1>1. /\ call # Idle /\ call \in Call /\ call.key \in Key
      /\ call.op \in {"set", "get"} /\ ~got.ok
  BY ReadingHere DEF RInv, CallSound
<1>2. PICK r \in ReadFile(db[Here], property_, call.at = "bak") \cup {NotThere} :
        AfterMatch(r) \/ AfterData(r)
  OBVIOUS
<1>3. DbSound' /\ SavedSound'
  <2>1. mistaken \subseteq mistaken'
    BY <1>2 DEF AfterMatch, AfterData, Mistake
  <2>2. AllSound(db, truth, exposed, mistaken')
    BY <2>1, SoundGrows DEF RInv, DbSound
  <2>3. QED
    BY <2>2 DEF DbSound, RInv, SavedSound
<1>4. CASE AfterMatch(r)
  <2>1. GotSound'
    BY <1>1, <1>4, GotKept DEF AfterMatch
  <2>2. call' = Idle \/ (call'.op = call.op /\ call'.at = "main" /\ GetSound')
    BY <1>1, <1>4 DEF AfterMatch, Return, Call, GetSound
  <2>3. CallSound'
    BY <1>1, <1>4, <2>2, SimpleCall DEF AfterMatch
  <2>4. QED
    BY <1>3, <2>1, <2>3 DEF RInv
<1>5. CASE AfterData(r) /\ GetReturns(r) /\ Return
  <2>1. GotSound'
    BY <1>2, <1>5, GetReturnsSound DEF AfterData
  <2>2. CallSound'
    BY <1>5, SimpleCall DEF Return
  <2>3. QED
    BY <1>3, <2>1, <2>2 DEF RInv
<1>6. CASE AfterData(r) /\ call' = [call EXCEPT !.at = "bak", !.acc = Empty] /\ UNCHANGED got
  <2>1. GotSound'
    BY <1>1, <1>6, GotKept
  <2>2. call'.op = "get" /\ GetSound'
    BY <1>1, <1>6 DEF AfterData, Reading, Call, GetSound
  <2>3. CallSound'
    BY <1>1, <1>6, <2>2, SimpleCall
  <2>4. QED
    BY <1>3, <2>1, <2>3 DEF RInv
<1>7. QED
  BY <1>2, <1>4, <1>5, <1>6 DEF AfterData

\* Only files of the call's key change, and what is known of it.
LEMMA OtherKeys ==
  ASSUME KInv, RInv, NEW key \in Key, UNCHANGED <<saved, snap>>,
         \A k \in Key \ {key} :
           /\ db'[Main(k)] = db[Main(k)] /\ db'[Bak(k)] = db[Bak(k)]
           /\ truth'[k] = truth[k]
           /\ k \in exposed' <=> k \in exposed
           /\ \A v : <<k, v>> \in mistaken' <=> <<k, v>> \in mistaken,
         Sound(db'[Main(key)], key, truth', exposed', mistaken'),
         Sound(db'[Bak(key)], key, truth', exposed', mistaken')
  PROVE  DbSound' /\ SavedSound'
<1>1. SavedSound'
  BY DEF RInv, SavedSound
<1>2. ASSUME NEW k \in Key \ {key}
      PROVE  /\ Sound(db'[Main(k)], k, truth', exposed', mistaken')
             /\ Sound(db'[Bak(k)], k, truth', exposed', mistaken')
  <2>1. /\ Sound(db[Main(k)], k, truth, exposed, mistaken)
        /\ Sound(db[Bak(k)], k, truth, exposed, mistaken)
    BY DEF RInv, DbSound, AllSound
  <2>2. QED
    BY <1>2, <2>1 DEF Sound, Fit
<1>3. AllSound(db', truth', exposed', mistaken')
  BY <1>2 DEF AllSound
<1>4. QED
  BY <1>1, <1>3 DEF DbSound

\* A file of the call's key is written: the others stay.
LEMMA HereWritten ==
  ASSUME KInv, Writing, NEW c \in Content, db' = [db EXCEPT ![Here] = c]
  PROVE  /\ \A k \in Key \ {call.key} :
              db'[Main(k)] = db[Main(k)] /\ db'[Bak(k)] = db[Bak(k)]
         /\ call.at = "main" => /\ db'[Main(call.key)] = c
                                /\ db'[Bak(call.key)] = db[Bak(call.key)]
         /\ call.at = "bak" => /\ db'[Main(call.key)] = db[Main(call.key)]
                               /\ db'[Bak(call.key)] = c
<1>1. call.key \in Key /\ Here \in File /\ db \in [File -> Content]
  BY WritingHere DEF KInv, TypeOK
<1>2. \A k \in Key : Main(k) \in File /\ Bak(k) \in File
  BY DEF Main, Bak, File
<1>3. \A g \in File : db'[g] = IF g = Here THEN c ELSE db[g]
  BY <1>1
<1>4. /\ \A k \in Key : Main(k) = Here <=> (k = call.key /\ call.at = "main")
      /\ \A k \in Key : Bak(k) = Here <=> (k = call.key /\ call.at = "bak")
  BY DEF Main, Bak, Here
<1>5. QED
  BY <1>1, <1>2, <1>3, <1>4

\* SetKey has written the main file and goes on, or is killed: it may hold the new value.
LEMMA TruthGrows ==
  ASSUME KInv, RInv, Writing, NEW c \in Content,
         db' = [db EXCEPT ![Here] = c],
         c = db[Here] \/ \E n \in 0..Size(call.val) : c = Record(call.val, n),
         truth' = [truth EXCEPT ![call.key] = @ \cup {call.val}],
         UNCHANGED <<saved, exposed, mistaken, snap>>
  PROVE  DbSound' /\ SavedSound'
<1>1. /\ call.key \in Key /\ Here \in File /\ call.val \in Value /\ call.val \in Data
      /\ call.at \in {"main", "bak"} /\ db \in [File -> Content]
  BY WritingHere DEF KInv, TypeOK
<1>2. \A k \in Key : truth[k] \subseteq truth'[k]
  BY <1>1 DEF KInv, TypeOK
<1>3. call.val \in truth'[call.key]
  BY <1>1 DEF KInv, TypeOK
<1>4. AllSound(db, truth', exposed, mistaken)
  BY <1>2, SoundGrows DEF RInv, DbSound
<1>5. Here[1] = call.key /\ Here[2] # "match"
  BY <1>1 DEF Here
<1>6. Sound(c, Here[1], truth', exposed, mistaken)
  <2>1. CASE c = db[Here]
    BY <1>1, <1>4, <1>5, <2>1, SoundOf
  <2>2. CASE \E n \in 0..Size(call.val) : c = Record(call.val, n)
    <3>1. PICK n \in 0..Size(call.val) : c = Record(call.val, n)
      BY <2>2
    <3>2. Sound(Record(call.val, n), call.key, truth', exposed, mistaken)
      BY <1>1, <1>3, SoundRecord DEF Fit
    <3>3. QED
      BY <1>5, <3>1, <3>2
  <2>3. QED
    BY <2>1, <2>2
<1>7. AllSound(db', truth', exposed, mistaken)
  BY <1>1, <1>4, <1>6, SoundUpdate
<1>8. QED
  BY <1>7 DEF DbSound, RInv, SavedSound

\* SetKey returns: a copy that is not the new one is one the key may have, or the key is
\* exposed.
LEMMA SetReturnsSound ==
  ASSUME KInv, RInv, Writing, NEW w \in WriteFile(db[Here], call.val),
         NEW both \in BOOLEAN, NEW stale \in BOOLEAN,
         db' = [db EXCEPT ![Here] = w.file],
         SetReturns(w.ok, both, stale), both => w.ok /\ ~stale,
         ~stale => call.at = "bak" /\ call.opened,
         UNCHANGED <<saved, snap>>
  PROVE  DbSound' /\ SavedSound'
<1>1. /\ call # Idle /\ call.key \in Key /\ Here \in File /\ call.val \in Value
      /\ call.val \in Data /\ call.at \in {"main", "bak"} /\ db[Here] \in Content
      /\ call.op = "set"
  BY WritingHere
<1>2. /\ w.file \in Content /\ w.ok \in BOOLEAN
      /\ \/ w.file = db[Here] /\ ~w.ok
         \/ \E n \in 0..Size(call.val) : w.file = Record(call.val, n)
  BY <1>1, WriteFileFacts, WriteFileSound
<1>3. CASE ~w.ok
  <2>1. UNCHANGED <<exposed, mistaken>> /\ truth' = [truth EXCEPT ![call.key] = @ \cup {call.val}]
    BY <1>3 DEF SetReturns
  <2>2. QED
    BY <1>2, <2>1, TruthGrows
<1>4. CASE w.ok
  <2>1. /\ truth'[call.key] = {call.val}
        /\ \A k \in Key \ {call.key} : truth'[k] = truth[k]
    BY <1>1, <1>4 DEF SetReturns, KInv, TypeOK
  <2>2. /\ stale => call.key \in exposed'
        /\ \A k \in Key \ {call.key} : k \in exposed' <=> k \in exposed
    BY <1>4 DEF SetReturns
  <2>3. /\ stale => mistaken' = mistaken
        /\ \A k \in Key \ {call.key} : \A v : <<k, v>> \in mistaken' <=> <<k, v>> \in mistaken
    BY ForgivenFacts DEF SetReturns
  <2>4. Sound(w.file, call.key, truth', exposed', mistaken')
    <3>1. Fit(call.val, call.key, truth', exposed', mistaken')
      BY <1>1, <2>1 DEF Fit
    <3>2. PICK n \in 0..Size(call.val) : w.file = Record(call.val, n)
      BY <1>2, <1>4
    <3>3. Sound(Record(call.val, n), call.key, truth', exposed', mistaken')
      BY <1>1, <3>1, SoundRecord
    <3>4. QED
      BY <3>2, <3>3
  <2>5. /\ Sound(db[Main(call.key)], call.key, truth, exposed, mistaken)
        /\ Sound(db[Bak(call.key)], call.key, truth, exposed, mistaken)
    BY <1>1 DEF RInv, DbSound, AllSound
  <2>6. stale => /\ Sound(db[Main(call.key)], call.key, truth', exposed', mistaken')
                 /\ Sound(db[Bak(call.key)], call.key, truth', exposed', mistaken')
    BY <2>2, <2>3, <2>5 DEF Sound, Fit
  <2>7. ~stale => Sound(db[Main(call.key)], call.key, truth', exposed', mistaken')
    <3>1. ~stale => (Full(db[Main(call.key)]) => db[Main(call.key)].val = call.val)
      BY <1>1 DEF RInv, CallSound
    <3>2. ~stale => PartOf(db[Main(call.key)], call.val)
      BY <1>1 DEF KInv, CallOK
    <3>3. QED
      BY <1>1, <2>1, <2>5, <3>1, <3>2 DEF Sound, Fit, PartOf
  <2>8. /\ \A k \in Key \ {call.key} :
             db'[Main(k)] = db[Main(k)] /\ db'[Bak(k)] = db[Bak(k)]
        /\ call.at = "main" => /\ db'[Main(call.key)] = w.file
                               /\ db'[Bak(call.key)] = db[Bak(call.key)]
        /\ call.at = "bak" => /\ db'[Main(call.key)] = db[Main(call.key)]
                              /\ db'[Bak(call.key)] = w.file
    BY <1>2, HereWritten
  <2>9. /\ Sound(db'[Main(call.key)], call.key, truth', exposed', mistaken')
        /\ Sound(db'[Bak(call.key)], call.key, truth', exposed', mistaken')
    BY <1>1, <2>4, <2>6, <2>7, <2>8
  <2>10. QED
    BY <1>1, <2>1, <2>2, <2>3, <2>8, <2>9, OtherKeys
<1>5. QED
  BY <1>2, <1>3, <1>4

LEMMA WriteMainRInv ==
  ASSUME KInv, RInv, WriteMain
  PROVE  RInv'
<1> USE DEF WriteMain
<1>1. /\ call # Idle /\ call \in Call /\ call.op = "set" /\ call.key \in Key
      /\ call.val \in Data /\ db[Here] \in Content /\ ~got.ok
  BY WritingHere DEF RInv, CallSound
<1>2. PICK w \in WriteFile(db[Here], call.val) :
        /\ db' = [db EXCEPT ![Here] = w.file]
        /\ IF property_
           THEN /\ call' = [call EXCEPT !.at = "bak", !.opened = w.opened]
                /\ truth' = [truth EXCEPT ![call.key] = @ \cup {call.val}]
                /\ UNCHANGED <<kept, exposed, mistaken>>
           ELSE SetReturns(w.ok, FALSE, TRUE)
  OBVIOUS
<1>3. /\ w.file \in Content
      /\ w.file = db[Here] \/ \E n \in 0..Size(call.val) : w.file = Record(call.val, n)
      /\ w.opened => \E n \in 0..Size(call.val) : w.file = Record(call.val, n)
  BY <1>1, WriteFileFacts, WriteFileSound
<1>4. GotSound'
  BY <1>1, GotKept
<1>5. CASE property_
  <2>1. DbSound' /\ SavedSound'
    BY <1>2, <1>3, <1>5, TruthGrows
  <2>2. /\ call'.op = "set" /\ call'.key = call.key /\ call'.val = call.val
        /\ call'.opened = w.opened /\ GetSound'
    BY <1>1, <1>2, <1>5 DEF Call, GetSound
  <2>3. db'[Main(call.key)] = w.file
    BY <1>2, <1>3, HereWritten
  <2>4. w.opened => (Full(w.file) => w.file.val = call.val)
    BY <1>1, <1>3, FullRecord
  <2>5. CallSound'
    BY <1>1, <2>2, <2>3, <2>4, SimpleCall
  <2>6. QED
    BY <1>4, <2>1, <2>5 DEF RInv
<1>6. CASE ~property_
  <2>1. SetReturns(w.ok, FALSE, TRUE)
    BY <1>2, <1>6
  <2>2. DbSound' /\ SavedSound'
    BY <1>2, <2>1, SetReturnsSound
  <2>3. CallSound'
    BY <2>1, SimpleCall DEF SetReturns, Return
  <2>4. QED
    BY <1>4, <2>2, <2>3 DEF RInv
<1>7. QED
  BY <1>5, <1>6

LEMMA WriteBackupRInv ==
  ASSUME KInv, RInv, WriteBackup
  PROVE  RInv'
<1> USE DEF WriteBackup
<1>1. call # Idle /\ call \in Call /\ call.val \in Data /\ db[Here] \in Content
  BY WritingHere
<1>2. PICK w \in WriteFile(db[Here], call.val) :
        /\ db' = [db EXCEPT ![Here] = w.file]
        /\ SetReturns(w.ok, w.ok /\ Complete(w.file) /\ call.opened, ~call.opened)
  OBVIOUS
<1>3. w.ok \in BOOLEAN /\ call.opened \in BOOLEAN
  BY <1>1, WriteFileFacts DEF Call
<1>4. (w.ok /\ Complete(w.file) /\ call.opened) \in BOOLEAN /\ (~call.opened) \in BOOLEAN
  OBVIOUS
<1>5. DbSound' /\ SavedSound'
  BY <1>2, <1>3, <1>4, SetReturnsSound
<1>6. GotSound'
  BY <1>1, GotKept
<1>7. CallSound'
  BY <1>2, SimpleCall DEF SetReturns, Return
<1>8. QED
  BY <1>5, <1>6, <1>7 DEF RInv

LEMMA DeleteKeyRInv ==
  ASSUME KInv, RInv, NEW k \in Key, DeleteKey(k)
  PROVE  RInv'
<1> USE DEF DeleteKey
<1>1. GotSound' /\ ~got'.ok
  BY GotKept DEF Begin, NoResult
<1>2. SavedSound'
  BY DEF RInv, SavedSound
<1>3. CASE Begin(Idle) /\ UNCHANGED db
  <2>1. DbSound'
    BY <1>3, QuietSound
  <2>2. CallSound'
    BY <1>3, SimpleCall DEF Begin
  <2>3. QED
    BY <1>1, <1>2, <2>1, <2>2 DEF RInv
<1>4. CASE /\ Begin(NewCall("delete", k, Empty, "bak", {}))
           /\ db' = [db EXCEPT ![Main(k)] = NoFile]
  <2>1. Main(k) \in File /\ db \in [File -> Content]
    BY DEF Main, File, KInv, TypeOK
  <2>2. AllSound(db', truth, exposed, mistaken)
    BY <1>4, <2>1, SoundNoFile, SoundUpdate DEF RInv, DbSound
  <2>3. DbSound'
    BY <2>2 DEF DbSound
  <2>4. call'.op = "delete" /\ call'.key = k /\ db'[Main(k)] = NoFile /\ GetSound'
    BY <1>4, <2>1 DEF Begin, NewCall, GetSound
  <2>5. CallSound'
    BY <1>1, <2>4 DEF CallSound, Main
  <2>6. QED
    BY <1>1, <1>2, <2>3, <2>5 DEF RInv
<1>5. QED
  BY <1>3, <1>4

LEMMA DeleteBackupRInv ==
  ASSUME KInv, RInv, DeleteBackup
  PROVE  RInv'
<1> USE DEF DeleteBackup
<1>1. call # Idle /\ call \in Call /\ call.key \in Key
  BY DEF KInv, TypeOK, Call
<1>2. GotSound' /\ CallSound'
  BY <1>1, GotKept, SimpleCall DEF Return
<1>3. db[Main(call.key)] = NoFile
  BY <1>1 DEF RInv, CallSound
<1>4. /\ Main(call.key) \in File /\ Bak(call.key) \in File /\ db \in [File -> Content]
      /\ Main(call.key) # Bak(call.key)
  BY <1>1 DEF Main, Bak, File, KInv, TypeOK
<1>5. \A k \in Key \ {call.key} : truth'[k] = truth[k]
  BY <1>1 DEF KInv, TypeOK
<1>6. /\ \A k \in Key \ {call.key} : db'[Main(k)] = db[Main(k)] /\ db'[Bak(k)] = db[Bak(k)]
      /\ db'[Main(call.key)] = NoFile
  <2>1. CASE UNCHANGED db
    BY <1>3, <2>1
  <2>2. CASE db' = [db EXCEPT ![Bak(call.key)] = NoFile]
    <3>1. \A k \in Key \ {call.key} : /\ Main(k) # Bak(call.key) /\ Bak(k) # Bak(call.key)
                                      /\ Main(k) \in File /\ Bak(k) \in File
      BY DEF Main, Bak, File
    <3>2. QED
      BY <1>3, <1>4, <2>2, <3>1
  <2>3. QED
    BY <2>1, <2>2
<1>7. Sound(db'[Bak(call.key)], call.key, truth', exposed', mistaken')
  <2>1. CASE db' = [db EXCEPT ![Bak(call.key)] = NoFile]
    BY <1>4, <2>1, SoundNoFile
  <2>2. CASE exposed' = exposed \cup {call.key} /\ UNCHANGED <<db, mistaken>>
    <3>1. Sound(db[Bak(call.key)], call.key, truth, exposed, mistaken)
      BY <1>1 DEF RInv, DbSound, AllSound
    <3>2. truth[call.key] \subseteq Value
      BY <1>1 DEF KInv, TypeOK
    <3>3. QED
      BY <2>2, <3>1, <3>2 DEF Sound, Fit
  <2>3. QED
    BY <2>1, <2>2
<1>8. Sound(db'[Main(call.key)], call.key, truth', exposed', mistaken')
  BY <1>6, SoundNoFile
<1>9. \A k \in Key \ {call.key} :
        /\ k \in exposed' <=> k \in exposed
        /\ \A v : <<k, v>> \in mistaken' <=> <<k, v>> \in mistaken
  BY ForgivenFacts
<1>10. DbSound' /\ SavedSound'
  BY <1>1, <1>5, <1>6, <1>7, <1>8, <1>9, OtherKeys
<1>11. QED
  BY <1>2, <1>10 DEF RInv

\* The operations that touch neither files nor the call.
LEMMA AsideRInv ==
  ASSUME KInv, RInv, UNCHANGED <<files, call, ghosts, got>>
  PROVE  RInv'
<1> USE DEF files, ghosts
<1>1. DbSound' /\ SavedSound'
  BY QuietSound
<1>2. GotSound'
  BY GotKept
<1>3. CallSound'
  <2>1. CallSound /\ (GetSound => GetSound')
    BY DEF RInv, GetSound
  <2>2. QED
    BY <2>1 DEF CallSound
<1>4. QED
  BY <1>1, <1>2, <1>3 DEF RInv

\* A file is removed while the call is under way, which is no longer clean.
LEMMA UncleanCall ==
  ASSUME KInv, RInv, call' = Uncleaned(call),
         UNCHANGED <<truth, exposed, mistaken, snap, got>>,
         \A k \in Key : db'[Main(k)] = db[Main(k)] \/ db'[Main(k)] = NoFile
  PROVE  CallSound'
<1>1. CASE call = Idle
  BY <1>1, SimpleCall DEF Uncleaned
<1>2. CASE call # Idle
  <2>1. call \in Call /\ call.key \in Key
    BY <1>2 DEF KInv, TypeOK, Call
  <2>2. /\ call'.op = call.op /\ call'.key = call.key /\ call'.val = call.val
        /\ call'.at = call.at /\ call'.opened = call.opened /\ call'.clean = FALSE
        /\ call'.acc = call.acc /\ call'.converting = call.converting
    BY <1>2, <2>1 DEF Uncleaned, Call
  <2>3. ~got'.ok /\ GetSound'
    <3>1. ~got.ok /\ GetSound
      BY <1>2 DEF RInv, CallSound
    <3>2. NoFile.form # "text"
      BY DEF NoFile
    <3>3. QED
      BY <2>1, <2>2, <3>1, <3>2 DEF GetSound
  <2>4. call'.op = "delete" => db'[Main(call'.key)] = NoFile
    BY <1>2, <2>1, <2>2 DEF RInv, CallSound
  <2>5. call'.op = "set" /\ call'.at = "bak" /\ call'.opened
          => (Full(db'[Main(call'.key)]) => db'[Main(call'.key)].val = call'.val)
    <3>1. ~Full(NoFile)
      BY DEF Full, NoFile
    <3>2. QED
      BY <1>2, <2>1, <2>2, <3>1 DEF RInv, CallSound
  <2>6. call'.op = "backup" =>
          /\ \A k \in Key : truth'[k] \subseteq snap'.truth[k]
          /\ exposed' \subseteq snap'.exposed /\ mistaken' \subseteq snap'.mistaken
    BY <1>2, <2>2 DEF RInv, CallSound
  <2>7. call'.op = "restore" =>
          /\ \A k \in Key : snap'.truth[k] \subseteq truth'[k]
          /\ snap'.exposed \subseteq exposed' /\ snap'.mistaken \subseteq mistaken'
    BY <1>2, <2>2 DEF RInv, CallSound
  <2>8. QED
    BY <2>2, <2>3, <2>4, <2>5, <2>6, <2>7 DEF CallSound, Full, Main
<1>3. QED
  BY <1>1, <1>2

LEMMA ClearFileRInv ==
  ASSUME KInv, RInv, NEW folder \in {"db", "saved"}, NEW f \in File, ClearFile(folder, f)
  PROVE  RInv'
<1> USE DEF ClearFile, files
<1>1. GotSound'
  BY GotKept
<1>2. db \in [File -> Content] /\ saved \in [File -> Content]
  BY DEF KInv, TypeOK
<1>3. \A k \in Key : Main(k) \in File
  BY DEF Main, File
<1>4. db' = db \/ db' = [db EXCEPT ![f] = NoFile]
  OBVIOUS
<1>5. saved' = saved \/ saved' = [saved EXCEPT ![f] = NoFile]
  OBVIOUS
<1>6. \A k \in Key : db'[Main(k)] = db[Main(k)] \/ db'[Main(k)] = NoFile
  BY <1>2, <1>3, <1>4
<1>7. CallSound'
  BY <1>6, UncleanCall
<1>8. AllSound(db', truth, exposed, mistaken)
  BY <1>2, <1>4, SoundNoFile, SoundUpdate DEF RInv, DbSound
<1>9. AllSound(saved', snap.truth, snap.exposed, snap.mistaken)
  BY <1>2, <1>5, SoundNoFile, SoundUpdate DEF RInv, SavedSound
<1>10. QED
  BY <1>1, <1>7, <1>8, <1>9 DEF RInv, DbSound, SavedSound

\* BackupDatabase and RestoreDatabase: until the copy is complete both histories count.
LEMMA FoldBeginsRInv ==
  ASSUME KInv, RInv, BackupDatabase \/ RestoreDatabase
  PROVE  RInv'
<1> USE DEF files
<1>1. GotSound' /\ ~got'.ok
  BY GotKept DEF BackupDatabase, RestoreDatabase, Begin, NoResult
<1>2. CASE BackupDatabase
  <2>1. /\ \A k \in Key : snap.truth[k] \subseteq snap'.truth[k]
        /\ snap.exposed \subseteq snap'.exposed /\ snap.mistaken \subseteq snap'.mistaken
    BY <1>2 DEF BackupDatabase
  <2>2. /\ \A k \in Key : truth'[k] \subseteq snap'.truth[k]
        /\ exposed' \subseteq snap'.exposed /\ mistaken' \subseteq snap'.mistaken
    BY <1>2 DEF BackupDatabase
  <2>3. AllSound(saved, snap'.truth, snap'.exposed, snap'.mistaken)
    BY <2>1, SoundGrows DEF RInv, SavedSound
  <2>4. DbSound' /\ SavedSound'
    BY <1>2, <2>3 DEF BackupDatabase, RInv, DbSound, SavedSound
  <2>5. /\ call'.op = "backup" /\ call'.at = "wipe"
        /\ \A f \in File \ call'.todo : saved'[f] = NoFile
    BY <1>2 DEF BackupDatabase, Begin, FoldCall, NewCall
  <2>6. CallSound'
    BY <1>1, <2>2, <2>5 DEF CallSound, GetSound
  <2>7. QED
    BY <1>1, <2>4, <2>6 DEF RInv
<1>3. CASE RestoreDatabase
  <2>1. /\ \A k \in Key : truth[k] \subseteq truth'[k]
        /\ exposed \subseteq exposed' /\ mistaken \subseteq mistaken'
    BY <1>3 DEF RestoreDatabase
  <2>2. /\ \A k \in Key : snap'.truth[k] \subseteq truth'[k]
        /\ snap'.exposed \subseteq exposed' /\ snap'.mistaken \subseteq mistaken'
    BY <1>3 DEF RestoreDatabase
  <2>3. AllSound(db, truth', exposed', mistaken')
    BY <2>1, SoundGrows DEF RInv, DbSound
  <2>4. DbSound' /\ SavedSound'
    BY <1>3, <2>3 DEF RestoreDatabase, RInv, DbSound, SavedSound
  <2>5. /\ call'.op = "restore" /\ call'.at = "wipe"
        /\ \A f \in File \ call'.todo : db'[f] = NoFile
    BY <1>3 DEF RestoreDatabase, Begin, FoldCall, NewCall
  <2>6. CallSound'
    BY <1>1, <2>2, <2>5 DEF CallSound, GetSound
  <2>7. QED
    BY <1>1, <2>4, <2>6 DEF RInv
<1>4. QED
  BY <1>2, <1>3

\* The history of the folder that is copied, and that of the folder copied to covers it.
SourceSound(f, c) ==
  IF call.op = "backup" THEN Sound(c, f[1], truth, exposed, mistaken)
  ELSE Sound(c, f[1], snap.truth, snap.exposed, snap.mistaken)

CopySound ==
  IF call.op = "backup" THEN AllSound(saved, truth, exposed, mistaken)
  ELSE AllSound(db, snap.truth, snap.exposed, snap.mistaken)

CopySoundNext ==
  IF call.op = "backup" THEN AllSound(saved', truth, exposed, mistaken)
  ELSE AllSound(db', snap.truth, snap.exposed, snap.mistaken)

LEMMA SourceFile ==
  ASSUME KInv, RInv, Copying, NEW f \in File
  PROVE  Source[f] \in Content /\ (f[2] = "match" \/ SourceSound(f, Source[f]))
<1>1. Source[f] \in Content
  BY DEF Source, KInv, TypeOK
<1>2. f[2] = "match" \/ SourceSound(f, Source[f])
  BY SoundOf DEF Source, SourceSound, RInv, DbSound, SavedSound
<1>3. QED
  BY <1>1, <1>2

LEMMA PutTargetSound ==
  ASSUME KInv, RInv, Copying, NEW f \in File, NEW c, PutTarget(f, c),
         f[2] = "match" \/ SourceSound(f, c), UNCHANGED <<truth, exposed, mistaken, snap>>
  PROVE  DbSound' /\ SavedSound' /\ (CopySound => CopySoundNext)
<1>1. db \in [File -> Content] /\ saved \in [File -> Content] /\ call # Idle
  BY DEF KInv, TypeOK, Copying
<1>2. CASE call.op = "backup"
  <2>1. saved' = [saved EXCEPT ![f] = c] /\ UNCHANGED db
    BY <1>2 DEF PutTarget
  <2>2. /\ \A k \in Key : truth[k] \subseteq snap.truth[k]
        /\ exposed \subseteq snap.exposed /\ mistaken \subseteq snap.mistaken
    BY <1>1, <1>2 DEF RInv, CallSound
  <2>3. f[2] = "match" \/ Sound(c, f[1], truth, exposed, mistaken)
    BY <1>2 DEF SourceSound
  <2>4. f[1] \in Key
    BY DEF File
  <2>5. f[2] = "match" \/ Sound(c, f[1], snap.truth, snap.exposed, snap.mistaken)
    BY <2>2, <2>3, <2>4 DEF Sound, Fit
  <2>6. AllSound(saved', snap.truth, snap.exposed, snap.mistaken)
    BY <1>1, <2>1, <2>5, SoundUpdate DEF RInv, SavedSound
  <2>7. DbSound' /\ SavedSound'
    BY <2>1, <2>6 DEF RInv, DbSound, SavedSound
  <2>8. CopySound => CopySoundNext
    BY <1>1, <1>2, <2>1, <2>3, SoundUpdate DEF CopySound, CopySoundNext
  <2>9. QED
    BY <2>7, <2>8
<1>3. CASE call.op = "restore"
  <2>1. db' = [db EXCEPT ![f] = c] /\ UNCHANGED saved
    BY <1>3 DEF PutTarget
  <2>2. /\ \A k \in Key : snap.truth[k] \subseteq truth[k]
        /\ snap.exposed \subseteq exposed /\ snap.mistaken \subseteq mistaken
    BY <1>1, <1>3 DEF RInv, CallSound
  <2>3. f[2] = "match" \/ Sound(c, f[1], snap.truth, snap.exposed, snap.mistaken)
    BY <1>3 DEF SourceSound
  <2>4. f[1] \in Key
    BY DEF File
  <2>5. f[2] = "match" \/ Sound(c, f[1], truth, exposed, mistaken)
    BY <2>2, <2>3, <2>4 DEF Sound, Fit
  <2>6. AllSound(db', truth, exposed, mistaken)
    BY <1>1, <2>1, <2>5, SoundUpdate DEF RInv, DbSound
  <2>7. DbSound' /\ SavedSound'
    BY <2>1, <2>6 DEF RInv, DbSound, SavedSound
  <2>8. CopySound => CopySoundNext
    BY <1>1, <1>3, <2>1, <2>3, SoundUpdate DEF CopySound, CopySoundNext
  <2>9. QED
    BY <2>7, <2>8
<1>4. QED
  BY <1>2, <1>3 DEF Copying

\* A copy goes on: what CallSound says of it.
LEMMA CopyingCall ==
  ASSUME KInv, RInv, Copying, UNCHANGED <<truth, exposed, mistaken, snap, got>>,
         call' # Idle, call'.op = call.op,
         call'.clean /\ call'.at = "wipe" =>
           \A f \in File \ call'.todo : (IF call.op = "backup" THEN saved' ELSE db')[f] = NoFile,
         call'.clean /\ call'.at = "copy" => CopySoundNext
  PROVE  CallSound'
<1>1. call # Idle /\ call.op \in {"backup", "restore"} /\ ~got.ok
  BY DEF Copying, RInv, CallSound
<1>2. CASE call.op = "backup"
  <2>1. /\ \A k \in Key : truth'[k] \subseteq snap'.truth[k]
        /\ exposed' \subseteq snap'.exposed /\ mistaken' \subseteq snap'.mistaken
    BY <1>1, <1>2 DEF RInv, CallSound
  <2>2. call'.clean /\ call'.at = "copy" => AllSound(saved', truth', exposed', mistaken')
    BY <1>2 DEF CopySoundNext
  <2>3. call'.clean /\ call'.at = "wipe" => \A f \in File \ call'.todo : saved'[f] = NoFile
    BY <1>2
  <2>4. QED
    BY <1>1, <1>2, <2>1, <2>2, <2>3 DEF CallSound, GetSound
<1>3. CASE call.op = "restore"
  <2>1. /\ \A k \in Key : snap'.truth[k] \subseteq truth'[k]
        /\ snap'.exposed \subseteq exposed' /\ snap'.mistaken \subseteq mistaken'
    BY <1>1, <1>3 DEF RInv, CallSound
  <2>2. call'.clean /\ call'.at = "copy"
          => AllSound(db', snap'.truth, snap'.exposed, snap'.mistaken)
    BY <1>3 DEF CopySoundNext
  <2>3. call'.clean /\ call'.at = "wipe" => \A f \in File \ call'.todo : db'[f] = NoFile
    BY <1>3
  <2>4. QED
    BY <1>1, <1>3, <2>1, <2>2, <2>3 DEF CallSound, GetSound
<1>4. QED
  BY <1>1, <1>2, <1>3

\* What CallSound says of a clean copy.
LEMMA CleanCopy ==
  ASSUME RInv, Copying, call.clean
  PROVE  /\ call.at = "wipe" => \A f \in File \ call.todo : Target[f] = NoFile
         /\ call.at = "copy" => CopySound
BY DEF RInv, CallSound, Copying, Target, CopySound

LEMMA FoldWipeRInv ==
  ASSUME KInv, RInv, NEW f \in File, FoldWipe(f)
  PROVE  RInv'
<1> USE DEF FoldWipe, ghosts, files
<1>1. call \in Call /\ call # Idle /\ Copying
  BY DEF Copying, KInv, TypeOK
<1>2. GotSound'
  BY <1>1, GotKept
<1>3. call' # Idle /\ call'.op = call.op /\ call'.at = "wipe"
  BY <1>1 DEF Call, Idle
<1>4. SUFFICES /\ DbSound' /\ SavedSound'
               /\ call'.clean => \A g \in File \ call'.todo :
                                   (IF call.op = "backup" THEN saved' ELSE db')[g] = NoFile
  BY <1>1, <1>2, <1>3, CopyingCall DEF RInv
<1>5. CASE PutTarget(f, NoFile) /\ call' = [call EXCEPT !.todo = @ \ {f}]
  <2>1. SourceSound(f, NoFile)
    BY SoundNoFile DEF SourceSound
  <2>2. DbSound' /\ SavedSound'
    BY <1>1, <1>5, <2>1, PutTargetSound
  <2>3. call'.clean = call.clean /\ call'.todo = call.todo \ {f}
    BY <1>1, <1>5 DEF Call
  <2>4. \A g \in File : (IF call.op = "backup" THEN saved' ELSE db')[g]
                          = IF g = f THEN NoFile ELSE Target[g]
    BY <1>5 DEF PutTarget, Target, KInv, TypeOK
  <2>5. QED
    BY <1>1, <2>2, <2>3, <2>4, CleanCopy
<1>6. CASE call' = [call EXCEPT !.todo = @ \ {f}, !.clean = FALSE] /\ UNCHANGED files
  <2>1. DbSound' /\ SavedSound'
    BY <1>6, QuietSound
  <2>2. call'.clean = FALSE
    BY <1>1, <1>6 DEF Call
  <2>3. QED
    BY <2>1, <2>2
<1>7. QED
  BY <1>5, <1>6

LEMMA FoldOpenRInv ==
  ASSUME KInv, RInv, FoldOpen
  PROVE  RInv'
<1> USE DEF FoldOpen, ghosts, files
<1>1. call \in Call /\ call # Idle /\ Copying
  BY DEF Copying, KInv, TypeOK
<1>2. GotSound' /\ DbSound' /\ SavedSound'
  BY <1>1, GotKept, QuietSound
<1>3. call' # Idle /\ call'.op = call.op /\ call'.at = "copy" /\ call'.clean = call.clean
  BY <1>1 DEF Call, Idle
<1>4. call.clean => CopySoundNext
  <2>1. SUFFICES ASSUME call.clean PROVE CopySoundNext
    OBVIOUS
  <2>2. \A f \in File : Target[f] = NoFile
    BY <1>1, <2>1, CleanCopy
  <2>3. QED
    BY <2>2, NoFilesSound DEF CopySoundNext, Target
<1>5. CallSound'
  BY <1>1, <1>3, <1>4, CopyingCall
<1>6. QED
  BY <1>2, <1>5 DEF RInv

LEMMA FoldFileRInv ==
  ASSUME KInv, RInv, NEW f \in File, FoldFile(f)
  PROVE  RInv'
<1> USE DEF FoldFile, ghosts, files
<1>1. call \in Call /\ call # Idle /\ Copying
  BY DEF Copying, KInv, TypeOK
<1>2. GotSound'
  BY <1>1, GotKept
<1>3. call' # Idle /\ call'.op = call.op /\ call'.at = "copy"
  BY <1>1 DEF Call, Idle
<1>4. SUFFICES DbSound' /\ SavedSound' /\ (call'.clean => CopySoundNext)
  BY <1>1, <1>2, <1>3, CopyingCall DEF RInv
<1>5. Source[f] \in Content /\ (f[2] = "match" \/ SourceSound(f, Source[f]))
  BY <1>1, SourceFile
<1>6. CASE UNCHANGED files /\ call' = [call EXCEPT !.todo = @ \ {f}]
  <2>1. DbSound' /\ SavedSound'
    BY <1>6, QuietSound
  <2>2. call'.clean = call.clean
    BY <1>1, <1>6 DEF Call
  <2>3. CopySound => CopySoundNext
    BY <1>6 DEF CopySound, CopySoundNext
  <2>4. QED
    BY <1>1, <2>1, <2>2, <2>3, CleanCopy
<1>7. CASE PutTarget(f, Source[f]) /\ call' = [call EXCEPT !.todo = @ \ {f}]
  <2>1. DbSound' /\ SavedSound' /\ (CopySound => CopySoundNext)
    BY <1>1, <1>5, <1>7, PutTargetSound
  <2>2. call'.clean = call.clean
    BY <1>1, <1>7 DEF Call
  <2>3. QED
    BY <1>1, <2>1, <2>2, CleanCopy
<1>8. CASE /\ \E c \in Prefixes(Source[f]) : PutTarget(f, c)
           /\ call' = [call EXCEPT !.todo = @ \ {f}, !.clean = FALSE]
  <2>1. PICK c \in Prefixes(Source[f]) : PutTarget(f, c)
    BY <1>8
  <2>2. f[2] = "match" \/ SourceSound(f, c)
    BY <1>5, SoundPrefix DEF SourceSound
  <2>3. DbSound' /\ SavedSound'
    BY <1>1, <2>1, <2>2, PutTargetSound
  <2>4. call'.clean = FALSE
    BY <1>1, <1>8 DEF Call
  <2>5. QED
    BY <2>3, <2>4
<1>9. QED
  BY <1>6, <1>7, <1>8

LEMMA FoldEndsRInv ==
  ASSUME KInv, RInv, FoldFails \/ FoldDone
  PROVE  RInv'
<1> USE DEF ghosts, files
<1>1. call # Idle /\ Copying /\ call.at = "copy" /\ call' = Idle /\ got' = got
  BY DEF FoldFails, FoldDone, Copying, Return
<1>2. GotSound' /\ CallSound'
  BY <1>1, GotKept, SimpleCall
<1>3. CASE UNCHANGED <<files, truth, exposed, mistaken, snap>>
  BY <1>2, <1>3, QuietSound DEF RInv
<1>4. CASE FoldDone /\ call.clean
  <2>1. CopySound
    BY <1>1, <1>4, CleanCopy
  <2>2. DbSound' /\ SavedSound'
    BY <1>1, <1>4, <2>1 DEF FoldDone, CopySound, RInv, DbSound, SavedSound
  <2>3. QED
    BY <1>2, <2>2 DEF RInv
<1>5. QED
  BY <1>3, <1>4 DEF FoldFails, FoldDone

LEMMA CrashRInv ==
  ASSUME KInv, RInv, Crash
  PROVE  RInv'
<1> USE DEF Crash, files
<1>1. GotSound' /\ CallSound'
  BY GotKept, SimpleCall
<1>2. SUFFICES DbSound' /\ SavedSound'
  BY <1>1 DEF RInv
<1>3. CASE UNCHANGED <<files, truth, kept>>
  BY <1>3, QuietSound
<1>4. CASE /\ Writing
           /\ \E n \in 0..Size(call.val) : db' = [db EXCEPT ![Here] = Record(call.val, n)]
           /\ truth' = [truth EXCEPT ![call.key] = @ \cup {call.val}]
           /\ UNCHANGED saved
  <2>1. PICK n \in 0..Size(call.val) : db' = [db EXCEPT ![Here] = Record(call.val, n)]
    BY <1>4
  <2>2. n \in 0..5 /\ call.val \in Data
    BY <1>4, WritingHere DEF Size
  <2>3. Record(call.val, n) \in Content
    BY <2>2, RecordFacts
  <2>4. QED
    BY <1>4, <2>1, <2>3, TruthGrows
<1>5. CASE /\ Reading /\ call.converting
           /\ \E n \in 0..Size(call.acc) : db' = [db EXCEPT ![Here] = Record(call.acc, n)]
           /\ UNCHANGED <<saved, truth, kept>>
  <2>1. PICK n \in 0..Size(call.acc) : db' = [db EXCEPT ![Here] = Record(call.acc, n)]
    BY <1>5
  <2>2. n \in 0..5 /\ call.acc \in Data
    BY <1>5, ReadingHere DEF Size, Call
  <2>3. Record(call.acc, n) \in Content
    BY <2>2, RecordFacts
  <2>4. QED
    BY <1>5, <2>1, <2>3, ConvertedSound
<1>6. CASE /\ Copying /\ call.at = "copy"
           /\ \E f \in call.todo : \E c \in Prefixes(Source[f]) :
                Source[f] # NoFile /\ PutTarget(f, c)
           /\ UNCHANGED <<truth, kept>>
  <2>1. PICK f \in call.todo : \E c \in Prefixes(Source[f]) : PutTarget(f, c)
    BY <1>6
  <2>2. f \in File
    BY <1>6, <2>1 DEF Copying, KInv, TypeOK, Call
  <2>3. PICK c \in Prefixes(Source[f]) : PutTarget(f, c)
    BY <2>1
  <2>4. Source[f] \in Content /\ (f[2] = "match" \/ SourceSound(f, Source[f]))
    BY <1>6, <2>2, SourceFile
  <2>5. f[2] = "match" \/ SourceSound(f, c)
    BY <2>4, SoundPrefix DEF SourceSound
  <2>6. QED
    BY <1>6, <2>2, <2>3, <2>5, PutTargetSound
<1>7. QED
  BY <1>3, <1>4, <1>5, <1>6

LEMMA NextRInv ==
  ASSUME KInv, RInv, [Next]_vars
  PROVE  RInv'
<1>1. CASE UNCHANGED vars
  BY <1>1, AsideRInv DEF vars
<1>2. CASE Step
  BY <1>2, ReadOldRInv, ConvertRInv, ReadKeyRInv, WriteMainRInv, WriteBackupRInv,
     DeleteBackupRInv, FoldWipeRInv, FoldFileRInv, FoldOpenRInv, FoldEndsRInv DEF Step
<1>3. CASE \E k \in Key : GetKey(k) \/ DeleteKey(k) \/ \E v \in Value : SetKey(k, v)
  <2>1. PICK k \in Key : GetKey(k) \/ DeleteKey(k) \/ \E v \in Value : SetKey(k, v)
    BY <1>3
  <2>2. Default \in Value
    BY DataAssumption
  <2>3. QED
    BY <2>1, <2>2, BeginsRInv, DeleteKeyRInv
<1>4. CASE BackupDatabase \/ RestoreDatabase
  BY <1>4, FoldBeginsRInv
<1>5. CASE \E folders \in SUBSET {"db", "saved"} \ {{}} : Clear(folders)
  BY <1>5, AsideRInv DEF Clear
<1>6. CASE \E f \in File : ClearFile("db", f) \/ ClearFile("saved", f)
  BY <1>6, ClearFileRInv
<1>7. CASE \E p \in BOOLEAN : SetProperty(p)
  BY <1>7, AsideRInv DEF SetProperty
<1>8. CASE Crash
  BY <1>8, CrashRInv
<1>9. QED
  BY <1>1, <1>2, <1>3, <1>4, <1>5, <1>6, <1>7, <1>8 DEF Next

LEMMA SpecRInv == Spec => []RInv
<1>1. Init => RInv
  BY InitRInv
<1>2. KInv /\ RInv /\ [Next]_vars => RInv'
  BY NextRInv
<1>3. QED
  BY <1>1, <1>2, SpecKInv, PTL DEF Spec

\* Whatever crashes, fails or is cleared, a GetKey in safe mode that succeeds returns a value
\* of the store, or a text that reads of this key are known to have made of a damaged file:
\* an empty one of a file cut off in its header, a part of a file of the old format that was
\* copied in part, a file of the old format appended to itself after a rewrite that could not
\* open it.
THEOREM SpecNeverInvents == Spec => []NeverInvents
BY SpecRInv, PTL DEF RInv, GotSound

\* A GetKey in safe mode that succeeds returns the value last set, one whose SetKey did not
\* succeed, or the default of the rule, and never one that was replaced, deleted or undone by
\* RestoreDatabase, but for the keys whose state the code does not report (exposed) and the
\* texts of SpecNeverInvents (mistaken).
THEOREM SpecReadRecent == Spec => []ReadRecent
BY SpecRInv, PTL DEF RInv, GotSound
=============================================================================
