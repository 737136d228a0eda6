----------------------------- MODULE SettingsFile -----------------------------
(***************************************************************************)
(* FileChecker::LoadFile<Settings>: how a start of the program turns what  *)
(* is on disk into settings, writing the file when it is missing or lacks  *)
(* a key. The process may end between any two steps, a file may refuse to  *)
(* be opened or to take what is written, and between two runs the user may *)
(* edit or delete it. An exception leaves the constructor of Application   *)
(* and nothing catches it: the start has failed.                           *)
(***************************************************************************)

CONSTANT NotABool   \* what a key may hold that get<bool>() throws on

ASSUME NotABoolAssumption == NotABool \notin BOOLEAN

VARIABLES
  phase,         \* where the start is; "off" between two runs of the program
  disk,          \* what is at the path: "missing", "torn" (not JSON), "object"
  file,          \* the keys of that object, and what they hold
  mySettings,
  before,        \* history: the object this run of the program began with
  mishap,        \* history: during it a write was cut short, or a file that
                 \* is there could not be read
  changed        \* history: a setting was changed in the window

vars == <<phase, disk, file, mySettings, before, mishap, changed>>
diskVars == <<disk, file>>
historyVars == <<before, mishap, changed>>

Key == {"Headless", "MinimizeToSystemTray"}

Object == UNION {[keys -> BOOLEAN \cup {NotABool}] : keys \in SUBSET Key}
NoKeys == [k \in {} |-> NotABool]

----------------------------------------------------------------------------
(* Settings                                                                *)

\* What FromJson returns.
HasAllKeys(object) == Key \subseteq DOMAIN object

\* Mutants: a key that is not there is left alone; nothing is taken from an
\* object that lacks one.
FromJsonOnlyThere(object) == [k \in Key \cap DOMAIN object |-> object[k]]
FromJsonAllOrNothing(object) ==
  [k \in Key |-> HasAllKeys(object) /\ object[k]]

\* ... and what it assigns.
FromJson(object) == [k \in Key |-> k \in DOMAIN object /\ object[k]]

FromJsonThrows(object) == \E k \in DOMAIN object : object[k] = NotABool

----------------------------------------------------------------------------
Init ==
  /\ phase = "off"
  /\ \/ disk \in {"missing", "torn"} /\ file = NoKeys
     \/ disk = "object" /\ file \in Object
  /\ mySettings \in [Key -> BOOLEAN]
  /\ before = file
  /\ mishap = FALSE
  /\ changed = FALSE

\* Application's constructor: mySettings holds what its memory happens to hold.
Start ==
  /\ phase \in {"off", "failed"}
  /\ phase' = "exists"
  /\ mySettings' \in [Key -> BOOLEAN]
  /\ before' = file
  /\ mishap' = FALSE
  /\ changed' = FALSE
  /\ UNCHANGED diskVars

\* A file that cannot be opened counts as missing.
Exists ==
  /\ phase = "exists"
  /\ \/ disk = "missing" /\ phase' = "create" /\ UNCHANGED mishap
     \/ disk # "missing" /\ phase' = "parse" /\ UNCHANGED mishap
     \/ disk # "missing" /\ phase' = "create" /\ mishap' = TRUE
  /\ UNCHANGED <<diskVars, mySettings, before, changed>>

\* std::ofstream empties the file as it opens it, if it can.
Open(from, opened, notOpened) ==
  /\ phase = from
  /\ \/ phase' = opened /\ disk' = "torn" /\ file' = NoKeys
     \/ phase' = notOpened /\ UNCHANGED diskVars
  /\ UNCHANGED <<mySettings, historyVars>>

\* close() writes what ToJson gave; whether that works is not looked at.
Close(from, next) ==
  /\ phase = from
  /\ phase' = next
  /\ \/ disk' = "object" /\ file' = mySettings /\ UNCHANGED mishap
     \/ mishap' = TRUE /\ UNCHANGED diskVars
  /\ UNCHANGED <<mySettings, before, changed>>

OpenToCreate == Open("create", "creating", "parse")
Create == Close("creating", "parse")

\* Parsing throws on a file that is not there, cannot be opened or is no JSON.
ParseFails ==
  /\ phase \in {"parse", "parseAgain"}
  /\ phase' = "failed"
  /\ mishap' = (mishap \/ (disk = "object" /\ ~FromJsonThrows(file)))
  /\ UNCHANGED <<diskVars, mySettings, before, changed>>

\* Mutant: what was read is not assigned.
ParseDiscards ==
  /\ phase = "parse" /\ disk = "object" /\ ~FromJsonThrows(file)
  /\ phase' = IF HasAllKeys(file) THEN "running" ELSE "rewrite"
  /\ UNCHANGED <<diskVars, mySettings, historyVars>>

Parse ==
  /\ phase = "parse" /\ disk = "object" /\ ~FromJsonThrows(file)
  /\ mySettings' = FromJson(file)
  /\ phase' = IF HasAllKeys(file) THEN "running" ELSE "rewrite"
  /\ UNCHANGED <<diskVars, historyVars>>

OpenToRewrite == Open("rewrite", "rewriting", "parseAgain")
Rewrite == Close("rewriting", "parseAgain")

\* The second time nobody asks for all keys.
ParseAgain ==
  /\ phase = "parseAgain" /\ disk = "object" /\ ~FromJsonThrows(file)
  /\ mySettings' = FromJson(file)
  /\ phase' = "running"
  /\ UNCHANGED <<diskVars, historyVars>>

\* The checkbox of the window, which a headless program does not draw; no code
\* saves what it changes.
Change ==
  /\ phase = "running" /\ ~mySettings["Headless"]
  /\ mySettings' = [mySettings EXCEPT !["MinimizeToSystemTray"] = ~@]
  /\ changed' = TRUE
  /\ UNCHANGED <<phase, diskVars, before, mishap>>

\* The program ends, wherever it is.
Stop ==
  /\ phase \notin {"off", "failed"}
  /\ phase' = "off"
  /\ mishap' = (mishap \/ phase \in {"creating", "rewriting"})
  /\ UNCHANGED <<diskVars, mySettings, before, changed>>

\* The user edits the file between two runs, or deletes it.
Edit ==
  /\ phase \in {"off", "failed"}
  /\ \/ disk' \in {"missing", "torn"} /\ file' = NoKeys
     \/ disk' = "object" /\ file' \in Object
  /\ phase' = "off"
  /\ before' = file'
  /\ mishap' = FALSE
  /\ UNCHANGED <<mySettings, changed>>

LoadFile == Exists \/ OpenToCreate \/ Create \/ ParseFails \/ Parse
            \/ OpenToRewrite \/ Rewrite \/ ParseAgain

Next == Start \/ LoadFile \/ Change \/ Stop \/ Edit

Spec == Init /\ [][Next]_vars

----------------------------------------------------------------------------
(* Properties                                                              *)

Phase == {"off", "exists", "create", "creating", "parse", "rewrite", "rewriting",
          "parseAgain", "running", "failed"}

\* Every variable keeps to its range, and only an object has keys.
TypeOK ==
  /\ phase \in Phase
  /\ disk \in {"missing", "torn", "object"}
  /\ file \in Object
  /\ disk # "object" => file = NoKeys
  /\ mySettings \in [Key -> BOOLEAN]
  /\ before \in Object
  /\ mishap \in BOOLEAN
  /\ changed \in BOOLEAN

\* The program only ever runs on the settings its file holds, whatever path the
\* start took, with FALSE for a key that could not be added; what the memory of
\* Application happened to hold is never run on (LoadFile reads back what it
\* writes).
RunsOnItsFile ==
  phase = "running" /\ ~changed => disk = "object" /\ mySettings = FromJson(file)

\* What the user has set survives the adding of missing keys: a start loses a
\* value only if a write is cut short or the file could not be read, and while
\* it rewrites the file, which it empties first.
ValuesSurvive ==
  ~mishap /\ phase \notin {"creating", "rewriting"} =>
    \A k \in DOMAIN before : k \in DOMAIN file /\ file[k] = before[k]

=============================================================================
