-------------------------- MODULE SettingsFile_proofs --------------------------
(***************************************************************************)
(* For any number of runs, of openings of the editor and of its saves, and *)
(* for entries of any kind: what was promised is kept, and of what an      *)
(* editor saves the program keeps one save whole.                          *)
(*                                                                         *)
(* The argument follows the entries from the settings to the file and      *)
(* back.  As long as no editor was opened they are in the settings while   *)
(* the program runs and in the file when it does not (Promised).  After an *)
(* opening that found the file fresh nothing is to be read and the file is *)
(* watched; once the editor has saved, the file always has all of some     *)
(* save of this opening, and the settings have it too, or the event that   *)
(* makes the program read the file is still to come and the watch keeps it *)
(* from writing over the file (Edited).                                    *)
(***************************************************************************)
EXTENDS SettingsFile, Lemmas

\* The entries of one of the editor's saves are in db.
HasSave(db) == \E s \in saves : \A e \in ToSet(s) : Contains(db, e)

Typed ==
  /\ settings \in Settings /\ file \in Contents
  /\ watching \in BOOLEAN /\ running \in BOOLEAN /\ clean \in BOOLEAN
  /\ events \in Nat /\ opens \in 0 .. MaxOpens
  /\ editor \in {"none", "open", "writing"} /\ buffer \in Seq(Entries)
  /\ writes \in 0 .. MaxWrites /\ session \in {"none", "fresh", "stale"}
  /\ saves \subseteq Seq(Entries) /\ runs \in 0 .. MaxRuns
  /\ promised \subseteq Entries

\* Every save is at most two events, every opening at most one.
Counted ==
  /\ events <= 2 * writes + opens + IF editor = "writing" THEN 1 ELSE 0
  /\ editor = "writing" => writes < MaxWrites /\ ~clean

\* Nobody has opened the editor yet.
Untouched ==
  /\ opens = 0 => editor = "none" /\ ~watching /\ events = 0 /\ writes = 0
  /\ runs = 0 => opens = 0 /\ ~running

Promised ==
  clean /\ opens = 0 =>
    \A e \in promised : Contains(IF running THEN settings.db ELSE file.db, e)

Edited ==
  clean /\ session = "fresh" =>
    /\ saves = {} => events = 0
    /\ saves = {} /\ running => watching
    /\ saves # {} => HasSave(file.db)
    /\ saves # {} /\ running => (watching /\ events > 0) \/ HasSave(settings.db)

IInv == Typed /\ Counted /\ Untouched /\ Promised /\ Edited
-----------------------------------------------------------------------------
(* The operators of the module.                                            *)

\* An entry that is appended is there, and so are the others.
LEMMA Appended ==
  ASSUME NEW db \in Seq(Entries), NEW e \in Entries
  PROVE  /\ Append(db, e) \in Seq(Entries)
         /\ Contains(Append(db, e), e)
         /\ \A x : Contains(db, x) => Contains(Append(db, e), x)
<1>1. /\ Append(db, e) \in Seq(Entries) /\ Len(Append(db, e)) = Len(db) + 1 /\ Len(db) \in Nat
      /\ Append(db, e)[Len(db) + 1] = e
      /\ \A k \in 1 .. Len(db) : Append(db, e)[k] = db[k]
  BY AppendProperties
<1> DEFINE tt == Append(db, e)
<1> HIDE DEF tt
<1>2. Contains(tt, e) /\ \A x : Contains(db, x) => Contains(tt, x)
  BY <1>1 DEF Contains, tt
<1> QED BY <1>1, <1>2 DEF tt

\* What the program reads has a value for every switch.
LEMMA LoadTyped ==
  ASSUME NEW c \in Contents, NEW s \in Settings, Load(c, s), clean \in BOOLEAN
  PROVE  settings' \in Settings /\ clean' \in BOOLEAN
         /\ (clean' => clean /\ settings'.db = c.db)
<1>1. BuiltIn \in Contents
  BY EntriesAssumption DEF BuiltIn, Contents
<1>2. \A d \in Contents : Loaded(d, s) \in Settings /\ Loaded(d, s).db = d.db
  BY DEF Loaded, Contents, Settings
<1>3. CASE settings' = Loaded(c, s) /\ UNCHANGED clean
  BY <1>2, <1>3
<1>4. CASE settings' \in {Loaded(BuiltIn, s), s} /\ clean' = FALSE
  BY <1>1, <1>2, <1>4
<1> QED BY <1>3, <1>4 DEF Load, Works, Fails

\* What is written, if nothing fails, are the settings.
LEMMA SaveTyped ==
  ASSUME settings \in Settings, file \in Contents, clean \in BOOLEAN, Save \/ NotSaved
  PROVE  file' \in Contents /\ clean' \in BOOLEAN /\ (clean' => clean /\ file' = settings)
<1>1. settings \in Contents /\ Truncated \in Contents
  BY DEF Settings, Contents, Truncated
<1>2. CASE file' = settings /\ UNCHANGED clean
  BY <1>1, <1>2
<1>3. CASE file' \in {Truncated, file} /\ clean' = FALSE
  BY <1>1, <1>3
<1> QED BY <1>2, <1>3 DEF Save, NotSaved, Works, Fails

\* The bounds, one by one.
LEMMA Bounds == /\ MaxRuns \in Nat /\ MaxOpens \in Nat /\ MaxEntries \in Nat
                /\ MaxWrites \in Nat
BY BoundsAssumption
-----------------------------------------------------------------------------
(* The inductive invariant.                                                *)

\* Before the program is started for the first time.
LEMMA InitIInv == Init => IInv
<1> SUFFICES ASSUME Init PROVE IInv
  OBVIOUS
<1>1. Typed
  <2>1. BuiltIn \in Settings /\ BuiltIn \in Contents
    BY EntriesAssumption DEF BuiltIn, Settings, Contents
  <2>2. <<>> \in Seq(Entries)
    OBVIOUS
  <2>3. 0 \in 0 .. MaxOpens /\ 0 \in 0 .. MaxWrites /\ 0 \in 0 .. MaxRuns /\ 0 \in Nat
    BY Bounds
  <2> QED BY <2>1, <2>2, <2>3 DEF Init, Typed
<1>2. Counted /\ Untouched /\ Promised /\ Edited
  BY Bounds DEF Init, Counted, Untouched, Promised, Edited
<1> QED BY <1>1, <1>2 DEF IInv

\* Starting.
LEMMA Starting == ASSUME IInv, Start PROVE IInv'
<1>1. [BuiltIn EXCEPT !.db = <<>>] \in Settings
  <2>1. <<>> \in Seq(Entries)
    OBVIOUS
  <2>2. [BuiltIn EXCEPT !.db = <<>>] = [switch |-> "no", db |-> <<>>]
    BY DEF BuiltIn
  <2> QED BY <2>1, <2>2 DEF Settings
<1>2. settings' \in Settings /\ clean' \in BOOLEAN /\ (clean' => clean /\ settings'.db = file.db)
  BY <1>1, LoadTyped DEF IInv, Typed, Start
<1>3. Typed' /\ Counted' /\ Untouched'
  BY <1>2, Bounds DEF IInv, Typed, Counted, Untouched, Start, desk
<1>4. Promised'
  BY <1>2 DEF IInv, Promised, Start, desk
<1>5. Edited'
  BY <1>2 DEF IInv, Typed, Untouched, Edited, Start, desk
<1> QED BY <1>3, <1>4, <1>5 DEF IInv

\* Saving the options of a file system.
LEMMA Saving == ASSUME IInv, SaveOptions PROVE IInv'
<1>1. PICK e \in Entries : /\ settings' = [settings EXCEPT !.db = Append(settings.db, e)]
                           /\ promised' = promised \cup {e}
  BY DEF SaveOptions
<1>2. settings \in Settings /\ settings.db \in Seq(Entries)
  BY DEF IInv, Typed, Settings
<1>3. /\ settings' \in Settings /\ settings'.db = Append(settings.db, e)
  BY <1>1, <1>2, Appended DEF Settings
<1>4. /\ Contains(settings'.db, e)
      /\ \A x : Contains(settings.db, x) => Contains(settings'.db, x)
  BY <1>2, <1>3, Appended
<1>5. Typed' /\ Counted' /\ Untouched'
  BY <1>1, <1>3 DEF IInv, Typed, Counted, Untouched, SaveOptions, desk
<1>6. Promised'
  BY <1>1, <1>4 DEF IInv, Promised, SaveOptions, desk
<1>7. HasSave(settings.db) => HasSave(settings.db)'
  BY <1>4 DEF HasSave, SaveOptions, desk
<1>8. Edited'
  BY <1>7 DEF IInv, Edited, HasSave, SaveOptions, desk
<1> QED BY <1>5, <1>6, <1>8 DEF IInv

\* A switch.
LEMMA Switching == ASSUME IInv, Switch PROVE IInv'
<1>1. settings' \in Settings /\ settings'.db = settings.db
  BY DEF IInv, Typed, Switch, Settings
<1>2. Typed' /\ Counted' /\ Untouched' /\ Promised'
  BY <1>1 DEF IInv, Typed, Counted, Untouched, Promised, Switch, desk
<1>3. Edited'
  BY <1>1 DEF IInv, Edited, HasSave, Switch, desk
<1> QED BY <1>2, <1>3 DEF IInv

\* The editor is opened.
LEMMA Opening == ASSUME IInv, EditPreferences PROVE IInv'
<1>1. file' \in Contents /\ clean' \in BOOLEAN /\ (clean' => clean)
  BY SaveTyped DEF IInv, Typed, EditPreferences
<1>2. buffer' \in Seq(Entries)
  BY <1>1 DEF IInv, Typed, EditPreferences, Contents
<1>3. events' \in {events, IF watching THEN events + 1 ELSE events}
  BY DEF EditPreferences, Notify
<1>4. Typed'
  <2>1. events' \in Nat /\ opens' \in 0 .. MaxOpens
    BY <1>3, Bounds DEF IInv, Typed, EditPreferences
  <2>2. watching' \in BOOLEAN /\ editor' \in {"none", "open", "writing"}
    BY DEF IInv, Typed, EditPreferences
  <2> QED BY <1>1, <1>2, <2>1, <2>2 DEF IInv, Typed, EditPreferences
<1>5. Counted' /\ Untouched'
  BY <1>1, <1>3 DEF IInv, Typed, Counted, Untouched, EditPreferences
<1>6. Promised'
  BY DEF IInv, Typed, Promised, EditPreferences
<1>7. Edited'
  <2>1. CASE saves' = {} /\ watching' /\ session' = IF Pending THEN "stale" ELSE "fresh"
    BY <1>3, <2>1 DEF IInv, Typed, Edited, Pending
  <2>2. CASE UNCHANGED <<watching, saves>> /\ session' = IF Pending THEN "stale" ELSE session
    <3> SUFFICES ASSUME clean', session' = "fresh" PROVE Edited'
      BY DEF Edited
    <3>1. clean /\ session = "fresh" /\ ~watching /\ events = 0 /\ events' = 0 /\ running
      BY <1>1, <1>3, <2>2 DEF IInv, Typed, Pending, EditPreferences
    <3>2. saves # {} /\ HasSave(file.db) /\ HasSave(settings.db)
      BY <3>1 DEF IInv, Edited
    <3>3. file' \in {file, settings} /\ settings' = settings
      BY SaveTyped DEF IInv, Typed, EditPreferences, NotSaved
    <3>4. HasSave(file.db)' /\ HasSave(settings.db)'
      BY <2>2, <3>2, <3>3 DEF HasSave
    <3> QED BY <2>2, <3>2, <3>4 DEF Edited
  <2> QED BY <2>1, <2>2 DEF EditPreferences
<1> QED BY <1>4, <1>5, <1>6, <1>7 DEF IInv

\* The event of the watch.
LEMMA Watching == ASSUME IInv, FSWatch PROVE IInv'
<1>1. settings' \in Settings /\ clean' \in BOOLEAN /\ (clean' => clean /\ settings'.db = file.db)
  BY LoadTyped DEF IInv, Typed, FSWatch
<1>2. Typed'
  <2>1. events' \in Nat
    BY DEF IInv, Typed, FSWatch
  <2> QED BY <1>1, <2>1 DEF IInv, Typed, FSWatch, desk
<1>5. Counted' /\ Untouched'
  BY <1>1 DEF IInv, Typed, Counted, Untouched, FSWatch, desk
<1>3. Promised'
  BY <1>1 DEF IInv, Untouched, Promised, FSWatch, desk
<1>4. Edited'
  BY <1>1 DEF IInv, Typed, Edited, HasSave, FSWatch, desk
<1> QED BY <1>2, <1>3, <1>4, <1>5 DEF IInv

\* The window is closed.
LEMMA Closing == ASSUME IInv, CloseWindow PROVE IInv'
<1>1. /\ file' \in Contents /\ clean' \in BOOLEAN
      /\ clean' => clean /\ file' = IF watching THEN file ELSE settings
  BY SaveTyped DEF IInv, Typed, CloseWindow, Works
<1>2. Typed'
  BY <1>1 DEF IInv, Typed, CloseWindow, desk
<1>5. Counted' /\ Untouched'
  BY <1>1, Bounds DEF IInv, Typed, Counted, Untouched, CloseWindow, desk
<1>3. Promised'
  BY <1>1 DEF IInv, Untouched, Promised, CloseWindow, desk
<1>4. Edited'
  BY <1>1 DEF IInv, Typed, Edited, HasSave, CloseWindow, desk
<1> QED BY <1>2, <1>3, <1>4, <1>5 DEF IInv

\* The editor is used, truncates the file, writes it and is quit.
LEMMA Editing == ASSUME IInv, Edit \/ Truncate \/ Quit PROVE IInv'
<1>1. CASE Edit
  <2>1. buffer' \in Seq(Entries)
    <3>1. buffer \in Seq(Entries)
      BY DEF IInv, Typed
    <3>2. ASSUME NEW i \in DOMAIN buffer PROVE RemoveAt(buffer, i) \in Seq(Entries)
      <4>1. Len(buffer) \in Nat /\ i \in 1 .. Len(buffer)
        BY <3>1
      <4>2. /\ SubSeq(buffer, 1, i - 1) \in Seq(Entries)
            /\ SubSeq(buffer, i + 1, Len(buffer)) \in Seq(Entries)
        BY <3>1, <4>1, SubSeqProperties
      <4> QED BY <4>2 DEF RemoveAt
    <3>3. ASSUME NEW e \in Entries PROVE Append(buffer, e) \in Seq(Entries)
      BY <3>1
    <3> QED BY <1>1, <3>2, <3>3 DEF Edit
  <2>2. promised' \subseteq promised
    BY <1>1 DEF Edit
  <2>3. Typed' /\ Counted' /\ Untouched' /\ Promised'
    BY <1>1, <2>1, <2>2 DEF IInv, Typed, Counted, Untouched, Promised, Edit
  <2>4. Edited'
    BY <1>1 DEF IInv, Edited, HasSave, Edit
  <2> QED BY <2>3, <2>4 DEF IInv
<1>2. CASE Truncate
  <2>1. Truncated \in Contents
    BY DEF Truncated, Contents
  <2>2. Typed'
    <3>1. events' \in Nat
      BY <1>2 DEF IInv, Typed, Truncate, Notify
    <3> QED BY <1>2, <2>1, <3>1 DEF IInv, Typed, Truncate
  <2>3. Counted' /\ Untouched'
    BY <1>2, Bounds DEF IInv, Typed, Counted, Untouched, Truncate, Notify
  <2>4. Promised' /\ Edited'
    BY <1>2 DEF Promised, Edited, Truncate
  <2> QED BY <2>2, <2>3, <2>4 DEF IInv
<1>3. CASE Quit
  BY <1>3 DEF IInv, Typed, Counted, Untouched, Promised, Edited, HasSave, Quit
<1> QED BY <1>1, <1>2, <1>3

\* The editor writes the file.
LEMMA Writing == ASSUME IInv, WriteOut PROVE IInv'
<1>1. file' \in Contents /\ file'.db = buffer
  BY DEF IInv, Typed, WriteOut, Contents
<1>2. Typed'
  BY <1>1, Bounds DEF IInv, Typed, WriteOut, Notify
<1>3. Counted' /\ Untouched'
  BY Bounds DEF IInv, Typed, Counted, Untouched, WriteOut, Notify
<1>4. Promised'
  BY DEF IInv, Untouched, Promised, WriteOut
<1>5. HasSave(file.db)'
  <2>1. \A e \in ToSet(buffer) : Contains(buffer, e)
    BY DEF IInv, Typed, ToSet, Contains
  <2> QED BY <1>1, <2>1 DEF HasSave, WriteOut
<1>6. HasSave(settings.db) => HasSave(settings.db)'
  BY DEF HasSave, WriteOut
<1>7. Edited'
  BY <1>5, <1>6 DEF IInv, Typed, Counted, Edited, WriteOut, Notify
<1> QED BY <1>2, <1>3, <1>4, <1>7 DEF IInv

\* Every step preserves the invariant.
LEMMA NextIInv == IInv /\ [Next]_vars => IInv'
<1> SUFFICES ASSUME IInv, [Next]_vars PROVE IInv'
  OBVIOUS
<1>1. CASE UNCHANGED vars
  BY <1>1 DEF IInv, Typed, Counted, Untouched, Promised, Edited, HasSave, vars
<1> QED BY <1>1, Starting, Saving, Switching, Opening, Watching, Closing, Editing, Writing
        DEF Next

\* So it holds in every reachable state.
LEMMA Invariance == Spec => []IInv
BY InitIInv, NextIInv, PTL DEF Spec
-----------------------------------------------------------------------------
(* Theorems.                                                               *)

\* program_settings: every switch has a value in memory, whatever the file that
\* was read left out, and no more events are queued than changes were made.
THEOREM TypeCorrect == Spec => []TypeOK
<1>1. IInv => TypeOK
  BY Bounds DEF IInv, Typed, Counted, TypeOK
<1> QED BY <1>1, Invariance, PTL

\* OnActionSave_by_FS() and the like: what the user was told is saved is in the
\* file when the program has ended, after any number of runs.
THEOREM KeepsPromises == Spec => []PromisesKept
<1>1. IInv => PromisesKept
  BY DEF IInv, Promised, PromisesKept
<1> QED BY <1>1, Invariance, PTL

\* FSWatch() and closeEvent(), in any run and at any opening of the editor that
\* found no change of the file watched for or still to be read: when the window
\* is closed in that run the file has all of one of the saves made since.
THEOREM KeepsEditorsWork == Spec => []EditorsWorkKept
<1>1. IInv => EditorsWorkKept
  BY DEF IInv, Edited, HasSave, EditorsWorkKept
<1> QED BY <1>1, Invariance, PTL
=============================================================================
