----------------------------- MODULE SettingsFile -----------------------------
(***************************************************************************)
(* The settings in memory, the configuration file and the external editor  *)
(* that is opened on it (program_settings in base.cpp; FSWatch,            *)
(* OnActionSave_by_..., OnActionEditPreferences and closeEvent in          *)
(* mainwindow.cpp), over several runs of the program.                      *)
(*                                                                         *)
(* Of the file's contents the model keeps one of the switches and the      *)
(* entries "Options/N", each with the key it is found by (file system      *)
(* type, label and uuid) and its mount options.  A file that does not      *)
(* exist is one that says what the built-in configuration says.            *)
(***************************************************************************)
EXTENDS Naturals, Sequences, SequencesExt

CONSTANTS Keys,        \* file system type, label and uuid of an entry
          Opts,        \* mount options
          Default,     \* the entries of the built-in configuration
          MaxRuns,     \* bound on how often the program is started
          MaxOpens,    \* bound on how often the user opens the editor
          MaxEntries,  \* bound on the number of entries
          MaxWrites    \* bound on how often the editor saves

Entries == [key : Keys, opts : Opts]

ASSUME EntriesAssumption == Default \in Seq(Entries)
ASSUME BoundsAssumption  == {MaxRuns, MaxOpens, MaxEntries, MaxWrites} \subseteq Nat

Contents == [switch : {"yes", "no", "unset"}, db : Seq(Entries)]
Settings == [switch : {"yes", "no"}, db : Seq(Entries)]

Truncated == [switch |-> "unset", db |-> <<>>]
BuiltIn   == [switch |-> "no", db |-> Default]

VARIABLES
  settings,  \* program_settings
  file,      \* the configuration file
  watching,  \* the file is in fsw.files()
  events,    \* queued calls of FSWatch() with the file's name
  opens,     \* how often the editor was opened
  editor,    \* "none", "open", or "writing" between truncating and writing
  buffer,    \* the entries the editor shows
  writes,    \* how often it saved
  session,   \* how the file was when the editor was last opened in this run:
             \* "stale" if a change of it was watched for or still to be read,
             \* "fresh" if not, "none" if there was no opening (a history variable)
  saves,     \* the entries the editor has saved, each time, since it was opened
             \* last (a history variable)
  runs,      \* how often the program was started
  running,   \* it runs
  clean,     \* nothing failed so far, and the editor has always written the file
             \* at once (a history variable)
  promised   \* the entries of which the user was told that they were saved
             \* (a history variable)

vars == <<settings, file, watching, events, opens, editor, buffer, writes, session, saves, runs,
          running, clean, promised>>
desk == <<opens, editor, buffer, writes, session, saves>>
-----------------------------------------------------------------------------
(* program_settings.                                                       *)

\* Used to test the properties: without the default for what the file leaves out.
LoadedAsIs(c, s) == c

\* load_settings(istream): clear() empties the entries, but not the switches,
\* which keep their value if the file does not set them.
Loaded(c, s) == [db |-> c.db, switch |-> IF c.switch = "unset" THEN s.switch ELSE c.switch]

\* Whether something failed is nobody's choice; it is only remembered.
Fails == clean' = FALSE
Works == UNCHANGED clean

\* load_settings(path): the built-in configuration is loaded when stat() does
\* not find the file or the privileges cannot be dropped, nothing when the file
\* cannot be opened.
Load(c, s) == \/ settings' = Loaded(c, s) /\ Works
              \/ settings' \in {Loaded(BuiltIn, s), s} /\ Fails

\* save_settings(): the file is truncated and written, and nobody asks whether
\* writing succeeded.  It stays as it is if the privileges cannot be dropped or
\* it cannot be opened.
Save == \/ file' = settings /\ Works
        \/ file' = Truncated /\ Fails
NotSaved == file' = file /\ Fails

-----------------------------------------------------------------------------
(* The program.                                                            *)

\* The constructor of MainWindow.
Start == /\ ~running /\ runs < MaxRuns
         /\ running' = TRUE /\ runs' = runs + 1 /\ session' = "none"
         /\ Load(file, [BuiltIn EXCEPT !.db = <<>>])
         /\ UNCHANGED <<file, watching, events, opens, editor, buffer, writes, saves, promised>>

\* OnActionSave_by_FS(), ..._by_Label() and ..._by_UUID() append an entry and
\* log that the options have been saved.
SaveOptions == /\ running /\ Len(settings.db) < MaxEntries
               /\ \E e \in Entries : /\ settings' = [settings EXCEPT !.db = Append(@, e)]
                                     /\ promised' = promised \cup {e}
               /\ UNCHANGED <<file, watching, events, desk, runs, running, clean>>

\* OnUseSystemdChanged().
Switch == /\ running
          /\ settings' = [settings EXCEPT !.switch = IF @ = "yes" THEN "no" ELSE "yes"]
          /\ UNCHANGED <<file, watching, events, desk, runs, running, clean, promised>>

\* The watch reports every change of the file, the program's own included.
Notify == events' = IF watching THEN events + 1 ELSE events

\* The program waits for a change of the file, or has not read one yet.
Pending == watching \/ events > 0

\* OnActionEditPreferences(): the settings are saved, the editor is started, and
\* from then on the file is watched.  An editor that shows the file already may
\* go on showing what it has read.
EditPreferences ==
  /\ running /\ opens < MaxOpens /\ editor # "writing"
  /\ opens' = opens + 1
  /\ \/ /\ Save
        /\ buffer' \in {file'.db} \cup (IF editor = "open" THEN {buffer} ELSE {})
        /\ editor' = "open" /\ watching' = TRUE
        /\ session' = (IF Pending THEN "stale" ELSE "fresh")
        /\ saves' = {}
     \/ /\ NotSaved \/ Save   \* it is not saved, or the editor is not started
        /\ session' = (IF Pending THEN "stale" ELSE session)
        /\ UNCHANGED <<editor, buffer, watching, saves>>
  /\ Notify \/ (file' = file /\ UNCHANGED events)
  /\ UNCHANGED <<settings, writes, runs, running, promised>>

\* Used to test the properties: the file is not loaded.
FSWatchForgets == /\ running /\ events > 0
                  /\ watching' = FALSE
                  /\ events' = events - 1
                  /\ UNCHANGED <<settings, file, desk, runs, running, clean, promised>>

\* FSWatch() loads the file, whatever it holds at this moment, and watches it no
\* longer; a call that has been queued before still comes.
FSWatch == /\ running /\ events > 0
           /\ Load(file, settings)
           /\ watching' = FALSE
           /\ events' = events - 1
           /\ UNCHANGED <<file, desk, runs, running, promised>>

\* Used to test the properties: closeEvent() without saving.
CloseUnsaved == /\ running
                /\ running' = FALSE /\ watching' = FALSE /\ events' = 0
                /\ UNCHANGED <<settings, file, desk, runs, clean, promised>>

\* closeEvent() saves the settings unless the file is being watched.
CloseWindow == /\ running
               /\ IF watching THEN file' = file /\ Works ELSE Save \/ NotSaved
               /\ running' = FALSE /\ watching' = FALSE /\ events' = 0
               /\ UNCHANGED <<settings, desk, runs, promised>>
-----------------------------------------------------------------------------
(* The editor, which may outlive the program.                              *)

\* The user adds an entry, or removes one, which he then does not miss.
Edit == /\ editor = "open" /\ writes < MaxWrites
        /\ \/ \E e \in Entries : Len(buffer) < MaxEntries /\ buffer' = Append(buffer, e)
                                 /\ UNCHANGED promised
           \/ \E i \in DOMAIN buffer : /\ buffer' = RemoveAt(buffer, i)
                                       /\ promised' = promised \ {buffer[i]}
        /\ UNCHANGED <<settings, opens, file, watching, events, editor, writes, session, saves, runs,
                       running, clean>>

Truncate == /\ editor = "open" /\ writes < MaxWrites
            /\ file' = Truncated /\ editor' = "writing" /\ clean' = FALSE
            /\ Notify
            /\ UNCHANGED <<settings, opens, watching, buffer, writes, session, saves, runs, running,
                           promised>>

WriteOut == /\ editor \in {"open", "writing"}
            /\ writes < MaxWrites /\ writes' = writes + 1
            /\ file' = [switch |-> "no", db |-> buffer] /\ editor' = "open"
            /\ saves' = saves \cup {buffer}
            /\ Notify
            /\ UNCHANGED <<settings, opens, watching, buffer, session, runs, running, clean, promised>>

Quit == /\ editor = "open"
        /\ editor' = "none"
        /\ UNCHANGED <<settings, opens, file, watching, events, buffer, writes, session, saves, runs,
                       running, clean, promised>>
-----------------------------------------------------------------------------
Init == /\ settings = BuiltIn /\ file = BuiltIn
        /\ watching = FALSE /\ events = 0
        /\ opens = 0 /\ editor = "none" /\ buffer = <<>> /\ writes = 0
        /\ session = "none" /\ saves = {}
        /\ runs = 0 /\ running = FALSE
        /\ clean = TRUE /\ promised = {}

Next == \/ Start \/ SaveOptions \/ Switch \/ EditPreferences \/ FSWatch \/ CloseWindow
        \/ Edit \/ Truncate \/ WriteOut \/ Quit

Spec == Init /\ [][Next]_vars
-----------------------------------------------------------------------------
(* Properties.                                                             *)

\* The settings always have a value for every switch, also when a truncated file
\* was read.
TypeOK == /\ settings \in Settings /\ file \in Contents
          /\ {watching, running, clean} \subseteq BOOLEAN
          /\ events \in 0 .. 2 * MaxWrites + MaxOpens /\ opens \in 0 .. MaxOpens
          /\ editor \in {"none", "open", "writing"} /\ buffer \in Seq(Entries)
          /\ writes \in 0 .. MaxWrites /\ session \in {"none", "fresh", "stale"}
          /\ saves \subseteq Seq(Entries) /\ runs \in 0 .. MaxRuns
          /\ promised \subseteq Entries

\* When the window is closed in the run that opened the editor, the file has all
\* the editor saved at one of its saves since then, if it writes the file at once:
\* the first is never lost, whenever the event of the watch comes and whatever the
\* program saves, in any run and at any opening that found the file fresh.  Later
\* saves are lost when the event comes before them, and so is what was saved
\* around an opening that finds the file stale: it saves the settings over the file
\* (mainwindow.cpp:466) although a change in it may still be to be read, and the
\* event of its own saving may end the watch (345) before the editor saves.
EditorsWorkKept ==
  ~running /\ clean /\ session = "fresh" /\ saves # {} =>
    \E s \in saves : \A e \in ToSet(s) : Contains(file.db, e)

\* Options that were saved are in the file when the program has ended, after
\* any number of runs, as long as no editor was opened on it.
PromisesKept == ~running /\ clean /\ opens = 0 => \A e \in promised : Contains(file.db, e)
=============================================================================
