--------------------------- MODULE ScriptSession ---------------------------
(***************************************************************************)
(* A script's life and what it leaves behind: loading, frames, unloading   *)
(* (sni-lua-api/lib.rs), the store and its file (runtime.rs), the declared *)
(* settings (controls.rs), and the application that calls them in its      *)
(* update, on a click and at exit (sni-lua-app/main.rs), with crashes.     *)
(*                                                                         *)
(* All of it runs on the UI thread; at says where that thread is.  A       *)
(* document is the version of the script's own keys, which stands for all  *)
(* of them, and under the reserved key the map of its controls' values.    *)
(***************************************************************************)
EXTENDS Integers, Sequences

CONSTANTS
  Scripts,        \* script files; each has a store file of its own
  Controls,       \* ids of controls
  None,
  Behaviours,     \* each is what may happen in a behaviour: a set of Liberties
  WritesElsewhere, \* on_unload may write when another script is being loaded
  MayCrash,       \* the process may be killed
  MaxChanges,     \* bound: changes of the store and of settings
  MaxItems,       \* bound: controls declared in one VM
  MaxLoads        \* bound: loads

\* What need not happen in a behaviour: scripts call ui.set, or replace their
\* document with store.save, or declare two controls of one id; on_frame ends
\* in an error; writing or renaming a store file fails.
Liberties == {"ui_set", "store_save", "same_id", "frame_error", "write_error"}

\* A version says who wrote it; 0 is a control's default.
Versions == [by : Scripts, n : 1..MaxChanges]
Values == 0..MaxChanges

ASSUME SessionAssumption ==
  /\ None \notin Scripts \cup Versions \cup Values
  /\ Behaviours \subseteq SUBSET Liberties
  /\ {WritesElsewhere, MayCrash} \subseteq BOOLEAN
  /\ MaxChanges \in Nat /\ MaxItems \in Nat /\ MaxLoads \in Nat

VARIABLES
  may,            \* what may happen in this behaviour
  \* Store
  data, path, dirty,
  \* ScriptHost
  script,         \* whose Lua VM it is
  loaded,
  items,          \* the declared controls, in order
  \* App
  at, exiting,
  \* on disk
  disk,           \* the store file of each script
  tmp,            \* the temporary file of a write
  last_script,    \* the configuration's last_script
  \* what the properties look back on
  stored,         \* what each script last stored
  shown,          \* what the controls of each script showed, in the last update
                  \* that had them, or were last set to in the panel
  dropped,        \* those whose value a persist_controls left out since then
  opened,         \* the script that got its on_init and not its on_unload
  changes, loads

storeVars == <<data, path, dirty>>
hostVars == <<script, loaded, items>>
diskVars == <<disk, tmp, last_script>>
settings == <<shown, dropped>>
history == <<stored, settings, opened, changes, loads>>
vars == <<may, storeVars, hostVars, at, exiting, diskVars, history>>

ControlValues == [Controls -> Values \cup {None}]      \* None: no such entry
NoValues == [c \in Controls |-> None]
Document == [own : Versions \cup {None}, ui : ControlValues]
Empty == [own |-> None, ui |-> NoValues]

Control == [id : Controls, value : Values]

Init ==
  /\ may \in Behaviours
  /\ data = Empty /\ path = None /\ dirty = FALSE
  /\ script = None /\ loaded = FALSE /\ items = << >>
  /\ at = "update" /\ exiting = FALSE
  /\ disk = [s \in Scripts |-> Empty] /\ tmp = Empty /\ last_script = None
  /\ stored = [s \in Scripts |-> None]
  /\ shown = [s \in Scripts |-> NoValues] /\ dropped = [s \in Scripts |-> {}]
  /\ opened = None /\ changes = 0 /\ loads = 0

-----------------------------------------------------------------------------
(* The controls.                                                           *)

Declared(list) == {list[i].id : i \in DOMAIN list}

\* The map persist_controls makes: of two controls of one id the later counts.
ValuesOf(list) ==
  [c \in Controls |->
     IF c \in Declared(list)
     THEN LET last == CHOOSE i \in DOMAIN list :
                        /\ list[i].id = c
                        /\ \A j \in DOMAIN list : list[j].id = c => j <= i
          IN  list[last].value
     ELSE None]

\* What a control shows whose saved value is this.
OrDefault(value) == IF value = None THEN 0 ELSE value

\* persist_controls: the map of the controls declared so far replaces the one
\* in the document, whatever that holds of others; without any it is left.
Persist(list) ==
  IF list = << >> THEN UNCHANGED <<data, dirty, dropped>>
  ELSE /\ data' = [data EXCEPT !.ui = ValuesOf(list)]
       /\ dirty' = TRUE
       /\ dropped' = [dropped EXCEPT ![script] =
                        @ \cup {c \in Controls \ Declared(list) : data.ui[c] # None}]

-----------------------------------------------------------------------------
(* What Lua may call: in the chunk and on_init, in on_frame, in on_unload. *)

luaUnchanged == UNCHANGED <<path, script, loaded, at, exiting, diskVars, settings, opened, loads>>

InLua == at \in {"load", "on_frame", "unload"}

\* While on_unload runs the store may be bound to another script already.
MayStore == InLua /\ (script = path \/ WritesElsewhere)

Change == changes < MaxChanges /\ changes' = changes + 1

Own == [by |-> script, n |-> changes']

\* store.set or store.delete of a key of the script's own.
StoreSet ==
  /\ MayStore
  /\ Change
  /\ data' = [data EXCEPT !.own = Own]
  /\ dirty' = TRUE
  /\ stored' = [stored EXCEPT ![script] = Own]
  /\ UNCHANGED items
  /\ luaUnchanged

\* store.save: the whole document is replaced, and with it the reserved key,
\* unless the script had it from store.load.
StoreSave ==
  /\ "store_save" \in may /\ MayStore
  /\ Change
  /\ \E ui \in {NoValues, data.ui} : data' = [own |-> Own, ui |-> ui]
  /\ dirty' = TRUE
  /\ stored' = [stored EXCEPT ![script] = Own]
  /\ UNCHANGED items
  /\ luaUnchanged

\* ui.checkbox and its like: one more control, whose value is the one saved
\* under its id, else the default.
Declare(c) ==
  /\ at \in {"load", "on_frame"} /\ Len(items) < MaxItems
  /\ "same_id" \in may \/ c \notin Declared(items)
  /\ items' = Append(items, [id |-> c, value |-> OrDefault(data.ui[c])])
  /\ UNCHANGED <<data, dirty, stored, changes>>
  /\ luaUnchanged

\* ui.set changes the first control of the id, and nothing else.
UiSet(i) ==
  /\ "ui_set" \in may /\ InLua
  /\ \A j \in 1..(i - 1) : items[j].id # items[i].id
  /\ Change
  /\ items' = [items EXCEPT ![i].value = changes']
  /\ UNCHANGED <<data, dirty, stored>>
  /\ luaUnchanged

-----------------------------------------------------------------------------
(* A frame: the script, then the flush.                                    *)

BeginFrame ==
  /\ at = "update"
  /\ at' = IF loaded THEN "on_frame" ELSE "flush"
  /\ UNCHANGED <<storeVars, hostVars, exiting, diskVars, history>>

\* An error in on_frame marks the script unloaded.
FrameReturns ==
  /\ at = "on_frame"
  /\ loaded' \in IF "frame_error" \in may THEN BOOLEAN ELSE {TRUE}
  /\ at' = "flush"
  /\ UNCHANGED <<storeVars, script, items, exiting, diskVars, history>>

AfterFlush == IF exiting THEN "exited" ELSE "panel"

FlushClean ==
  /\ at = "flush" /\ ~dirty
  /\ at' = AfterFlush
  /\ UNCHANGED <<storeVars, hostVars, exiting, diskVars, history>>

\* Mutant of FlushWrite: the file itself is written, and found torn after a
\* crash, which bind reads as empty.
FlushWriteInPlace ==
  /\ at = "flush" /\ dirty
  /\ tmp' = data /\ disk' = [disk EXCEPT ![path] = Empty]
  /\ dirty' = FALSE
  /\ at' = "rename"
  /\ UNCHANGED <<data, path, hostVars, exiting, last_script, history>>

\* atomic_write, first half: the temporary file.
FlushWrite ==
  /\ at = "flush" /\ dirty
  /\ tmp' = data
  /\ dirty' = FALSE
  /\ at' = "rename"
  /\ UNCHANGED <<data, path, hostVars, exiting, disk, last_script, history>>

\* Second half: it takes the place of the store file.
FlushRename ==
  /\ at = "rename"
  /\ disk' = [disk EXCEPT ![path] = tmp]
  /\ at' = AfterFlush
  /\ UNCHANGED <<storeVars, hostVars, exiting, tmp, last_script, history>>

\* Either half fails: a warning is logged, and the document stays clean.
FlushFails ==
  /\ "write_error" \in may
  /\ (at = "flush" /\ dirty) \/ at = "rename"
  /\ dirty' = FALSE
  /\ at' = AfterFlush
  /\ UNCHANGED <<data, path, hostVars, exiting, diskVars, history>>

-----------------------------------------------------------------------------
(* The panel.                                                              *)

\* The user changes a control, ...
SetInPanel(i) ==
  /\ at \in {"panel", "controls"}
  /\ at' = "controls"
  /\ Change
  /\ items' = [items EXCEPT ![i].value = changes']
  /\ shown' = [shown EXCEPT ![script][items[i].id] = changes']
  /\ UNCHANGED <<path, script, loaded, exiting, diskVars, stored, opened, loads>>

\* Mutant of Edit: the edit is not mirrored into the store.
EditKeepsStore(i) ==
  /\ SetInPanel(i)
  /\ UNCHANGED <<data, dirty, dropped>>

\* ... and persist_controls mirrors the panel.  The controls come after the
\* buttons that load a script.
Edit(i) ==
  /\ SetInPanel(i)
  /\ Persist(items')

\* The update is over, and has shown what is declared.
EndUpdate ==
  /\ at \in {"panel", "controls"}
  /\ at' = "update"
  /\ IF items = << >> THEN UNCHANGED settings
     ELSE /\ shown' = [shown EXCEPT ![script] =
                         [c \in Controls |-> IF c \in Declared(items)
                                             THEN ValuesOf(items)[c] ELSE @[c]]]
          /\ dropped' = [dropped EXCEPT ![script] = @ \ Declared(items)]
  /\ UNCHANGED <<storeVars, hostVars, exiting, diskVars, stored, opened, changes, loads>>

-----------------------------------------------------------------------------
(* Loading a script, from the panel or at startup.                         *)

\* Mutant of Bind: without a file the document stays what it was.
BindKeepsData(s) ==
  /\ path' = s
  /\ data' = IF disk[s] = Empty THEN data ELSE disk[s]
  /\ dirty' = FALSE

Bind(s) ==
  /\ path' = s
  /\ data' = disk[s]
  /\ dirty' = FALSE

\* The old VM and its controls go; the new chunk runs.
EnterVm(s) ==
  /\ script' = s
  /\ items' = << >>
  /\ loaded' = FALSE
  /\ at' = "load"

\* Mutant of LoadScript: the old script goes without its on_unload.
LoadScriptSkipsUnload(s) ==
  /\ at = "panel" /\ loads < MaxLoads
  /\ loads' = loads + 1
  /\ Bind(s)
  /\ EnterVm(s)
  /\ UNCHANGED <<exiting, diskVars, stored, settings, opened, changes>>

\* load_script_from_path: the store is bound first, then load_script calls
\* the old script's on_unload.
LoadScript(s) ==
  /\ at = "panel" /\ loads < MaxLoads
  /\ loads' = loads + 1
  /\ Bind(s)
  /\ IF loaded
     THEN at' = "unload" /\ UNCHANGED hostVars
     ELSE EnterVm(s)
  /\ UNCHANGED <<exiting, diskVars, stored, settings, opened, changes>>

\* Mutant of UnloadReturns: at exit nothing is flushed after on_unload.
UnloadReturnsUnflushed ==
  /\ at = "unload"
  /\ opened' = None
  /\ IF exiting
     THEN loaded' = FALSE /\ at' = "exited" /\ UNCHANGED <<script, items>>
     ELSE EnterVm(path)
  /\ UNCHANGED <<storeVars, exiting, diskVars, stored, settings, changes, loads>>

\* on_unload is over.
UnloadReturns ==
  /\ at = "unload"
  /\ opened' = None
  /\ IF exiting
     THEN loaded' = FALSE /\ at' = "flush" /\ UNCHANGED <<script, items>>
     ELSE EnterVm(path)
  /\ UNCHANGED <<storeVars, exiting, diskVars, stored, settings, changes, loads>>

\* on_init returned: what is declared by then is persisted, the path remembered.
LoadSucceeds ==
  /\ at = "load"
  /\ loaded' = TRUE /\ opened' = script
  /\ Persist(items)
  /\ last_script' = script
  /\ at' = "controls"
  /\ UNCHANGED <<path, script, items, exiting, disk, tmp, stored, shown, changes, loads>>

\* The chunk or on_init failed.
LoadFails ==
  /\ at = "load"
  /\ at' = "controls"
  /\ UNCHANGED <<storeVars, hostVars, exiting, diskVars, history>>

-----------------------------------------------------------------------------
(* The end of the process, and the next one.                               *)

\* Mutant of Exit: on_unload is called whether a script is loaded or not.
ExitAlwaysUnloads ==
  /\ at = "update"
  /\ exiting' = TRUE
  /\ at' = "unload"
  /\ UNCHANGED <<storeVars, hostVars, diskVars, history>>

\* on_exit: the script is unloaded, then the store is flushed.
Exit ==
  /\ at = "update"
  /\ exiting' = TRUE
  /\ at' = IF loaded THEN "unload" ELSE "flush"
  /\ UNCHANGED <<storeVars, hostVars, diskVars, history>>

\* A new or dead process has nothing in memory.
NoMemory ==
  /\ data' = Empty /\ path' = None /\ dirty' = FALSE
  /\ script' = None /\ items' = << >> /\ loaded' = FALSE

\* A killed process keeps what was flushed, and no more is asked of it.
Crash ==
  /\ MayCrash /\ at \notin {"exited", "down"}
  /\ at' = "down"
  /\ NoMemory
  /\ stored' = [s \in Scripts |-> disk[s].own]
  /\ shown' = [s \in Scripts |-> disk[s].ui] /\ dropped' = [s \in Scripts |-> {}]
  /\ opened' = None
  /\ UNCHANGED <<exiting, diskVars, changes, loads>>

\* A new process loads the last script, if there is one and its file can be
\* read.  (Its window comes a flush later than here; an edit before that flush
\* is in it all the same.)
Start ==
  /\ at \in {"exited", "down"} /\ loads < MaxLoads
  /\ loads' = loads + 1
  /\ exiting' = FALSE
  /\ \/ NoMemory /\ at' = "update"
     \/ last_script # None /\ Bind(last_script) /\ EnterVm(last_script)
  /\ UNCHANGED <<diskVars, stored, settings, opened, changes>>

-----------------------------------------------------------------------------
Lua ==
  \/ StoreSet \/ StoreSave
  \/ \E c \in Controls : Declare(c)
  \/ \E i \in DOMAIN items : UiSet(i)

Flush == FlushClean \/ FlushWrite \/ FlushRename \/ FlushFails

App ==
  \/ BeginFrame \/ FrameReturns \/ Flush
  \/ \E i \in DOMAIN items : Edit(i)
  \/ EndUpdate
  \/ \E s \in Scripts : LoadScript(s)
  \/ UnloadReturns \/ LoadSucceeds \/ LoadFails
  \/ Exit \/ Crash \/ Start

Next == (Lua \/ App) /\ UNCHANGED may

Spec == Init /\ [][Next]_vars

-----------------------------------------------------------------------------
(* What scripts may count on.                                              *)

TypeOK ==
  /\ may \in Behaviours
  /\ data \in Document /\ path \in Scripts \cup {None} /\ dirty \in BOOLEAN
  /\ script \in Scripts \cup {None} /\ loaded \in BOOLEAN
  /\ items \in Seq(Control)
  /\ at \in {"update", "on_frame", "flush", "rename", "panel", "controls", "unload", "load",
            "exited", "down"}
  /\ exiting \in BOOLEAN
  /\ disk \in [Scripts -> Document] /\ tmp \in Document /\ last_script \in Scripts \cup {None}
  /\ stored \in [Scripts -> Versions \cup {None}]
  /\ shown \in [Scripts -> ControlValues] /\ dropped \in [Scripts -> SUBSET Controls]
  /\ opened \in Scripts \cup {None}
  /\ changes \in 0..MaxChanges /\ loads \in 0..MaxLoads
  /\ loaded \/ dirty \/ items # << >> \/ at \in {"load", "on_frame", "unload", "rename"}
       => path # None
  /\ loaded \/ items # << >> \/ at \in {"load", "on_frame", "unload"} => script # None
  /\ at \in {"on_frame", "unload"} => loaded

\* "Two scripts never collide": a store file holds its own script's data.
OwnDocument ==
  \A s \in Scripts : disk[s].own # None => disk[s].own.by = s

\* A document that needs no flush is the one in its file.
CleanMeansSaved ==
  ~dirty /\ path # None /\ at # "rename" => disk[path] = data

\* What is in a store file is never lost or replaced by something older, by
\* crashes in mid-write and the loads after them included.
SavedIsKept ==
  [][\A s \in Scripts :
       disk[s].own # None => disk'[s].own # None /\ disk'[s].own.n >= disk[s].own.n]_vars

\* "Auto-saved by the app, and on exit": once the process has ended, every
\* script's file holds what the script stored last, as long as writes do not
\* fail.
StoredIsSaved ==
  "write_error" \notin may /\ at = "exited" => \A s \in Scripts : disk[s].own = stored[s]

\* "Every control value auto-persists and restores on reload": a control shows
\* what it showed before, or its default if it never did.
ControlsRestored ==
  \A i \in DOMAIN items : items[i].value = OrDefault(shown[script][items[i].id])

\* What keeps that from being promised, whatever the application does: scripts
\* that change a control, or replace the saved values, behind the panel; two
\* controls with one id; a document that could not be written.
Unsettling == {"ui_set", "store_save", "same_id", "write_error"}

\* And it holds through reloads, failed loads, other scripts, exits, crashes
\* and restarts, for controls declared at any time, unless the panel was
\* persisted when the control was not declared: that drops its saved value.
SettingsRestored ==
  may \cap Unsettling = {} =>
    \A i \in DOMAIN items :
      items[i].id \in dropped[script] \/ items[i].value = OrDefault(shown[script][items[i].id])

\* "Before a reload, and at app exit": no script that was initialised is
\* replaced or left behind without its on_unload, unless its on_frame failed.
UnloadRuns == "frame_error" \notin may /\ at \in {"load", "exited"} => opened = None

\* The store is what a script may rely on in DurableStore: the document in
\* memory is the bound script's, those of the others are in their files.
Found == [s \in Scripts |-> IF s = path THEN data ELSE disk[s]]

Store == INSTANCE DurableStore WITH
  Documents <- Document, reliable <- "write_error" \notin may, running <- script,
  document <- Found, saved <- disk

\* Binding, flushing in two steps, reloads, exits and crashes, in whatever
\* order, neither lose, mix nor tear what scripts store.
ImplementsStore == Store!Spec

-----------------------------------------------------------------------------
(* The inductive invariants behind these.                                  *)

\* The store is bound to the running script, except while the script before it
\* is being unloaded.
StoreOfScript == at # "unload" \/ exiting => script = path

\* Nothing is loaded once the process is on its way out.
ExitsLast == exiting => at \in {"unload", "flush", "rename", "exited", "down"}

\* A write that is under way is of the current document, and a document is
\* flushed before another can be bound.
FlushedFirst ==
  /\ at = "rename" => tmp = data
  /\ at \in {"rename", "panel", "exited", "down"} => ~dirty
  /\ at = "down" => path = None

\* The document in memory is not older than its file, nor newer than the last
\* change.
MemoryIsNewer ==
  /\ \A s \in Scripts : disk[s].own # None => disk[s].own.n <= changes
  /\ data.own # None => data.own.n <= changes
  /\ path # None /\ disk[path].own # None => /\ data.own # None
                                            /\ data.own.n >= disk[path].own.n

SessionInv == StoreOfScript /\ ExitsLast /\ FlushedFirst /\ MemoryIsNewer

\* What is written next is the bound script's own.
OwnInv == OwnDocument /\ (data.own # None => data.own.by = path)

\* What a script stored last is in its document: in memory for the one that
\* is bound, on disk for the others.
StoredInv ==
  /\ \A s \in Scripts : s # path => disk[s].own = stored[s]
  /\ path # None => data.own = stored[path]

\* What a control showed last is what its declaration finds, or has found.
ShownInv ==
  /\ \A i, j \in DOMAIN items : items[i].id = items[j].id => i = j
  /\ \A i \in DOMAIN items : items[i].value = OrDefault(Found[script].ui[items[i].id])
  /\ \A s \in Scripts : \A c \in Controls \ dropped[s] :
       OrDefault(shown[s][c]) = OrDefault(Found[s].ui[c])

\* What is opened is loaded, and nothing is loaded where a script is replaced
\* or the process ends.
OpenedIsLoaded ==
  /\ opened # None => loaded
  /\ at \in {"load", "exited", "down"} => ~loaded
  /\ exiting /\ at # "unload" => ~loaded
=============================================================================
