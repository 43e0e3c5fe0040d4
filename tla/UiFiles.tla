------------------------------ MODULE UiFiles ------------------------------
(***************************************************************************)
(* The files page of the web UI (ui/src/routes/files/+page.svelte) with    *)
(* its store, table, menus, dialogs, text editor and uploader.  Every      *)
(* request is served and answered later: listings overtake one another, a  *)
(* save is answered after more was typed, an answer closes a dialog opened *)
(* since.  Folders are places one can go to, not rows; the order of the    *)
(* rows, the text preview and the wording are left out.                    *)
(***************************************************************************)
EXTENDS Naturals, FiniteSets

CONSTANTS
    Dirs, Names,
    Held,          \* the files there are at first
    Start,         \* the store's first currentPath
    Previewed,     \* names that open in the preview pane, not in the editor
    Texts,         \* contents of files
    Empty,         \* the empty text
    Uploaded,      \* the text of an uploaded file
    Absent,        \* no file
    NoPath,        \* null
    Chunks,        \* chunks of an uploaded file
    MaxInFlight,   \* bound: requests in flight when the user acts
    MaxActs        \* bound: user actions, but for closing and cancelling

Paths == Dirs \X Names
MaybePath == Paths \cup {NoPath}

ASSUME ConstantsOK ==
    /\ Held \subseteq Paths
    /\ Start \in Dirs /\ Previewed \subseteq Names /\ {Empty, Uploaded} \subseteq Texts
    /\ Absent \notin Texts /\ NoPath \notin Paths /\ Chunks \in Nat \ {0} /\ {MaxActs, MaxInFlight} \subseteq Nat

VARIABLES
    disk,                               \* server: the files and their texts
    jobs,                               \* requests in flight
    cur, files, loading, selected,      \* the files store
    clip,                               \* clipboardPaths and clipboardOp
    dialog, pending,                    \* the dialog on screen, pendingDeletePaths
    ctxItem,                            \* ctxItem, while the menu or its rename dialog is open
    editing, ed,                        \* editingPath and the editor's state
    uploading,
    acts                                \* user actions, for the bound

store == <<cur, files, loading, selected>>
popups == <<dialog, pending, ctxItem>>
editor == <<editing, ed>>
vars == <<disk, jobs, store, clip, popups, editor, uploading, acts>>

(* safe, late: history.  The texts the server has had from or given to this *)
(* editor, and whether it was typed in or saved while a save was in flight. *)
NoEd == [id |-> 0, phase |-> "none", doc |-> Empty, saved |-> Empty, dirty |-> FALSE, saving |-> FALSE,
         isNew |-> FALSE, safe |-> {}, late |-> FALSE]

(* A request: the number of what it goes back to, what it asks, where, about   *)
(* which path, its new path or other paths, with what text, as which chunk  *)
(* or for which editor; list is what a listing answered.                    *)
Job(n, kind, dir, path) ==
    [n |-> n, kind |-> kind, dir |-> dir, path |-> path, to |-> NoPath, paths |-> {}, text |-> Empty,
     who |-> 0, state |-> "sent", list |-> {}]

Fresh == CHOOSE n \in 1..(2 * MaxActs + 2) : /\ \A j \in jobs : n \notin {j.n, j.who}
                                             /\ n # ed.id
                                             /\ \A m \in 1..(n - 1) : m = ed.id \/ \E j \in jobs : m \in {j.n, j.who}

Ask(j) == jobs' = jobs \cup {j}

Init ==
    /\ disk = [p \in Paths |-> IF p \in Held THEN Empty ELSE Absent]
    /\ jobs = {Job(0, "home", Start, NoPath)}
    /\ cur = Start /\ files = {} /\ loading = FALSE /\ selected = {}
    /\ clip = [op |-> "none", paths |-> {}]
    /\ dialog = "none" /\ pending = {} /\ ctxItem = NoPath
    /\ editing = NoPath /\ ed = NoEd
    /\ uploading = FALSE /\ acts = 0

----------------------------------------------------------------------------
(* The server, as the page sees it.                                         *)

In(d) == {p \in Paths : p[1] = d /\ disk[p] # Absent}

(* The requests the server turns down.                                      *)
Refused(j) ==
    \/ j.kind \in {"create", "post"} /\ disk[j.path] # Absent
    \/ j.kind \in {"put", "read", "rename"} /\ disk[j.path] = Absent
    \/ j.kind \in {"delete", "move", "copy"} /\ j.paths = {}
    \/ j.kind \in {"move", "copy"} /\ \E p \in j.paths : p[1] = j.dir

(* What stands at p after a paste; the queue the server puts it in is left  *)
(* out.                                                                     *)
Pasted(j, p) ==
    LET from == {s \in j.paths : s[2] = p[2] /\ disk[s] # Absent} IN
    IF p[1] = j.dir /\ from # {} THEN disk[CHOOSE s \in from : TRUE]
    ELSE IF j.kind = "move" /\ p \in j.paths THEN Absent ELSE disk[p]

(* What a request that is not refused changes.  A rename onto a file is     *)
(* answered well and changes nothing; the last chunk completes the file if  *)
(* the server has all the others in that directory.                         *)
Effect(j) ==
    CASE j.kind = "delete" -> disk' = [p \in Paths |-> IF p \in j.paths THEN Absent ELSE disk[p]]
      [] j.kind = "rename" ->
            disk' = IF disk[j.to] # Absent THEN disk ELSE [disk EXCEPT ![j.to] = disk[j.path], ![j.path] = Absent]
      [] j.kind \in {"create", "put", "post"} -> disk' = [disk EXCEPT ![j.path] = j.text]
      [] j.kind \in {"move", "copy"} -> disk' = [p \in Paths |-> Pasted(j, p)]
      [] j.kind = "chunk" /\ j.who = Chunks -> disk' \in {disk, [disk EXCEPT ![j.path] = Uploaded]}
      [] OTHER -> UNCHANGED disk

(* A listing, a read or a save is done and answered, done and the answer    *)
(* lost, or not done; its answer arrives later.  A missing file is told     *)
(* from a failed read.                                                      *)
Later == {"list", "read", "put", "post"}

Serve(j, done, ok) ==
    /\ j.kind \in Later /\ j.state = "sent" /\ (ok => done) /\ (done => ~Refused(j))
    /\ IF done THEN Effect(j) ELSE UNCHANGED disk
    /\ jobs' = (jobs \ {j}) \cup
                  {[j EXCEPT !.state = IF ok THEN "ok" ELSE IF j.kind = "read" /\ Refused(j) THEN "missing" ELSE "bad",
                             !.list = IF ok /\ j.kind = "list" THEN In(j.dir) ELSE {},
                             !.text = IF ok /\ j.kind = "read" THEN disk[j.path] ELSE @]}
    /\ ed' = IF done /\ j.kind \in {"put", "post"} /\ j.who = ed.id
             THEN [ed EXCEPT !.safe = @ \cup {j.text}] ELSE ed
    /\ UNCHANGED <<store, clip, popups, editing, uploading, acts>>

(* The other requests: their effect and their answer are one step.          *)
Done(j, done, ok) ==
    /\ (ok => done) /\ (done => ~Refused(j))
    /\ IF done THEN Effect(j) ELSE UNCHANGED disk

----------------------------------------------------------------------------
(* files.svelte.ts                                                          *)

\* Mutant: the path changes before its listing arrives.
FetchFilesAhead(n, d, then, rest) ==
    /\ loading' = TRUE /\ selected' = {} /\ cur' = d
    /\ jobs' = rest \cup {Job(n, "list", d, then)}
    /\ UNCHANGED files

(* fetchFiles up to its await; then: what its caller opens after it.        *)
FetchFiles(n, d, then, rest) ==
    /\ loading' = TRUE /\ selected' = {}
    /\ jobs' = rest \cup {Job(n, "list", d, then)}
    /\ UNCHANGED <<cur, files>>

Listed(j) ==
    /\ IF j.state = "ok" THEN files' = j.list /\ cur' = j.dir ELSE files' = {} /\ UNCHANGED cur
    /\ loading' = FALSE

SelectFile(p, multi) ==
    selected' = IF ~multi THEN {p} ELSE IF p \in selected THEN selected \ {p} ELSE selected \cup {p}

----------------------------------------------------------------------------
(* What the screen offers.                                                  *)

(* No editor, dialog or menu lies over the page.                            *)
Bare == editing = NoPath /\ dialog = "none" /\ ctxItem = NoPath

(* The rows: a listing that is loading shows none.                          *)
Row(p) == Bare /\ ~loading /\ p \in files

PreviewItem ==
    IF Cardinality(selected) = 1 /\ selected \subseteq files THEN CHOOSE p \in selected : TRUE ELSE NoPath

(* The menu's items, with its item's name and the selection.                *)
MenuItems ==
    {"open", "copy", "cut", "delete"} \cup (IF clip.paths # {} THEN {"paste"} ELSE {})
        \cup (IF Cardinality(selected) > 1 THEN {} ELSE {"rename"})

Menu(item) == ctxItem # NoPath /\ dialog = "none" /\ editing = NoPath /\ item \in MenuItems

Acts == acts < MaxActs /\ Cardinality(jobs) < MaxInFlight /\ acts' = acts + 1

----------------------------------------------------------------------------
(* Looking around.                                                          *)

(* Breadcrumbs, folder rows and the refresh button.                         *)
HandleNavigate(d) ==
    /\ Bare /\ Acts
    /\ FetchFiles(Fresh, d, NoPath, jobs)
    /\ UNCHANGED <<disk, clip, popups, editor, uploading>>

(* Mod-click and the row's checkbox.                                        *)
PickRow(p) ==
    /\ Row(p) /\ Acts
    /\ SelectFile(p, TRUE)
    /\ UNCHANGED <<disk, jobs, cur, files, loading, clip, popups, editor, uploading>>

(* The header's checkbox, offered while a listing is loading too.           *)
HeaderCheckbox ==
    /\ Bare /\ files # {} /\ Acts
    /\ selected' = IF Cardinality(selected) = Cardinality(files) THEN {} ELSE files
    /\ UNCHANGED <<disk, jobs, cur, files, loading, clip, popups, editor, uploading>>

ClearSelection ==
    /\ Bare /\ PreviewItem # NoPath
    /\ selected' = {}
    /\ UNCHANGED <<disk, jobs, cur, files, loading, clip, popups, editor, uploading, acts>>

HandleContextMenu(p) ==
    /\ Row(p) /\ Acts
    /\ ctxItem' = p
    /\ IF p \in selected THEN UNCHANGED selected ELSE SelectFile(p, FALSE)
    /\ UNCHANGED <<disk, jobs, cur, files, loading, clip, dialog, pending, editor, uploading>>

CloseMenu ==
    /\ ctxItem # NoPath /\ dialog = "none" /\ editing = NoPath
    /\ ctxItem' = NoPath
    /\ UNCHANGED <<disk, jobs, store, clip, dialog, pending, editor, uploading, acts>>

----------------------------------------------------------------------------
(* The text editor.                                                         *)

(* editingPath becomes p.  An editor that is already mounted stays, with    *)
(* its document, and has another path from now on.                          *)
Edit(n, p, rest) ==
    /\ editing' = p
    /\ IF editing # NoPath THEN jobs' = rest /\ UNCHANGED ed
       ELSE /\ ed' = [NoEd EXCEPT !.id = n, !.phase = "loading"]
            /\ jobs' = rest \cup {[Job(n, "read", p[1], p) EXCEPT !.who = n]}

(* handleOpen of a file: the row, Enter, the menu or the preview's button.  *)
HandleOpen(p) ==
    /\ Row(p) \/ (Menu("open") /\ p = ctxItem) \/ (Bare /\ p = PreviewItem)
    /\ Acts
    /\ ctxItem' = NoPath
    /\ IF p[2] \in Previewed
       THEN /\ IF p \in selected THEN UNCHANGED selected ELSE SelectFile(p, FALSE)
            /\ UNCHANGED <<jobs, editor>>
       ELSE Edit(Fresh, p, jobs) /\ UNCHANGED selected
    /\ UNCHANGED <<disk, cur, files, loading, clip, dialog, pending, uploading>>

(* onMount's answer; a file that is missing is opened as a new one.         *)
ReadArrives(j) ==
    /\ j.kind = "read" /\ jobs' = jobs \ {j}
    /\ ed' = IF j.who # ed.id THEN ed
             ELSE IF j.state = "bad" THEN [ed EXCEPT !.phase = "failed"]
             ELSE [ed EXCEPT !.phase = "ready", !.doc = j.text, !.saved = j.text,
                             !.isNew = (j.state = "missing"), !.safe = {j.text}]
    /\ UNCHANGED <<disk, store, clip, popups, editing, uploading, acts>>

Ready == editing # NoPath /\ ed.phase = "ready"

Type(t) ==
    /\ Ready /\ t # ed.doc /\ Acts
    /\ ed' = [ed EXCEPT !.doc = t, !.dirty = (t # ed.saved), !.late = @ \/ ed.saving]
    /\ UNCHANGED <<disk, jobs, store, clip, popups, editing, uploading>>

(* Mod-s saves at any time, the button when there is something to save and  *)
(* nothing is being saved.                                                  *)
HandleSave ==
    /\ Ready /\ Acts
    /\ ed' = [ed EXCEPT !.saving = TRUE, !.late = @ \/ ed.saving]
    /\ Ask([Job(Fresh, IF ed.isNew THEN "post" ELSE "put", editing[1], editing) EXCEPT !.text = ed.doc, !.who = ed.id])
    /\ UNCHANGED <<disk, store, clip, popups, editing, uploading>>

\* Mutant: a refused save counts as a save.
SavedAlways(e, j) ==
    [e EXCEPT !.saving = FALSE, !.isNew = @ /\ j.kind # "post", !.saved = j.text, !.dirty = FALSE]

Saved(e, j) ==
    IF j.state = "ok"
    THEN [e EXCEPT !.saving = FALSE, !.isNew = @ /\ j.kind # "post", !.saved = j.text, !.dirty = FALSE]
    ELSE [e EXCEPT !.saving = FALSE]

SaveArrives(j) ==
    /\ j.kind \in {"put", "post"} /\ jobs' = jobs \ {j}
    /\ ed' = IF j.who = ed.id THEN Saved(ed, j) ELSE ed
    /\ UNCHANGED <<disk, store, clip, popups, editing, uploading, acts>>

\* Mutant: the closed editor is still there when the next one opens.
CloseEditorUnmountedLater ==
    /\ editing # NoPath /\ Acts
    /\ editing' = NoPath /\ UNCHANGED ed
    /\ FetchFiles(Fresh, cur, NoPath, jobs)
    /\ UNCHANGED <<disk, clip, popups, uploading>>

(* handleCloseRequest: with unsaved changes the user is asked, and may stay. *)
CloseEditor ==
    /\ editing # NoPath /\ Acts
    /\ editing' = NoPath /\ ed' = NoEd
    /\ FetchFiles(Fresh, cur, NoPath, jobs)
    /\ UNCHANGED <<disk, clip, popups, uploading>>

----------------------------------------------------------------------------
(* Dialogs and what they send.                                              *)

Dialog(d) == dialog = d /\ editing = NoPath

(* The toolbar's delete button and the menu's item.                         *)
RequestDelete ==
    /\ Bare \/ Menu("delete")
    /\ Acts
    /\ ctxItem' = NoPath
    /\ IF selected = {} THEN UNCHANGED <<dialog, pending>> ELSE pending' = selected /\ dialog' = "delete"
    /\ UNCHANGED <<disk, jobs, store, clip, editor, uploading>>

ExecuteDelete ==
    /\ Dialog("delete") /\ Acts
    /\ dialog' = "none"
    /\ Ask([Job(Fresh, "delete", cur, NoPath) EXCEPT !.paths = pending])
    /\ UNCHANGED <<disk, store, clip, pending, ctxItem, editor, uploading>>

(* After the answer whatever is pending by then is forgotten.               *)
DeleteArrives(j, done, ok) ==
    /\ j.kind = "delete" /\ Done(j, done, ok)
    /\ IF ok THEN pending' = {} /\ FetchFiles(j.n, cur, NoPath, jobs \ {j})
       ELSE jobs' = jobs \ {j} /\ UNCHANGED <<pending, store>>
    /\ UNCHANGED <<clip, dialog, ctxItem, editor, uploading, acts>>

StartRename ==
    /\ Menu("rename") /\ Acts
    /\ dialog' = "rename"
    /\ UNCHANGED <<disk, jobs, store, clip, pending, ctxItem, editor, uploading>>

ConfirmRename(n) ==
    /\ Dialog("rename") /\ Acts
    /\ Ask([Job(Fresh, "rename", cur, ctxItem) EXCEPT !.to = <<ctxItem[1], n>>])
    /\ UNCHANGED <<disk, store, clip, popups, editor, uploading>>

(* The toolbar's new-file and new-folder buttons.                           *)
AskName(kind) ==
    /\ Bare /\ Acts
    /\ dialog' = kind
    /\ UNCHANGED <<disk, jobs, store, clip, pending, ctxItem, editor, uploading>>

HandleNewFolder ==
    /\ Dialog("folder") /\ Acts
    /\ Ask(Job(Fresh, "mkdir", cur, NoPath))
    /\ UNCHANGED <<disk, store, clip, popups, editor, uploading>>

HandleNewFile(n) ==
    /\ Dialog("file") /\ Acts
    /\ Ask(Job(Fresh, "create", cur, <<cur, n>>))
    /\ UNCHANGED <<disk, store, clip, popups, editor, uploading>>

CancelDialog ==
    /\ dialog # "none" /\ editing = NoPath
    /\ dialog' = "none"
    /\ pending' = IF dialog = "delete" THEN {} ELSE pending
    /\ ctxItem' = IF dialog = "rename" THEN NoPath ELSE ctxItem
    /\ UNCHANGED <<disk, jobs, store, clip, editor, uploading, acts>>

(* The answer closes the dialog of its kind, be it a newer one.  A new file *)
(* is opened once the listing has been asked for and has come.              *)
Asked(kind) == CASE kind = "rename" -> "rename" [] kind = "mkdir" -> "folder" [] kind = "create" -> "file"

NamedArrives(j, done, ok) ==
    /\ j.kind \in {"rename", "mkdir", "create"} /\ Done(j, done, ok)
    /\ IF ok
       THEN /\ dialog' = IF dialog = Asked(j.kind) THEN "none" ELSE dialog
            /\ ctxItem' = IF dialog = "rename" /\ dialog' = "none" THEN NoPath ELSE ctxItem
            /\ FetchFiles(j.n, cur, IF j.kind = "create" THEN j.path ELSE NoPath, jobs \ {j})
       ELSE jobs' = jobs \ {j} /\ UNCHANGED <<dialog, ctxItem, store>>
    /\ UNCHANGED <<clip, pending, editor, uploading, acts>>

----------------------------------------------------------------------------
(* Clipboard and upload.                                                    *)

CopyOrCut(op) ==
    /\ Menu(op) /\ Acts
    /\ ctxItem' = NoPath
    /\ clip' = [op |-> op, paths |-> selected]
    /\ UNCHANGED <<disk, jobs, store, dialog, pending, editor, uploading>>

HandlePaste ==
    /\ Menu("paste") /\ Acts
    /\ ctxItem' = NoPath
    /\ Ask([Job(Fresh, IF clip.op = "cut" THEN "move" ELSE "copy", cur, NoPath) EXCEPT !.paths = clip.paths])
    /\ UNCHANGED <<disk, store, clip, dialog, pending, editor, uploading>>

(* A cut is cleared after the answer: the one that is there by then.        *)
PasteArrives(j, done, ok) ==
    /\ j.kind \in {"move", "copy"} /\ Done(j, done, ok)
    /\ IF ok
       THEN /\ clip' = IF clip.op = "cut" THEN [op |-> "none", paths |-> {}] ELSE clip
            /\ FetchFiles(j.n, cur, NoPath, jobs \ {j})
       ELSE jobs' = jobs \ {j} /\ UNCHANGED <<clip, store>>
    /\ UNCHANGED <<popups, editor, uploading, acts>>

Chunk(m, n, k) == [Job(m, "chunk", cur, <<cur, n>>) EXCEPT !.who = k]

(* handleFiles: by the button unless it is busy, or by a drop at any time.  *)
HandleFiles(n) ==
    /\ Acts
    /\ uploading' = TRUE
    /\ Ask(Chunk(Fresh, n, 1))
    /\ UNCHANGED <<disk, store, clip, popups, editor>>

\* Mutant: an upload ends at a chunk that fails.
ChunkArrivesOrStops(j, done, ok) ==
    /\ j.kind = "chunk" /\ Done(j, done, ok)
    /\ IF ~ok THEN jobs' = jobs \ {j} /\ UNCHANGED <<uploading, store>>
       ELSE IF j.who < Chunks
       THEN /\ jobs' = (jobs \ {j}) \cup {Chunk(j.n, j.path[2], j.who + 1)}
            /\ UNCHANGED <<uploading, store>>
       ELSE uploading' = FALSE /\ FetchFiles(j.n, cur, NoPath, jobs \ {j})
    /\ UNCHANGED <<clip, popups, editor, acts>>

(* The next chunk goes where the page is by now; a failed one is passed by. *)
ChunkArrives(j, done, ok) ==
    /\ j.kind = "chunk" /\ Done(j, done, ok)
    /\ IF j.who < Chunks
       THEN /\ jobs' = (jobs \ {j}) \cup {Chunk(j.n, j.path[2], j.who + 1)}
            /\ UNCHANGED <<uploading, store>>
       ELSE uploading' = FALSE /\ FetchFiles(j.n, cur, NoPath, jobs \ {j})
    /\ UNCHANGED <<clip, popups, editor, acts>>

----------------------------------------------------------------------------
(* onMount's question where to start, and the listings.                     *)

HomeArrives(j, done, ok) ==
    /\ j.kind = "home" /\ Done(j, done, ok)
    /\ \E d \in IF ok THEN Dirs ELSE {cur} : FetchFiles(j.n, d, NoPath, jobs \ {j})
    /\ UNCHANGED <<clip, popups, editor, uploading, acts>>

ListArrives(j) ==
    /\ j.kind = "list"
    /\ Listed(j)
    /\ IF j.path = NoPath THEN jobs' = jobs \ {j} /\ UNCHANGED editor ELSE Edit(j.n, j.path, jobs \ {j})
    /\ UNCHANGED <<disk, selected, clip, popups, uploading, acts>>

Arrive(j) ==
    \/ j.state # "sent" /\ (ListArrives(j) \/ ReadArrives(j) \/ SaveArrives(j))
    \/ \E done, ok \in BOOLEAN :
          \/ Serve(j, done, ok) \/ HomeArrives(j, done, ok) \/ DeleteArrives(j, done, ok)
          \/ NamedArrives(j, done, ok) \/ PasteArrives(j, done, ok) \/ ChunkArrives(j, done, ok)

User ==
    \/ HeaderCheckbox \/ ClearSelection \/ CloseMenu \/ HandleSave \/ CloseEditor \/ RequestDelete
    \/ ExecuteDelete \/ StartRename \/ HandleNewFolder \/ CancelDialog \/ HandlePaste
    \/ \E d \in Dirs : HandleNavigate(d)
    \/ \E p \in Paths : PickRow(p) \/ HandleContextMenu(p) \/ HandleOpen(p)
    \/ \E t \in Texts : Type(t)
    \/ \E n \in Names : ConfirmRename(n) \/ HandleNewFile(n) \/ HandleFiles(n)
    \/ \E kind \in {"folder", "file"} : AskName(kind)
    \/ \E op \in {"copy", "cut"} : CopyOrCut(op)

Answers == \E j \in jobs : Arrive(j)

Next == User \/ Answers

Spec == Init /\ [][Next]_vars

----------------------------------------------------------------------------
TypeOK ==
    /\ disk \in [Paths -> Texts \cup {Absent}]
    /\ cur \in Dirs /\ files \subseteq Paths /\ selected \subseteq Paths /\ loading \in BOOLEAN
    /\ clip.op \in {"none", "copy", "cut"} /\ clip.paths \subseteq Paths
    /\ dialog \in {"none", "delete", "rename", "folder", "file"} /\ pending \subseteq Paths
    /\ ctxItem \in MaybePath
    /\ editing \in MaybePath /\ (editing = NoPath <=> ed = NoEd)
    /\ {ed.doc, ed.saved} \subseteq Texts /\ ed.phase \in {"none", "loading", "ready", "failed"}
    /\ uploading \in BOOLEAN /\ acts \in 0..MaxActs

(* The rows are those of the directory the breadcrumbs name, in whatever    *)
(* order listings arrive or fail: what is made, pasted or uploaded "here"   *)
(* goes where the rows are.                                                 *)
ListedIsCurrent == \A p \in files : p[1] = cur

(* An editor that closes without asking holds a text the server has had     *)
(* from it or gave to it, whatever saves failed or were lost, unless it was *)
(* typed in or saved again while a save was in flight.                      *)
CleanMeansSaved == Ready /\ ~ed.dirty /\ ~ed.late => ed.doc \in ed.safe

(* What shows that it is busy is waiting for an answer: a table that loads  *)
(* for a listing, an uploader for a chunk, an editor for a save, however    *)
(* many overlap and whichever of them fail.  Nothing spins for ever.        *)
BusyWaits ==
    /\ loading => \E j \in jobs : j.kind = "list"
    /\ uploading => \E j \in jobs : j.kind = "chunk"
    /\ ed.saving => \E j \in jobs : j.kind \in {"put", "post"} /\ j.who = ed.id

(* The dialogs and the editor are in states their markup knows, and what    *)
(* spins is waiting for an answer (routes/files/+page.svelte,               *)
(* TextEditor.svelte, Uploader.svelte).                                     *)
BusyIsDriven == TypeOK /\ BusyWaits
=============================================================================
