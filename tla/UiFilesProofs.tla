---------------------------- MODULE UiFilesProofs ----------------------------
(***************************************************************************)
(* Proofs about UiFiles, for any directories, files and texts and any      *)
(* number of requests in flight: the rows are those of the directory the   *)
(* page names, what shows that it is busy waits for an answer, and an      *)
(* editor that closes without asking holds a text the server knows.        *)
(***************************************************************************)
EXTENDS UiFiles, FiniteSetTheorems, TLAPS

(* A request is a record, and a listing names files of its directory only.  *)
Fields == {"n", "kind", "dir", "path", "to", "paths", "text", "who", "state", "list"}
IsJob(j) == DOMAIN j = Fields /\ j = [x \in DOMAIN j |-> j[x]]
Honest(j) == IsJob(j) /\ (j.kind = "list" /\ j.state = "ok" => \A p \in j.list : p[1] = j.dir)

EdFields == {"id", "phase", "doc", "saved", "dirty", "saving", "isNew", "safe", "late"}
IsEd(e) == DOMAIN e = EdFields /\ e = [x \in DOMAIN e |-> e[x]] /\ e.saving \in BOOLEAN

FilesInv ==
    /\ \A j \in jobs : Honest(j)
    /\ loading \in BOOLEAN /\ uploading \in BOOLEAN /\ IsEd(ed)
    /\ ListedIsCurrent /\ BusyWaits

LEMMA JobIsJob ==
  ASSUME NEW n, NEW kind, NEW dir, NEW path
  PROVE  LET j == Job(n, kind, dir, path) IN
         IsJob(j) /\ j.kind = kind /\ j.dir = dir /\ j.state = "sent" /\ j.who = 0
BY DEF IsJob, Fields, Job

LEMMA JobExcept ==
  ASSUME NEW j, IsJob(j), NEW v
  PROVE  /\ IsJob([j EXCEPT !.text = v]) /\ [j EXCEPT !.text = v].kind = j.kind
            /\ [j EXCEPT !.text = v].state = j.state /\ [j EXCEPT !.text = v].who = j.who
         /\ IsJob([j EXCEPT !.who = v]) /\ [j EXCEPT !.who = v].kind = j.kind
            /\ [j EXCEPT !.who = v].state = j.state /\ [j EXCEPT !.who = v].who = v
         /\ IsJob([j EXCEPT !.to = v]) /\ [j EXCEPT !.to = v].kind = j.kind
            /\ [j EXCEPT !.to = v].state = j.state
         /\ IsJob([j EXCEPT !.paths = v]) /\ [j EXCEPT !.paths = v].kind = j.kind
            /\ [j EXCEPT !.paths = v].state = j.state
BY Zenon DEF IsJob, Fields

LEMMA JobServed ==
  ASSUME NEW j, IsJob(j), NEW a, NEW b, NEW c
  PROVE  LET k == [j EXCEPT !.state = a, !.list = b, !.text = c] IN
         /\ IsJob(k) /\ k.kind = j.kind /\ k.dir = j.dir /\ k.who = j.who
         /\ k.state = a /\ k.list = b
BY DEF IsJob, Fields

LEMMA NoEdIsEd == IsEd(NoEd) /\ NoEd.saving = FALSE
BY DEF IsEd, EdFields, NoEd

LEMMA EdOpened ==
  ASSUME NEW n, NEW ph
  PROVE  IsEd([NoEd EXCEPT !.id = n, !.phase = ph]) /\ [NoEd EXCEPT !.id = n, !.phase = ph].saving = FALSE
BY DEF IsEd, EdFields, NoEd

LEMMA EdRead ==
  ASSUME NEW e, IsEd(e), NEW a, NEW b, NEW c, NEW f, NEW g
  PROVE  /\ LET x == [e EXCEPT !.phase = a] IN IsEd(x) /\ x.saving = e.saving /\ x.id = e.id
         /\ LET x == [e EXCEPT !.phase = a, !.doc = b, !.saved = c, !.isNew = f, !.safe = g] IN
            IsEd(x) /\ x.saving = e.saving /\ x.id = e.id
         /\ LET x == [e EXCEPT !.safe = a] IN IsEd(x) /\ x.saving = e.saving /\ x.id = e.id
         /\ LET x == [e EXCEPT !.saving = FALSE] IN IsEd(x) /\ x.saving = FALSE /\ x.id = e.id
         /\ LET x == [e EXCEPT !.saving = FALSE, !.isNew = a, !.saved = b, !.dirty = c] IN
            IsEd(x) /\ x.saving = FALSE /\ x.id = e.id
BY DEF IsEd, EdFields

LEMMA EdSaves ==
  ASSUME NEW e, IsEd(e), NEW a, NEW x, x = [e EXCEPT !.saving = TRUE, !.late = a]
  PROVE  IsEd(x) /\ x.id = e.id
BY DEF IsEd, EdFields

LEMMA FilesInit == Init => FilesInv
<1>. SUFFICES ASSUME Init PROVE FilesInv
  OBVIOUS
<1>1. jobs = {Job(0, "home", Start, NoPath)} /\ files = {} /\ loading = FALSE /\ uploading = FALSE /\ ed = NoEd
  BY DEF Init
<1>2. \A j \in jobs : Honest(j)
  BY <1>1, JobIsJob DEF Honest
<1>. QED
  BY <1>1, <1>2, NoEdIsEd DEF FilesInv, ListedIsCurrent, BusyWaits

----------------------------------------------------------------------------
(* What the user does: a request may join those in flight.                  *)

Waits(k) ==
    /\ loading' = loading \/ (loading' = TRUE /\ k.kind = "list")
    /\ uploading' = uploading \/ (uploading' = TRUE /\ k.kind = "chunk")
    /\ \/ ed'.saving = FALSE
       \/ ed'.saving = ed.saving /\ ed'.id = ed.id
       \/ k.kind \in {"put", "post"} /\ k.who = ed'.id

LEMMA Joins ==
  ASSUME FilesInv, NEW k, Honest(k), jobs' = jobs \cup {k}, UNCHANGED <<cur, files>>, IsEd(ed'), Waits(k)
  PROVE  FilesInv'
<1>1. k \in jobs' /\ jobs \subseteq jobs' /\ (\A j \in jobs' : Honest(j)) /\ ListedIsCurrent'
  BY DEF FilesInv, ListedIsCurrent
<1>2. loading' \in BOOLEAN /\ (loading' => \E j \in jobs' : j.kind = "list")
  <2>1. CASE loading' = loading
    BY <1>1, <2>1, Zenon DEF FilesInv, BusyWaits
  <2>2. CASE loading' = TRUE /\ k.kind = "list"
    BY <1>1, <2>2, Zenon
  <2>. QED
    BY <2>1, <2>2, Zenon DEF Waits
<1>3. uploading' \in BOOLEAN /\ (uploading' => \E j \in jobs' : j.kind = "chunk")
  <2>1. CASE uploading' = uploading
    BY <1>1, <2>1, Zenon DEF FilesInv, BusyWaits
  <2>2. CASE uploading' = TRUE /\ k.kind = "chunk"
    BY <1>1, <2>2, Zenon
  <2>. QED
    BY <2>1, <2>2, Zenon DEF Waits
<1>4. ed'.saving => \E j \in jobs' : j.kind \in {"put", "post"} /\ j.who = ed'.id
  BY <1>1 DEF FilesInv, BusyWaits, Waits
<1>. QED
  BY <1>1, <1>2, <1>3, <1>4 DEF FilesInv, BusyWaits

LEMMA Stays ==
  ASSUME FilesInv, UNCHANGED <<jobs, cur, files, loading, uploading>>, IsEd(ed'),
         ed'.saving = FALSE \/ (ed'.saving = ed.saving /\ ed'.id = ed.id)
  PROVE  FilesInv'
<1>1. ed'.saving => \E j \in jobs' : j.kind \in {"put", "post"} /\ j.who = ed'.id
  BY DEF FilesInv, BusyWaits
<1>. QED
  BY <1>1 DEF FilesInv, BusyWaits, ListedIsCurrent

LEMMA FetchAsks ==
  ASSUME NEW n, NEW d, NEW then
  PROVE  Honest(Job(n, "list", d, then)) /\ Job(n, "list", d, then).kind = "list"
BY JobIsJob DEF Honest

LEMMA UserLooks ==
  ASSUME FilesInv,
         \/ HeaderCheckbox \/ ClearSelection \/ CloseMenu \/ RequestDelete \/ StartRename \/ CancelDialog
         \/ \E p \in Paths : PickRow(p) \/ HandleContextMenu(p)
         \/ \E kind \in {"folder", "file"} : AskName(kind)
         \/ \E op \in {"copy", "cut"} : CopyOrCut(op)
  PROVE  FilesInv'
<1>1. UNCHANGED <<jobs, cur, files, loading, uploading, ed>>
  BY DEF HeaderCheckbox, ClearSelection, CloseMenu, RequestDelete, StartRename, CancelDialog, PickRow,
         HandleContextMenu, AskName, CopyOrCut, store, editor
<1>. QED
  BY <1>1, Stays DEF FilesInv

LEMMA UserFetches ==
  ASSUME FilesInv, CloseEditor \/ \E d \in Dirs : HandleNavigate(d)
  PROVE  FilesInv'
<1>1. \E k : /\ Honest(k) /\ k.kind = "list" /\ jobs' = jobs \cup {k}
              /\ loading' = TRUE /\ UNCHANGED <<cur, files, uploading>>
  BY FetchAsks, Zenon DEF CloseEditor, HandleNavigate, FetchFiles
<1>2. ed' = ed \/ ed' = NoEd
  BY DEF CloseEditor, HandleNavigate, editor
<1>3. IsEd(ed') /\ (ed'.saving = FALSE \/ (ed'.saving = ed.saving /\ ed'.id = ed.id))
  BY <1>2, NoEdIsEd DEF FilesInv
<1>. QED
  BY <1>1, <1>3, Joins DEF Waits

\* The requests that are neither a listing nor a save.
LEMMA UserAsks ==
  ASSUME FilesInv,
         \/ ExecuteDelete \/ HandleNewFolder \/ HandlePaste
         \/ \E n \in Names : ConfirmRename(n) \/ HandleNewFile(n) \/ HandleFiles(n)
  PROVE  FilesInv'
<1>1. UNCHANGED <<cur, files, loading, ed>>
  BY DEF ExecuteDelete, HandleNewFolder, HandlePaste, ConfirmRename, HandleNewFile, HandleFiles, store, editor
<1>2. ASSUME NEW k, IsJob(k), k.state = "sent", jobs' = jobs \cup {k},
             uploading' = uploading \/ (uploading' = TRUE /\ k.kind = "chunk")
      PROVE  FilesInv'
  <2>1. Honest(k)
    BY <1>2 DEF Honest
  <2>. QED
    BY <1>1, <1>2, <2>1, Joins DEF Waits, FilesInv
<1>3. CASE ExecuteDelete
  <2>. DEFINE j == Job(Fresh, "delete", cur, NoPath)
             k == [j EXCEPT !.paths = pending]
  <2>1. IsJob(j) /\ j.state = "sent"
    BY JobIsJob
  <2>2. jobs' = jobs \cup {k} /\ uploading' = uploading
    BY <1>3 DEF ExecuteDelete, Ask
  <2>. HIDE DEF j
  <2>3. IsJob(k) /\ k.state = "sent"
    BY <2>1, JobExcept
  <2>. QED
    BY <1>2, <2>2, <2>3
<1>4. CASE HandleNewFolder
  <2>1. jobs' = jobs \cup {Job(Fresh, "mkdir", cur, NoPath)} /\ uploading' = uploading
    BY <1>4 DEF HandleNewFolder, Ask
  <2>. QED
    BY <1>2, <2>1, JobIsJob
<1>5. CASE HandlePaste
  <2>. DEFINE j == Job(Fresh, IF clip.op = "cut" THEN "move" ELSE "copy", cur, NoPath)
             k == [j EXCEPT !.paths = clip.paths]
  <2>1. IsJob(j) /\ j.state = "sent"
    BY JobIsJob
  <2>2. jobs' = jobs \cup {k} /\ uploading' = uploading
    BY <1>5 DEF HandlePaste, Ask
  <2>. HIDE DEF j
  <2>3. IsJob(k) /\ k.state = "sent"
    BY <2>1, JobExcept
  <2>. QED
    BY <1>2, <2>2, <2>3
<1>6. ASSUME NEW m \in Names, ConfirmRename(m) PROVE FilesInv'
  <2>. DEFINE j == Job(Fresh, "rename", cur, ctxItem)
             k == [j EXCEPT !.to = <<ctxItem[1], m>>]
  <2>1. IsJob(j) /\ j.state = "sent"
    BY JobIsJob
  <2>2. jobs' = jobs \cup {k} /\ uploading' = uploading
    BY <1>6 DEF ConfirmRename, Ask
  <2>. HIDE DEF j
  <2>3. IsJob(k) /\ k.state = "sent"
    BY <2>1, JobExcept
  <2>. QED
    BY <1>2, <2>2, <2>3
<1>7. ASSUME NEW m \in Names, HandleNewFile(m) PROVE FilesInv'
  <2>1. jobs' = jobs \cup {Job(Fresh, "create", cur, <<cur, m>>)} /\ uploading' = uploading
    BY <1>7 DEF HandleNewFile, Ask
  <2>. QED
    BY <1>2, <2>1, JobIsJob
<1>8. ASSUME NEW m \in Names, HandleFiles(m) PROVE FilesInv'
  <2>. DEFINE j == Job(Fresh, "chunk", cur, <<cur, m>>)
             k == [j EXCEPT !.who = 1]
  <2>1. IsJob(j) /\ j.state = "sent" /\ j.kind = "chunk"
    BY JobIsJob
  <2>2. jobs' = jobs \cup {k} /\ uploading' = TRUE
    BY <1>8 DEF HandleFiles, Ask, Chunk
  <2>. HIDE DEF j
  <2>3. IsJob(k) /\ k.state = "sent" /\ k.kind = "chunk"
    BY <2>1 DEF IsJob, Fields
  <2>. HIDE DEF k
  <2>. QED
    BY <1>2, <2>2, <2>3
<1>. QED
  BY <1>3, <1>4, <1>5, <1>6, <1>7, <1>8

\* Edit leaves the editor that is there, or mounts a new one, which asks for
\* its file.
LEMMA EditOpens ==
  ASSUME IsEd(ed), NEW n, NEW p, NEW rest, Edit(n, p, rest)
  PROVE  /\ IsEd(ed') /\ (ed'.saving = FALSE \/ (ed'.saving = ed.saving /\ ed'.id = ed.id))
         /\ \/ jobs' = rest
            \/ \E k : Honest(k) /\ k.kind = "read" /\ jobs' = rest \cup {k}
<1>1. CASE editing # NoPath
  BY <1>1 DEF Edit
<1>2. CASE editing = NoPath
  <2>. DEFINE j == Job(n, "read", p[1], p)
             k == [j EXCEPT !.who = n]
  <2>1. ed' = [NoEd EXCEPT !.id = n, !.phase = "loading"] /\ jobs' = rest \cup {k}
    BY <1>2 DEF Edit
  <2>2. IsJob(j) /\ j.kind = "read"
    BY JobIsJob
  <2>. HIDE DEF j
  <2>3. IsJob(k) /\ k.kind = "read"
    BY <2>2, JobExcept
  <2>. HIDE DEF k
  <2>. QED
    BY <2>1, <2>3, EdOpened DEF Honest
<1>. QED
  BY <1>1, <1>2

LEMMA UserEdits ==
  ASSUME FilesInv, HandleSave \/ (\E p \in Paths : HandleOpen(p)) \/ \E t \in Texts : Type(t)
  PROVE  FilesInv'
<1>1. CASE HandleSave
  <2>. DEFINE kind == IF ed.isNew THEN "post" ELSE "put"
             j == Job(Fresh, kind, editing[1], editing)
             k == [j EXCEPT !.text = ed.doc, !.who = ed.id]
  <2>1. /\ ed' = [ed EXCEPT !.saving = TRUE, !.late = ed.late \/ ed.saving]
        /\ jobs' = jobs \cup {k} /\ UNCHANGED <<cur, files, loading, uploading>>
    BY <1>1 DEF HandleSave, Ask, store
  <2>2. IsJob(j) /\ j.kind \in {"put", "post"}
    BY JobIsJob
  <2>. HIDE DEF j
  <2>3. IsJob(k) /\ k.kind \in {"put", "post"} /\ k.who = ed.id
    <3>1. IsJob(k) /\ k.kind = j.kind /\ k.who = ed.id
      BY <2>2 DEF IsJob, Fields
    <3>. QED
      BY <2>2, <3>1
  <2>. HIDE DEF k
  <2>4. IsEd(ed') /\ ed'.id = ed.id
    <3>1. PICK a : ed' = [ed EXCEPT !.saving = TRUE, !.late = a]
      BY <2>1, Zenon
    <3>2. IsEd(ed)
      BY DEF FilesInv
    <3>. QED
      BY <3>1, <3>2, EdSaves, Zenon
  <2>. QED
    BY <2>1, <2>3, <2>4, Joins DEF Waits, Honest
<1>2. ASSUME NEW p \in Paths, HandleOpen(p) PROVE FilesInv'
  <2>1. UNCHANGED <<cur, files, loading, uploading>>
    BY <1>2 DEF HandleOpen
  <2>2. UNCHANGED <<jobs, ed>> \/ Edit(Fresh, p, jobs)
    BY <1>2 DEF HandleOpen, editor
  <2>3. CASE UNCHANGED <<jobs, ed>>
    BY <2>1, <2>3, Stays DEF FilesInv
  <2>4. CASE Edit(Fresh, p, jobs)
    <3>1. /\ IsEd(ed') /\ (ed'.saving = FALSE \/ (ed'.saving = ed.saving /\ ed'.id = ed.id))
          /\ \/ jobs' = jobs
             \/ \E k : Honest(k) /\ k.kind = "read" /\ jobs' = jobs \cup {k}
      BY <2>4, EditOpens DEF FilesInv
    <3>. QED
      BY <2>1, <3>1, Stays, Joins DEF Waits
  <2>. QED
    BY <2>2, <2>3, <2>4
<1>3. ASSUME NEW t \in Texts, Type(t) PROVE FilesInv'
  <2>1. /\ ed' = [ed EXCEPT !.doc = t, !.dirty = (t # ed.saved), !.late = ed.late \/ ed.saving]
        /\ UNCHANGED <<jobs, cur, files, loading, uploading>>
    BY <1>3 DEF Type, store
  <2>2. IsEd(ed') /\ ed'.saving = ed.saving /\ ed'.id = ed.id
    <3>1. PICK b, c : ed' = [ed EXCEPT !.doc = t, !.dirty = b, !.late = c]
      BY <2>1, Zenon
    <3>2. IsEd(ed)
      BY DEF FilesInv
    <3>. QED
      BY <3>1, <3>2 DEF IsEd, EdFields
  <2>. QED
    BY <2>1, <2>2, Stays
<1>. QED
  BY <1>1, <1>2, <1>3

----------------------------------------------------------------------------
(* Answers: the request goes, and another one may take its place.           *)

LEMMA Answered ==
  ASSUME FilesInv, NEW j, jobs \ {j} \subseteq jobs', \A k \in jobs' : Honest(k),
         ListedIsCurrent', IsEd(ed'),
         \/ loading' = FALSE
         \/ loading' = loading /\ j.kind # "list"
         \/ loading' = TRUE /\ \E k \in jobs' : k.kind = "list",
         \/ uploading' = FALSE
         \/ uploading' = uploading /\ j.kind # "chunk"
         \/ uploading' = uploading /\ \E k \in jobs' : k.kind = "chunk",
         \/ ed'.saving = FALSE
         \/ ed'.saving = ed.saving /\ ed'.id = ed.id /\ (j.kind \notin {"put", "post"} \/ j.who # ed.id)
  PROVE  FilesInv'
<1>1. loading' \in BOOLEAN /\ (loading' => \E k \in jobs' : k.kind = "list")
  <2>1. CASE loading' = loading /\ j.kind # "list"
    <3>1. loading => \E k \in jobs : k.kind = "list"
      BY Zenon DEF FilesInv, BusyWaits
    <3>2. (\E k \in jobs : k.kind = "list") => \E k \in jobs' : k.kind = "list"
      BY <2>1
    <3>3. loading \in BOOLEAN
      BY DEF FilesInv
    <3>. QED
      BY <2>1, <3>1, <3>2, <3>3, Zenon
  <2>. QED
    BY <2>1, Zenon
<1>2. uploading' \in BOOLEAN /\ (uploading' => \E k \in jobs' : k.kind = "chunk")
  <2>0. uploading \in BOOLEAN /\ (uploading => \E k \in jobs : k.kind = "chunk")
    BY Zenon DEF FilesInv, BusyWaits
  <2>1. CASE uploading' = uploading /\ j.kind # "chunk"
    <3>1. (\E k \in jobs : k.kind = "chunk") => \E k \in jobs' : k.kind = "chunk"
      BY <2>1
    <3>. QED
      BY <2>0, <2>1, <3>1, Zenon
  <2>. QED
    BY <2>0, <2>1, Zenon
<1>3. ed'.saving => \E k \in jobs' : k.kind \in {"put", "post"} /\ k.who = ed'.id
  <2>1. CASE ed'.saving = ed.saving /\ ed'.id = ed.id /\ (j.kind \notin {"put", "post"} \/ j.who # ed.id)
    <3>1. ed.saving => \E k \in jobs : k.kind \in {"put", "post"} /\ k.who = ed.id
      BY Zenon DEF FilesInv, BusyWaits
    <3>2. (\E k \in jobs : k.kind \in {"put", "post"} /\ k.who = ed.id)
            => \E k \in jobs' : k.kind \in {"put", "post"} /\ k.who = ed.id
      BY <2>1
    <3>. QED
      BY <2>1, <3>1, <3>2
  <2>. QED
    BY <2>1
<1>. QED
  BY <1>1, <1>2, <1>3 DEF FilesInv, BusyWaits

\* A served request is still in flight; a listing holds its directory's files.
LEMMA Served ==
  ASSUME FilesInv, NEW j \in jobs, NEW done \in BOOLEAN, NEW ok \in BOOLEAN, Serve(j, done, ok)
  PROVE  FilesInv'
<1>. DEFINE files0 == IF ok /\ j.kind = "list" THEN In(j.dir) ELSE {}
<1>0. IsJob(j)
  BY DEF FilesInv, Honest
<1>1. PICK k : /\ IsJob(k) /\ k.kind = j.kind /\ k.dir = j.dir /\ k.who = j.who /\ k.list = files0
               /\ jobs' = (jobs \ {j}) \cup {k}
  <2>1. PICK a, c : jobs' = (jobs \ {j}) \cup {[j EXCEPT !.state = a, !.list = files0, !.text = c]}
    BY Zenon DEF Serve
  <2>. DEFINE k == [j EXCEPT !.state = a, !.list = files0, !.text = c]
  <2>2. IsJob(k) /\ k.kind = j.kind /\ k.dir = j.dir /\ k.who = j.who /\ k.list = files0
    BY <1>0 DEF IsJob, Fields
  <2>. QED
    BY <2>1, <2>2
<1>2. Honest(k)
  <2>1. \A p \in files0 : p[1] = j.dir
    BY DEF In
  <2>. QED
    BY <1>1, <2>1 DEF Honest
<1>3. UNCHANGED <<cur, files, loading, uploading>>
  BY DEF Serve, store
<1>4. IsEd(ed') /\ ed'.saving = ed.saving /\ ed'.id = ed.id
  <2>0. IsEd(ed)
    BY DEF FilesInv
  <2>1. ed' = ed \/ \E a : ed' = [ed EXCEPT !.safe = a]
    BY Zenon DEF Serve
  <2>2. CASE \E a : ed' = [ed EXCEPT !.safe = a]
    <3>1. PICK a : ed' = [ed EXCEPT !.safe = a]
      BY <2>2
    <3>. QED
      BY <2>0, <3>1 DEF IsEd, EdFields
  <2>. QED
    BY <2>0, <2>1, <2>2
<1>5. \A i \in jobs : \E l \in jobs' : l.kind = i.kind /\ l.who = i.who
  BY <1>1
<1>6. (\A l \in jobs' : Honest(l)) /\ ListedIsCurrent'
  BY <1>1, <1>2, <1>3 DEF FilesInv, ListedIsCurrent
<1>7. loading' \in BOOLEAN /\ uploading' \in BOOLEAN
  BY <1>3 DEF FilesInv
<1>8. /\ loading' => \E l \in jobs' : l.kind = "list"
      /\ uploading' => \E l \in jobs' : l.kind = "chunk"
      /\ ed'.saving => \E l \in jobs' : l.kind \in {"put", "post"} /\ l.who = ed'.id
  <2>1. (\E i \in jobs : i.kind = "list") => \E l \in jobs' : l.kind = "list"
    BY <1>5
  <2>2. (\E i \in jobs : i.kind = "chunk") => \E l \in jobs' : l.kind = "chunk"
    BY <1>5
  <2>3. (\E i \in jobs : i.kind \in {"put", "post"} /\ i.who = ed.id)
          => \E l \in jobs' : l.kind \in {"put", "post"} /\ l.who = ed.id
    BY <1>5
  <2>. QED
    BY <1>3, <1>4, <2>1, <2>2, <2>3, Zenon DEF FilesInv, BusyWaits
<1>. QED
  BY <1>4, <1>6, <1>7, <1>8 DEF FilesInv, BusyWaits

\* An answer that is followed by a listing.
LEMMA AnswerFetches ==
  ASSUME FilesInv, NEW j, j.kind \notin {"list", "put", "post"}, NEW n, NEW d, NEW then,
         FetchFiles(n, d, then, jobs \ {j}), ed' = ed,
         uploading' = FALSE \/ (uploading' = uploading /\ j.kind # "chunk")
  PROVE  FilesInv'
<1>. DEFINE k == Job(n, "list", d, then)
<1>1. jobs' = (jobs \ {j}) \cup {k} /\ loading' = TRUE /\ UNCHANGED <<cur, files>>
  BY DEF FetchFiles
<1>2. Honest(k) /\ k.kind = "list"
  BY FetchAsks
<1>. HIDE DEF k
<1>3. k \in jobs' /\ jobs \ {j} \subseteq jobs' /\ (\A l \in jobs' : Honest(l)) /\ ListedIsCurrent'
  BY <1>1, <1>2 DEF FilesInv, ListedIsCurrent
<1>4. IsEd(ed') /\ ed'.saving = ed.saving /\ ed'.id = ed.id
  BY DEF FilesInv
<1>5. \E l \in jobs' : l.kind = "list"
  BY <1>2, <1>3
<1>. QED
  BY <1>1, <1>3, <1>4, <1>5, Answered

\* An answer that nothing follows.
LEMMA AnswerIgnored ==
  ASSUME FilesInv, NEW j, j.kind \notin {"list", "put", "post", "chunk"}, jobs' = jobs \ {j},
         UNCHANGED <<cur, files, loading, uploading, ed>>
  PROVE  FilesInv'
<1>1. jobs \ {j} \subseteq jobs' /\ (\A l \in jobs' : Honest(l)) /\ ListedIsCurrent' /\ IsEd(ed')
  BY DEF FilesInv, ListedIsCurrent
<1>. QED
  BY <1>1, Answered

LEMMA OthersArrive ==
  ASSUME FilesInv, NEW j \in jobs, NEW done \in BOOLEAN, NEW ok \in BOOLEAN,
         \/ HomeArrives(j, done, ok) \/ DeleteArrives(j, done, ok)
         \/ NamedArrives(j, done, ok) \/ PasteArrives(j, done, ok)
  PROVE  FilesInv'
<1>1. /\ j.kind \in {"home", "delete", "rename", "mkdir", "create", "move", "copy"}
      /\ ed' = ed /\ uploading' = uploading
  BY DEF HomeArrives, DeleteArrives, NamedArrives, PasteArrives, editor
<1>2. \/ \E n, d, then : FetchFiles(n, d, then, jobs \ {j})
      \/ jobs' = jobs \ {j} /\ UNCHANGED <<cur, files, loading>>
  <2>1. CASE HomeArrives(j, done, ok)
    BY <2>1, Zenon DEF HomeArrives
  <2>2. CASE DeleteArrives(j, done, ok)
    <3>1. FetchFiles(j.n, cur, NoPath, jobs \ {j}) \/ (jobs' = jobs \ {j} /\ UNCHANGED store)
      BY <2>2, Zenon DEF DeleteArrives
    <3>. QED
      BY <3>1 DEF store
  <2>3. CASE NamedArrives(j, done, ok)
    <3>1. \/ \E then : FetchFiles(j.n, cur, then, jobs \ {j})
          \/ jobs' = jobs \ {j} /\ UNCHANGED store
      BY <2>3, Zenon DEF NamedArrives
    <3>. QED
      BY <3>1 DEF store
  <2>4. CASE PasteArrives(j, done, ok)
    <3>1. FetchFiles(j.n, cur, NoPath, jobs \ {j}) \/ (jobs' = jobs \ {j} /\ UNCHANGED store)
      BY <2>4, Zenon DEF PasteArrives
    <3>. QED
      BY <3>1 DEF store
  <2>. QED
    BY <2>1, <2>2, <2>3, <2>4
<1>. QED
  BY <1>1, <1>2, AnswerFetches, AnswerIgnored

LEMMA ChunkAnswered ==
  ASSUME FilesInv, NEW j \in jobs, NEW done \in BOOLEAN, NEW ok \in BOOLEAN, ChunkArrives(j, done, ok)
  PROVE  FilesInv'
<1>1. j.kind = "chunk" /\ ed' = ed
  BY DEF ChunkArrives, editor
<1>2. CASE j.who < Chunks
  <2>. DEFINE k0 == Job(j.n, "chunk", cur, <<cur, j.path[2]>>)
             k == [k0 EXCEPT !.who = j.who + 1]
  <2>1. jobs' = (jobs \ {j}) \cup {k} /\ UNCHANGED <<cur, files, loading, uploading>>
    BY <1>2 DEF ChunkArrives, Chunk, store
  <2>2. IsJob(k0) /\ k0.kind = "chunk"
    BY JobIsJob
  <2>. HIDE DEF k0
  <2>3. IsJob(k) /\ k.kind = "chunk"
    BY <2>2, JobExcept
  <2>. HIDE DEF k
  <2>4. /\ k \in jobs' /\ jobs \ {j} \subseteq jobs' /\ (\A l \in jobs' : Honest(l))
        /\ ListedIsCurrent' /\ IsEd(ed')
    BY <1>1, <2>1, <2>3 DEF FilesInv, ListedIsCurrent, Honest
  <2>. QED
    BY <1>1, <2>1, <2>3, <2>4, Answered
<1>3. CASE ~(j.who < Chunks)
  <2>1. uploading' = FALSE /\ FetchFiles(j.n, cur, NoPath, jobs \ {j})
    BY <1>3 DEF ChunkArrives
  <2>. QED
    BY <1>1, <2>1, AnswerFetches
<1>. QED
  BY <1>2, <1>3

\* A listing sets the rows and the path in one step, and only its own answer
\* ends the loading.
LEMMA ListAnswered ==
  ASSUME FilesInv, NEW j \in jobs, ListArrives(j)
  PROVE  FilesInv'
<1>1. j.kind = "list" /\ loading' = FALSE /\ uploading' = uploading
  BY DEF ListArrives, Listed
<1>2. ListedIsCurrent'
  <2>1. CASE j.state = "ok"
    BY <1>1, <2>1 DEF ListArrives, Listed, ListedIsCurrent, FilesInv, Honest
  <2>2. CASE j.state # "ok"
    BY <2>2 DEF ListArrives, Listed, ListedIsCurrent
  <2>. QED
    BY <2>1, <2>2
<1>3. IsEd(ed') /\ (ed'.saving = FALSE \/ (ed'.saving = ed.saving /\ ed'.id = ed.id))
      /\ (jobs' = jobs \ {j} \/ \E k : Honest(k) /\ jobs' = (jobs \ {j}) \cup {k})
  <2>1. CASE Edit(j.n, j.path, jobs \ {j})
    BY <2>1, EditOpens DEF FilesInv
  <2>2. CASE jobs' = jobs \ {j} /\ ed' = ed
    BY <2>2 DEF FilesInv
  <2>. QED
    BY <2>1, <2>2 DEF ListArrives, editor
<1>4. jobs \ {j} \subseteq jobs' /\ \A l \in jobs' : Honest(l)
  BY <1>3 DEF FilesInv
<1>. QED
  BY <1>1, <1>2, <1>3, <1>4, Answered

LEMMA EditorAnswered ==
  ASSUME FilesInv, NEW j \in jobs, ReadArrives(j) \/ SaveArrives(j)
  PROVE  FilesInv'
<1>0. IsEd(ed)
  BY DEF FilesInv
<1>1. jobs' = jobs \ {j} /\ UNCHANGED <<cur, files, loading, uploading>>
  BY DEF ReadArrives, SaveArrives, store
<1>2. jobs \ {j} \subseteq jobs' /\ (\A l \in jobs' : Honest(l)) /\ ListedIsCurrent'
  BY <1>1 DEF FilesInv, ListedIsCurrent
<1>3. CASE ReadArrives(j)
  <2>1. j.kind = "read"
    BY <1>3 DEF ReadArrives
  <2>2. \/ ed' = ed
        \/ ed' = [ed EXCEPT !.phase = "failed"]
        \/ \E b : ed' = [ed EXCEPT !.phase = "ready", !.doc = j.text, !.saved = j.text, !.isNew = b, !.safe = {j.text}]
    BY <1>3, Zenon DEF ReadArrives
  <2>3. IsEd(ed') /\ ed'.saving = ed.saving /\ ed'.id = ed.id
    <3>1. CASE ed' = [ed EXCEPT !.phase = "failed"]
      BY <1>0, <3>1 DEF IsEd, EdFields
    <3>2. ASSUME NEW b, ed' = [ed EXCEPT !.phase = "ready", !.doc = j.text, !.saved = j.text, !.isNew = b, !.safe = {j.text}]
          PROVE  IsEd(ed') /\ ed'.saving = ed.saving /\ ed'.id = ed.id
      BY <1>0, <3>2 DEF IsEd, EdFields
    <3>. QED
      BY <1>0, <2>2, <3>1, <3>2
  <2>. QED
    BY <1>1, <1>2, <2>1, <2>3, Answered
<1>4. CASE SaveArrives(j)
  <2>1. j.kind \in {"put", "post"}
    BY <1>4 DEF SaveArrives
  <2>2. CASE j.who # ed.id
    <3>1. ed' = ed
      BY <1>4, <2>2 DEF SaveArrives
    <3>. QED
      BY <1>0, <1>1, <1>2, <2>1, <2>2, <3>1, Answered
  <2>3. CASE j.who = ed.id
    <3>1. \/ ed' = [ed EXCEPT !.saving = FALSE]
          \/ \E b : ed' = [ed EXCEPT !.saving = FALSE, !.isNew = b, !.saved = j.text, !.dirty = FALSE]
      BY <1>4, <2>3, Zenon DEF SaveArrives, Saved
    <3>2. CASE ed' = [ed EXCEPT !.saving = FALSE]
      <4>1. IsEd(ed') /\ ed'.saving = FALSE
        BY <1>0, <3>2 DEF IsEd, EdFields
      <4>. QED
        BY <1>1, <1>2, <2>1, <4>1, Answered
    <3>3. ASSUME NEW b, ed' = [ed EXCEPT !.saving = FALSE, !.isNew = b, !.saved = j.text, !.dirty = FALSE]
          PROVE  FilesInv'
      <4>1. IsEd(ed') /\ ed'.saving = FALSE
        BY <1>0, <3>3 DEF IsEd, EdFields
      <4>. QED
        BY <1>1, <1>2, <2>1, <4>1, Answered
    <3>. QED
      BY <3>1, <3>2, <3>3
  <2>. QED
    BY <2>2, <2>3
<1>. QED
  BY <1>3, <1>4

LEMMA FilesNext == FilesInv /\ [Next]_vars => FilesInv'
<1>. SUFFICES ASSUME FilesInv, [Next]_vars PROVE FilesInv'
  OBVIOUS
<1>1. CASE User
  BY <1>1, UserLooks, UserFetches, UserAsks, UserEdits DEF User
<1>2. ASSUME NEW j \in jobs, Arrive(j) PROVE FilesInv'
  BY <1>2, Served, OthersArrive, ChunkAnswered, ListAnswered, EditorAnswered DEF Arrive
<1>3. CASE UNCHANGED vars
  BY <1>3, Stays DEF vars, store, editor, FilesInv
<1>. QED
  BY <1>1, <1>2, <1>3 DEF Next, Answers

(* In whatever order listings are asked for, served, lost and answered, the *)
(* rows are those of the directory the page says it shows (fetchFiles).     *)
THEOREM RowsAreOfTheDirectory == Spec => []ListedIsCurrent
<1>1. FilesInv => ListedIsCurrent
  BY DEF FilesInv
<1>. QED
  BY <1>1, FilesInit, FilesNext, PTL DEF Spec

(* A loading table, a busy uploader and a saving editor are each waiting    *)
(* for an answer, however many requests overlap and fail.                   *)
THEOREM NothingSpinsForEver == Spec => []BusyWaits
<1>1. FilesInv => BusyWaits
  BY DEF FilesInv
<1>. QED
  BY <1>1, FilesInit, FilesNext, PTL DEF Spec

----------------------------------------------------------------------------
(* What a closed editor leaves behind.  The requests in flight are finitely *)
(* many and numbered apart, and no editor asks under another one's number.  *)

Kinds == {"home", "list", "read", "put", "post", "delete", "rename", "create", "mkdir", "move", "copy", "chunk"}
SaveKinds == {"put", "post"}
EdKinds == {"read", "put", "post"}

JobType ==
    [n : Nat, kind : Kinds, dir : Dirs, path : MaybePath, to : MaybePath, paths : SUBSET Paths, text : Texts,
     who : Nat, state : {"sent", "ok", "bad", "missing"}, list : SUBSET Paths]

Fits(j) ==
    /\ j.kind \in {"create", "put", "post", "read", "rename", "chunk"} => j.path # NoPath
    /\ j.kind = "rename" => j.to # NoPath
    /\ j.n = 0 => j.kind \in {"home", "list"} /\ j.path = NoPath
    /\ j.kind \in EdKinds => j.who # 0
    /\ j.kind = "read" => j.who = j.n

Apart(js) == \A j, k \in js : j # k => j.n # k.n /\ (k.kind \in EdKinds => k.who # j.n)

Requests(js) == IsFiniteSet(js) /\ (\A j \in js : j \in JobType /\ Fits(j)) /\ Apart(js)

(* The editor and the saves it waits for: an editor that was not typed in   *)
(* while it saved has at most one, and it carries the text of the document. *)
EdType ==
    [id : Nat, phase : {"none", "loading", "ready", "failed"}, doc : Texts, saved : Texts, dirty : BOOLEAN,
     saving : BOOLEAN, isNew : BOOLEAN, safe : SUBSET Texts, late : BOOLEAN]

Saves(j, e) == j.kind \in SaveKinds /\ j.who = e.id

Opening(js, e) == \A j \in js : j.n = e.id => j.kind = "read" /\ e.phase = "loading"
Unready(js, e) == e.phase # "ready" => ~e.dirty /\ ~e.saving /\ \A j \in js : ~Saves(j, e)
Stored(js, e) == \A j \in js : Saves(j, e) /\ j.state = "ok" => j.text \in e.safe
OneSave(js, e) ==
    /\ \A j \in js : Saves(j, e) => e.saving /\ j.text = e.doc
    /\ \A j, k \in js : Saves(j, e) /\ Saves(k, e) => j = k
Careful(js, e) ==
    ~e.late => /\ OneSave(js, e)
               /\ e.phase = "ready" => (e.dirty <=> e.doc # e.saved) /\ e.saved \in e.safe

EdSound(js, e) ==
    /\ e \in EdType /\ (e = NoEd \/ e.id # 0)
    /\ e.id # 0 => Opening(js, e) /\ Unready(js, e) /\ Stored(js, e) /\ Careful(js, e)

DiskTyped == disk \in [Paths -> Texts \cup {Absent}]
StoreTyped == cur \in Dirs /\ files \subseteq Paths /\ selected \subseteq Paths /\ loading \in BOOLEAN
PopupsTyped ==
    /\ clip \in [op : {"none", "copy", "cut"}, paths : SUBSET Paths]
    /\ dialog \in {"none", "delete", "rename", "folder", "file"} /\ pending \subseteq Paths
    /\ ctxItem \in MaybePath /\ (dialog = "rename" => ctxItem # NoPath)
EditorShown == editing \in MaybePath /\ (editing = NoPath <=> ed = NoEd)
FewActs == acts \in 0..MaxActs /\ Cardinality(jobs) <= acts + 1

SavedInv ==
    /\ Requests(jobs) /\ EdSound(jobs, ed) /\ DiskTyped /\ StoreTyped /\ PopupsTyped /\ EditorShown
    /\ uploading \in BOOLEAN /\ FewActs

LEMMA NoEdSound == ASSUME NEW js PROVE EdSound(js, NoEd) /\ NoEd.id = 0
BY ConstantsOK DEF EdSound, NoEd, EdType

LEMMA JobMade ==
  ASSUME NEW n \in Nat, NEW kind \in Kinds, NEW dir \in Dirs, NEW path \in MaybePath
  PROVE  LET j == Job(n, kind, dir, path) IN
         /\ j \in JobType /\ j.n = n /\ j.kind = kind /\ j.dir = dir /\ j.path = path /\ j.to = NoPath
         /\ j.who = 0 /\ j.state = "sent" /\ j.paths = {}
BY ConstantsOK DEF Job, JobType, MaybePath

LEMMA SavedInit == Init => SavedInv
<1>. SUFFICES ASSUME Init PROVE SavedInv
  OBVIOUS
<1>. DEFINE j == Job(0, "home", Start, NoPath)
<1>1. j \in JobType /\ Fits(j)
  BY ConstantsOK, JobMade DEF Kinds, MaybePath, Fits, EdKinds
<1>2. jobs = {j} /\ ed = NoEd /\ editing = NoPath
  BY DEF Init
<1>. HIDE DEF j
<1>3. IsFiniteSet(jobs) /\ Cardinality(jobs) = 1
  BY <1>2, FS_Singleton
<1>4. Requests(jobs)
  BY <1>1, <1>2, <1>3 DEF Requests, Apart
<1>5. acts = 0 /\ uploading = FALSE /\ FewActs
  BY <1>3, ConstantsOK DEF Init, FewActs
<1>6. DiskTyped
  BY ConstantsOK DEF Init, DiskTyped
<1>7. StoreTyped
  BY ConstantsOK DEF Init, StoreTyped
<1>8. PopupsTyped /\ EditorShown
  BY DEF Init, PopupsTyped, EditorShown, MaybePath
<1>. QED
  BY <1>2, <1>4, <1>5, <1>6, <1>7, <1>8, NoEdSound DEF SavedInv

----------------------------------------------------------------------------
(* The number of a new request is used by no request and no editor.         *)

(* Every nonempty set of numbers has a least one.                           *)
LEMMA LeastNumber ==
  ASSUME NEW T \in SUBSET Nat, T # {}
  PROVE  \E x \in T : \A y \in T : x <= y
<1>. DEFINE U == {0..n : n \in T}
            R == StrictSubsetOrdering(Nat)
<1>0. \A n \in Nat : 0..n \in FiniteSubsetsOf(Nat)
  <2>. TAKE n \in Nat
  <2>1. IsFiniteSet(0..n)
    BY FS_Interval
  <2>. QED
    BY <2>1 DEF FiniteSubsetsOf
<1>1. U \subseteq FiniteSubsetsOf(Nat) /\ U # {}
  BY <1>0
<1>2. IsWellFoundedOn(R, FiniteSubsetsOf(Nat))
  BY FS_StrictSubsetOrderingWellFounded
<1>. HIDE DEF U, R
<1>3. PICK I \in U : \A J \in U : ~(<<J, I>> \in R)
  BY <1>1, <1>2, WFMin
<1>4. PICK x \in T : I = 0..x
  BY DEF U
<1>5. ASSUME NEW y \in T, y < x PROVE FALSE
  <2>1. 0..y \in U
    BY DEF U
  <2>2. 0..y \subseteq 0..x /\ x \in 0..x /\ x \notin 0..y
    BY <1>5
  <2>3. <<0..y, 0..x>> \in R
    BY <2>2 DEF R, StrictSubsetOrdering
  <2>. QED
    BY <1>3, <1>4, <2>1, <2>3
<1>. QED
  BY <1>5

InUse(m) == m = ed.id \/ \E j \in jobs : m \in {j.n, j.who}

LEMMA FreeNumber ==
  ASSUME SavedInv, acts < MaxActs
  PROVE  \E m \in 1..(2 * MaxActs + 2) : ~InUse(m)
<1>. DEFINE ns == {j.n : j \in jobs}
            ws == {j.who : j \in jobs}
            f == [j \in jobs |-> j.n]
            g == [j \in jobs |-> j.who]
            used == (ns \cup ws) \cup {ed.id}
            top == 2 * MaxActs + 2
<1>1. IsFiniteSet(jobs) /\ Cardinality(jobs) \in Nat /\ Cardinality(jobs) <= MaxActs /\ MaxActs \in Nat
  BY FS_CardinalityType, ConstantsOK DEF SavedInv, Requests, FewActs
<1>2. f \in Surjection(jobs, ns) /\ g \in Surjection(jobs, ws)
  BY DEF Surjection
<1>3. IsFiniteSet(ns) /\ Cardinality(ns) <= MaxActs /\ Cardinality(ns) \in Nat
  BY <1>1, <1>2, FS_Surjection, FS_CardinalityType
<1>4. IsFiniteSet(ws) /\ Cardinality(ws) <= MaxActs /\ Cardinality(ws) \in Nat
  BY <1>1, <1>2, FS_Surjection, FS_CardinalityType
<1>. HIDE DEF ns, ws
<1>5. IsFiniteSet(ns \cup ws) /\ Cardinality(ns \cup ws) \in Nat /\ Cardinality(ns \cup ws) <= 2 * MaxActs
  <2>1. IsFiniteSet(ns \cup ws)
    BY <1>3, <1>4, FS_Union
  <2>2. Cardinality(ns \cup ws) = Cardinality(ns) + Cardinality(ws) - Cardinality(ns \cap ws)
    BY <1>3, <1>4, FS_Union
  <2>3. Cardinality(ns \cap ws) \in Nat /\ Cardinality(ns \cup ws) \in Nat
    BY <1>3, <2>1, FS_Intersection, FS_CardinalityType
  <2>. QED
    BY <1>1, <1>3, <1>4, <2>1, <2>2, <2>3
<1>6. IsFiniteSet(used) /\ Cardinality(used) <= 2 * MaxActs + 1 /\ Cardinality(used) \in Nat
  <2>1. IsFiniteSet(used) /\ (Cardinality(used) = Cardinality(ns \cup ws) \/ Cardinality(used) = Cardinality(ns \cup ws) + 1)
    BY <1>5, FS_AddElement
  <2>. QED
    BY <1>1, <1>5, <2>1
<1>7. Cardinality(1..top) = top
  <2>1. top \in Nat /\ top >= 1
    BY <1>1
  <2>. HIDE DEF top
  <2>2. Cardinality(1..top) = IF 1 > top THEN 0 ELSE top - 1 + 1
    BY <2>1, FS_Interval
  <2>. QED
    BY <2>1, <2>2
<1>8. ASSUME 1..top \subseteq used PROVE FALSE
  <2>. HIDE DEF used
  <2>1. Cardinality(1..top) <= Cardinality(used)
    BY <1>6, <1>8, FS_Subset
  <2>. QED
    BY <1>1, <1>6, <1>7, <2>1
<1>9. PICK m \in 1..top : m \notin used
  BY <1>8
<1>10. ~InUse(m)
  BY <1>9 DEF InUse, ns, ws
<1>. QED
  BY <1>9, <1>10

NewNumber(m) == m \in Nat \ {0} /\ ~InUse(m)

LEMMA FreshNumber == ASSUME SavedInv, Acts PROVE NewNumber(Fresh)
<1>. DEFINE top == 2 * MaxActs + 2
            T == {m \in 1..top : ~InUse(m)}
<1>1. top \in Nat /\ T \in SUBSET Nat /\ T # {}
  BY FreeNumber, ConstantsOK DEF SavedInv, Acts
<1>2. PICK x \in T : \A y \in T : x <= y
  BY <1>1, LeastNumber
<1>3. x \in 1..top /\ ~InUse(x)
  OBVIOUS
<1>4. \A m \in 1..(x - 1) : InUse(m)
  BY <1>1, <1>2, <1>3
<1>. DEFINE P(n) == /\ \A j \in jobs : n \notin {j.n, j.who}
                    /\ n # ed.id
                    /\ \A m \in 1..(n - 1) : m = ed.id \/ \E j \in jobs : m \in {j.n, j.who}
<1>5. P(x)
  BY <1>3, <1>4 DEF InUse
<1>6. Fresh = CHOOSE n \in 1..top : P(n)
  BY Zenon DEF Fresh
<1>. HIDE DEF P
<1>7. Fresh \in 1..top /\ P(Fresh)
  BY <1>3, <1>5, <1>6
<1>. QED
  BY <1>1, <1>7 DEF NewNumber, InUse, P

----------------------------------------------------------------------------
(* Requests and editors, one change at a time.                              *)

(* A request k under a number no one uses.                                  *)
Joinable(js, k) ==
    /\ k \in JobType /\ Fits(k) /\ k.n # 0
    /\ \A j \in js : /\ k.n # j.n /\ (j.kind \in EdKinds => j.who # k.n)
                     /\ k.kind \in EdKinds => k.who # j.n

LEMMA JoinRequests ==
  ASSUME NEW js, Requests(js), NEW k, Joinable(js, k)
  PROVE  /\ Requests(js \cup {k})
         /\ Cardinality(js \cup {k}) \in Nat /\ Cardinality(js \cup {k}) <= Cardinality(js) + 1
<1>1. IsFiniteSet(js) /\ Cardinality(js) \in Nat
  BY FS_CardinalityType DEF Requests
<1>2. IsFiniteSet(js \cup {k}) /\ Cardinality(js \cup {k}) \in {Cardinality(js), Cardinality(js) + 1}
  BY <1>1, FS_AddElement
<1>3. Apart(js \cup {k})
  BY DEF Requests, Apart, Joinable
<1>. QED
  BY <1>1, <1>2, <1>3 DEF Requests, Joinable

LEMMA DropRequests ==
  ASSUME NEW js, Requests(js), NEW j \in js
  PROVE  /\ Requests(js \ {j})
         /\ Cardinality(js \ {j}) \in Nat /\ Cardinality(js \ {j}) + 1 = Cardinality(js)
<1>1. IsFiniteSet(js) /\ Cardinality(js) \in Nat
  BY FS_CardinalityType DEF Requests
<1>2. IsFiniteSet(js \ {j}) /\ Cardinality(js \ {j}) \in Nat
  BY <1>1, FS_RemoveElement, FS_CardinalityType
<1>3. Cardinality(js \ {j}) = Cardinality(js) - 1
  BY <1>1, FS_RemoveElement
<1>. QED
  BY <1>1, <1>2, <1>3 DEF Requests, Apart

(* A request k in the place of j.                                           *)
Takes(js, j, k) ==
    /\ j \in js /\ k \in JobType /\ Fits(k) /\ k.n = j.n
    /\ k.kind \in EdKinds => k.who = k.n \/ (k.kind = j.kind /\ k.who = j.who)

LEMMA TakeRequests ==
  ASSUME NEW js, Requests(js), NEW j, NEW k, Takes(js, j, k)
  PROVE  /\ Requests((js \ {j}) \cup {k})
         /\ Cardinality((js \ {j}) \cup {k}) \in Nat
         /\ Cardinality((js \ {j}) \cup {k}) <= Cardinality(js)
<1>1. j \in js /\ Requests(js \ {j}) /\ Cardinality(js \ {j}) \in Nat
      /\ Cardinality(js \ {j}) + 1 = Cardinality(js)
  BY DropRequests DEF Takes
<1>2. IsFiniteSet((js \ {j}) \cup {k})
      /\ Cardinality((js \ {j}) \cup {k}) \in {Cardinality(js \ {j}), Cardinality(js \ {j}) + 1}
  BY <1>1, FS_AddElement DEF Requests
<1>3. Apart((js \ {j}) \cup {k})
  <2>1. \A i \in js \ {j} : /\ i.n # k.n /\ (i.kind \in EdKinds => i.who # k.n)
                            /\ (k.kind \in EdKinds => k.who # i.n)
    BY <1>1 DEF Requests, Apart, Takes
  <2>. QED
    BY <1>1, <2>1 DEF Requests, Apart
<1>. QED
  BY <1>1, <1>2, <1>3 DEF Requests, Takes

LEMMA FewerSound ==
  ASSUME NEW js, NEW ks, ks \subseteq js, NEW e, EdSound(js, e)
  PROVE  EdSound(ks, e)
<1>1. /\ Opening(js, e) => Opening(ks, e)
      /\ Unready(js, e) => Unready(ks, e)
      /\ Stored(js, e) => Stored(ks, e)
      /\ Careful(js, e) => Careful(ks, e)
  BY Zenon DEF Opening, Unready, Stored, Careful, OneSave
<1>. QED
  BY <1>1, Zenon DEF EdSound

(* A request that is neither numbered as the editor nor its save.           *)
LEMMA MoreSound ==
  ASSUME NEW js, NEW e, EdSound(js, e), NEW k, k.n # e.id \/ e.id = 0, ~Saves(k, e)
  PROVE  EdSound(js \cup {k}, e)
<1>1. /\ Unready(js, e) => Unready(js \cup {k}, e)
      /\ Stored(js, e) => Stored(js \cup {k}, e)
      /\ Careful(js, e) => Careful(js \cup {k}, e)
      /\ Opening(js, e) /\ k.n # e.id => Opening(js \cup {k}, e)
  BY DEF Opening, Unready, Stored, Careful, OneSave
<1>. QED
  BY <1>1 DEF EdSound

LEMMA TakesSound ==
  ASSUME NEW js, NEW e, EdSound(js, e), NEW j, NEW k, Takes(js, j, k),
         j.kind # "read", k.kind \notin SaveKinds
  PROVE  EdSound((js \ {j}) \cup {k}, e)
<1>1. EdSound(js \ {j}, e)
  BY FewerSound
<1>2. k.n # e.id \/ e.id = 0
  BY DEF Takes, EdSound, Opening
<1>. QED
  BY <1>1, <1>2, MoreSound DEF Saves

(* A new editor, whose only request is the reading of its file.             *)
LEMMA MountedSound ==
  ASSUME NEW js, NEW n \in Nat \ {0}, \A j \in js : j.n # n /\ (j.kind \in EdKinds => j.who # n),
         NEW k, k.kind = "read"
  PROVE  EdSound(js \cup {k}, [NoEd EXCEPT !.id = n, !.phase = "loading"])
<1>. DEFINE e == [NoEd EXCEPT !.id = n, !.phase = "loading"]
<1>1. e \in EdType /\ e.id = n /\ e.phase = "loading" /\ e.dirty = FALSE /\ e.saving = FALSE /\ e.late = FALSE
  BY ConstantsOK DEF NoEd, EdType
<1>. HIDE DEF e
<1>2. \A j \in js \cup {k} : ~Saves(j, e)
  BY <1>1 DEF Saves, SaveKinds, EdKinds
<1>3. Opening(js \cup {k}, e)
  BY <1>1 DEF Opening
<1>4. Unready(js \cup {k}, e) /\ Stored(js \cup {k}, e) /\ Careful(js \cup {k}, e)
  BY <1>1, <1>2 DEF Unready, Stored, Careful, OneSave
<1>5. EdSound(js \cup {k}, e)
  BY <1>1, <1>3, <1>4 DEF EdSound
<1>. QED
  BY <1>5 DEF e

(* What the editor's own steps do to it.                                    *)

TypedIn(e, x, t) == x = [e EXCEPT !.doc = t, !.dirty = (t # e.saved), !.late = e.late \/ e.saving]

LEMMA TypedSound ==
  ASSUME NEW js, NEW e, EdSound(js, e), e.phase = "ready", e.id # 0, NEW t \in Texts, NEW x, TypedIn(e, x, t)
  PROVE  EdSound(js, x) /\ x.id = e.id
<1>1. e \in EdType
  BY DEF EdSound
<1>2. /\ x \in EdType /\ x.id = e.id /\ x.phase = e.phase /\ x.doc = t /\ x.saved = e.saved
      /\ x.saving = e.saving /\ x.safe = e.safe
  BY <1>1 DEF EdType, TypedIn
<1>3. (x.dirty <=> t # e.saved) /\ (~x.late => ~e.late /\ ~e.saving)
  BY <1>1 DEF EdType, TypedIn
<1>4. \A j : Saves(j, x) <=> Saves(j, e)
  BY <1>2 DEF Saves
<1>5. Opening(js, x) /\ Unready(js, x) /\ Stored(js, x)
  BY <1>2, <1>4 DEF EdSound, Opening, Unready, Stored
<1>6. Careful(js, x)
  BY <1>2, <1>3, <1>4 DEF EdSound, Careful, OneSave
<1>. QED
  BY <1>2, <1>5, <1>6 DEF EdSound

SaveBegins(e, x) == x = [e EXCEPT !.saving = TRUE, !.late = e.late \/ e.saving]

LEMMA SavingSound ==
  ASSUME NEW js, NEW e, EdSound(js, e), e.phase = "ready", e.id # 0,
         NEW k, k.n # e.id, Saves(k, e), k.state = "sent", k.text = e.doc,
         NEW x, SaveBegins(e, x)
  PROVE  EdSound(js \cup {k}, x) /\ x.id = e.id
<1>1. e \in EdType
  BY DEF EdSound
<1>2. /\ x \in EdType /\ x.id = e.id /\ x.phase = e.phase /\ x.doc = e.doc /\ x.saved = e.saved
      /\ x.dirty = e.dirty /\ x.safe = e.safe
  BY <1>1 DEF EdType, SaveBegins
<1>3. x.saving = TRUE /\ (~x.late => ~e.late /\ ~e.saving)
  BY <1>1 DEF EdType, SaveBegins
<1>4. \A j : Saves(j, x) <=> Saves(j, e)
  BY <1>2 DEF Saves
<1>5. Opening(js \cup {k}, x) /\ Unready(js \cup {k}, x) /\ Stored(js \cup {k}, x)
  BY <1>2, <1>4 DEF EdSound, Opening, Unready, Stored
<1>6. Careful(js \cup {k}, x)
  <2>. SUFFICES ASSUME ~x.late PROVE OneSave(js \cup {k}, x) /\ (x.dirty <=> x.doc # x.saved) /\ x.saved \in x.safe
    BY Zenon DEF Careful
  <2>1. OneSave(js, e) /\ (e.dirty <=> e.doc # e.saved) /\ e.saved \in e.safe
    BY <1>3, Zenon DEF EdSound, Careful
  <2>2. \A j \in js : ~Saves(j, e)
    BY <1>3, <2>1 DEF OneSave
  <2>3. OneSave(js \cup {k}, x)
    BY <1>2, <1>3, <1>4, <2>2 DEF OneSave
  <2>. QED
    BY <1>2, <2>1, <2>3
<1>. QED
  BY <1>2, <1>5, <1>6 DEF EdSound

LEMMA SavedSound ==
  ASSUME NEW js, NEW e, EdSound(js, e), e.id # 0, NEW j \in js, Saves(j, e), j.text \in Texts
  PROVE  EdSound(js \ {j}, Saved(e, j)) /\ Saved(e, j).id = e.id
<1>. DEFINE x == Saved(e, j)
            ks == js \ {j}
<1>1. e \in EdType
  BY DEF EdSound
<1>2. e.phase = "ready"
  BY DEF EdSound, Unready
<1>3. /\ x \in EdType /\ x.id = e.id /\ x.phase = "ready" /\ x.doc = e.doc
      /\ x.saving = FALSE /\ x.safe = e.safe /\ x.late = e.late
  BY <1>1, <1>2 DEF EdType, Saved
<1>4. \/ j.state = "ok" /\ x.saved = j.text /\ x.dirty = FALSE
      \/ x.saved = e.saved /\ x.dirty = e.dirty
  BY <1>1 DEF EdType, Saved
<1>. HIDE DEF x
<1>5. \A i : Saves(i, x) <=> Saves(i, e)
  BY <1>3 DEF Saves
<1>6. Opening(ks, x) /\ Unready(ks, x) /\ Stored(ks, x)
  BY <1>2, <1>3, <1>5 DEF EdSound, Opening, Unready, Stored
<1>7. Careful(ks, x)
  <2>. SUFFICES ASSUME ~e.late PROVE OneSave(ks, x) /\ (x.dirty <=> x.doc # x.saved) /\ x.saved \in x.safe
    BY <1>3, Zenon DEF Careful
  <2>1. OneSave(js, e) /\ (e.dirty <=> e.doc # e.saved) /\ e.saved \in e.safe
    BY <1>2, Zenon DEF EdSound, Careful
  <2>2. \A i \in ks : ~Saves(i, x)
    BY <1>5, <2>1 DEF OneSave
  <2>3. j.state = "ok" => j.text \in e.safe /\ j.text = e.doc
    BY <2>1 DEF EdSound, Stored, OneSave
  <2>4. (x.dirty <=> x.doc # x.saved) /\ x.saved \in x.safe
    BY <1>3, <1>4, <2>1, <2>3
  <2>. QED
    BY <2>2, <2>4 DEF OneSave
<1>8. EdSound(ks, x) /\ x.id = e.id
  BY <1>3, <1>6, <1>7 DEF EdSound
<1>. QED
  BY <1>8 DEF x

ReadIn(e, x, t) ==
    \/ x = [e EXCEPT !.phase = "failed"]
    \/ \E b \in BOOLEAN : x = [e EXCEPT !.phase = "ready", !.doc = t, !.saved = t, !.isNew = b, !.safe = {t}]

LEMMA ReadSound ==
  ASSUME NEW js, Requests(js), NEW e, EdSound(js, e), NEW j \in js, j.n = e.id, e.id # 0,
         NEW x, ReadIn(e, x, j.text)
  PROVE  EdSound(js \ {j}, x) /\ x.id = e.id
<1>1. e \in EdType /\ j.text \in Texts /\ e.phase = "loading"
  BY DEF EdSound, Opening, Requests, JobType
<1>2. ~e.dirty /\ ~e.saving /\ \A i \in js : ~Saves(i, e)
  BY <1>1 DEF EdSound, Unready
<1>3. \A i \in js \ {j} : i.n # e.id
  BY DEF Requests, Apart
<1>4. /\ x \in EdType /\ x.id = e.id /\ x.dirty = e.dirty /\ x.saving = e.saving
      /\ \/ x.phase = "failed"
         \/ x.phase = "ready" /\ x.doc = x.saved /\ x.saved \in x.safe
  <2>1. CASE x = [e EXCEPT !.phase = "failed"]
    BY <1>1, <2>1 DEF EdType
  <2>2. ASSUME NEW b \in BOOLEAN,
               x = [e EXCEPT !.phase = "ready", !.doc = j.text, !.saved = j.text, !.isNew = b, !.safe = {j.text}]
        PROVE  /\ x \in EdType /\ x.id = e.id /\ x.dirty = e.dirty /\ x.saving = e.saving
               /\ x.phase = "ready" /\ x.doc = x.saved /\ x.saved \in x.safe
    BY <1>1, <2>2 DEF EdType
  <2>. QED
    BY <2>1, <2>2 DEF ReadIn
<1>5. \A i \in js \ {j} : ~Saves(i, x)
  BY <1>2, <1>4 DEF Saves
<1>6. Opening(js \ {j}, x) /\ Unready(js \ {j}, x) /\ Stored(js \ {j}, x) /\ OneSave(js \ {j}, x)
  BY <1>2, <1>3, <1>4, <1>5 DEF Opening, Unready, Stored, OneSave
<1>7. Careful(js \ {j}, x)
  BY <1>2, <1>4, <1>6 DEF Careful
<1>. QED
  BY <1>4, <1>6, <1>7 DEF EdSound

(* A served request keeps its number, its kind and its editor; the server   *)
(* remembers the text of a save that it took.                               *)
Remembers(e, x, s) == x = e \/ (e.id # 0 /\ x = [e EXCEPT !.safe = s])

LEMMA ServedSound ==
  ASSUME NEW js, NEW e, EdSound(js, e), NEW j, NEW k, Takes(js, j, k),
         k.kind = j.kind, k.who = j.who, j.kind \in SaveKinds => k.text = j.text,
         NEW s \in SUBSET Texts, e.safe \subseteq s, NEW x, Remembers(e, x, s),
         Saves(k, e) /\ k.state = "ok" => k.text \in x.safe
  PROVE  EdSound((js \ {j}) \cup {k}, x) /\ x.id = e.id
<1>. DEFINE ks == (js \ {j}) \cup {k}
<1>1. e \in EdType /\ j \in js /\ k.n = j.n
  BY DEF EdSound, Takes
<1>2. /\ x \in EdType /\ x.id = e.id /\ x.phase = e.phase /\ x.doc = e.doc /\ x.saved = e.saved
      /\ x.dirty = e.dirty /\ x.saving = e.saving /\ x.late = e.late /\ e.safe \subseteq x.safe
  <2>1. CASE x = e
    BY <1>1, <2>1
  <2>2. CASE x = [e EXCEPT !.safe = s]
    BY <1>1, <2>2 DEF EdType
  <2>. QED
    BY <2>1, <2>2 DEF Remembers
<1>3. CASE e.id = 0
  BY <1>1, <1>3 DEF EdSound, Remembers
<1>4. CASE e.id # 0
  <2>1. \A i : Saves(i, x) <=> Saves(i, e)
    BY <1>2 DEF Saves
  <2>2. Saves(k, e) <=> Saves(j, e)
    BY DEF Saves
  <2>3. Saves(j, e) => k.text = j.text
    BY DEF Saves
  <2>4. Opening(ks, x)
    BY <1>1, <1>2, <1>4 DEF EdSound, Opening
  <2>5. Unready(ks, x)
    BY <1>1, <1>2, <1>4, <2>1, <2>2 DEF EdSound, Unready
  <2>6. Stored(ks, x)
    BY <1>1, <1>2, <1>4, <2>1 DEF EdSound, Stored
  <2>7. OneSave(js, e) => OneSave(ks, x)
    BY <1>1, <1>2, <2>1, <2>2, <2>3 DEF OneSave
  <2>8. Careful(ks, x)
    BY <1>2, <1>4, <2>7 DEF EdSound, Careful
  <2>. QED
    BY <1>2, <1>4, <2>4, <2>5, <2>6, <2>8 DEF EdSound
<1>. QED
  BY <1>3, <1>4

----------------------------------------------------------------------------
(* What the user does.                                                      *)

LEMMA MoreActs ==
  ASSUME SavedInv, acts' = acts \/ Acts
  PROVE  /\ acts' \in 0..MaxActs /\ acts' >= acts /\ (Acts => acts' = acts + 1)
         /\ acts \in Nat /\ Cardinality(jobs) \in Nat
  BY FS_CardinalityType, ConstantsOK DEF SavedInv, Requests, FewActs, Acts

LEMMA Idle ==
  ASSUME SavedInv, UNCHANGED <<jobs, ed, editing, disk, uploading>>, acts' = acts \/ Acts,
         StoreTyped', PopupsTyped'
  PROVE  SavedInv'
<1>1. FewActs'
  BY MoreActs DEF SavedInv, FewActs
<1>. QED
  BY <1>1 DEF SavedInv, DiskTyped, EditorShown

LEMMA AsksOne ==
  ASSUME SavedInv, Acts, NEW k, k \in JobType, Fits(k), k.n = Fresh, k.kind \notin EdKinds,
         jobs' = jobs \cup {k}, ed' = ed \/ ed' = NoEd,
         DiskTyped', StoreTyped', PopupsTyped', EditorShown', uploading' \in BOOLEAN
  PROVE  SavedInv'
<1>1. k.n \in Nat \ {0} /\ ~InUse(k.n)
  BY FreshNumber DEF NewNumber
<1>2. Joinable(jobs, k)
  BY <1>1 DEF Joinable, InUse
<1>3. Requests(jobs') /\ Cardinality(jobs') \in Nat /\ Cardinality(jobs') <= Cardinality(jobs) + 1
  BY <1>2, JoinRequests DEF SavedInv
<1>4. EdSound(jobs', ed')
  <2>1. ~Saves(k, ed) /\ k.n # ed.id
    BY <1>1 DEF Saves, SaveKinds, EdKinds, InUse
  <2>2. EdSound(jobs', ed)
    BY <2>1, MoreSound DEF SavedInv
  <2>. QED
    BY <2>2, NoEdSound
<1>5. FewActs'
  BY <1>3, MoreActs DEF SavedInv, FewActs
<1>. QED
  BY <1>3, <1>4, <1>5 DEF SavedInv

LEMMA LooksSaved ==
  ASSUME SavedInv,
         \/ HeaderCheckbox \/ ClearSelection \/ CloseMenu \/ RequestDelete \/ StartRename \/ CancelDialog
         \/ \E p \in Paths : PickRow(p) \/ HandleContextMenu(p)
         \/ \E kind \in {"folder", "file"} : AskName(kind)
         \/ \E op \in {"copy", "cut"} : CopyOrCut(op)
  PROVE  SavedInv'
<1>1. UNCHANGED <<jobs, ed, editing, disk, uploading>> /\ (acts' = acts \/ Acts)
  BY DEF HeaderCheckbox, ClearSelection, CloseMenu, RequestDelete, StartRename, CancelDialog, PickRow,
         HandleContextMenu, AskName, CopyOrCut, editor
<1>2. StoreTyped /\ PopupsTyped
  BY DEF SavedInv
<1>3. StoreTyped'
  <2>1. CASE HeaderCheckbox
    BY <1>2, <2>1 DEF HeaderCheckbox, StoreTyped
  <2>2. CASE ClearSelection
    BY <1>2, <2>2 DEF ClearSelection, StoreTyped
  <2>3. CASE \E p \in Paths : PickRow(p)
    BY <1>2, <2>3 DEF PickRow, SelectFile, StoreTyped
  <2>4. CASE \E p \in Paths : HandleContextMenu(p)
    BY <1>2, <2>4 DEF HandleContextMenu, SelectFile, StoreTyped
  <2>5. CASE UNCHANGED store
    BY <1>2, <2>5 DEF store, StoreTyped
  <2>. QED
    BY <2>1, <2>2, <2>3, <2>4, <2>5
       DEF CloseMenu, RequestDelete, StartRename, CancelDialog, AskName, CopyOrCut
<1>4. PopupsTyped'
  <2>1. CASE HeaderCheckbox \/ ClearSelection \/ \E p \in Paths : PickRow(p)
    BY <1>2, <2>1 DEF HeaderCheckbox, ClearSelection, PickRow, PopupsTyped, popups
  <2>2. CASE CloseMenu
    BY <1>2, <2>2 DEF CloseMenu, PopupsTyped, MaybePath
  <2>3. CASE RequestDelete
    <3>1. dialog # "rename"
      BY <2>3 DEF RequestDelete, Bare, Menu
    <3>2. selected \subseteq Paths
      BY <1>2 DEF StoreTyped
    <3>. QED
      BY <1>2, <2>3, <3>1, <3>2 DEF RequestDelete, PopupsTyped, MaybePath
  <2>4. CASE StartRename
    BY <1>2, <2>4 DEF StartRename, Menu, PopupsTyped
  <2>5. CASE CancelDialog
    BY <1>2, <2>5 DEF CancelDialog, PopupsTyped, MaybePath
  <2>6. CASE \E p \in Paths : HandleContextMenu(p)
    BY <1>2, <2>6, ConstantsOK DEF HandleContextMenu, PopupsTyped, MaybePath
  <2>7. CASE \E kind \in {"folder", "file"} : AskName(kind)
    BY <1>2, <2>7 DEF AskName, PopupsTyped
  <2>8. CASE \E op \in {"copy", "cut"} : CopyOrCut(op)
    <3>1. selected \subseteq Paths
      BY <1>2 DEF StoreTyped
    <3>. QED
      BY <1>2, <2>8, <3>1 DEF CopyOrCut, Menu, PopupsTyped, MaybePath
  <2>. QED
    BY <2>1, <2>2, <2>3, <2>4, <2>5, <2>6, <2>7, <2>8
<1>. QED
  BY <1>1, <1>3, <1>4, Idle

LEMMA FetchSaved ==
  ASSUME SavedInv, CloseEditor \/ \E d \in Dirs : HandleNavigate(d)
  PROVE  SavedInv'
<1>1. Acts /\ UNCHANGED <<disk, clip, popups, uploading>>
  BY DEF CloseEditor, HandleNavigate
<1>2. \E d \in Dirs : FetchFiles(Fresh, d, NoPath, jobs)
  BY DEF CloseEditor, HandleNavigate, SavedInv, StoreTyped
<1>3. \/ UNCHANGED <<editing, ed>>
      \/ editing' = NoPath /\ ed' = NoEd
  BY DEF CloseEditor, HandleNavigate, editor
<1>4. PICK d \in Dirs : FetchFiles(Fresh, d, NoPath, jobs)
  BY <1>2
<1>. DEFINE k == Job(Fresh, "list", d, NoPath)
<1>5. Fresh \in Nat \ {0}
  BY <1>1, FreshNumber DEF NewNumber
<1>6. k \in JobType /\ k.n = Fresh /\ k.kind = "list"
  BY <1>5, JobMade DEF Kinds, MaybePath
<1>7. jobs' = jobs \cup {k} /\ StoreTyped'
  BY <1>4 DEF FetchFiles, StoreTyped, SavedInv
<1>. HIDE DEF k
<1>8. Fits(k) /\ k.kind \notin EdKinds
  BY <1>5, <1>6 DEF Fits, EdKinds
<1>9. DiskTyped' /\ PopupsTyped' /\ EditorShown' /\ uploading' \in BOOLEAN
  <2>1. DiskTyped' /\ uploading' \in BOOLEAN
    BY <1>1 DEF SavedInv, DiskTyped
  <2>2. PopupsTyped'
    BY <1>1 DEF SavedInv, PopupsTyped, popups
  <2>3. EditorShown'
    BY <1>3 DEF SavedInv, EditorShown, MaybePath
  <2>. QED
    BY <2>1, <2>2, <2>3
<1>10. ed' = ed \/ ed' = NoEd
  BY <1>3
<1>. QED
  BY <1>1, <1>6, <1>7, <1>8, <1>9, <1>10, AsksOne

(* A request with one more field set.                                       *)
Like(k, j) == k \in JobType /\ k.n = j.n /\ k.kind = j.kind /\ k.path = j.path

LEMMA WithPaths ==
  ASSUME NEW j \in JobType, NEW v \in SUBSET Paths
  PROVE  Like([j EXCEPT !.paths = v], j)
BY DEF Like, JobType

LEMMA WithTo ==
  ASSUME NEW j \in JobType, NEW v \in MaybePath
  PROVE  Like([j EXCEPT !.to = v], j) /\ [j EXCEPT !.to = v].to = v
BY DEF Like, JobType

LEMMA WithWho ==
  ASSUME NEW j \in JobType, NEW v \in Nat
  PROVE  Like([j EXCEPT !.who = v], j) /\ [j EXCEPT !.who = v].who = v
BY DEF Like, JobType

(* The requests that are not the editor's.                                  *)
Plain(k) ==
    /\ k \in JobType /\ k.kind \notin EdKinds
    /\ k.kind \in {"create", "rename", "chunk"} => k.path # NoPath
    /\ k.kind = "rename" => k.to # NoPath

LEMMA AsksSaved ==
  ASSUME SavedInv,
         \/ ExecuteDelete \/ HandleNewFolder \/ HandlePaste
         \/ \E n \in Names : ConfirmRename(n) \/ HandleNewFile(n) \/ HandleFiles(n)
  PROVE  SavedInv'
<1>0. StoreTyped /\ PopupsTyped /\ cur \in Dirs /\ NoPath \in MaybePath
  BY DEF SavedInv, StoreTyped, MaybePath
<1>1. Acts /\ UNCHANGED <<disk, store, editing, ed>> /\ uploading' \in BOOLEAN
  BY DEF ExecuteDelete, HandleNewFolder, HandlePaste, ConfirmRename, HandleNewFile, HandleFiles, editor, SavedInv
<1>2. DiskTyped' /\ StoreTyped' /\ EditorShown'
  BY <1>0, <1>1 DEF SavedInv, DiskTyped, StoreTyped, EditorShown, store
<1>3. PopupsTyped'
  BY <1>0 DEF ExecuteDelete, HandleNewFolder, HandlePaste, ConfirmRename, HandleNewFile, HandleFiles,
              PopupsTyped, popups, MaybePath, Menu
<1>4. Fresh \in Nat /\ Fresh # 0 /\ {"delete", "mkdir", "create", "rename", "chunk", "move", "copy"} \subseteq Kinds
  BY <1>1, FreshNumber DEF NewNumber, Kinds
<1>5. ASSUME NEW k, Plain(k), k.n = Fresh, jobs' = jobs \cup {k} PROVE SavedInv'
  <2>1. k \in JobType /\ Fits(k) /\ k.kind \notin EdKinds
    BY <1>4, <1>5 DEF Plain, Fits, EdKinds
  <2>2. ed' = ed
    BY <1>1
  <2>. QED
    BY <1>1, <1>2, <1>3, <1>5, <2>1, <2>2, AsksOne
<1>6. CASE ExecuteDelete
  <2>. DEFINE j == Job(Fresh, "delete", cur, NoPath)
             k == [j EXCEPT !.paths = pending]
  <2>1. j \in JobType /\ j.n = Fresh /\ j.kind = "delete"
    BY <1>0, <1>4, JobMade
  <2>2. jobs' = jobs \cup {k} /\ pending \in SUBSET Paths
    BY <1>0, <1>6 DEF ExecuteDelete, Ask, PopupsTyped
  <2>. HIDE DEF j
  <2>3. Like(k, j)
    BY <2>1, <2>2, WithPaths
  <2>. HIDE DEF k
  <2>. QED
    BY <1>5, <2>1, <2>2, <2>3 DEF Like, Plain, EdKinds
<1>7. CASE HandleNewFolder
  <2>. DEFINE k == Job(Fresh, "mkdir", cur, NoPath)
  <2>1. k \in JobType /\ k.n = Fresh /\ k.kind = "mkdir"
    BY <1>0, <1>4, JobMade
  <2>2. jobs' = jobs \cup {k}
    BY <1>7 DEF HandleNewFolder, Ask
  <2>. HIDE DEF k
  <2>. QED
    BY <1>5, <2>1, <2>2 DEF Plain, EdKinds
<1>8. CASE HandlePaste
  <2>. DEFINE kind == IF clip.op = "cut" THEN "move" ELSE "copy"
             j == Job(Fresh, kind, cur, NoPath)
             k == [j EXCEPT !.paths = clip.paths]
  <2>1. j \in JobType /\ j.n = Fresh /\ j.kind = kind
    BY <1>0, <1>4, JobMade
  <2>2. jobs' = jobs \cup {k} /\ clip.paths \in SUBSET Paths
    BY <1>0, <1>8 DEF HandlePaste, Ask, PopupsTyped
  <2>. HIDE DEF j
  <2>3. Like(k, j)
    BY <2>1, <2>2, WithPaths
  <2>. HIDE DEF k
  <2>4. kind \notin {"create", "rename", "chunk"} /\ kind \notin EdKinds
    BY DEF EdKinds
  <2>. HIDE DEF kind
  <2>. QED
    BY <1>5, <2>1, <2>2, <2>3, <2>4 DEF Like, Plain
<1>9. ASSUME NEW m \in Names, ConfirmRename(m) PROVE SavedInv'
  <2>. DEFINE to == <<ctxItem[1], m>>
             j == Job(Fresh, "rename", cur, ctxItem)
             k == [j EXCEPT !.to = to]
  <2>1. ctxItem \in Paths
    BY <1>0, <1>9 DEF PopupsTyped, MaybePath, ConfirmRename, Dialog
  <2>2. ctxItem # NoPath /\ ctxItem \in MaybePath /\ to # NoPath /\ to \in MaybePath
    BY <2>1, ConstantsOK DEF Paths, MaybePath
  <2>3. j \in JobType /\ j.n = Fresh /\ j.kind = "rename" /\ j.path = ctxItem
    BY <1>0, <1>4, <2>2, JobMade
  <2>4. jobs' = jobs \cup {k}
    BY <1>9 DEF ConfirmRename, Ask
  <2>. HIDE DEF j, to
  <2>5. Like(k, j) /\ k.to = to
    BY <2>2, <2>3, WithTo
  <2>. HIDE DEF k
  <2>. QED
    BY <1>5, <2>2, <2>3, <2>4, <2>5 DEF Like, Plain, EdKinds
<1>10. ASSUME NEW m \in Names, HandleNewFile(m) PROVE SavedInv'
  <2>. DEFINE path == <<cur, m>>
             k == Job(Fresh, "create", cur, path)
  <2>1. path \in MaybePath /\ path # NoPath
    BY <1>0, ConstantsOK DEF Paths, MaybePath
  <2>2. jobs' = jobs \cup {k}
    BY <1>10 DEF HandleNewFile, Ask
  <2>. HIDE DEF path
  <2>3. k \in JobType /\ k.n = Fresh /\ k.kind = "create" /\ k.path = path
    BY <1>0, <1>4, <2>1, JobMade
  <2>. HIDE DEF k
  <2>. QED
    BY <1>5, <2>1, <2>2, <2>3 DEF Plain, EdKinds
<1>11. ASSUME NEW m \in Names, HandleFiles(m) PROVE SavedInv'
  <2>. DEFINE path == <<cur, m>>
             j == Job(Fresh, "chunk", cur, path)
             k == [j EXCEPT !.who = 1]
  <2>1. path \in MaybePath /\ path # NoPath
    BY <1>0, ConstantsOK DEF Paths, MaybePath
  <2>2. jobs' = jobs \cup {k}
    BY <1>11 DEF HandleFiles, Ask, Chunk
  <2>. HIDE DEF path
  <2>3. j \in JobType /\ j.n = Fresh /\ j.kind = "chunk" /\ j.path = path
    BY <1>0, <1>4, <2>1, JobMade
  <2>. HIDE DEF j
  <2>4. Like(k, j)
    BY <2>3, WithWho
  <2>. HIDE DEF k
  <2>. QED
    BY <1>5, <2>1, <2>2, <2>3, <2>4 DEF Like, Plain, EdKinds
<1>. QED
  BY <1>6, <1>7, <1>8, <1>9, <1>10, <1>11

(* Edit keeps the editor that is there; otherwise it mounts one and asks    *)
(* for the file, under a number that is new to the requests in rest.        *)
LEMMA EditSound ==
  ASSUME NEW rest, Requests(rest), EdSound(rest, ed), EditorShown, NEW n \in Nat \ {0},
         \A j \in rest : j.n # n /\ (j.kind \in EdKinds => j.who # n),
         NEW p \in Paths, Edit(n, p, rest)
  PROVE  /\ Requests(jobs') /\ Cardinality(jobs') \in Nat /\ Cardinality(jobs') <= Cardinality(rest) + 1
         /\ EdSound(jobs', ed') /\ EditorShown'
<1>1. p # NoPath /\ p \in MaybePath /\ Cardinality(rest) \in Nat
  BY FS_CardinalityType, ConstantsOK DEF MaybePath, Requests
<1>2. CASE editing # NoPath
  BY <1>1, <1>2 DEF Edit, EditorShown, MaybePath
<1>3. CASE editing = NoPath
  <2>. DEFINE j == Job(n, "read", p[1], p)
             k == [j EXCEPT !.who = n]
  <2>1. ed' = [NoEd EXCEPT !.id = n, !.phase = "loading"] /\ jobs' = rest \cup {k} /\ editing' = p
    BY <1>3 DEF Edit
  <2>2. p[1] \in Dirs /\ n \in Nat /\ "read" \in Kinds
    BY DEF Paths, Kinds
  <2>3. j \in JobType /\ j.n = n /\ j.kind = "read" /\ j.path = p
    BY <1>1, <2>2, JobMade
  <2>. HIDE DEF j
  <2>4. k \in JobType /\ k.n = n /\ k.kind = "read" /\ k.path = p /\ k.who = n
    BY <2>3, WithWho DEF Like
  <2>. HIDE DEF k
  <2>5. Fits(k)
    BY <1>1, <2>4 DEF Fits
  <2>6. Joinable(rest, k)
    BY <2>4, <2>5 DEF Joinable
  <2>7. EdSound(jobs', ed')
    BY <2>1, <2>4, MountedSound
  <2>8. ed' # NoEd
    BY <2>1 DEF NoEd
  <2>9. EditorShown'
    BY <1>1, <2>1, <2>8 DEF EditorShown, MaybePath
  <2>10. /\ Requests(rest \cup {k}) /\ Cardinality(rest \cup {k}) \in Nat
         /\ Cardinality(rest \cup {k}) <= Cardinality(rest) + 1
    BY <2>6, JoinRequests
  <2>. QED
    BY <2>1, <2>7, <2>9, <2>10
<1>. QED
  BY <1>2, <1>3

LEMMA EditsSaved ==
  ASSUME SavedInv, HandleSave \/ (\E p \in Paths : HandleOpen(p)) \/ \E t \in Texts : Type(t)
  PROVE  SavedInv'
<1>0. Acts /\ UNCHANGED <<disk, uploading>>
  BY DEF HandleSave, HandleOpen, Type
<1>1. acts' \in 0..MaxActs /\ acts' = acts + 1 /\ acts \in Nat /\ Cardinality(jobs) \in Nat
      /\ Cardinality(jobs) <= acts + 1
  BY <1>0, MoreActs DEF SavedInv, FewActs
<1>2. NewNumber(Fresh)
  BY <1>0, FreshNumber
<1>3. DiskTyped' /\ uploading' \in BOOLEAN
  BY <1>0 DEF SavedInv, DiskTyped
<1>4. Ready => ed.id # 0 /\ ed.phase = "ready" /\ editing \in Paths /\ editing # NoPath
  BY DEF Ready, SavedInv, EditorShown, MaybePath, EdSound, NoEd
<1>5. CASE HandleSave
  <2>. DEFINE kind == IF ed.isNew THEN "post" ELSE "put"
             j == Job(Fresh, kind, editing[1], editing)
             k == [j EXCEPT !.text = ed.doc, !.who = ed.id]
             x == [ed EXCEPT !.saving = TRUE, !.late = ed.late \/ ed.saving]
  <2>1. Ready /\ ed' = x /\ jobs' = jobs \cup {k} /\ UNCHANGED <<store, clip, popups, editing>>
    BY <1>5 DEF HandleSave, Ask
  <2>2. editing \in MaybePath /\ editing[1] \in Dirs /\ kind \in {"put", "post"}
    BY <1>4, <2>1 DEF MaybePath, Paths
  <2>3. Fresh \in Nat \ {0} /\ Fresh # ed.id /\ ed.id \in Nat /\ ed.doc \in Texts /\ EdSound(jobs, ed)
    BY <1>2 DEF NewNumber, InUse, SavedInv, EdSound, EdType
  <2>. HIDE DEF kind
  <2>4. j \in JobType /\ j.n = Fresh /\ j.kind = kind /\ j.path = editing /\ j.state = "sent"
    <3>1. kind \in Kinds
      BY <2>2 DEF Kinds
    <3>. QED
      BY <2>2, <2>3, <3>1, JobMade
  <2>. HIDE DEF j, x
  <2>5. /\ k \in JobType /\ k.n = Fresh /\ k.kind = kind /\ k.path = editing /\ k.state = "sent"
        /\ k.text = ed.doc /\ k.who = ed.id
    BY <2>3, <2>4 DEF JobType
  <2>. HIDE DEF k
  <2>6. Fits(k) /\ Saves(k, ed)
    BY <1>4, <2>1, <2>2, <2>3, <2>5 DEF Fits, EdKinds, SaveKinds, Saves
  <2>7. \A i \in jobs : i.n # Fresh /\ i.who # Fresh
    BY <1>2 DEF NewNumber, InUse
  <2>8. \A i \in jobs : ed.id # i.n
    BY <1>4, <2>1, <2>3 DEF EdSound, Opening
  <2>9. Joinable(jobs, k)
    BY <2>3, <2>5, <2>6, <2>7, <2>8 DEF Joinable
  <2>10. Requests(jobs') /\ Cardinality(jobs') \in Nat /\ Cardinality(jobs') <= Cardinality(jobs) + 1
    BY <2>1, <2>9, JoinRequests DEF SavedInv
  <2>11. EdSound(jobs', ed') /\ ed'.id = ed.id
    <3>1. k.n # ed.id /\ ed.id # 0 /\ ed.phase = "ready"
      BY <1>4, <2>1, <2>3, <2>5
    <3>2. SaveBegins(ed, ed')
      BY <2>1 DEF x, SaveBegins
    <3>3. EdSound(jobs \cup {k}, ed') /\ ed'.id = ed.id
      BY <2>3, <2>5, <2>6, <3>1, <3>2, SavingSound
    <3>. QED
      BY <2>1, <3>3
  <2>12. EditorShown' /\ StoreTyped' /\ PopupsTyped'
    <3>1. ed' # NoEd
      BY <1>4, <2>1, <2>11 DEF NoEd
    <3>2. EditorShown'
      BY <1>4, <2>1, <2>2, <3>1 DEF EditorShown
    <3>3. StoreTyped'
      BY <2>1 DEF SavedInv, StoreTyped, store
    <3>4. PopupsTyped'
      BY <2>1 DEF SavedInv, PopupsTyped, popups
    <3>. QED
      BY <3>2, <3>3, <3>4
  <2>. QED
    BY <1>1, <1>3, <2>10, <2>11, <2>12 DEF SavedInv, FewActs
<1>6. ASSUME NEW p \in Paths, HandleOpen(p) PROVE SavedInv'
  <2>1. StoreTyped'
    BY <1>6 DEF HandleOpen, SelectFile, SavedInv, StoreTyped
  <2>2. PopupsTyped'
    <3>1. dialog # "rename"
      BY <1>6 DEF HandleOpen, Row, Menu, Bare
    <3>. QED
      BY <1>6, <3>1 DEF HandleOpen, SavedInv, PopupsTyped, MaybePath
  <2>3. CASE UNCHANGED <<jobs, editor>>
    BY <1>0, <2>1, <2>2, <2>3, Idle DEF editor
  <2>4. CASE Edit(Fresh, p, jobs)
    <3>1. Fresh \in Nat \ {0} /\ \A i \in jobs : i.n # Fresh /\ i.who # Fresh
      BY <1>2 DEF NewNumber, InUse
    <3>2. /\ Requests(jobs') /\ Cardinality(jobs') \in Nat /\ Cardinality(jobs') <= Cardinality(jobs) + 1
          /\ EdSound(jobs', ed') /\ EditorShown'
      BY <2>4, <3>1, EditSound DEF SavedInv
    <3>. QED
      BY <1>1, <1>3, <2>1, <2>2, <3>2 DEF SavedInv, FewActs
  <2>. QED
    BY <1>6, <2>3, <2>4 DEF HandleOpen
<1>7. ASSUME NEW t \in Texts, Type(t) PROVE SavedInv'
  <2>1. Ready /\ UNCHANGED <<jobs, store, clip, popups, editing>> /\ TypedIn(ed, ed', t)
    BY <1>7 DEF Type, TypedIn
  <2>2. EdSound(jobs', ed') /\ ed'.id = ed.id
    BY <1>4, <2>1, TypedSound DEF SavedInv
  <2>3. ed' # NoEd
    BY <1>4, <2>1, <2>2 DEF NoEd
  <2>4. EditorShown'
    BY <1>4, <2>1, <2>3 DEF EditorShown, MaybePath
  <2>5. StoreTyped'
    BY <2>1 DEF SavedInv, StoreTyped, store
  <2>6. PopupsTyped'
    BY <2>1 DEF SavedInv, PopupsTyped, popups
  <2>. QED
    BY <1>1, <1>3, <2>1, <2>2, <2>4, <2>5, <2>6 DEF SavedInv, FewActs
<1>. QED
  BY <1>5, <1>6, <1>7

----------------------------------------------------------------------------
(* What the server does and answers.                                        *)

LEMMA EffectTyped ==
  ASSUME DiskTyped, NEW j \in JobType, Fits(j), Effect(j)
  PROVE  DiskTyped'
<1>. DEFINE Held0 == Texts \cup {Absent}
<1>1. disk \in [Paths -> Held0] /\ Uploaded \in Held0 /\ Absent \in Held0 /\ j.text \in Held0
  BY ConstantsOK DEF DiskTyped, JobType
<1>2. CASE j.kind = "delete"
  <2>1. disk' = [p \in Paths |-> IF p \in j.paths THEN Absent ELSE disk[p]]
    BY <1>2 DEF Effect
  <2>. QED
    BY <1>1, <2>1 DEF DiskTyped
<1>3. CASE j.kind = "rename"
  <2>1. disk' = IF disk[j.to] # Absent THEN disk ELSE [disk EXCEPT ![j.to] = disk[j.path], ![j.path] = Absent]
    BY <1>3 DEF Effect
  <2>2. j.path \in Paths /\ j.to \in Paths
    BY <1>3 DEF Fits, JobType, MaybePath
  <2>3. disk[j.path] \in Held0
    BY <1>1, <2>2
  <2>. QED
    BY <1>1, <2>1, <2>2, <2>3 DEF DiskTyped
<1>4. CASE j.kind \in {"create", "put", "post"}
  <2>1. disk' = [disk EXCEPT ![j.path] = j.text]
    BY <1>4 DEF Effect
  <2>. QED
    BY <1>1, <2>1 DEF DiskTyped
<1>5. CASE j.kind \in {"move", "copy"}
  <2>1. disk' = [p \in Paths |-> Pasted(j, p)]
    BY <1>5 DEF Effect
  <2>2. \A p \in Paths : Pasted(j, p) \in Held0
    <3>. TAKE p \in Paths
    <3>. DEFINE from == {s \in j.paths : s[2] = p[2] /\ disk[s] # Absent}
               s0 == CHOOSE s \in from : TRUE
    <3>1. from \subseteq Paths
      BY DEF JobType
    <3>. HIDE DEF from
    <3>2. from # {} => s0 \in Paths
      BY <3>1
    <3>3. Pasted(j, p) \in {disk[s0], Absent, disk[p]} /\ (from = {} => Pasted(j, p) \in {Absent, disk[p]})
      BY Zenon DEF Pasted, from
    <3>. HIDE DEF s0
    <3>. QED
      BY <1>1, <3>2, <3>3
  <2>. QED
    BY <2>1, <2>2 DEF DiskTyped
<1>6. CASE j.kind = "chunk" /\ j.who = Chunks
  <2>1. disk' \in {disk, [disk EXCEPT ![j.path] = Uploaded]}
    BY <1>6 DEF Effect
  <2>. QED
    BY <1>1, <2>1 DEF DiskTyped
<1>7. CASE /\ j.kind \notin {"delete", "rename", "create", "put", "post", "move", "copy"}
           /\ ~(j.kind = "chunk" /\ j.who = Chunks)
  <2>1. disk' = disk
    BY <1>7 DEF Effect
  <2>. QED
    BY <1>1, <2>1 DEF DiskTyped
<1>. QED
  BY <1>2, <1>3, <1>4, <1>5, <1>6, <1>7

LEMMA ServedSaved ==
  ASSUME SavedInv, NEW j \in jobs, NEW done \in BOOLEAN, NEW ok \in BOOLEAN, Serve(j, done, ok)
  PROVE  SavedInv'
<1>. DEFINE a == IF ok THEN "ok" ELSE IF j.kind = "read" /\ Refused(j) THEN "missing" ELSE "bad"
            b == IF ok /\ j.kind = "list" THEN In(j.dir) ELSE {}
            c == IF ok /\ j.kind = "read" THEN disk[j.path] ELSE j.text
            k == [j EXCEPT !.state = a, !.list = b, !.text = c]
            s == ed.safe \cup {j.text}
<1>1. /\ j \in JobType /\ Fits(j) /\ EdSound(jobs, ed) /\ DiskTyped /\ Requests(jobs)
      /\ Cardinality(jobs) <= acts + 1 /\ acts \in 0..MaxActs /\ ed \in EdType
  BY DEF SavedInv, Requests, FewActs, EdSound
<1>2. /\ (ok => done) /\ (done => ~Refused(j)) /\ jobs' = (jobs \ {j}) \cup {k}
      /\ UNCHANGED <<store, clip, popups, editing, uploading, acts>>
  BY DEF Serve
<1>3. DiskTyped'
  <2>1. Effect(j) \/ disk' = disk
    BY DEF Serve
  <2>. QED
    BY <1>1, <2>1, EffectTyped DEF DiskTyped
<1>4. a \in {"sent", "ok", "bad", "missing"} /\ b \in SUBSET Paths /\ (a = "ok" => ok)
  BY DEF In
<1>5. c \in Texts /\ (j.kind # "read" => c = j.text)
  <2>1. CASE ok /\ j.kind = "read"
    <3>1. disk[j.path] # Absent /\ j.path \in Paths
      BY <1>1, <1>2, <2>1 DEF Refused, Fits, JobType, MaybePath
    <3>. QED
      BY <1>1, <2>1, <3>1 DEF DiskTyped
  <2>2. CASE ~(ok /\ j.kind = "read")
    BY <1>1, <2>2 DEF JobType
  <2>. QED
    BY <2>1, <2>2
<1>. HIDE DEF a, b, c
<1>6. /\ k \in JobType /\ k.n = j.n /\ k.kind = j.kind /\ k.who = j.who /\ k.path = j.path /\ k.to = j.to
      /\ k.text = c /\ k.state = a
  BY <1>1, <1>4, <1>5 DEF JobType
<1>. HIDE DEF k
<1>7. Takes(jobs, j, k)
  BY <1>1, <1>6 DEF Takes, Fits
<1>8. ed' = ed \/ (ed.id # 0 /\ ed' = [ed EXCEPT !.safe = s])
  <2>1. j.kind \in {"put", "post"} => j.who # 0
    BY <1>1 DEF Fits, EdKinds
  <2>. QED
    BY <2>1 DEF Serve
<1>9. s \in SUBSET Texts /\ ed.safe \subseteq s
  BY <1>1 DEF JobType, EdType
<1>10. Saves(k, ed) /\ k.state = "ok" => k.text \in ed'.safe
  <2>. SUFFICES ASSUME Saves(k, ed), k.state = "ok" PROVE k.text \in ed'.safe
    OBVIOUS
  <2>1. done /\ j.kind \in {"put", "post"} /\ j.who = ed.id
    BY <1>2, <1>4, <1>6 DEF Saves, SaveKinds
  <2>2. ed' = [ed EXCEPT !.safe = s]
    BY <2>1 DEF Serve
  <2>3. ed'.safe = s
    BY <1>1, <2>2 DEF EdType
  <2>. QED
    BY <1>5, <1>6, <2>1, <2>3
<1>11. j.kind \in SaveKinds => k.text = j.text
  BY <1>5, <1>6 DEF SaveKinds
<1>. HIDE DEF s
<1>12. EdSound(jobs', ed') /\ ed'.id = ed.id
  <2>1. Remembers(ed, ed', s)
    BY <1>8 DEF Remembers
  <2>2. EdSound((jobs \ {j}) \cup {k}, ed') /\ ed'.id = ed.id
    BY <1>1, <1>6, <1>7, <1>9, <1>10, <1>11, <2>1, ServedSound
  <2>. QED
    BY <1>2, <2>2
<1>13. /\ Requests(jobs') /\ Cardinality(jobs') \in Nat /\ Cardinality(jobs') <= Cardinality(jobs)
  BY <1>1, <1>2, <1>7, TakeRequests
<1>14. EditorShown'
  <2>1. ed = NoEd => ed' = NoEd
    BY <1>8 DEF NoEd
  <2>2. ed # NoEd => ed' # NoEd
    BY <1>1, <1>12 DEF EdSound, NoEd
  <2>. QED
    BY <1>2, <2>1, <2>2 DEF SavedInv, EditorShown
<1>15. StoreTyped' /\ PopupsTyped' /\ uploading' \in BOOLEAN
  BY <1>2 DEF SavedInv, StoreTyped, PopupsTyped, store, popups
<1>16. FewActs'
  <2>1. Cardinality(jobs) \in Nat /\ acts' = acts
    BY <1>1, <1>2, FS_CardinalityType DEF Requests
  <2>. QED
    BY <1>1, <1>13, <2>1 DEF FewActs
<1>. QED
  BY <1>3, <1>12, <1>13, <1>14, <1>15, <1>16 DEF SavedInv

LEMMA AnswerDropped ==
  ASSUME SavedInv, NEW j \in jobs, jobs' = jobs \ {j}, UNCHANGED <<ed, editing, acts>>,
         DiskTyped', StoreTyped', PopupsTyped', uploading' \in BOOLEAN
  PROVE  SavedInv'
<1>1. Requests(jobs') /\ Cardinality(jobs') \in Nat /\ Cardinality(jobs') + 1 = Cardinality(jobs)
  BY DropRequests DEF SavedInv
<1>2. EdSound(jobs', ed')
  BY FewerSound DEF SavedInv
<1>3. EditorShown' /\ FewActs'
  BY <1>1 DEF SavedInv, EditorShown, FewActs
<1>. QED
  BY <1>1, <1>2, <1>3 DEF SavedInv

LEMMA AnswerTaken ==
  ASSUME SavedInv, NEW j, j.kind # "read", NEW k, Takes(jobs, j, k), k.kind \notin SaveKinds,
         jobs' = (jobs \ {j}) \cup {k},
         UNCHANGED <<ed, editing, acts>>, DiskTyped', StoreTyped', PopupsTyped', uploading' \in BOOLEAN
  PROVE  SavedInv'
<1>1. Requests(jobs') /\ Cardinality(jobs') \in Nat /\ Cardinality(jobs') <= Cardinality(jobs)
  BY TakeRequests DEF SavedInv
<1>2. EdSound(jobs', ed')
  BY TakesSound DEF SavedInv
<1>3. EditorShown' /\ FewActs'
  <2>1. Cardinality(jobs) \in Nat
    BY FS_CardinalityType DEF SavedInv, Requests
  <2>. QED
    BY <1>1, <2>1 DEF SavedInv, EditorShown, FewActs
<1>. QED
  BY <1>1, <1>2, <1>3 DEF SavedInv

LEMMA AnswerLists ==
  ASSUME SavedInv, NEW j \in jobs, j.kind # "read", NEW d \in Dirs, NEW then \in MaybePath,
         j.n = 0 => then = NoPath, FetchFiles(j.n, d, then, jobs \ {j}),
         UNCHANGED <<ed, editing, acts>>, DiskTyped', PopupsTyped', uploading' \in BOOLEAN
  PROVE  SavedInv'
<1>. DEFINE k == Job(j.n, "list", d, then)
<1>1. j \in JobType
  BY DEF SavedInv, Requests
<1>2. k \in JobType /\ k.n = j.n /\ k.kind = "list" /\ k.path = then
  <2>1. j.n \in Nat /\ "list" \in Kinds
    BY <1>1 DEF JobType, Kinds
  <2>. QED
    BY <2>1, JobMade
<1>3. jobs' = (jobs \ {j}) \cup {k} /\ StoreTyped'
  BY DEF FetchFiles, SavedInv, StoreTyped
<1>. HIDE DEF k
<1>4. Takes(jobs, j, k) /\ k.kind \notin SaveKinds
  BY <1>2 DEF Takes, Fits, EdKinds, SaveKinds
<1>. QED
  BY <1>3, <1>4, AnswerTaken

LEMMA OthersSaved ==
  ASSUME SavedInv, NEW j \in jobs, NEW done \in BOOLEAN, NEW ok \in BOOLEAN,
         \/ HomeArrives(j, done, ok) \/ DeleteArrives(j, done, ok)
         \/ NamedArrives(j, done, ok) \/ PasteArrives(j, done, ok)
  PROVE  SavedInv'
<1>0. j \in JobType /\ Fits(j) /\ DiskTyped /\ StoreTyped /\ PopupsTyped /\ cur \in Dirs /\ NoPath \in MaybePath
  BY DEF SavedInv, Requests, StoreTyped, MaybePath
<1>1. /\ j.kind \in {"home", "delete", "rename", "mkdir", "create", "move", "copy"}
      /\ UNCHANGED <<ed, editing, acts>> /\ uploading' \in BOOLEAN /\ Done(j, done, ok)
  BY DEF HomeArrives, DeleteArrives, NamedArrives, PasteArrives, editor, SavedInv
<1>2. j.kind # "read"
  BY <1>1
<1>3. DiskTyped'
  <2>1. Effect(j) \/ disk' = disk
    BY <1>1 DEF Done
  <2>. QED
    BY <1>0, <2>1, EffectTyped DEF DiskTyped
<1>4. ASSUME NEW d \in Dirs, NEW then \in MaybePath, j.n = 0 => then = NoPath,
             FetchFiles(j.n, d, then, jobs \ {j}), PopupsTyped'
      PROVE  SavedInv'
  BY <1>1, <1>2, <1>3, <1>4, AnswerLists
<1>5. ASSUME jobs' = jobs \ {j}, UNCHANGED store, PopupsTyped' PROVE SavedInv'
  <2>1. StoreTyped'
    BY <1>0, <1>5 DEF StoreTyped, store
  <2>. QED
    BY <1>1, <1>3, <1>5, <2>1, AnswerDropped
<1>6. CASE HomeArrives(j, done, ok)
  <2>1. PopupsTyped'
    BY <1>0, <1>6 DEF HomeArrives, PopupsTyped, popups
  <2>2. \E d \in Dirs : FetchFiles(j.n, d, NoPath, jobs \ {j})
    BY <1>0, <1>6 DEF HomeArrives
  <2>. QED
    BY <1>0, <1>4, <2>1, <2>2
<1>7. CASE DeleteArrives(j, done, ok)
  <2>1. PopupsTyped'
    BY <1>0, <1>7 DEF DeleteArrives, PopupsTyped
  <2>2. FetchFiles(j.n, cur, NoPath, jobs \ {j}) \/ (jobs' = jobs \ {j} /\ UNCHANGED store)
    BY <1>7, Zenon DEF DeleteArrives
  <2>. QED
    BY <1>0, <1>4, <1>5, <2>1, <2>2
<1>8. CASE NamedArrives(j, done, ok)
  <2>1. PopupsTyped'
    <3>1. CASE ok
      <4>1. /\ dialog' = dialog \/ dialog' = "none"
            /\ ctxItem' = IF dialog = "rename" /\ dialog' = "none" THEN NoPath ELSE ctxItem
            /\ UNCHANGED <<clip, pending>>
        BY <1>8, <3>1 DEF NamedArrives
      <4>. QED
        BY <1>0, <4>1 DEF PopupsTyped, MaybePath
    <3>2. CASE ~ok
      BY <1>0, <1>8, <3>2 DEF NamedArrives, PopupsTyped
    <3>. QED
      BY <3>1, <3>2
  <2>. DEFINE then == IF j.kind = "create" THEN j.path ELSE NoPath
  <2>2. FetchFiles(j.n, cur, then, jobs \ {j}) \/ (jobs' = jobs \ {j} /\ UNCHANGED store)
    BY <1>8, Zenon DEF NamedArrives
  <2>3. then \in MaybePath /\ (j.n = 0 => then = NoPath)
    BY <1>0 DEF JobType, Fits
  <2>. HIDE DEF then
  <2>. QED
    BY <1>0, <1>4, <1>5, <2>1, <2>2, <2>3
<1>9. CASE PasteArrives(j, done, ok)
  <2>1. PopupsTyped'
    <3>1. clip' = clip \/ clip' = [op |-> "none", paths |-> {}]
      BY <1>9 DEF PasteArrives
    <3>2. UNCHANGED <<dialog, pending, ctxItem>>
      BY <1>9 DEF PasteArrives, popups
    <3>. QED
      BY <1>0, <3>1, <3>2 DEF PopupsTyped
  <2>2. FetchFiles(j.n, cur, NoPath, jobs \ {j}) \/ (jobs' = jobs \ {j} /\ UNCHANGED store)
    BY <1>9, Zenon DEF PasteArrives
  <2>. QED
    BY <1>0, <1>4, <1>5, <2>1, <2>2
<1>. QED
  BY <1>6, <1>7, <1>8, <1>9

LEMMA ChunkSaved ==
  ASSUME SavedInv, NEW j \in jobs, NEW done \in BOOLEAN, NEW ok \in BOOLEAN, ChunkArrives(j, done, ok)
  PROVE  SavedInv'
<1>0. j \in JobType /\ Fits(j) /\ DiskTyped /\ StoreTyped /\ PopupsTyped /\ cur \in Dirs /\ NoPath \in MaybePath
  BY DEF SavedInv, Requests, StoreTyped, MaybePath
<1>1. j.kind = "chunk" /\ UNCHANGED <<ed, editing, acts>> /\ Done(j, done, ok) /\ uploading' \in BOOLEAN
  BY DEF ChunkArrives, editor, SavedInv
<1>2. DiskTyped' /\ PopupsTyped'
  <2>1. Effect(j) \/ disk' = disk
    BY <1>1 DEF Done
  <2>2. PopupsTyped'
    BY <1>0 DEF ChunkArrives, PopupsTyped, popups
  <2>. QED
    BY <1>0, <2>1, <2>2, EffectTyped DEF DiskTyped
<1>3. CASE j.who < Chunks
  <2>. DEFINE path == <<cur, j.path[2]>>
             k0 == Job(j.n, "chunk", cur, path)
             k == [k0 EXCEPT !.who = j.who + 1]
  <2>1. jobs' = (jobs \ {j}) \cup {k} /\ StoreTyped'
    BY <1>0, <1>3 DEF ChunkArrives, Chunk, store, StoreTyped
  <2>2. path \in MaybePath /\ path # NoPath /\ j.n \in Nat /\ j.n # 0 /\ j.who + 1 \in Nat /\ "chunk" \in Kinds
    <3>1. j.path \in Paths /\ j.n \in Nat /\ j.n # 0 /\ j.who \in Nat
      BY <1>0, <1>1 DEF JobType, Fits, MaybePath
    <3>2. path \in Paths
      BY <1>0, <3>1 DEF Paths
    <3>. QED
      BY <3>1, <3>2, ConstantsOK DEF MaybePath, Kinds
  <2>. HIDE DEF path
  <2>3. k0 \in JobType /\ k0.n = j.n /\ k0.kind = "chunk" /\ k0.path = path
    BY <1>0, <2>2, JobMade
  <2>. HIDE DEF k0
  <2>4. Like(k, k0)
    BY <2>2, <2>3, WithWho
  <2>. HIDE DEF k
  <2>5. Takes(jobs, j, k) /\ k.kind \notin SaveKinds
    BY <2>2, <2>3, <2>4 DEF Like, Takes, Fits, EdKinds, SaveKinds
  <2>6. j.kind # "read"
    BY <1>1
  <2>. QED
    BY <1>1, <1>2, <2>1, <2>5, <2>6, AnswerTaken
<1>4. CASE ~(j.who < Chunks)
  <2>1. FetchFiles(j.n, cur, NoPath, jobs \ {j})
    BY <1>4 DEF ChunkArrives
  <2>2. j.kind # "read"
    BY <1>1
  <2>. QED
    BY <1>0, <1>1, <1>2, <2>1, <2>2, AnswerLists
<1>. QED
  BY <1>3, <1>4

LEMMA ListSaved ==
  ASSUME SavedInv, NEW j \in jobs, ListArrives(j)
  PROVE  SavedInv'
<1>0. /\ j \in JobType /\ Fits(j) /\ DiskTyped /\ StoreTyped /\ PopupsTyped /\ EditorShown
      /\ Requests(jobs) /\ EdSound(jobs, ed) /\ FewActs
  BY DEF SavedInv, Requests
<1>1. UNCHANGED <<disk, selected, clip, popups, uploading, acts>> /\ Listed(j)
  BY DEF ListArrives
<1>2. StoreTyped'
  BY <1>0, <1>1 DEF Listed, StoreTyped, JobType
<1>3. DiskTyped' /\ PopupsTyped' /\ uploading' \in BOOLEAN
  BY <1>0, <1>1 DEF DiskTyped, PopupsTyped, popups, SavedInv
<1>4. CASE j.path = NoPath
  <2>1. jobs' = jobs \ {j} /\ UNCHANGED <<ed, editing>>
    BY <1>4 DEF ListArrives, editor
  <2>. QED
    BY <1>1, <1>2, <1>3, <2>1, AnswerDropped
<1>5. CASE j.path # NoPath
  <2>. DEFINE rest == jobs \ {j}
  <2>1. Edit(j.n, j.path, rest)
    BY <1>5 DEF ListArrives
  <2>2. j.n \in Nat \ {0} /\ j.path \in Paths
    BY <1>0, <1>5 DEF Fits, JobType, MaybePath
  <2>3. Requests(rest) /\ Cardinality(rest) \in Nat /\ Cardinality(rest) + 1 = Cardinality(jobs)
    BY <1>0, DropRequests
  <2>4. EdSound(rest, ed)
    BY <1>0, FewerSound
  <2>5. \A i \in rest : i.n # j.n /\ (i.kind \in EdKinds => i.who # j.n)
    BY <1>0 DEF Requests, Apart
  <2>. HIDE DEF rest
  <2>6. /\ Requests(jobs') /\ Cardinality(jobs') \in Nat /\ Cardinality(jobs') <= Cardinality(rest) + 1
        /\ EdSound(jobs', ed') /\ EditorShown'
    BY <1>0, <2>1, <2>2, <2>3, <2>4, <2>5, EditSound
  <2>7. FewActs'
    BY <1>0, <1>1, <2>3, <2>6 DEF FewActs
  <2>. QED
    BY <1>2, <1>3, <2>6, <2>7 DEF SavedInv
<1>. QED
  BY <1>4, <1>5

LEMMA EditorSaved ==
  ASSUME SavedInv, NEW j \in jobs, ReadArrives(j) \/ SaveArrives(j)
  PROVE  SavedInv'
<1>0. /\ j \in JobType /\ Fits(j) /\ DiskTyped /\ StoreTyped /\ PopupsTyped /\ EditorShown
      /\ Requests(jobs) /\ EdSound(jobs, ed)
  BY DEF SavedInv, Requests
<1>1. jobs' = jobs \ {j} /\ UNCHANGED <<disk, store, clip, popups, editing, uploading, acts>>
  BY DEF ReadArrives, SaveArrives
<1>2. DiskTyped' /\ StoreTyped' /\ PopupsTyped' /\ uploading' \in BOOLEAN
  BY <1>0, <1>1 DEF DiskTyped, StoreTyped, PopupsTyped, store, popups, SavedInv
<1>3. CASE ed' = ed
  BY <1>1, <1>2, <1>3, AnswerDropped
<1>4. ASSUME EdSound(jobs', ed'), ed'.id = ed.id, ed.id # 0 PROVE SavedInv'
  <2>1. Requests(jobs') /\ Cardinality(jobs') \in Nat /\ Cardinality(jobs') + 1 = Cardinality(jobs)
    BY <1>0, <1>1, DropRequests
  <2>2. FewActs'
    BY <1>1, <2>1 DEF SavedInv, FewActs
  <2>3. ed # NoEd /\ ed' # NoEd
    BY <1>4 DEF NoEd
  <2>4. EditorShown'
    BY <1>0, <1>1, <2>3 DEF EditorShown
  <2>. QED
    BY <1>2, <1>4, <2>1, <2>2, <2>4 DEF SavedInv
<1>5. CASE ReadArrives(j) /\ j.who = ed.id
  <2>1. j.kind = "read" /\ j.n = ed.id /\ ed.id # 0
    BY <1>0, <1>5 DEF ReadArrives, Fits, EdKinds
  <2>2. ReadIn(ed, ed', j.text)
    BY <1>5 DEF ReadArrives, ReadIn
  <2>3. EdSound(jobs \ {j}, ed') /\ ed'.id = ed.id
    BY <1>0, <2>1, <2>2, ReadSound
  <2>. QED
    BY <1>1, <1>4, <2>1, <2>3
<1>6. CASE SaveArrives(j) /\ j.who = ed.id
  <2>1. Saves(j, ed) /\ ed.id # 0 /\ j.text \in Texts
    BY <1>0, <1>6 DEF SaveArrives, Saves, SaveKinds, Fits, EdKinds, JobType
  <2>2. ed' = Saved(ed, j)
    BY <1>6 DEF SaveArrives
  <2>3. EdSound(jobs \ {j}, Saved(ed, j)) /\ Saved(ed, j).id = ed.id
    BY <1>0, <2>1, SavedSound
  <2>. QED
    BY <1>1, <1>4, <2>1, <2>2, <2>3
<1>. QED
  BY <1>3, <1>5, <1>6 DEF ReadArrives, SaveArrives

LEMMA SavedNext == SavedInv /\ [Next]_vars => SavedInv'
<1>. SUFFICES ASSUME SavedInv, [Next]_vars PROVE SavedInv'
  OBVIOUS
<1>1. CASE User
  BY <1>1, LooksSaved, FetchSaved, AsksSaved, EditsSaved DEF User
<1>2. ASSUME NEW j \in jobs, Arrive(j) PROVE SavedInv'
  BY <1>2, ServedSaved, OthersSaved, ChunkSaved, ListSaved, EditorSaved DEF Arrive
<1>3. CASE UNCHANGED vars
  <2>1. UNCHANGED <<jobs, ed, editing, disk, uploading, acts, cur, files, loading, selected, clip, dialog, pending, ctxItem>>
    BY <1>3 DEF vars, store, popups, editor
  <2>2. StoreTyped' /\ PopupsTyped'
    BY <2>1 DEF SavedInv, StoreTyped, PopupsTyped
  <2>. QED
    BY <2>1, <2>2, Idle
<1>. QED
  BY <1>1, <1>2, <1>3 DEF Next, Answers

(* An editor that may close without asking holds a text that the server has *)
(* had from it or gave to it, whichever saves were refused or lost, however *)
(* their answers overtake later typing in another editor and whatever else  *)
(* is in flight (handleSave, handleCloseRequest of TextEditor.svelte).      *)
THEOREM NothingLostInSilence == Spec => []CleanMeansSaved
<1>1. SavedInv => CleanMeansSaved
  <2>. SUFFICES ASSUME SavedInv, Ready, ~ed.dirty, ~ed.late PROVE ed.doc \in ed.safe
    BY DEF CleanMeansSaved
  <2>1. ed.phase = "ready" /\ ed.id # 0 /\ Careful(jobs, ed)
    BY DEF SavedInv, Ready, EditorShown, EdSound
  <2>2. (ed.dirty <=> ed.doc # ed.saved) /\ ed.saved \in ed.safe
    BY <2>1, Zenon DEF Careful
  <2>. QED
    BY <2>2
<1>. QED
  BY <1>1, SavedInit, SavedNext, PTL DEF Spec

(* The files page is in states its markup knows, and whatever spins on it   *)
(* waits for an answer (routes/files/+page.svelte, TextEditor.svelte,       *)
(* Uploader.svelte).                                                        *)
THEOREM BusyAlwaysDriven == Spec => []BusyIsDriven
<1>1. SavedInv => TypeOK
  BY DEF SavedInv, TypeOK, DiskTyped, StoreTyped, PopupsTyped, EditorShown, FewActs, EdSound, EdType
<1>2. FilesInv => BusyWaits
  BY DEF FilesInv
<1>3. BusyIsDriven <=> TypeOK /\ BusyWaits
  BY DEF BusyIsDriven
<1>. QED
  BY <1>1, <1>2, <1>3, SavedInit, SavedNext, FilesInit, FilesNext, PTL DEF Spec
=============================================================================
