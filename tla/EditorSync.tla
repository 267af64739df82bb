----------------------------- MODULE EditorSync -----------------------------
(***************************************************************************)
(* How the text in the editor reaches the engine: the VS Code extension's  *)
(* src/extension/src/overlayManager.ts, the overlay of the sidecar         *)
(* (src/context_engine/overlay.py) and the index jobs that clear it.       *)
(*                                                                         *)
(* A change is posted when typing pauses, a save at once; saved files are  *)
(* collected and submitted for indexing together.  An answer shows a       *)
(* file's overlay entry if there is one, and what is indexed otherwise.    *)
(*                                                                         *)
(* One user in one workspace.  The index queue is a set of files here and  *)
(* the git poller a step (IndexQueue and GitDelta have them in full).      *)
(***************************************************************************)
EXTENDS Naturals, Sequences, FiniteSets, SequencesExt

CONSTANTS
    File, Text,
    None,
    MaxEntries,    \* OVERLAY_MAX_ENTRIES
    MaxSaveBatch,  \* MAX_SAVE_BATCH_SIZE
    MaxEvents      \* editor events (bound)

ASSUME EditorConstants ==
    /\ None \notin Text \cup File
    /\ MaxEntries \in Nat \ {0} /\ MaxSaveBatch \in Nat \ {0}
    /\ MaxEvents \in Nat

VARIABLES
    buffer,      \* text of each open document; None when closed
    disk,
    head,        \* committed text
    events,      \* how many editor events there were (bound)
    timers,      \* files with a debounced change
    savedFiles,
    saveTimer,   \* saveBatchTimer is armed
    posts,       \* requests on their way
    answered,    \* flushes whose post has been answered
    overlay,     \* entries, least recently used first
    pending,     \* files in the index queue
    job,         \* the file being indexed and the text read from it
    stored,      \* indexed text
    owed,        \* history: files whose text an answer should show
    overtaken,   \* history: files of which the last post was handled before
                 \* an earlier one
    cleared      \* history: files whose text an index job of another text cleared

editorVars == <<buffer, disk, head, events>>
clientVars == <<timers, savedFiles, saveTimer, answered>>
indexVars  == <<pending, job, stored>>
lostVars   == <<overtaken, cleared>>
vars == <<editorVars, clientVars, posts, overlay, indexVars, owed, lostVars>>

Entry == [file: File, text: Text, dirty: BOOLEAN]
Post == [kind: {"overlay"}, entry: Entry] \cup [kind: {"delete"}, file: File]
            \cup [kind: {"index"}, files: SUBSET File]
NoJob == [file |-> None, text |-> None]

Files(entries) == {entries[i].file : i \in DOMAIN entries}
PlaceOf(f) == SelectInSeq(overlay, LAMBDA e : e.file = f)
OthersThan(f) ==
    IF f \in Files(overlay) THEN RemoveAt(overlay, PlaceOf(f)) ELSE overlay
Send(p) == posts' = Append(posts, p)

\* The post p changes the entry of f.
About(p, f) == \/ p.kind = "overlay" /\ p.entry.file = f
               \/ p.kind = "delete" /\ p.file = f

\* The latest post about f is yet to arrive.
SendAbout(f, p) ==
    /\ Send(p)
    /\ overtaken' = overtaken \ {f} /\ cleared' = cleared \ {f}
SendText(f, dirty) ==
    SendAbout(f, [kind |-> "overlay", entry |-> [file |-> f, text |-> buffer[f], dirty |-> dirty]])
Committed(f) == disk[f] = head[f]     \* should_index_file

Init ==
    /\ buffer \in [File -> Text]
    /\ disk = buffer /\ head = disk /\ stored = disk
    /\ events = 0
    /\ timers = {} /\ savedFiles = {} /\ saveTimer = FALSE /\ answered = 0
    /\ posts = <<>> /\ overlay = <<>>
    /\ pending = {} /\ job = NoJob
    /\ owed = {} /\ overtaken = {} /\ cleared = {}

-----------------------------------------------------------------------------
(* The editor *)

Event(f) == events < MaxEvents /\ events' = events + 1

\* onDocumentChanged: the timer starts again.
Type(f, t) ==
    /\ Event(f)
    /\ buffer[f] \notin {None, t}
    /\ buffer' = [buffer EXCEPT ![f] = t]
    /\ timers' = timers \cup {f}
    /\ owed' = owed \cup {f}
    /\ UNCHANGED <<disk, head, savedFiles, saveTimer, answered, posts, overlay, indexVars,
                   lostVars>>

\* The text is read when the timer fires.
TimerFires(f) ==
    /\ f \in timers
    /\ timers' = timers \ {f}
    /\ SendText(f, TRUE)
    /\ UNCHANGED <<editorVars, savedFiles, saveTimer, answered, overlay, indexVars, owed>>

\* Fault: the buffer is dropped on save, to be served from the index.
SaveDeletes(f) ==
    /\ Event(f) /\ buffer[f] # None
    /\ disk' = [disk EXCEPT ![f] = buffer[f]]
    /\ timers' = timers \ {f}
    /\ SendAbout(f, [kind |-> "delete", file |-> f])
    /\ savedFiles' = savedFiles \cup {f} /\ saveTimer' = TRUE
    /\ owed' = owed \cup {f}
    /\ UNCHANGED <<buffer, head, answered, overlay, indexVars>>

\* onDocumentSaved, scheduleSavedFile
Save(f) ==
    /\ Event(f) /\ buffer[f] # None
    /\ disk' = [disk EXCEPT ![f] = buffer[f]]
    /\ timers' = timers \ {f}
    /\ SendText(f, FALSE)
    /\ savedFiles' = savedFiles \cup {f} /\ saveTimer' = TRUE
    /\ owed' = owed \cup {f}
    /\ UNCHANGED <<buffer, head, answered, overlay, indexVars>>

\* onDocumentClosed; unsaved text is lost.
Close(f) ==
    /\ Event(f) /\ buffer[f] # None
    /\ buffer' = [buffer EXCEPT ![f] = None]
    /\ timers' = timers \ {f}
    /\ SendAbout(f, [kind |-> "delete", file |-> f])
    /\ owed' = owed \ {f}
    /\ UNCHANGED <<disk, head, savedFiles, saveTimer, answered, overlay, indexVars>>

Open(f) ==
    /\ Event(f) /\ buffer[f] = None
    /\ buffer' = [buffer EXCEPT ![f] = disk[f]]
    /\ UNCHANGED <<disk, head, clientVars, posts, overlay, indexVars, owed, lostVars>>

\* git commit of a saved file
Commit(f) ==
    /\ ~Committed(f)
    /\ head' = [head EXCEPT ![f] = disk[f]]
    /\ UNCHANGED <<buffer, disk, events, clientVars, posts, overlay, indexVars, owed,
                   lostVars>>

-----------------------------------------------------------------------------
(* Saved files are submitted in batches *)

\* flushSavedFiles up to its await; the code takes the oldest files.
Flush(batch) ==
    /\ saveTimer
    /\ batch \subseteq savedFiles
    /\ batch = savedFiles \/ (Cardinality(batch) = MaxSaveBatch)
    /\ Cardinality(batch) <= MaxSaveBatch
    /\ saveTimer' = FALSE
    /\ savedFiles' = savedFiles \ batch
    /\ IF batch = {} THEN UNCHANGED posts ELSE Send([kind |-> "index", files |-> batch])
    /\ UNCHANGED <<editorVars, timers, answered, overlay, indexVars, owed, lostVars>>

\* Fault: the rest of a large batch waits for the next save.
FlushEnds ==
    /\ answered > 0 /\ answered' = answered - 1
    /\ UNCHANGED <<editorVars, timers, savedFiles, saveTimer, posts, overlay, indexVars,
                   owed, lostVars>>

\* The rest of flushSavedFiles, answered or failed.
FlushReturns ==
    /\ answered > 0 /\ answered' = answered - 1
    /\ saveTimer' = (saveTimer \/ savedFiles # {})
    /\ UNCHANGED <<editorVars, timers, savedFiles, posts, overlay, indexVars, owed,
                   lostVars>>

-----------------------------------------------------------------------------
(* The sidecar *)

\* Posts are not awaited (void this.client...): any may arrive next.  The last
\* one about a file overtakes those about it that were sent before.
Overtaken(i) ==
    {f \in File : /\ About(posts[i], f)
                  /\ \A j \in DOMAIN posts : j > i => ~About(posts[j], f)
                  /\ \E j \in DOMAIN posts : j < i /\ About(posts[j], f)}

\* The request at place i arrives.
Receive(i, kind) ==
    /\ i \in DOMAIN posts
    /\ posts[i].kind = kind
    /\ posts' = RemoveAt(posts, i)
    /\ overtaken' = overtaken \cup Overtaken(i)

\* What the overlay drops for want of room or use is owed no more.
Forget(entries) == owed' = owed \ (Files(overlay) \ Files(entries))

\* InMemoryOverlay.update: a new entry may need the place of the one unused
\* for longest.
Update(i) ==
    /\ Receive(i, "overlay")
    /\ LET e == posts[i].entry
           kept == IF e.file \in Files(overlay) \/ Len(overlay) < MaxEntries
                   THEN OthersThan(e.file) ELSE Tail(overlay)
       IN  overlay' = Append(kept, e) /\ Forget(overlay')
    /\ UNCHANGED <<editorVars, clientVars, indexVars, cleared>>

\* Fault: only an unsaved buffer is dropped.
ClearDirty(i) ==
    /\ Receive(i, "delete")
    /\ overlay' = SelectSeq(overlay, LAMBDA e : e.file # posts[i].file \/ ~e.dirty)
    /\ UNCHANGED <<editorVars, clientVars, indexVars, owed, cleared>>

\* DELETE /overlay
Clear(i) ==
    /\ Receive(i, "delete")
    /\ overlay' = OthersThan(posts[i].file)
    /\ UNCHANGED <<editorVars, clientVars, indexVars, owed, cleared>>

\* POST /index/files: committed files are queued, the others skipped.
IndexFiles(i) ==
    /\ Receive(i, "index")
    /\ pending' = pending \cup {f \in posts[i].files : Committed(f)}
    /\ answered' = answered + 1
    /\ UNCHANGED <<editorVars, timers, savedFiles, saveTimer, overlay, job, stored, owed,
                   cleared>>

\* The sidecar is down; the client goes on silently.
IndexFilesFails(i) ==
    /\ Receive(i, "index")
    /\ answered' = answered + 1
    /\ UNCHANGED <<editorVars, timers, savedFiles, saveTimer, overlay, indexVars, owed,
                   cleared>>

\* An answer looks a file up: has, is_dirty, read_lines.
Touch(f) ==
    /\ overlay' = IF f \in Files(overlay)
                  THEN Append(OthersThan(f), overlay[PlaceOf(f)]) ELSE overlay
    /\ UNCHANGED <<editorVars, clientVars, posts, indexVars, owed, lostVars>>

\* _evict_expired: entries unused for longest go first.
Expire ==
    /\ overlay # <<>>
    /\ overlay' = Tail(overlay)
    /\ Forget(overlay')
    /\ UNCHANGED <<editorVars, clientVars, posts, indexVars, lostVars>>

\* The git poller queues a committed file whose commit it has not seen.
Poll(f) ==
    /\ Committed(f) /\ stored[f] # disk[f]
    /\ pending' = pending \cup {f}
    /\ UNCHANGED <<editorVars, clientVars, posts, overlay, job, stored, owed, lostVars>>

\* The worker skips a file that changed since, or whose hash is stored.
SkipQueued(f) ==
    /\ f \in pending /\ job = NoJob
    /\ ~Committed(f) \/ stored[f] = disk[f]
    /\ pending' = pending \ {f}
    /\ UNCHANGED <<editorVars, clientVars, posts, overlay, job, stored, owed, lostVars>>

TakeQueued(f) ==
    /\ f \in pending /\ job = NoJob
    /\ Committed(f) /\ stored[f] # disk[f]
    /\ pending' = pending \ {f}
    /\ job' = [file |-> f, text |-> disk[f]]
    /\ UNCHANGED <<editorVars, clientVars, posts, overlay, stored, owed, lostVars>>

\* Another post about the file will follow, or is on its way.
StillToCome(f) == f \in timers \/ \E i \in DOMAIN posts : About(posts[i], f)

\* index_file returns, and the buffer is cleared, whatever it holds by now.
Indexed ==
    /\ job # NoJob
    /\ stored' = [stored EXCEPT ![job.file] = job.text]
    /\ overlay' = OthersThan(job.file)
    /\ job' = NoJob
    /\ cleared' = IF job.text = buffer[job.file] \/ StillToCome(job.file)
                  THEN cleared ELSE cleared \cup {job.file}
    /\ UNCHANGED <<editorVars, clientVars, posts, pending, owed, overtaken>>

\* index_file raises: the buffer stays.
IndexFails ==
    /\ job # NoJob
    /\ job' = NoJob
    /\ UNCHANGED <<editorVars, clientVars, posts, overlay, pending, stored, owed, lostVars>>

Editor(f) ==
    \/ \E t \in Text : Type(f, t)
    \/ Save(f) \/ Close(f) \/ Open(f) \/ Commit(f) \/ TimerFires(f)

Sidecar ==
    \/ \E i \in DOMAIN posts : Update(i) \/ Clear(i) \/ IndexFiles(i) \/ IndexFilesFails(i)
    \/ \E f \in File : Touch(f) \/ Poll(f) \/ SkipQueued(f) \/ TakeQueued(f)
    \/ Expire \/ Indexed \/ IndexFails

Next ==
    \/ \E f \in File : Editor(f)
    \/ \E batch \in SUBSET File : Flush(batch)
    \/ FlushReturns
    \/ Sidecar

Spec == Init /\ [][Next]_vars

-----------------------------------------------------------------------------
(* Properties *)

\* Nothing typed waits for its timer, and no request is on its way.
Resting == timers = {} /\ posts = <<>>

\* What an answer shows of a file.
Shown(f) ==
    IF f \in Files(overlay)
    THEN (CHOOSE e \in Entry : \E i \in DOMAIN overlay : overlay[i] = e /\ e.file = f).text
    ELSE stored[f]

ShowsText(files) == \A f \in files : Shown(f) = buffer[f]

\* docs/architectura.md:200: answers include what is typed.  Once the posts
\* have arrived an answer shows the text of every file typed into or saved,
\* over changes, saves, closings and index jobs, with three exceptions: its
\* entry had to make room or was not used for too long, its last post overtook
\* an earlier one, or an index job of another text cleared it.
TypedTextIsShown == Resting => ShowsText(owed \ (overtaken \cup cleared))

\* A file has at most one entry and the overlay keeps its limit.  Once the
\* posts have arrived no entry is of a closed document or of an earlier text,
\* and an entry marked as saved is what is on disk, unless the last post about
\* the file overtook an earlier one.
EntriesAreCurrent ==
    /\ Len(overlay) <= MaxEntries
    /\ \A i, j \in DOMAIN overlay : overlay[i].file = overlay[j].file => i = j
    /\ Resting => \A i \in DOMAIN overlay :
          LET e == overlay[i]
          IN  e.file \in overtaken \/
              (e.text = buffer[e.file] /\ (~e.dirty => e.text = disk[e.file]))

\* A saved file that was not submitted has a timer that will submit it, or a
\* flush under way that will set one: more files than a batch takes, saves
\* during a flush and flushes that fail leave none behind.
SavedFilesAreScheduled ==
    savedFiles # {} =>
        saveTimer \/ answered > 0 \/ \E i \in DOMAIN posts : posts[i].kind = "index"
=============================================================================
