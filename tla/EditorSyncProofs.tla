-------------------------- MODULE EditorSyncProofs --------------------------
(***************************************************************************)
(* For any number of files, texts, events and failures, posts handled in   *)
(* any order: every saved file stays scheduled for submission, the         *)
(* overlay's entries are current once the posts have arrived, and an       *)
(* answer shows the typed text.  The last two except files whose last post *)
(* overtook an earlier one, the last also those whose text an index job of *)
(* another text cleared.                                                   *)
(***************************************************************************)
EXTENDS EditorSync, SequenceTheorems, FiniteSetTheorems, TLAPS

\* The client's part of the types, which its timers and posts depend on.
ClientTypes ==
    /\ buffer \in [File -> Text \cup {None}]
    /\ disk \in [File -> Text]
    /\ timers \subseteq File /\ \A f \in timers : buffer[f] # None
    /\ savedFiles \subseteq File /\ saveTimer \in BOOLEAN
    /\ answered \in Nat
    /\ posts \in Seq(Post)

ClientInv == ClientTypes /\ SavedFilesAreScheduled

\* Removing one element of a sequence keeps the others.
LEMMA RemoveAtKeeps ==
    ASSUME NEW S, NEW s \in Seq(S), NEW i \in 1 .. Len(s)
    PROVE  /\ RemoveAt(s, i) \in Seq(S)
           /\ \A j \in 1 .. Len(s) : j # i =>
                 \E k \in 1 .. Len(RemoveAt(s, i)) : RemoveAt(s, i)[k] = s[j]
<1> DEFINE before == SubSeq(s, 1, i - 1)
           after  == SubSeq(s, i + 1, Len(s))
<1>1. /\ before \in Seq(S) /\ Len(before) = i - 1
      /\ \A k \in 1 .. i - 1 : before[k] = s[k]
    BY SubSeqProperties
<1>2. /\ after \in Seq(S) /\ Len(after) = Len(s) - i
      /\ \A k \in 1 .. Len(s) - i : after[k] = s[i + k]
    BY SubSeqProperties
<1>3. RemoveAt(s, i) = before \o after
    BY DEF RemoveAt
<1> HIDE DEF before, after
<1>4. /\ before \o after \in Seq(S) /\ Len(before \o after) = Len(s) - 1
      /\ \A k \in 1 .. Len(s) - 1 : (before \o after)[k] =
            IF k <= i - 1 THEN before[k] ELSE after[k - (i - 1)]
    BY <1>1, <1>2, ConcatProperties
<1>5. ASSUME NEW j \in 1 .. Len(s), j # i
      PROVE  \E k \in 1 .. Len(s) - 1 : (before \o after)[k] = s[j]
    <2>1. CASE j < i
        <3>1. j \in 1 .. Len(s) - 1 /\ j <= i - 1 /\ j \in 1 .. i - 1
            BY <2>1
        <3>2. (before \o after)[j] = before[j] /\ before[j] = s[j]
            BY <1>1, <1>4, <3>1
        <3> QED BY <3>1, <3>2
    <2>2. CASE j > i
        <3>1. j - 1 \in 1 .. Len(s) - 1 /\ ~(j - 1 <= i - 1)
              /\ j - i \in 1 .. Len(s) - i /\ (j - 1) - (i - 1) = j - i /\ i + (j - i) = j
            BY <2>2
        <3>2. (before \o after)[j - 1] = after[j - i] /\ after[j - i] = s[j]
            BY <1>2, <1>4, <3>1
        <3> QED BY <3>1, <3>2
    <2>3. Len(s) \in Nat
        BY LenProperties
    <2>4. j < i \/ j > i
        BY <1>5, <2>3
    <2> QED BY <2>1, <2>2, <2>4
<1> QED BY <1>3, <1>4, <1>5

\* Nothing was saved yet.
LEMMA ClientInit == Init => ClientInv
<1> SUFFICES ASSUME Init PROVE ClientInv
    OBVIOUS
<1>1. buffer \in [File -> Text] /\ disk = buffer /\ <<>> \in Seq(Post)
    BY DEF Init
<1> QED BY <1>1 DEF Init, ClientInv, ClientTypes, SavedFilesAreScheduled

\* What is on its way stays so when a request follows it.
LEMMA SendKeeps ==
    ASSUME ClientInv, NEW p \in Post, Send(p)
    PROVE  /\ posts' \in Seq(Post) /\ Len(posts) + 1 \in DOMAIN posts'
           /\ posts'[Len(posts) + 1] = p
           /\ \A i \in DOMAIN posts : i \in DOMAIN posts' /\ posts'[i] = posts[i]
BY DEF ClientInv, ClientTypes, Send

\* The editor's steps: a save arms the timer.
LEMMA EditorStep ==
    ASSUME ClientInv, NEW f \in File, Editor(f)
    PROVE  ClientInv'
<1> USE DEF ClientInv, ClientTypes
<1>1. ASSUME NEW t \in Text, Type(f, t) PROVE ClientInv'
    BY <1>1, EditorConstants DEF Type, SavedFilesAreScheduled
<1>2. CASE Open(f)
    BY <1>2, EditorConstants DEF Open, Event, clientVars, SavedFilesAreScheduled
<1>3. CASE Commit(f)
    BY <1>3 DEF Commit, clientVars, SavedFilesAreScheduled
<1>4. ASSUME NEW dirty \in BOOLEAN, buffer[f] # None, SendText(f, dirty)
      PROVE  \E p \in Post : Send(p)
    BY <1>4 DEF SendText, SendAbout, Post, Entry
<1>5. CASE TimerFires(f)
    <2>1. PICK p \in Post : Send(p)
        BY <1>4, <1>5 DEF TimerFires
    <2> QED BY <1>5, <2>1, SendKeeps
            DEF TimerFires, editorVars, SavedFilesAreScheduled
<1>6. CASE Save(f)
    <2>1. PICK p \in Post : Send(p)
        BY <1>4, <1>6 DEF Save
    <2>2. disk' \in [File -> Text]
        BY <1>6 DEF Save
    <2> QED BY <1>6, <2>1, <2>2, SendKeeps DEF Save, SavedFilesAreScheduled
<1>7. CASE Close(f)
    <2>1. [kind |-> "delete", file |-> f] \in Post
        BY DEF Post
    <2>2. Send([kind |-> "delete", file |-> f])
        BY <1>7 DEF Close, SendAbout
    <2> QED BY <1>7, <2>1, <2>2, SendKeeps DEF Close, SavedFilesAreScheduled
<1> QED BY <1>1, <1>2, <1>3, <1>5, <1>6, <1>7 DEF Editor

\* A flush that leaves files behind has submitted some.
LEMMA FlushStep ==
    ASSUME ClientInv, NEW batch \in SUBSET File, Flush(batch)
    PROVE  ClientInv'
<1> USE DEF ClientInv, ClientTypes
<1>1. CASE batch = {}
    <2>1. Cardinality(batch) # MaxSaveBatch
        BY <1>1, FS_EmptySet, EditorConstants
    <2>2. savedFiles' = {} /\ posts' = posts
        BY <1>1, <2>1 DEF Flush
    <2> QED BY <2>2 DEF Flush, editorVars, SavedFilesAreScheduled
<1>2. CASE batch # {}
    <2> DEFINE p == [kind |-> "index", files |-> batch]
    <2>1. p \in Post /\ p.kind = "index"
        BY DEF Post
    <2>2. Send(p)
        BY <1>2 DEF Flush
    <2> HIDE DEF p
    <2>3. \E i \in DOMAIN posts' : posts'[i].kind = "index"
        BY <2>1, <2>2, SendKeeps
    <2> QED BY <2>1, <2>2, <2>3, SendKeeps DEF Flush, editorVars, SavedFilesAreScheduled
<1> QED BY <1>1, <1>2

\* The answer to a flush sets the timer for what is left.
LEMMA FlushReturnsStep == ClientInv /\ FlushReturns => ClientInv'
<1> SUFFICES ASSUME ClientInv, FlushReturns PROVE ClientInv'
    OBVIOUS
<1>1. /\ UNCHANGED <<buffer, disk, timers, savedFiles, posts>>
      /\ answered' \in Nat
    BY DEF ClientInv, ClientTypes, FlushReturns, editorVars
<1>2. saveTimer' \in BOOLEAN
    BY DEF ClientInv, ClientTypes, FlushReturns
<1>3. ClientTypes'
    BY <1>1, <1>2 DEF ClientInv, ClientTypes
<1>4. SavedFilesAreScheduled'
    BY <1>1 DEF FlushReturns, SavedFilesAreScheduled
<1> QED BY <1>3, <1>4 DEF ClientInv

\* A request that arrives is a flush's, which is answered, or leaves those of
\* the flushes where they are.
LEMMA SidecarStep == ClientInv /\ Sidecar => ClientInv'
<1> SUFFICES ASSUME ClientInv, Sidecar PROVE ClientInv'
    OBVIOUS
<1> USE DEF ClientInv, ClientTypes
<1>1. ASSUME NEW i \in DOMAIN posts, Update(i) \/ Clear(i) PROVE ClientInv'
    <2>1. /\ posts[i].kind # "index" /\ posts' = RemoveAt(posts, i)
          /\ UNCHANGED <<editorVars, clientVars>>
        BY <1>1 DEF Update, Clear, Receive
    <2>2. i \in 1 .. Len(posts)
        OBVIOUS
    <2>3. /\ posts' \in Seq(Post)
          /\ \A j \in DOMAIN posts : j # i =>
                \E k \in DOMAIN posts' : posts'[k] = posts[j]
        BY <2>1, <2>2, RemoveAtKeeps
    <2> QED BY <2>1, <2>3 DEF editorVars, clientVars, SavedFilesAreScheduled
<1>2. ASSUME NEW i \in DOMAIN posts, IndexFiles(i) \/ IndexFilesFails(i)
      PROVE  ClientInv'
    <2>1. /\ posts' = RemoveAt(posts, i) /\ answered' = answered + 1
          /\ UNCHANGED <<editorVars, timers, savedFiles, saveTimer>>
        BY <1>2 DEF IndexFiles, IndexFilesFails, Receive
    <2>2. posts' \in Seq(Post)
        BY <2>1, RemoveAtKeeps
    <2> QED BY <2>1, <2>2 DEF editorVars, SavedFilesAreScheduled
<1>3. ASSUME NEW f \in File,
             \/ Touch(f) \/ Poll(f) \/ SkipQueued(f) \/ TakeQueued(f)
             \/ Expire \/ Indexed \/ IndexFails
      PROVE  ClientInv'
    <2>1. UNCHANGED <<editorVars, clientVars, posts>>
        BY <1>3 DEF Touch, Poll, SkipQueued, TakeQueued, Expire, Indexed, IndexFails
    <2> QED BY <2>1 DEF editorVars, clientVars, SavedFilesAreScheduled
<1>4. CASE Expire \/ Indexed \/ IndexFails
    <2>1. UNCHANGED <<editorVars, clientVars, posts>>
        BY <1>4 DEF Expire, Indexed, IndexFails
    <2> QED BY <2>1 DEF editorVars, clientVars, SavedFilesAreScheduled
<1> QED BY <1>1, <1>2, <1>3, <1>4 DEF Sidecar

\* No step of anybody disturbs it.
LEMMA ClientStep == ClientInv /\ [Next]_vars => ClientInv'
<1> SUFFICES ASSUME ClientInv, [Next]_vars PROVE ClientInv'
    OBVIOUS
<1>1. CASE UNCHANGED vars
    BY <1>1 DEF vars, editorVars, clientVars, ClientInv, ClientTypes,
                SavedFilesAreScheduled
<1>2. CASE Next
    BY <1>2, EditorStep, FlushStep, FlushReturnsStep, SidecarStep DEF Next
<1> QED BY <1>1, <1>2

\* A saved file that was not submitted has a timer, or a flush under way
\* that sets one when it returns: none is left to wait for the next save,
\* however many files, saves during a flush and failed flushes there are.
THEOREM SavedFilesStayScheduled == Spec => []SavedFilesAreScheduled
<1>1. ClientInv => SavedFilesAreScheduled
    BY DEF ClientInv
<1> QED BY ClientInit, ClientStep, <1>1, PTL DEF Spec

-----------------------------------------------------------------------------
(* What posts and entries say of a file *)

\* The sidecar's part of the types.
SidecarTypes ==
    /\ head \in [File -> Text] /\ stored \in [File -> Text]
    /\ overlay \in Seq(Entry) /\ Len(overlay) <= MaxEntries
    /\ pending \subseteq File
    /\ job = NoJob \/ (job.file \in File /\ job.text \in Text)
    /\ owed \subseteq File /\ \A f \in owed : buffer[f] # None

\* A file has one entry.
OneEach(s) == \A i, j \in DOMAIN s : s[i].file = s[j].file => i = j

\* No post after place i is about f: it has the last word.
Settled(f, i) == \A j \in DOMAIN posts : j > i => ~About(posts[j], f)

\* An entry has the text of its document, unless its timer runs, and what is
\* on disk if it is marked as saved.
Fresh(e) == /\ e.file \in timers \/ e.text = buffer[e.file]
            /\ ~e.dirty => e.text = disk[e.file]

\* The entry e, on its way or in the overlay, has the last word on its file.
HasLastWord(e) ==
    \/ \E i \in DOMAIN posts : /\ posts[i].kind = "overlay" /\ posts[i].entry = e
                               /\ Settled(e.file, i)
    \/ Settled(e.file, 0) /\ \E i \in DOMAIN overlay : overlay[i] = e

\* Unless it was not sent last.
LastWordIsFresh ==
    \A e \in Entry : e.file \notin overtaken /\ HasLastWord(e) => Fresh(e)

EntryInv == SidecarTypes /\ OneEach(overlay) /\ LastWordIsFresh

\* The text of a file is with its timer, on its way, in the overlay or indexed.
Somewhere(f) ==
    \/ f \in timers
    \/ \E i \in DOMAIN posts : /\ posts[i].kind = "overlay"
                               /\ posts[i].entry.file = f /\ Settled(f, i)
    \/ Settled(f, 0) /\ (f \in Files(overlay) \/ stored[f] = buffer[f])

TextIsSomewhere == \A f \in owed \ (overtaken \cup cleared) : Somewhere(f)

-----------------------------------------------------------------------------
(* Sequences of posts and of entries *)

\* The places of the others when one is taken out.
LEMMA RemoveAtShifts ==
    ASSUME NEW S, NEW s \in Seq(S), NEW i \in 1 .. Len(s)
    PROVE  /\ RemoveAt(s, i) \in Seq(S) /\ Len(RemoveAt(s, i)) = Len(s) - 1
           /\ DOMAIN RemoveAt(s, i) = 1 .. Len(s) - 1
           /\ \A j \in 1 .. Len(s) - 1 :
                 RemoveAt(s, i)[j] = IF j < i THEN s[j] ELSE s[j + 1]
<1> DEFINE before == SubSeq(s, 1, i - 1)
           after  == SubSeq(s, i + 1, Len(s))
           t      == RemoveAt(s, i)
<1>0. Len(s) \in Nat
    BY LenProperties
<1>1. /\ before \in Seq(S) /\ Len(before) = i - 1
      /\ \A j \in 1 .. i - 1 : before[j] = s[j]
    BY SubSeqProperties
<1>2. /\ after \in Seq(S) /\ Len(after) = Len(s) - i
      /\ \A j \in 1 .. Len(s) - i : after[j] = s[i + j]
    BY SubSeqProperties
<1>3. t = before \o after
    BY DEF RemoveAt
<1> HIDE DEF before, after, t
<1>4. /\ t \in Seq(S) /\ Len(t) = Len(s) - 1
      /\ \A j \in 1 .. Len(s) - 1 :
            t[j] = IF j <= i - 1 THEN before[j] ELSE after[j - (i - 1)]
    <2>1. /\ before \o after \in Seq(S)
          /\ Len(before \o after) = Len(before) + Len(after)
          /\ \A j \in 1 .. Len(before) + Len(after) : (before \o after)[j] =
                IF j <= Len(before) THEN before[j] ELSE after[j - Len(before)]
        BY <1>1, <1>2, ConcatProperties
    <2>2. Len(before) + Len(after) = Len(s) - 1
        BY <1>0, <1>1, <1>2
    <2> QED BY <1>1, <1>3, <2>1, <2>2
<1>5. \A j \in 1 .. Len(s) - 1 : t[j] = IF j < i THEN s[j] ELSE s[j + 1]
    <2> TAKE j \in 1 .. Len(s) - 1
    <2>1. CASE j < i
        BY <1>0, <1>1, <1>4, <2>1
    <2>2. CASE ~(j < i)
        <3>1. j - (i - 1) \in 1 .. Len(s) - i /\ i + (j - (i - 1)) = j + 1
            BY <1>0, <2>2
        <3> QED BY <1>0, <1>2, <1>4, <2>2, <3>1
    <2> QED BY <2>1, <2>2
<1>6. DOMAIN t = 1 .. Len(s) - 1
    BY <1>4, LenProperties
<1> QED BY <1>4, <1>5, <1>6 DEF t

\* A post that is sent has the last word on its file.
LEMMA SettledSend ==
    ASSUME posts \in Seq(Post), NEW p \in Post, Send(p)
    PROVE  /\ DOMAIN posts' = 1 .. Len(posts) + 1 /\ Len(posts) \in Nat
           /\ DOMAIN posts = 1 .. Len(posts)
           /\ posts'[Len(posts) + 1] = p
           /\ \A i \in 1 .. Len(posts) : posts'[i] = posts[i]
           /\ \A g \in File : \A i \in Nat : i > Len(posts) => Settled(g, i)'
           /\ \A g \in File, i \in 0 .. Len(posts) :
                 Settled(g, i)' <=> Settled(g, i) /\ ~About(p, g)
<1>1. /\ posts' \in Seq(Post) /\ Len(posts') = Len(posts) + 1
      /\ \A i \in 1 .. Len(posts) : posts'[i] = posts[i]
      /\ posts'[Len(posts) + 1] = p
    BY AppendProperties DEF Send
<1>2. /\ DOMAIN posts' = 1 .. Len(posts) + 1 /\ DOMAIN posts = 1 .. Len(posts)
      /\ Len(posts) \in Nat
    BY <1>1, LenProperties
<1>3. ASSUME NEW g \in File, NEW i \in Nat, i > Len(posts) PROVE Settled(g, i)'
    BY <1>2, <1>3 DEF Settled
<1>4. ASSUME NEW g \in File, NEW i \in 0 .. Len(posts)
      PROVE  Settled(g, i)' <=> Settled(g, i) /\ ~About(p, g)
    <2>1. Settled(g, i)' <=> \A j \in DOMAIN posts' : j > i => ~About(posts'[j], g)
        BY DEF Settled, About
    <2>2. Len(posts) + 1 \in DOMAIN posts' /\ Len(posts) + 1 > i
        BY <1>2
    <2>3. \A j \in DOMAIN posts' : j \in DOMAIN posts \/ j = Len(posts) + 1
        BY <1>2
    <2> QED BY <1>1, <1>2, <2>1, <2>2, <2>3 DEF Settled
<1> QED BY <1>1, <1>2, <1>3, <1>4

\* A post is handled: those after it move up.
LEMMA SettledHandled ==
    ASSUME posts \in Seq(Post), NEW i \in DOMAIN posts, posts' = RemoveAt(posts, i)
    PROVE  /\ DOMAIN posts = 1 .. Len(posts) /\ Len(posts) \in Nat \ {0} /\ i \in Nat \ {0}
           /\ DOMAIN posts' = 1 .. Len(posts) - 1
           /\ \A k \in 1 .. Len(posts) - 1 :
                 posts'[k] = IF k < i THEN posts[k] ELSE posts[k + 1]
           /\ \A g \in File, k \in 0 .. Len(posts) - 1 :
                 IF k < i
                 THEN /\ Settled(g, k) => Settled(g, k)'
                      /\ Settled(g, k)' => Settled(g, i)
                      /\ Settled(g, k)' /\ ~About(posts[i], g) => Settled(g, k)
                 ELSE Settled(g, k)' <=> Settled(g, k + 1)
<1>1. DOMAIN posts = 1 .. Len(posts) /\ Len(posts) \in Nat \ {0} /\ i \in Nat \ {0}
    BY LenProperties
<1>2. /\ DOMAIN posts' = 1 .. Len(posts) - 1
      /\ \A k \in 1 .. Len(posts) - 1 :
            posts'[k] = IF k < i THEN posts[k] ELSE posts[k + 1]
    BY <1>1, RemoveAtShifts
<1>3. ASSUME NEW g \in File, NEW k \in Nat
      PROVE  Settled(g, k)' <=> \A j \in DOMAIN posts' : j > k => ~About(posts'[j], g)
    BY DEF Settled, About
<1>4. ASSUME NEW g \in File, NEW k \in Nat, Settled(g, k)',
             NEW j \in DOMAIN posts, IF j < i THEN j > k ELSE j > k + 1 /\ j # i
      PROVE  ~About(posts[j], g)
    <2>1. CASE j < i
        <3>1. j \in DOMAIN posts' /\ posts'[j] = posts[j]
            BY <1>1, <1>2, <2>1
        <3> QED BY <1>3, <1>4, <2>1, <3>1
    <2>2. CASE j > i
        <3>1. j - 1 \in DOMAIN posts' /\ posts'[j - 1] = posts[j] /\ j - 1 > k
            BY <1>1, <1>2, <1>4, <2>2
        <3> QED BY <1>3, <1>4, <3>1
    <2> QED BY <1>1, <1>4, <2>1, <2>2
<1>5. ASSUME NEW g \in File, NEW k \in Nat, Settled(g, IF k < i THEN k ELSE k + 1)
      PROVE  Settled(g, k)'
    <2>1. ASSUME NEW j \in DOMAIN posts', j > k
          PROVE  ~About(posts'[j], g)
        <3>1. CASE j < i
            <4>1. j \in DOMAIN posts /\ posts'[j] = posts[j] /\ k < i
                BY <1>1, <1>2, <2>1, <3>1
            <4> QED BY <1>5, <2>1, <4>1 DEF Settled
        <3>2. CASE ~(j < i)
            <4>1. /\ j + 1 \in DOMAIN posts /\ posts'[j] = posts[j + 1]
                  /\ j + 1 > (IF k < i THEN k ELSE k + 1)
                BY <1>1, <1>2, <2>1, <3>2
            <4> QED BY <1>5, <4>1 DEF Settled
        <3> QED BY <3>1, <3>2
    <2> QED BY <1>3, <2>1
<1>6. ASSUME NEW g \in File, NEW k \in 0 .. Len(posts) - 1, k < i
      PROVE  /\ Settled(g, k) => Settled(g, k)'
             /\ Settled(g, k)' => Settled(g, i)
             /\ Settled(g, k)' /\ ~About(posts[i], g) => Settled(g, k)
    <2>1. k \in Nat /\ \A j \in DOMAIN posts : j \in Nat
        BY <1>1
    <2>2. Settled(g, k) => Settled(g, k)'
        BY <1>5, <1>6, <2>1
    <2>3. ASSUME Settled(g, k)', NEW j \in DOMAIN posts, j > k, j # i
          PROVE  ~About(posts[j], g)
        <3>1. IF j < i THEN j > k ELSE j > k + 1 /\ j # i
            BY <1>1, <1>6, <2>1, <2>3
        <3> QED BY <1>4, <2>1, <2>3, <3>1
    <2>4. ASSUME NEW j \in DOMAIN posts, j > i PROVE j > k /\ j # i
        BY <1>1, <1>6, <2>1, <2>4
    <2> QED BY <2>2, <2>3, <2>4 DEF Settled
<1>7. ASSUME NEW g \in File, NEW k \in 0 .. Len(posts) - 1, ~(k < i)
      PROVE  Settled(g, k)' <=> Settled(g, k + 1)
    <2>1. k \in Nat /\ \A j \in DOMAIN posts : j \in Nat
        BY <1>1
    <2>2. Settled(g, k + 1) => Settled(g, k)'
        BY <1>5, <1>7, <2>1
    <2>3. ASSUME Settled(g, k)', NEW j \in DOMAIN posts, j > k + 1
          PROVE  ~About(posts[j], g)
        <3>1. IF j < i THEN j > k ELSE j > k + 1 /\ j # i
            BY <1>1, <1>7, <2>1, <2>3
        <3> QED BY <1>4, <2>1, <2>3, <3>1
    <2> QED BY <2>2, <2>3 DEF Settled
<1> QED BY <1>1, <1>2, <1>6, <1>7

\* Every entry of s is one of the overlay's.
Ours(s) == \A i \in DOMAIN s : \E j \in DOMAIN overlay : s[i] = overlay[j]

\* Taking a file's entry out leaves the others.
LEMMA OthersLeft ==
    ASSUME overlay \in Seq(Entry), OneEach(overlay), NEW f \in File
    PROVE  /\ OthersThan(f) \in Seq(Entry) /\ OneEach(OthersThan(f))
           /\ Ours(OthersThan(f))
           /\ Files(OthersThan(f)) = Files(overlay) \ {f}
           /\ Len(OthersThan(f)) =
                 IF f \in Files(overlay) THEN Len(overlay) - 1 ELSE Len(overlay)
           /\ f \in Files(overlay) =>
                 /\ PlaceOf(f) \in DOMAIN overlay /\ overlay[PlaceOf(f)].file = f
<1>1. DOMAIN overlay = 1 .. Len(overlay) /\ Len(overlay) \in Nat
    BY LenProperties
<1>2. CASE f \notin Files(overlay)
    <2>1. OthersThan(f) = overlay
        BY <1>2 DEF OthersThan
    <2> QED BY <1>2, <2>1 DEF Ours
<1>3. CASE f \in Files(overlay)
    <2>1. PICK i \in 1 .. Len(overlay) : overlay[i].file = f
        BY <1>1, <1>3 DEF Files
    <2> DEFINE I == {j \in 1 .. Len(overlay) : overlay[j].file = f}
               rest == RemoveAt(overlay, i)
               from(j) == IF j < i THEN j ELSE j + 1
    <2>2. I = {i}
        BY <1>1, <2>1 DEF OneEach
    <2>3. Min(I) = i
        BY <2>2 DEF Min
    <2>4. PlaceOf(f) = i
        BY <2>2, <2>3 DEF PlaceOf, SelectInSeq
    <2>5. OthersThan(f) = rest
        BY <1>3, <2>4 DEF OthersThan
    <2>6. /\ rest \in Seq(Entry) /\ Len(rest) = Len(overlay) - 1
          /\ DOMAIN rest = 1 .. Len(overlay) - 1
          /\ \A j \in 1 .. Len(overlay) - 1 :
                rest[j] = IF j < i THEN overlay[j] ELSE overlay[j + 1]
        BY RemoveAtShifts
    <2> HIDE DEF rest, I
    <2>7. \A j \in DOMAIN rest :
             from(j) \in DOMAIN overlay /\ from(j) # i /\ rest[j] = overlay[from(j)]
        BY <1>1, <2>6
    <2>8. \A j, k \in DOMAIN rest : from(j) = from(k) => j = k
        BY <1>1, <2>6
    <2> HIDE DEF from
    <2>9. OneEach(rest) /\ Ours(rest)
        BY <2>7, <2>8 DEF OneEach, Ours
    <2>10. Files(rest) = Files(overlay) \ {f}
        <3>1. \A j \in DOMAIN rest : rest[j].file \in Files(overlay) \ {f}
            BY <1>1, <2>1, <2>7 DEF Files, OneEach
        <3>2. ASSUME NEW j \in DOMAIN overlay, overlay[j].file # f
              PROVE  overlay[j].file \in Files(rest)
            <4>1. CASE j < i
                BY <1>1, <2>6, <4>1 DEF Files
            <4>2. CASE j > i
                <5>1. j - 1 \in DOMAIN rest /\ rest[j - 1] = overlay[j]
                    BY <1>1, <2>6, <4>2
                <5> QED BY <5>1 DEF Files
            <4> QED BY <1>1, <2>1, <3>2, <4>1, <4>2
        <3> QED BY <3>1, <3>2 DEF Files
    <2> QED BY <1>1, <1>3, <2>1, <2>4, <2>5, <2>6, <2>9, <2>10
<1> QED BY <1>2, <1>3

\* So does dropping the one unused for longest.
LEMMA OldestLeaves ==
    ASSUME overlay \in Seq(Entry), OneEach(overlay), overlay # <<>>
    PROVE  /\ Tail(overlay) \in Seq(Entry) /\ OneEach(Tail(overlay))
           /\ Ours(Tail(overlay))
           /\ Files(Tail(overlay)) \subseteq Files(overlay)
           /\ Len(Tail(overlay)) = Len(overlay) - 1
<1>1. DOMAIN overlay = 1 .. Len(overlay) /\ Len(overlay) \in Nat \ {0}
    BY LenProperties, EmptySeq
<1>2. /\ Tail(overlay) \in Seq(Entry) /\ Len(Tail(overlay)) = Len(overlay) - 1
      /\ DOMAIN Tail(overlay) = 1 .. Len(overlay) - 1
      /\ \A i \in 1 .. Len(overlay) - 1 : Tail(overlay)[i] = overlay[i + 1]
    BY HeadTailProperties, LenProperties
<1>3. \A i \in DOMAIN Tail(overlay) : i + 1 \in DOMAIN overlay
    BY <1>1, <1>2
<1> QED BY <1>1, <1>2, <1>3 DEF OneEach, Ours, Files

\* A file that has no entry gets one at the end.
LEMMA EntryAdded ==
    ASSUME NEW s \in Seq(Entry), OneEach(s), NEW e \in Entry, e.file \notin Files(s)
    PROVE  /\ Append(s, e) \in Seq(Entry) /\ OneEach(Append(s, e))
           /\ Len(Append(s, e)) = Len(s) + 1
           /\ Files(Append(s, e)) = Files(s) \cup {e.file}
           /\ \A i \in DOMAIN Append(s, e) :
                 \/ i \in DOMAIN s /\ Append(s, e)[i] = s[i]
                 \/ Append(s, e)[i] = e
<1> DEFINE t == Append(s, e)
<1>1. /\ t \in Seq(Entry) /\ Len(t) = Len(s) + 1 /\ t[Len(s) + 1] = e
      /\ \A i \in 1 .. Len(s) : t[i] = s[i]
    BY AppendProperties
<1>2. Len(s) \in Nat /\ DOMAIN s = 1 .. Len(s) /\ DOMAIN t = 1 .. Len(s) + 1
    BY <1>1, LenProperties
<1> HIDE DEF t
<1>3. \A i \in DOMAIN t : i \in DOMAIN s \/ i = Len(s) + 1
    BY <1>2
<1>4. \A i \in DOMAIN s : i \in DOMAIN t /\ t[i] = s[i]
    BY <1>1, <1>2
<1>5. Len(s) + 1 \in DOMAIN t /\ Len(s) + 1 \notin DOMAIN s
    BY <1>2
<1>6. OneEach(t)
    BY <1>1, <1>3, <1>4 DEF OneEach, Files
<1>7. Files(t) = Files(s) \cup {e.file}
    BY <1>1, <1>3, <1>4, <1>5 DEF Files
<1> QED BY <1>1, <1>3, <1>4, <1>6, <1>7 DEF t

-----------------------------------------------------------------------------
(* The last word on a file is fresh *)

\* Nothing is posted, and no entry is there.
LEMMA EntryInit == Init => EntryInv
<1> SUFFICES ASSUME Init PROVE EntryInv
    OBVIOUS
<1>1. SidecarTypes
    BY EditorConstants, EmptySeq DEF Init, SidecarTypes
<1> QED BY <1>1 DEF Init, EntryInv, OneEach, LastWordIsFresh, HasLastWord

\* The files posts and entries are about.
LEMMA AboutFiles ==
    ASSUME ClientTypes, SidecarTypes
    PROVE  /\ \A i \in DOMAIN posts :
                 posts[i].kind = "overlay" => /\ posts[i].entry \in Entry
                                              /\ posts[i].entry.file \in File
           /\ \A i \in DOMAIN posts : posts[i].kind = "delete" => posts[i].file \in File
           /\ \A i \in DOMAIN overlay :
                 overlay[i] \in Entry /\ overlay[i].file \in File /\ overlay[i].text \in Text
<1>1. \A i \in DOMAIN posts : posts[i] \in Post
    BY ElementOfSeq, LenProperties DEF ClientTypes
<1>2. \A i \in DOMAIN overlay : overlay[i] \in Entry
    BY ElementOfSeq, LenProperties DEF SidecarTypes
<1> QED BY <1>1, <1>2 DEF Post, Entry

\* The editor's steps that send nothing: a change starts the file's timer.
LEMMA SilentEditorKeepsEntries ==
    ASSUME ClientTypes, EntryInv, NEW f \in File,
           (\E t \in Text : Type(f, t)) \/ Open(f) \/ Commit(f)
    PROVE  EntryInv'
<1> USE DEF EntryInv
<1>1. /\ UNCHANGED <<disk, posts, overlay, indexVars>> /\ timers \subseteq timers'
      /\ \A g \in File \ {f} : buffer'[g] = buffer[g]
      /\ f \notin timers' => buffer' = buffer \/ buffer[f] = None
      /\ owed' \subseteq owed \cup {f} /\ (f \in owed' \ owed => buffer'[f] # None)
      /\ buffer'[f] = None => buffer[f] = None
      /\ head' \in [File -> Text] /\ overtaken' = overtaken
    BY EditorConstants DEF Type, Open, Commit, Event, clientVars, lostVars, ClientTypes,
                           SidecarTypes
<1>2. SidecarTypes'
    BY <1>1 DEF SidecarTypes, indexVars
<1>3. ASSUME NEW e \in Entry, Fresh(e) PROVE Fresh(e)'
    <2>1. e.file \in File /\ e.text \in Text
        BY DEF Entry
    <2>2. e.text # None
        BY <2>1, EditorConstants
    <2> QED BY <1>1, <1>3, <2>1, <2>2 DEF Fresh
<1>4. ASSUME NEW e \in Entry PROVE HasLastWord(e)' <=> HasLastWord(e)
    BY <1>1 DEF HasLastWord, Settled, About
<1>5. LastWordIsFresh'
    BY <1>1, <1>3, <1>4 DEF LastWordIsFresh
<1> QED BY <1>1, <1>2, <1>5 DEF OneEach

\* A step of the sidecar that handles no post and adds no entry.
LEMMA FewerEntries ==
    ASSUME ClientTypes, EntryInv, UNCHANGED <<buffer, disk, timers, posts, overtaken>>,
           SidecarTypes', OneEach(overlay'), Ours(overlay')
    PROVE  EntryInv'
<1>1. ASSUME NEW e \in Entry PROVE /\ HasLastWord(e)' => HasLastWord(e)
                                   /\ Fresh(e)' <=> Fresh(e)
    BY DEF HasLastWord, Settled, About, Fresh, Ours
<1>2. OneEach(overlay)'
    BY DEF OneEach
<1> QED BY <1>1, <1>2 DEF EntryInv, LastWordIsFresh

\* After a post is sent, only what had the last word on another file has it.
LEMMA SentLastWord ==
    ASSUME posts \in Seq(Post), NEW p \in Post, Send(p), UNCHANGED overlay,
           NEW e \in Entry, HasLastWord(e)', p.kind = "overlay" => p.entry # e
    PROVE  HasLastWord(e) /\ ~About(p, e.file)
<1>1. e.file \in File
    BY DEF Entry
<1>2. /\ DOMAIN posts' = 1 .. Len(posts) + 1 /\ Len(posts) \in Nat
      /\ DOMAIN posts = 1 .. Len(posts)
      /\ posts'[Len(posts) + 1] = p
      /\ \A i \in 1 .. Len(posts) : posts'[i] = posts[i]
      /\ \A i \in 0 .. Len(posts) :
            Settled(e.file, i)' <=> Settled(e.file, i) /\ ~About(p, e.file)
    BY <1>1, SettledSend
<1>3. CASE Settled(e.file, 0)' /\ \E i \in DOMAIN overlay : overlay[i] = e
    BY <1>2, <1>3 DEF HasLastWord
<1>4. CASE \E i \in DOMAIN posts' : /\ posts'[i].kind = "overlay"
                                    /\ posts'[i].entry = e /\ Settled(e.file, i)'
    <2>1. PICK i \in DOMAIN posts' : /\ posts'[i].kind = "overlay"
                                     /\ posts'[i].entry = e /\ Settled(e.file, i)'
        BY <1>4
    <2>2. i # Len(posts) + 1
        BY <1>2, <2>1
    <2>3. i \in 1 .. Len(posts)
        BY <1>2, <2>2
    <2>4. Settled(e.file, i) /\ ~About(p, e.file) /\ posts'[i] = posts[i]
        BY <1>2, <2>1, <2>3
    <2> QED BY <1>2, <2>1, <2>3, <2>4 DEF HasLastWord
<1> QED BY <1>3, <1>4 DEF HasLastWord

\* The text of the editor is sent: it has the last word.
LEMMA SendTextKeepsEntries ==
    ASSUME ClientTypes, EntryInv, NEW f \in File, TimerFires(f) \/ Save(f)
    PROVE  EntryInv'
<1> USE DEF EntryInv
<1>1. /\ UNCHANGED <<buffer, head, overlay, indexVars>> /\ timers' = timers \ {f}
      /\ buffer[f] \in Text /\ owed' \subseteq owed \cup {f}
      /\ \A g \in File \ {f} : disk'[g] = disk[g]
      /\ overtaken' = overtaken \ {f}
    BY DEF TimerFires, Save, SendText, SendAbout, Event, editorVars, ClientTypes
<1>2. SidecarTypes'
    BY <1>1, EditorConstants DEF SidecarTypes, indexVars
<1>3. PICK dirty \in BOOLEAN : SendText(f, dirty) /\ (~dirty => disk'[f] = buffer[f])
    BY DEF TimerFires, Save, ClientTypes
<1>4. PICK new \in Entry, p \in Post :
         /\ new = [file |-> f, text |-> buffer[f], dirty |-> dirty]
         /\ p = [kind |-> "overlay", entry |-> new] /\ Send(p)
    BY <1>1, <1>3 DEF SendText, SendAbout, Entry, Post
<1>5. \A g \in File : About(p, g) <=> g = f
    BY <1>4 DEF About
<1>6. p.kind = "overlay" /\ p.entry = new /\ Fresh(new)'
    BY <1>1, <1>3, <1>4 DEF Fresh
<1>7. ASSUME NEW e \in Entry, e.file \notin overtaken', HasLastWord(e)', e # new
      PROVE  Fresh(e)'
    <2>1. HasLastWord(e) /\ ~About(p, e.file)
        BY <1>1, <1>4, <1>6, <1>7, SentLastWord DEF ClientTypes
    <2>2. Fresh(e) /\ e.file \in File /\ e.file # f
        BY <1>1, <1>5, <1>7, <2>1 DEF LastWordIsFresh, Entry
    <2> QED BY <1>1, <2>2 DEF Fresh
<1>8. LastWordIsFresh'
    BY <1>6, <1>7 DEF LastWordIsFresh
<1>9. OneEach(overlay)'
    BY <1>1 DEF OneEach
<1> QED BY <1>2, <1>8, <1>9

\* A closed document has nothing to say any more.
LEMMA CloseKeepsEntries ==
    ASSUME ClientTypes, EntryInv, NEW f \in File, Close(f)
    PROVE  EntryInv'
<1> USE DEF EntryInv
<1>1. /\ UNCHANGED <<disk, head, overlay, indexVars>> /\ timers' = timers \ {f}
      /\ owed' = owed \ {f} /\ \A g \in File \ {f} : buffer'[g] = buffer[g]
      /\ overtaken' = overtaken \ {f}
    BY DEF Close, SendAbout, ClientTypes
<1>2. SidecarTypes'
    BY <1>1 DEF SidecarTypes, indexVars
<1>3. PICK p \in Post : p = [kind |-> "delete", file |-> f] /\ Send(p)
    BY DEF Close, SendAbout, Post
<1>4. ASSUME NEW e \in Entry, e.file \notin overtaken', HasLastWord(e)'
      PROVE  Fresh(e)'
    <2>1. HasLastWord(e) /\ ~About(p, e.file)
        BY <1>1, <1>3, <1>4, SentLastWord DEF ClientTypes
    <2>2. Fresh(e) /\ e.file \in File /\ e.file # f
        BY <1>1, <1>3, <1>4, <2>1 DEF LastWordIsFresh, Entry, About
    <2> QED BY <1>1, <2>2 DEF Fresh
<1>5. OneEach(overlay)'
    BY <1>1 DEF OneEach
<1> QED BY <1>2, <1>4, <1>5 DEF LastWordIsFresh

\* Batches of saved files say nothing of the overlay.
LEMMA FlushKeepsEntries ==
    ASSUME ClientTypes, EntryInv,
           (\E batch \in SUBSET File : Flush(batch)) \/ FlushReturns
    PROVE  EntryInv'
<1> USE DEF EntryInv
<1>1. UNCHANGED <<buffer, disk, head, timers, overlay, indexVars, owed, overtaken>>
    BY DEF Flush, FlushReturns, editorVars, lostVars
<1>2. SidecarTypes'
    BY <1>1 DEF SidecarTypes, indexVars
<1>3. CASE UNCHANGED posts
    <2>1. Ours(overlay') /\ OneEach(overlay')
        BY <1>1 DEF Ours
    <2> QED BY <1>1, <1>2, <1>3, <2>1, FewerEntries
<1>4. CASE ~UNCHANGED posts
    <2>1. PICK p \in Post : p.kind = "index" /\ Send(p)
        BY <1>4 DEF Flush, FlushReturns, Post
    <2>2. ASSUME NEW e \in Entry, e.file \notin overtaken', HasLastWord(e)'
          PROVE  Fresh(e)'
        <3>1. HasLastWord(e)
            BY <1>1, <2>1, <2>2, SentLastWord DEF ClientTypes
        <3> QED BY <1>1, <2>2, <3>1 DEF LastWordIsFresh, Fresh
    <2>3. OneEach(overlay)'
        BY <1>1 DEF OneEach
    <2> QED BY <1>2, <2>2, <2>3 DEF LastWordIsFresh
<1> QED BY <1>3, <1>4

\* After a post is handled, the last word on a file of which it overtook none
\* is had by what had it, or by an entry whose file has no later post.
LEMMA HandledLastWord ==
    ASSUME posts \in Seq(Post), NEW i \in DOMAIN posts, posts' = RemoveAt(posts, i),
           NEW e \in Entry, e.file \notin Overtaken(i), HasLastWord(e)'
    PROVE  \/ HasLastWord(e)
           \/ /\ \E j \in DOMAIN overlay' : overlay'[j] = e
              /\ Settled(e.file, i)
              /\ ~About(posts[i], e.file) => Settled(e.file, 0)
<1>1. e.file \in File
    BY DEF Entry
<1>2. /\ DOMAIN posts = 1 .. Len(posts) /\ Len(posts) \in Nat \ {0} /\ i \in Nat \ {0}
      /\ DOMAIN posts' = 1 .. Len(posts) - 1
      /\ \A k \in 1 .. Len(posts) - 1 :
            posts'[k] = IF k < i THEN posts[k] ELSE posts[k + 1]
      /\ \A k \in 0 .. Len(posts) - 1 :
            IF k < i
            THEN /\ Settled(e.file, k)' => Settled(e.file, i)
                 /\ Settled(e.file, k)' /\ ~About(posts[i], e.file) => Settled(e.file, k)
            ELSE Settled(e.file, k)' <=> Settled(e.file, k + 1)
    BY <1>1, SettledHandled
<1>3. ASSUME NEW k \in DOMAIN posts', posts'[k].kind = "overlay",
             posts'[k].entry = e, Settled(e.file, k)'
      PROVE  HasLastWord(e)
    <2>1. CASE k < i
        <3>1. k \in DOMAIN posts /\ posts'[k] = posts[k] /\ k \in 0 .. Len(posts) - 1
            BY <1>2, <2>1
        <3>2. About(posts[k], e.file)
            BY <1>3, <3>1 DEF About
        <3>3. Settled(e.file, i)
            BY <1>2, <1>3, <2>1, <3>1
        <3>4. ~About(posts[i], e.file)
            BY <1>1, <2>1, <3>1, <3>2, <3>3 DEF Overtaken, Settled
        <3>5. Settled(e.file, k)
            BY <1>2, <1>3, <2>1, <3>1, <3>4
        <3> QED BY <1>3, <3>1, <3>5 DEF HasLastWord
    <2>2. CASE ~(k < i)
        <3>1. /\ k + 1 \in DOMAIN posts /\ posts'[k] = posts[k + 1]
              /\ Settled(e.file, k + 1)
            BY <1>2, <1>3, <2>2
        <3> QED BY <1>3, <3>1 DEF HasLastWord
    <2> QED BY <2>1, <2>2
<1>4. CASE Settled(e.file, 0)' /\ \E j \in DOMAIN overlay' : overlay'[j] = e
    <2>1. 0 \in 0 .. Len(posts) - 1 /\ 0 < i
        BY <1>2
    <2> QED BY <1>2, <1>4, <2>1
<1> QED BY <1>3, <1>4 DEF HasLastWord

\* An entry that arrives had the last word as a post, if it has it now.
LEMMA UpdateKeepsEntries ==
    ASSUME ClientTypes, EntryInv, NEW i \in DOMAIN posts, Update(i)
    PROVE  EntryInv'
<1> USE DEF EntryInv
<1> DEFINE new  == posts[i].entry
           kept == IF new.file \in Files(overlay) \/ Len(overlay) < MaxEntries
                   THEN OthersThan(new.file) ELSE Tail(overlay)
<1>1. /\ posts[i].kind = "overlay" /\ posts' = RemoveAt(posts, i)
      /\ overtaken' = overtaken \cup Overtaken(i)
      /\ UNCHANGED <<buffer, disk, head, timers, indexVars>>
      /\ overlay' = Append(kept, new) /\ owed' \subseteq owed
    BY DEF Update, Receive, Forget, editorVars, clientVars
<1>2. new \in Entry /\ new.file \in File
    BY <1>1, AboutFiles
<1>3. /\ kept \in Seq(Entry) /\ OneEach(kept) /\ Ours(kept)
      /\ new.file \notin Files(kept) /\ Len(kept) + 1 <= MaxEntries
    <2>0. Len(overlay) \in Nat /\ MaxEntries \in Nat \ {0} /\ Len(overlay) <= MaxEntries
          /\ overlay \in Seq(Entry)
        BY LenProperties, EditorConstants DEF SidecarTypes, EditorConstants
    <2>1. CASE new.file \in Files(overlay) \/ Len(overlay) < MaxEntries
        <3>1. kept = OthersThan(new.file)
            BY <2>1
        <3> HIDE DEF kept, new
        <3> QED BY <1>2, <2>0, <2>1, <3>1, OthersLeft
    <2>2. CASE ~(new.file \in Files(overlay) \/ Len(overlay) < MaxEntries)
        <3>1. kept = Tail(overlay)
            BY <2>2
        <3> HIDE DEF kept, new
        <3>2. Len(overlay) = MaxEntries
            BY <2>0, <2>2
        <3>3. overlay # <<>>
            BY <2>0, <3>2, EmptySeq
        <3> QED BY <2>0, <2>2, <3>1, <3>2, <3>3, OldestLeaves
    <2> QED BY <2>1, <2>2
<1> HIDE DEF kept
<1>4. /\ overlay' \in Seq(Entry) /\ OneEach(overlay')
      /\ Len(overlay') = Len(kept) + 1
      /\ \A j \in DOMAIN overlay' :
            \/ j \in DOMAIN kept /\ overlay'[j] = kept[j]
            \/ overlay'[j] = new
    BY <1>1, <1>2, <1>3, EntryAdded
<1>5. SidecarTypes'
    BY <1>1, <1>3, <1>4 DEF SidecarTypes, indexVars
<1>6. ASSUME NEW e \in Entry, e.file \notin overtaken', HasLastWord(e)'
      PROVE  HasLastWord(e)
    <2>1. CASE /\ \E j \in DOMAIN overlay' : overlay'[j] = e
               /\ Settled(e.file, i)
               /\ ~About(posts[i], e.file) => Settled(e.file, 0)
        <3>1. CASE e = new
            BY <1>1, <2>1, <3>1 DEF HasLastWord
        <3>2. CASE e # new
            <4>1. PICK j \in DOMAIN kept : kept[j] = e
                BY <1>4, <2>1, <3>2
            <4>2. \E m \in DOMAIN overlay : overlay[m] = e
                BY <1>3, <4>1 DEF Ours
            <4>3. e.file # new.file
                BY <1>3, <4>1 DEF Files
            <4>4. ~About(posts[i], e.file)
                BY <1>1, <4>3 DEF About
            <4>5. Settled(e.file, 0)
                BY <2>1, <4>4
            <4> QED BY <4>2, <4>5 DEF HasLastWord
        <3> QED BY <3>1, <3>2
    <2>2. e.file \notin Overtaken(i)
        BY <1>1, <1>6
    <2> QED BY <1>1, <1>6, <2>1, <2>2, HandledLastWord DEF ClientTypes
<1>7. LastWordIsFresh'
    BY <1>1, <1>6 DEF LastWordIsFresh, Fresh
<1>8. OneEach(overlay)'
    BY <1>4 DEF OneEach
<1> QED BY <1>5, <1>7, <1>8

\* The other posts add no entry.
LEMMA OtherPostsKeepEntries ==
    ASSUME ClientTypes, EntryInv, NEW i \in DOMAIN posts,
           Clear(i) \/ IndexFiles(i) \/ IndexFilesFails(i)
    PROVE  EntryInv'
<1> USE DEF EntryInv
<1>1. /\ posts' = RemoveAt(posts, i)
      /\ overtaken' = overtaken \cup Overtaken(i)
      /\ UNCHANGED <<buffer, disk, head, timers, job, stored, owed>>
    BY DEF Clear, IndexFiles, IndexFilesFails, Receive, editorVars, clientVars, indexVars
<1>2. pending' \subseteq File
    <2>1. posts[i] \in Post
        BY <1>1, ElementOfSeq, LenProperties DEF ClientTypes
    <2> QED BY <1>1, <2>1 DEF Clear, IndexFiles, IndexFilesFails, Receive, indexVars,
                             SidecarTypes, Post
<1>3. /\ overlay' \in Seq(Entry) /\ OneEach(overlay') /\ Ours(overlay')
      /\ Len(overlay') <= MaxEntries
      /\ \A j \in DOMAIN overlay' : ~About(posts[i], overlay'[j].file)
    <2>0. Len(overlay) \in Nat /\ MaxEntries \in Nat /\ Len(overlay) <= MaxEntries
          /\ overlay \in Seq(Entry)
        BY LenProperties, EditorConstants DEF SidecarTypes, EditorConstants
    <2>1. CASE Clear(i)
        <3>1. posts[i].kind = "delete" /\ overlay' = OthersThan(posts[i].file)
            BY <1>1, <2>1 DEF Clear, Receive
        <3>2. posts[i].file \in File
            BY <1>1, <3>1, AboutFiles
        <3>3. /\ overlay' \in Seq(Entry) /\ OneEach(overlay') /\ Ours(overlay')
              /\ Files(overlay') = Files(overlay) \ {posts[i].file}
              /\ Len(overlay') <= Len(overlay)
            BY <2>0, <3>1, <3>2, OthersLeft
        <3>4. Len(overlay') \in Nat
            BY <3>3, LenProperties
        <3>5. \A j \in DOMAIN overlay' : overlay'[j].file # posts[i].file
            BY <3>3 DEF Files
        <3> QED BY <2>0, <3>1, <3>3, <3>4, <3>5 DEF About
    <2>2. CASE IndexFiles(i) \/ IndexFilesFails(i)
        BY <1>1, <2>0, <2>2 DEF IndexFiles, IndexFilesFails, Receive, Ours, About
    <2> QED BY <2>1, <2>2
<1>4. SidecarTypes'
    BY <1>1, <1>2, <1>3 DEF SidecarTypes
<1>5. ASSUME NEW e \in Entry, e.file \notin overtaken', HasLastWord(e)'
      PROVE  HasLastWord(e)
    <2>1. CASE /\ \E j \in DOMAIN overlay' : overlay'[j] = e
               /\ ~About(posts[i], e.file) => Settled(e.file, 0)
        <3>1. \E m \in DOMAIN overlay : overlay[m] = e
            BY <1>3, <2>1 DEF Ours
        <3>2. Settled(e.file, 0)
            BY <1>3, <2>1
        <3> QED BY <3>1, <3>2 DEF HasLastWord
    <2>2. e.file \notin Overtaken(i)
        BY <1>1, <1>5
    <2> QED BY <1>1, <1>5, <2>1, <2>2, HandledLastWord DEF ClientTypes
<1>6. LastWordIsFresh'
    BY <1>1, <1>5 DEF LastWordIsFresh, Fresh
<1>7. OneEach(overlay)'
    BY <1>3 DEF OneEach
<1> QED BY <1>4, <1>6, <1>7

\* Looks, expiries and index jobs keep entries or drop them.
LEMMA WorkerKeepsEntries ==
    ASSUME ClientTypes, EntryInv,
           \/ \E f \in File : Touch(f) \/ Poll(f) \/ SkipQueued(f) \/ TakeQueued(f)
           \/ Expire \/ Indexed \/ IndexFails
    PROVE  EntryInv'
<1> USE DEF EntryInv
<1>0. /\ Len(overlay) \in Nat /\ MaxEntries \in Nat /\ Len(overlay) <= MaxEntries
      /\ overlay \in Seq(Entry) /\ OneEach(overlay)
    BY LenProperties, EditorConstants DEF SidecarTypes, EditorConstants
<1>1. /\ UNCHANGED <<buffer, disk, head, timers, posts, overtaken>> /\ owed' \subseteq owed
    BY DEF Touch, Poll, SkipQueued, TakeQueued, Expire, Forget, Indexed, IndexFails,
           editorVars, clientVars, indexVars, lostVars
<1>2. ASSUME overlay' \in Seq(Entry), OneEach(overlay'), Ours(overlay'),
             Len(overlay') <= MaxEntries, pending' \subseteq File,
             job' = NoJob \/ (job'.file \in File /\ job'.text \in Text),
             stored' \in [File -> Text]
      PROVE  EntryInv'
    <2>1. SidecarTypes'
        BY <1>1, <1>2 DEF SidecarTypes
    <2> QED BY <1>1, <1>2, <2>1, FewerEntries
<1>3. Ours(overlay)
    BY DEF Ours
<1>4. ASSUME NEW f \in File, Poll(f) \/ SkipQueued(f) \/ TakeQueued(f)
      PROVE  EntryInv'
    <2>1. /\ overlay' = overlay /\ stored' \in [File -> Text]
          /\ pending' \subseteq File
        BY <1>4 DEF Poll, SkipQueued, TakeQueued, SidecarTypes
    <2>2. job' = NoJob \/ (job'.file \in File /\ job'.text \in Text)
        BY <1>4 DEF Poll, SkipQueued, TakeQueued, SidecarTypes, ClientTypes
    <2> QED BY <1>0, <1>2, <1>3, <2>1, <2>2
<1>5. CASE IndexFails
    BY <1>0, <1>2, <1>3, <1>5 DEF IndexFails, SidecarTypes
<1>6. ASSUME NEW f \in File, Touch(f)
      PROVE  EntryInv'
    <2>1. UNCHANGED indexVars
        BY <1>6 DEF Touch
    <2>2. CASE f \notin Files(overlay)
        <3>1. overlay' = overlay
            BY <1>6, <2>2 DEF Touch
        <3> QED BY <1>0, <1>2, <1>3, <2>1, <3>1 DEF SidecarTypes, indexVars
    <2>3. CASE f \in Files(overlay)
        <3> DEFINE e == overlay[PlaceOf(f)]
        <3>1. overlay' = Append(OthersThan(f), e)
            BY <1>6, <2>3 DEF Touch
        <3>2. /\ OthersThan(f) \in Seq(Entry) /\ OneEach(OthersThan(f))
              /\ Ours(OthersThan(f)) /\ f \notin Files(OthersThan(f))
              /\ Len(OthersThan(f)) = Len(overlay) - 1
              /\ PlaceOf(f) \in DOMAIN overlay /\ e.file = f
            BY <1>0, <2>3, OthersLeft
        <3>3. e \in Entry
            BY <3>2, AboutFiles
        <3>4. /\ overlay' \in Seq(Entry) /\ OneEach(overlay')
              /\ Len(overlay') = Len(OthersThan(f)) + 1
              /\ \A j \in DOMAIN overlay' :
                    \/ j \in DOMAIN OthersThan(f) /\ overlay'[j] = OthersThan(f)[j]
                    \/ overlay'[j] = e
            BY <3>1, <3>2, <3>3, EntryAdded
        <3>5. Ours(overlay')
            BY <3>2, <3>4 DEF Ours
        <3>6. Len(overlay') <= MaxEntries
            BY <1>0, <3>2, <3>4
        <3> HIDE DEF e
        <3> QED BY <1>2, <2>1, <3>4, <3>5, <3>6 DEF SidecarTypes, indexVars
    <2> QED BY <2>2, <2>3
<1>7. CASE Expire
    <2>1. overlay # <<>> /\ overlay' = Tail(overlay) /\ UNCHANGED indexVars
        BY <1>7 DEF Expire
    <2>2. /\ overlay' \in Seq(Entry) /\ OneEach(overlay') /\ Ours(overlay')
          /\ Len(overlay') = Len(overlay) - 1
        BY <1>0, <2>1, OldestLeaves
    <2>3. Len(overlay') <= MaxEntries
        BY <1>0, <2>2
    <2> QED BY <1>2, <2>1, <2>2, <2>3 DEF SidecarTypes, indexVars
<1>8. CASE Indexed
    <2>1. /\ job.file \in File /\ job.text \in Text /\ overlay' = OthersThan(job.file)
          /\ stored' = [stored EXCEPT ![job.file] = job.text] /\ job' = NoJob
          /\ pending' = pending
        BY <1>8 DEF Indexed, SidecarTypes
    <2>2. /\ overlay' \in Seq(Entry) /\ OneEach(overlay') /\ Ours(overlay')
          /\ Len(overlay') = Len(overlay) - 1 \/ Len(overlay') = Len(overlay)
        BY <1>0, <2>1, OthersLeft
    <2>3. Len(overlay') <= MaxEntries
        BY <1>0, <2>2
    <2>4. stored' \in [File -> Text] /\ pending' \subseteq File
        BY <2>1 DEF SidecarTypes
    <2> QED BY <1>2, <2>1, <2>2, <2>3, <2>4
<1> QED BY <1>4, <1>5, <1>6, <1>7, <1>8

\* No step gives an outdated post or entry the last word.
LEMMA EntryStep ==
    ASSUME ClientTypes, EntryInv, [Next]_vars
    PROVE  EntryInv'
<1>1. CASE UNCHANGED vars
    <2>1. Ours(overlay') /\ OneEach(overlay') /\ SidecarTypes'
        BY <1>1 DEF vars, editorVars, indexVars, EntryInv, Ours, SidecarTypes
    <2> QED BY <1>1, <2>1, FewerEntries DEF vars, editorVars, clientVars, lostVars
<1>2. CASE Next
    BY <1>2, SilentEditorKeepsEntries, SendTextKeepsEntries, CloseKeepsEntries,
       FlushKeepsEntries, UpdateKeepsEntries, OtherPostsKeepEntries, WorkerKeepsEntries
       DEF Next, Editor, Sidecar
<1> QED BY <1>1, <1>2

\* Whatever order posts arrive in: a file has at most one entry, the overlay
\* keeps its limit, and once everything has arrived no entry is of a closed
\* document or of an earlier text, and an entry marked as saved is what is on
\* disk, unless the last post about its file overtook an earlier one; for any
\* number of files, texts and editor events.
THEOREM EditorEntriesAreCurrent == Spec => []EntriesAreCurrent
<1>1. ClientInv /\ EntryInv /\ [Next]_vars => EntryInv'
    BY EntryStep DEF ClientInv
<1>2. ClientInv /\ EntryInv => EntriesAreCurrent
    <2> SUFFICES ASSUME ClientTypes, EntryInv PROVE EntriesAreCurrent
        BY DEF ClientInv
    <2>1. ASSUME Resting, NEW i \in DOMAIN overlay, overlay[i].file \notin overtaken
          PROVE  LET e == overlay[i]
                 IN  e.text = buffer[e.file] /\ (~e.dirty => e.text = disk[e.file])
        <3>1. overlay[i] \in Entry /\ overlay[i].file \in File
            BY <2>1, AboutFiles DEF EntryInv
        <3>2. Settled(overlay[i].file, 0)
            BY <2>1 DEF Resting, Settled
        <3>3. HasLastWord(overlay[i])
            BY <3>2 DEF HasLastWord
        <3> QED BY <2>1, <3>1, <3>3 DEF EntryInv, LastWordIsFresh, Fresh, Resting
    <2> QED BY <2>1 DEF EntriesAreCurrent, EntryInv, SidecarTypes, OneEach
<1> QED BY ClientInit, ClientStep, EntryInit, <1>1, <1>2, PTL DEF Spec

-----------------------------------------------------------------------------
(* The text an answer owes is somewhere *)

\* Nothing is owed.
LEMMA TextInit == Init => TextIsSomewhere
BY DEF Init, TextIsSomewhere

\* A post about another file leaves the text where it is.
LEMMA SentElsewhere ==
    ASSUME posts \in Seq(Post), NEW p \in Post, Send(p), NEW g \in File,
           ~About(p, g), Somewhere(g), g \in timers => g \in timers',
           UNCHANGED <<overlay, stored>>, buffer'[g] = buffer[g]
    PROVE  Somewhere(g)'
<1>1. /\ DOMAIN posts' = 1 .. Len(posts) + 1 /\ Len(posts) \in Nat
      /\ DOMAIN posts = 1 .. Len(posts)
      /\ \A i \in 1 .. Len(posts) : posts'[i] = posts[i]
      /\ \A i \in 0 .. Len(posts) : Settled(g, i)' <=> Settled(g, i) /\ ~About(p, g)
    BY SettledSend
<1>2. ASSUME NEW i \in DOMAIN posts, posts[i].kind = "overlay",
             posts[i].entry.file = g, Settled(g, i)
      PROVE  Somewhere(g)'
    BY <1>1, <1>2 DEF Somewhere
<1>3. CASE Settled(g, 0) /\ (g \in Files(overlay) \/ stored[g] = buffer[g])
    BY <1>1, <1>3 DEF Somewhere, Files
<1>4. CASE g \in timers
    BY <1>4 DEF Somewhere
<1> QED BY <1>2, <1>3, <1>4 DEF Somewhere

\* The editor's steps: a change waits for its timer, a sent text is on its way.
LEMMA EditorKeepsText ==
    ASSUME ClientTypes, SidecarTypes, TextIsSomewhere, NEW f \in File, Editor(f)
    PROVE  TextIsSomewhere'
<1> USE DEF ClientTypes, SidecarTypes
<1>1. ASSUME NEW t \in Text, Type(f, t) PROVE TextIsSomewhere'
    <2>1. /\ UNCHANGED <<posts, overlay, stored>> /\ timers' = timers \cup {f}
          /\ owed' = owed \cup {f} /\ \A g \in File \ {f} : buffer'[g] = buffer[g]
          /\ UNCHANGED lostVars
        BY <1>1 DEF Type, indexVars
    <2> QED BY <2>1 DEF TextIsSomewhere, Somewhere, Settled, About, Files, lostVars
<1>2. CASE Open(f) \/ Commit(f)
    <2>1. /\ UNCHANGED <<posts, overlay, stored, timers, owed>>
          /\ \A g \in owed : buffer'[g] = buffer[g]
          /\ UNCHANGED lostVars
        BY <1>2 DEF Open, Commit, clientVars, indexVars
    <2> QED BY <2>1 DEF TextIsSomewhere, Somewhere, Settled, About, Files, lostVars
<1>3. CASE TimerFires(f) \/ Save(f)
    <2>1. /\ UNCHANGED <<buffer, overlay, stored>> /\ timers' = timers \ {f}
          /\ owed' \subseteq owed \cup {f}
          /\ overtaken' = overtaken \ {f} /\ cleared' = cleared \ {f}
        BY <1>3 DEF TimerFires, Save, SendText, SendAbout, editorVars, indexVars
    <2>2. buffer[f] \in Text /\ \E dirty \in BOOLEAN : SendText(f, dirty)
        BY <1>3 DEF TimerFires, Save
    <2>3. PICK p \in Post : p.kind = "overlay" /\ p.entry.file = f /\ Send(p)
        BY <2>2 DEF SendText, SendAbout, Post, Entry
    <2>4. Somewhere(f)'
        <3>1. PICK i \in Nat : i = Len(posts) + 1
            BY LenProperties
        <3>2. i \in DOMAIN posts' /\ posts'[i] = p /\ Settled(f, i)'
            BY <2>3, <3>1, SettledSend
        <3> QED BY <2>3, <3>2 DEF Somewhere
    <2>5. ASSUME NEW g \in owed, g \notin overtaken' \cup cleared', g # f PROVE Somewhere(g)'
        <3>1. ~About(p, g)
            BY <2>3, <2>5 DEF About
        <3> QED BY <2>1, <2>3, <2>5, <3>1, SentElsewhere DEF TextIsSomewhere
    <2> QED BY <2>1, <2>4, <2>5 DEF TextIsSomewhere
<1>4. CASE Close(f)
    <2>1. /\ UNCHANGED <<overlay, stored>> /\ timers' = timers \ {f}
          /\ owed' = owed \ {f} /\ \A g \in File \ {f} : buffer'[g] = buffer[g]
          /\ overtaken' = overtaken \ {f} /\ cleared' = cleared \ {f}
        BY <1>4 DEF Close, SendAbout, indexVars
    <2>2. PICK p \in Post : p = [kind |-> "delete", file |-> f] /\ Send(p)
        BY <1>4 DEF Close, SendAbout, Post
    <2>3. ASSUME NEW g \in owed, g \notin overtaken' \cup cleared', g # f PROVE Somewhere(g)'
        <3>1. ~About(p, g)
            BY <2>2, <2>3 DEF About
        <3> QED BY <2>1, <2>2, <2>3, <3>1, SentElsewhere DEF TextIsSomewhere
    <2> QED BY <2>1, <2>3 DEF TextIsSomewhere
<1> QED BY <1>1, <1>2, <1>3, <1>4 DEF Editor

\* So do the flushes of saved files.
LEMMA FlushKeepsText ==
    ASSUME ClientTypes, SidecarTypes, TextIsSomewhere,
           (\E batch \in SUBSET File : Flush(batch)) \/ FlushReturns
    PROVE  TextIsSomewhere'
<1>1. UNCHANGED <<buffer, timers, overlay, stored, owed, overtaken, cleared>>
    BY DEF Flush, FlushReturns, editorVars, indexVars, lostVars
<1>2. CASE UNCHANGED posts
    BY <1>1, <1>2 DEF TextIsSomewhere, Somewhere, Settled, About, Files
<1>3. CASE ~UNCHANGED posts
    <2>1. PICK p \in Post : p.kind = "index" /\ Send(p)
        BY <1>3 DEF Flush, FlushReturns, Post
    <2>2. ASSUME NEW g \in owed \ (overtaken \cup cleared) PROVE Somewhere(g)'
        <3>1. ~About(p, g)
            BY <2>1 DEF About
        <3> QED BY <1>1, <2>1, <3>1, SentElsewhere
                DEF ClientTypes, SidecarTypes, TextIsSomewhere
    <2> QED BY <1>1, <2>2 DEF TextIsSomewhere
<1> QED BY <1>2, <1>3

\* After a post is handled that overtook none about a file, the file's text is
\* where it was, or it has just become what an answer shows.
LEMMA HandledText ==
    ASSUME posts \in Seq(Post), NEW i \in DOMAIN posts, posts' = RemoveAt(posts, i),
           UNCHANGED timers, NEW g \in File, g \notin Overtaken(i), Somewhere(g),
           \/ posts[i].kind = "overlay" /\ posts[i].entry.file = g
           \/ Settled(g, 0) /\ (g \in Files(overlay) \/ stored[g] = buffer[g])
           => g \in Files(overlay)' \/ stored'[g] = buffer'[g]
    PROVE  Somewhere(g)'
<1>1. /\ DOMAIN posts = 1 .. Len(posts) /\ Len(posts) \in Nat \ {0} /\ i \in Nat \ {0}
      /\ DOMAIN posts' = 1 .. Len(posts) - 1
      /\ \A k \in 1 .. Len(posts) - 1 :
            posts'[k] = IF k < i THEN posts[k] ELSE posts[k + 1]
      /\ \A k \in 0 .. Len(posts) - 1 :
            IF k < i THEN Settled(g, k) => Settled(g, k)'
            ELSE Settled(g, k)' <=> Settled(g, k + 1)
    BY SettledHandled
<1>2. CASE g \in timers
    BY <1>2 DEF Somewhere
<1>3. ASSUME NEW k \in DOMAIN posts, posts[k].kind = "overlay",
             posts[k].entry.file = g, Settled(g, k)
      PROVE  Somewhere(g)'
    <2>1. CASE k < i
        <3>1. k \in DOMAIN posts' /\ k \in 0 .. Len(posts) - 1
            BY <1>1, <2>1
        <3>2. posts'[k] = posts[k] /\ Settled(g, k)'
            BY <1>1, <1>3, <2>1, <3>1
        <3> QED BY <1>3, <3>1, <3>2 DEF Somewhere
    <2>2. CASE k > i
        <3>1. k - 1 \in DOMAIN posts' /\ k - 1 \in 0 .. Len(posts) - 1 /\ ~(k - 1 < i)
              /\ (k - 1) + 1 = k
            BY <1>1, <2>2
        <3>2. posts'[k - 1] = posts[k] /\ Settled(g, k - 1)'
            BY <1>1, <1>3, <3>1
        <3> QED BY <1>3, <3>1, <3>2 DEF Somewhere
    <2>3. CASE k = i
        <3>1. About(posts[i], g)
            BY <1>3, <2>3 DEF About
        <3>2. \A j \in DOMAIN posts : j # i => ~About(posts[j], g)
            BY <1>1, <1>3, <2>3, <3>1 DEF Overtaken, Settled
        <3>3. \A j \in DOMAIN posts' : ~About(posts'[j], g)
            <4> TAKE j \in DOMAIN posts'
            <4>1. CASE j < i
                BY <1>1, <3>2, <4>1
            <4>2. CASE ~(j < i)
                <5>1. j + 1 \in DOMAIN posts /\ j + 1 # i /\ posts'[j] = posts[j + 1]
                    BY <1>1, <4>2
                <5> QED BY <3>2, <5>1
            <4> QED BY <4>1, <4>2
        <3>4. Settled(g, 0)'
            BY <3>3 DEF Settled, About
        <3> QED BY <1>3, <2>3, <3>4 DEF Somewhere
    <2> QED BY <1>1, <2>1, <2>2, <2>3
<1>4. CASE Settled(g, 0) /\ (g \in Files(overlay) \/ stored[g] = buffer[g])
    <2>1. 0 \in 0 .. Len(posts) - 1 /\ 0 < i
        BY <1>1
    <2> QED BY <1>1, <1>4, <2>1 DEF Somewhere
<1> QED BY <1>2, <1>3, <1>4 DEF Somewhere

\* A text that arrives is shown; what loses its place for it is owed no more.
LEMMA UpdateKeepsText ==
    ASSUME ClientTypes, EntryInv, TextIsSomewhere,
           NEW i \in DOMAIN posts, Update(i)
    PROVE  TextIsSomewhere'
<1> DEFINE new == posts[i].entry
<1>1. /\ posts[i].kind = "overlay" /\ posts' = RemoveAt(posts, i)
      /\ overtaken' = overtaken \cup Overtaken(i) /\ cleared' = cleared
      /\ UNCHANGED <<buffer, timers, stored>>
      /\ owed' = owed \ (Files(overlay) \ Files(overlay'))
    BY DEF Update, Receive, Forget, editorVars, clientVars, indexVars
<1>2. new \in Entry /\ new.file \in File
    BY <1>1, AboutFiles DEF EntryInv
<1>3. new.file \in Files(overlay)'
    <2> DEFINE kept == IF new.file \in Files(overlay) \/ Len(overlay) < MaxEntries
                       THEN OthersThan(new.file) ELSE Tail(overlay)
    <2>1. overlay' = Append(kept, new)
        BY <1>1 DEF Update
    <2>2. overlay # <<>> => Tail(overlay) \in Seq(Entry)
        BY OldestLeaves DEF EntryInv, SidecarTypes
    <2>3. OthersThan(new.file) \in Seq(Entry)
        BY <1>2, OthersLeft DEF EntryInv, SidecarTypes
    <2>4. overlay = <<>> => Len(overlay) < MaxEntries
        BY EmptySeq, EditorConstants
    <2>5. kept \in Seq(Entry)
        BY <2>2, <2>3, <2>4
    <2> HIDE DEF kept, new
    <2>6. Len(kept) + 1 \in DOMAIN overlay' /\ overlay'[Len(kept) + 1] = new
        BY <1>2, <2>1, <2>5, AppendProperties, LenProperties
    <2> QED BY <2>6 DEF Files
<1>4. ASSUME NEW g \in owed' \ (overtaken' \cup cleared') PROVE Somewhere(g)'
    <2>1. g \in owed \ (overtaken \cup cleared) /\ g \notin Overtaken(i) /\ g \in File /\ (g \in Files(overlay) => g \in Files(overlay'))
        BY <1>1, <1>4 DEF EntryInv, SidecarTypes
    <2>2. Files(overlay)' = Files(overlay')
        OBVIOUS
    <2>3. g = new.file => g \in Files(overlay)'
        BY <1>3
    <2> QED BY <1>1, <2>1, <2>2, <2>3, HandledText DEF TextIsSomewhere, ClientTypes
<1> QED BY <1>4 DEF TextIsSomewhere

\* A closed document's entry leaves; another post about the file says more.
LEMMA OtherPostsKeepText ==
    ASSUME ClientTypes, EntryInv, TextIsSomewhere, NEW i \in DOMAIN posts,
           Clear(i) \/ IndexFiles(i) \/ IndexFilesFails(i)
    PROVE  TextIsSomewhere'
<1>1. /\ posts[i].kind # "overlay" /\ posts' = RemoveAt(posts, i)
      /\ overtaken' = overtaken \cup Overtaken(i) /\ cleared' = cleared
      /\ UNCHANGED <<buffer, timers, stored, owed>>
    BY DEF Clear, IndexFiles, IndexFilesFails, Receive, editorVars, clientVars, indexVars
<1>2. ASSUME NEW g \in owed, Settled(g, 0), g \in Files(overlay)
      PROVE  g \in Files(overlay)'
    <2>1. CASE Clear(i)
        <3>1. /\ posts[i].kind = "delete" /\ posts[i].file \in File
              /\ overlay' = OthersThan(posts[i].file)
            BY <1>1, <2>1, AboutFiles DEF Clear, Receive, EntryInv
        <3>2. Files(overlay') = Files(overlay) \ {posts[i].file}
            BY <3>1, OthersLeft DEF EntryInv, SidecarTypes
        <3>3. i > 0
            BY LenProperties DEF ClientTypes
        <3>4. ~About(posts[i], g)
            BY <1>2, <3>3 DEF Settled
        <3> QED BY <1>2, <3>1, <3>2, <3>4 DEF About
    <2>2. CASE IndexFiles(i) \/ IndexFilesFails(i)
        BY <1>2, <2>2 DEF IndexFiles, IndexFilesFails
    <2> QED BY <2>1, <2>2
<1>3. ASSUME NEW g \in owed' \ (overtaken' \cup cleared') PROVE Somewhere(g)'
    <2>1. g \in owed \ (overtaken \cup cleared) /\ g \notin Overtaken(i)
        BY <1>1, <1>3
    <2> QED BY <1>1, <1>2, <2>1, HandledText DEF TextIsSomewhere, ClientTypes, EntryInv, SidecarTypes
<1> QED BY <1>1, <1>3 DEF TextIsSomewhere

\* A step of the sidecar that handles no post and takes no owed text away.
LEMMA ShownStays ==
    ASSUME ClientTypes, TextIsSomewhere, UNCHANGED <<buffer, timers, posts, overtaken>>,
           owed' \subseteq owed, cleared \subseteq cleared',
           \A g \in owed' \ cleared' :
              \/ StillToCome(g)
              \/ g \in Files(overlay) /\ g \in Files(overlay')
              \/ g \notin Files(overlay) /\ stored'[g] = stored[g]
              \/ stored'[g] = buffer[g]
    PROVE  TextIsSomewhere'
<1>1. Files(overlay)' = Files(overlay')
    OBVIOUS
<1>2. \A i \in DOMAIN posts : i > 0
    BY LenProperties DEF ClientTypes
<1> QED BY <1>1, <1>2 DEF TextIsSomewhere, Somewhere, Settled, About, StillToCome

\* A buffer is cleared when its text is indexed, or forgotten.
LEMMA WorkerKeepsText ==
    ASSUME ClientTypes, EntryInv, TextIsSomewhere,
           \/ \E f \in File : Touch(f) \/ Poll(f) \/ SkipQueued(f) \/ TakeQueued(f)
           \/ Expire \/ Indexed \/ IndexFails
    PROVE  TextIsSomewhere'
<1>1. /\ UNCHANGED <<buffer, timers, posts, overtaken>>
      /\ owed' \subseteq owed /\ cleared \subseteq cleared'
    BY DEF Touch, Poll, SkipQueued, TakeQueued, Expire, Forget, Indexed, IndexFails,
           editorVars, clientVars, indexVars, lostVars
<1>2. CASE UNCHANGED <<overlay, stored>>
    BY <1>1, <1>2, ShownStays
<1>3. ASSUME NEW f \in File, Poll(f) \/ SkipQueued(f) \/ TakeQueued(f)
      PROVE  TextIsSomewhere'
    BY <1>2, <1>3 DEF Poll, SkipQueued, TakeQueued
<1>4. CASE IndexFails
    BY <1>2, <1>4 DEF IndexFails
<1>5. ASSUME NEW f \in File, Touch(f) PROVE TextIsSomewhere'
    <2>1. CASE f \notin Files(overlay)
        BY <1>2, <1>5, <2>1 DEF Touch, indexVars
    <2>2. CASE f \in Files(overlay)
        <3>1. /\ OthersThan(f) \in Seq(Entry) /\ OneEach(OthersThan(f))
              /\ Files(OthersThan(f)) = Files(overlay) \ {f}
              /\ PlaceOf(f) \in DOMAIN overlay /\ overlay[PlaceOf(f)].file = f
            BY <2>2, OthersLeft DEF EntryInv, SidecarTypes
        <3>2. PICK e \in Entry : e = overlay[PlaceOf(f)] /\ e.file = f
            BY <3>1, AboutFiles DEF EntryInv
        <3>3. overlay' = Append(OthersThan(f), e) /\ stored' = stored
            BY <1>5, <2>2, <3>2 DEF Touch, indexVars
        <3>4. Files(overlay') = Files(OthersThan(f)) \cup {f}
            BY <3>1, <3>2, <3>3, EntryAdded
        <3>5. Files(overlay') = Files(overlay)
            BY <2>2, <3>1, <3>4
        <3> QED BY <1>1, <3>3, <3>5, ShownStays
    <2> QED BY <2>1, <2>2
<1>6. CASE Expire
    <2>1. owed' = owed \ (Files(overlay) \ Files(overlay')) /\ stored' = stored
        BY <1>6 DEF Expire, Forget, indexVars
    <2> QED BY <1>1, <2>1, ShownStays
<1>7. CASE Indexed
    <2>1. /\ job.file \in File /\ job.text \in Text
          /\ stored' = [stored EXCEPT ![job.file] = job.text]
          /\ overlay' = OthersThan(job.file) /\ owed' = owed
        BY <1>7 DEF Indexed, EntryInv, SidecarTypes
    <2>2. Files(overlay') = Files(overlay) \ {job.file}
        BY <2>1, OthersLeft DEF EntryInv, SidecarTypes
    <2>3. job.file \in owed \ cleared' =>
             stored'[job.file] = buffer[job.file] \/ StillToCome(job.file)
        BY <1>7, <2>1 DEF Indexed, EntryInv, SidecarTypes
    <2>4. \A g \in owed : g # job.file => stored'[g] = stored[g]
        BY <2>1 DEF EntryInv, SidecarTypes
    <2> QED BY <1>1, <2>1, <2>2, <2>3, <2>4, ShownStays
<1> QED BY <1>3, <1>4, <1>5, <1>6, <1>7

\* No step loses the text of a file that an answer owes.
LEMMA TextStep ==
    ASSUME ClientTypes, EntryInv, TextIsSomewhere, [Next]_vars
    PROVE  TextIsSomewhere'
<1>1. SidecarTypes
    BY DEF EntryInv
<1>2. ASSUME UNCHANGED vars PROVE TextIsSomewhere'
    <2>1. UNCHANGED <<buffer, timers, posts, overlay, stored, owed, overtaken, cleared>>
        BY <1>2 DEF vars, editorVars, clientVars, indexVars, lostVars
    <2> QED BY <2>1, ShownStays
<1>3. ASSUME NEW f \in File, Editor(f) PROVE TextIsSomewhere'
    BY <1>1, <1>3, EditorKeepsText
<1>4. ASSUME (\E batch \in SUBSET File : Flush(batch)) \/ FlushReturns
      PROVE  TextIsSomewhere'
    BY <1>1, <1>4, FlushKeepsText
<1>5. ASSUME Sidecar PROVE TextIsSomewhere'
    BY <1>5, UpdateKeepsText, OtherPostsKeepText, WorkerKeepsText DEF Sidecar
<1> QED BY <1>2, <1>3, <1>4, <1>5 DEF Next

\* What an answer shows of a file that has an entry is the text of that entry.
LEMMA ShownEntry ==
    ASSUME ClientTypes, EntryInv, NEW f \in Files(overlay)
    PROVE  \E i \in DOMAIN overlay : overlay[i].file = f /\ Shown(f) = overlay[i].text
<1>1. PICK i \in DOMAIN overlay : overlay[i].file = f
    BY DEF Files
<1>2. overlay[i] \in Entry
    BY AboutFiles DEF EntryInv
<1>3. \A e \in Entry :
         (\E j \in DOMAIN overlay : overlay[j] = e /\ e.file = f) <=> e = overlay[i]
    BY <1>1, <1>2 DEF EntryInv, OneEach
<1>4. (CHOOSE e \in Entry : \E j \in DOMAIN overlay : overlay[j] = e /\ e.file = f)
         = overlay[i]
    BY <1>2, <1>3
<1> QED BY <1>1, <1>4 DEF Shown

\* Whatever order posts arrive in: once everything has arrived an answer shows
\* the text of every file typed into or saved, whatever was saved, committed,
\* indexed, closed and looked up meanwhile, unless its entry had to make room
\* or expired, its last post overtook an earlier one, or an index job of
\* another text cleared it after its last post.
THEOREM EditorShowsTypedText == Spec => []TypedTextIsShown
<1>1. ClientInv /\ EntryInv /\ [Next]_vars => EntryInv'
    BY EntryStep DEF ClientInv
<1>2. ClientInv /\ EntryInv /\ TextIsSomewhere /\ [Next]_vars => TextIsSomewhere'
    BY TextStep DEF ClientInv
<1>3. ClientInv /\ EntryInv /\ TextIsSomewhere => TypedTextIsShown
    <2> SUFFICES ASSUME ClientTypes, EntryInv, TextIsSomewhere, Resting,
                        NEW f \in owed \ (overtaken \cup cleared)
                 PROVE  Shown(f) = buffer[f]
        BY DEF ClientInv, TypedTextIsShown, ShowsText
    <2>1. \A i \in DOMAIN posts : FALSE
        BY DEF Resting
    <2>2. \A g : Settled(g, 0)
        BY <2>1 DEF Settled
    <2>3. f \in Files(overlay) \/ stored[f] = buffer[f]
        BY <2>1 DEF TextIsSomewhere, Somewhere, Resting
    <2>4. CASE f \notin Files(overlay)
        BY <2>3, <2>4 DEF Shown
    <2>5. CASE f \in Files(overlay)
        <3>1. PICK i \in DOMAIN overlay : overlay[i].file = f /\ Shown(f) = overlay[i].text
            BY <2>5, ShownEntry
        <3>2. overlay[i] \in Entry
            BY AboutFiles DEF EntryInv
        <3>3. HasLastWord(overlay[i])
            BY <2>2 DEF HasLastWord
        <3> QED BY <3>1, <3>2, <3>3 DEF EntryInv, LastWordIsFresh, Fresh, Resting
    <2> QED BY <2>4, <2>5
<1> QED BY ClientInit, ClientStep, EntryInit, TextInit, <1>1, <1>2, <1>3, PTL DEF Spec
=============================================================================
