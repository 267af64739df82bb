---------------------------- MODULE ResponseCache ----------------------------
(***************************************************************************)
(* The response cache (cache/layered.py, InMemoryResponseCache) between    *)
(* the requests that ask the model (ask/service.py) and the index batches  *)
(* that invalidate what files changed.                                     *)
(*                                                                         *)
(* Every method of the cache runs under its lock and is one step here.  A  *)
(* request is not one step: it looks its prompt up, waits for the model    *)
(* and puts the answer in, and others ask, index and let time pass         *)
(* meanwhile.  Three structures describe the same entries: the LRU order,  *)
(* the index from files to entries, and the files of each entry.           *)
(***************************************************************************)
EXTENDS Naturals, FiniteSets, Sequences, SequencesExt

CONSTANTS
    Workspace, Prompt,
    Path,      \* files a prompt's context may come from
    Request,   \* requests being served at a time
    None,
    Capacity,  \* entries
    Ttl,       \* ttl_s
    LastSecond \* the clock stops there (bound)

ASSUME CacheConstants ==
    /\ IsFiniteSet(Workspace) /\ IsFiniteSet(Prompt) /\ IsFiniteSet(Path)
    /\ Capacity \in Nat \ {0} /\ Ttl \in Nat /\ LastSecond \in Nat

Key == Workspace \X Prompt

VARIABLES
    items,     \* the OrderedDict's keys, least recently used first
    entry,     \* what is stored under a key
    fileIndex, \* _file_index
    keyPaths,  \* _key_paths: the files of the entries it has
    now,       \* time(), in seconds
    requests,  \* the requests
    due,       \* history: entries the last batches invalidated
    listed     \* history: the files a held entry was put with

vars == <<items, entry, fileIndex, keyPaths, now, requests, due, listed>>
indexVars == <<fileIndex, keyPaths>>
histVars == <<due, listed>>

\* An answer: the question it answers, and whether the model completed it.
Answer == [of: Key, whole: BOOLEAN]
Entry == [answer: Answer, expires: Nat]

ASSUME NoneIsNoEntry == None \notin Entry

Held == ToSet(items)
Unused == [at |-> "idle", of |-> None, paths |-> {}, told |-> None]

Init ==
    /\ items = <<>>
    /\ entry = [k \in Key |-> None]
    /\ fileIndex = [p \in Path |-> {}]
    /\ keyPaths = <<>>
    /\ now = 0
    /\ requests = [r \in Request |-> Unused]
    /\ due = {} /\ listed = [k \in Key |-> {}]

-----------------------------------------------------------------------------
(* The cache *)

\* Fault: the prompt's hash alone.
KeyWithoutWorkspace(w, p) == <<CHOOSE v \in Workspace : TRUE, p>>

KeyOf(w, p) == <<w, p>>

\* Setting a key and move_to_end: it has one place in the order.
Used(k) == Append(RemoveFirst(items, k), k)

Valid(k) == k \in Held /\ ~(entry[k].expires < now)

\* Fault: only what is replaced is taken out of the index, not what is
\* pushed out.
DisplacedBySame(k) == IF k \in Held THEN {k} ELSE {}

\* The entry whose place put takes: its own, or the oldest.
Displaced(k) ==
    CASE k \in Held -> {k}
      [] k \notin Held /\ Len(items) >= Capacity -> {Head(items)}
      [] OTHER -> {}

\* _unindex_key for keys K, then the entry k under its files.
Reindexed(K, k, paths) ==
    /\ keyPaths' = [j \in (DOMAIN keyPaths \ K) \cup {k} |->
                      IF j = k THEN paths ELSE keyPaths[j]]
    /\ fileIndex' = [p \in Path |->
                       (fileIndex[p] \ {j \in K \cap DOMAIN keyPaths :
                                          p \in keyPaths[j]})
                       \cup (IF p \in paths THEN {k} ELSE {})]

\* _LRU.put: the oldest goes when there is one too many.
Kept(order) == IF Len(order) > Capacity THEN Tail(order) ELSE order

\* InMemoryResponseCache.put
Put(k, answer, paths) ==
    LET kept == Kept(Used(k)) IN
    /\ Reindexed(Displaced(k), k, paths)
    /\ items' = kept
    /\ entry' = [j \in Key |->
                   IF j = k THEN [answer |-> answer, expires |-> now + Ttl]
                   ELSE IF j \in ToSet(kept) THEN entry[j] ELSE None]
    /\ due' = due \ {k}
    /\ listed' = [j \in Key |->
                    IF j = k THEN paths
                    ELSE IF j \in ToSet(kept) THEN listed[j] ELSE {}]

-----------------------------------------------------------------------------
(* Requests *)

\* ask: the prompt is built from the files, and looked up.  A look moves an
\* entry to the end of the order, one that has expired too.
LookUp(r, w, p, paths) ==
    LET k == KeyOf(w, p) IN
    /\ requests[r].at = "idle"
    /\ items' = IF k \in Held THEN Used(k) ELSE items
    /\ requests' = [requests EXCEPT ![r] =
         IF Valid(k)
         THEN [at |-> "told", of |-> <<w, p>>, paths |-> paths,
               told |-> entry[k].answer]
         ELSE [at |-> "waiting", of |-> <<w, p>>, paths |-> paths,
               told |-> None]]
    /\ UNCHANGED <<entry, indexVars, now, histVars>>

\* The model's answer goes to the cache and to the caller.
ModelAnswers(r) ==
    LET q == requests[r].of
        answer == [of |-> q, whole |-> TRUE] IN
    /\ requests[r].at = "waiting"
    /\ Put(KeyOf(q[1], q[2]), answer, requests[r].paths)
    /\ requests' = [requests EXCEPT ![r].at = "told", ![r].told = answer]
    /\ UNCHANGED now

\* The model raises, in the middle of a stream or before it, and the caller
\* gets a degraded answer; or the caller of a stream goes away.
ModelFails(r) ==
    /\ requests[r].at = "waiting"
    /\ requests' = [requests EXCEPT ![r] = Unused]
    /\ UNCHANGED <<items, entry, indexVars, now, histVars>>

Finish(r) ==
    /\ requests[r].at = "told"
    /\ requests' = [requests EXCEPT ![r] = Unused]
    /\ UNCHANGED <<items, entry, indexVars, now, histVars>>

-----------------------------------------------------------------------------
(* Index batches, and time *)

\* Fault: only entries that list every file.
DroppedByAll(w, files) ==
    {k \in UNION {fileIndex[p] : p \in files} :
        k[1] = w /\ \A p \in files : k \in fileIndex[p]}

\* Fault: every workspace's entries go.
DroppedEverywhere(w, files) == UNION {fileIndex[p] : p \in files}

\* The entries of the workspace that list one of the files.
Dropped(w, files) == {k \in UNION {fileIndex[p] : p \in files} : k[1] = w}

\* The order without the entries K: del of each.
Without(K) ==
    LET left[n \in 0 .. Len(items)] ==
            IF n = 0 THEN <<>>
            ELSE IF items[n] \in K THEN left[n - 1]
            ELSE Append(left[n - 1], items[n])
    IN  left[Len(items)]

\* LayeredCache.invalidate_files, called after a batch and a saved file.
InvalidateFiles(w, files) ==
    LET drop == Dropped(w, files) IN
    /\ items' = Without(drop)
    /\ entry' = [k \in Key |-> IF k \in drop THEN None ELSE entry[k]]
    /\ keyPaths' = [k \in DOMAIN keyPaths \ drop |-> keyPaths[k]]
    /\ fileIndex' = [p \in Path |-> fileIndex[p] \ drop]
    /\ due' = (due \cap Held)
              \cup {k \in Held : k[1] = w /\ listed[k] \cap files # {}}
    /\ listed' = [k \in Key |-> IF k \in ToSet(items') THEN listed[k] ELSE {}]
    /\ UNCHANGED <<now, requests>>

Tick == /\ now < LastSecond
        /\ now' = now + 1
        /\ UNCHANGED <<items, entry, indexVars, requests, histVars>>

Next ==
    \/ \E r \in Request :
         \/ \E w \in Workspace, p \in Prompt, paths \in SUBSET Path :
              LookUp(r, w, p, paths)
         \/ ModelAnswers(r) \/ ModelFails(r) \/ Finish(r)
    \/ \E w \in Workspace, files \in SUBSET Path : InvalidateFiles(w, files)
    \/ Tick

Spec == Init /\ [][Next]_vars

-----------------------------------------------------------------------------
(* Properties *)

\* The order, the files of an entry and the entries of a file always tell the
\* same story, after any sequence of puts over old entries, evictions, looks
\* at expired entries and invalidations: no file leads to an entry that is
\* gone, none of an entry's files has forgotten it, and the cache keeps to
\* its capacity (layered.py:145-176).
IndexesAgree ==
    /\ Len(items) = Cardinality(Held) /\ Len(items) <= Capacity
    /\ Held = {k \in Key : entry[k] # None}
    /\ DOMAIN keyPaths = Held
    /\ \A p \in Path :
         fileIndex[p] = {k \in Held : p \in keyPaths[k]}

\* Once a batch has invalidated a file, no entry of its workspace that was
\* put with the file is in the cache until it is put in anew, whatever files
\* it had been put with before (layered.py:178-211).
InvalidatedAnswersGo == due \cap Held = {}

\* And nothing else goes: an entry leaves when a batch of its own workspace
\* invalidated a file it was last put with, or when another entry needs its
\* place (layered.py:185-196).
OthersStay ==
    [][\A k \in Held \ ToSet(items') :
         \/ k \in due'
         \/ /\ Len(items) = Capacity /\ k = Head(items)
            /\ Last(items') \notin Held]_vars

\* A cached answer is given only to the question it answers, in the workspace
\* it was given in, complete, and not after its time; the puts of requests
\* that waited together make no difference
\* (ask/service.py:447-465, layered.py:138-143).
ServedAnswersFit ==
    [][\A r \in Request :
         requests[r].at = "idle" /\ requests'[r].at = "told" =>
            LET q == requests'[r].of IN
            /\ requests'[r].told = [of |-> q, whole |-> TRUE]
            /\ \E k \in Held : entry[k].answer.of = q
                               /\ now <= entry[k].expires]_vars
=============================================================================
