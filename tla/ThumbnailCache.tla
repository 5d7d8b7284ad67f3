--------------------------- MODULE ThumbnailCache ---------------------------
(***************************************************************************)
(* The thumbnail cache: request() pushes tasks under a mutex and starts a  *)
(* thread whenever the `running' flag is down; a thread lowers the flag    *)
(* when it finds the queue empty, then tests it again outside the mutex.   *)
(* Between the two a new request may raise it and start another thread, so *)
(* several threads can serve one queue, and the same file asked for twice  *)
(* is read and written in the cache directory by two of them at once.      *)
(* The name of the cached file is made of that of the picture: a path      *)
(* without one panics, and the thread dies with the flag up.               *)
(*                                                                         *)
(* A Request is one ThumbnailTask, so it is scheduled once; several may    *)
(* name the same file.  The mutex is held inside single steps only.        *)
(***************************************************************************)
EXTENDS Naturals, Sequences

CONSTANTS File,       \* library files, one cached thumbnail path each
          Request,    \* the thumbnail tasks
          FileOf,     \* the file of a task
          Loader,     \* identities for the threads; one that ended is reused
          None,       \* no task
          Readable,   \* files gdk-pixbuf can make a thumbnail of
          Nameless,   \* files whose path has no last component: an empty main file
          Torn        \* files whose cached PNG an earlier session left unfinished

ASSUME CacheAssumption ==
  /\ FileOf \in [Request -> File]
  /\ None \notin Request
  /\ Readable \subseteq File /\ Torn \subseteq File
  /\ Nameless \subseteq File \ (Readable \cup Torn)

VARIABLES queue,      \* the VecDeque
          running,    \* the AtomicBool
          pc,         \* where each thread is; "none": not started, or ended
          task,       \* the task a thread executes
          pix,        \* whether its thumbnail is ok
          cache,      \* the file at path_for_thumbnail: "absent", "partial", "full"
          present,    \* whether the picture itself is on disk
          asked,      \* history: requests pushed, in order
          popped,     \* history: requests popped, in order
          finished,   \* history: requests executed
          died,       \* history: requests whose thread died of them
          orphaned,   \* history: a thread died since the flag was last raised
          loaded,     \* history: files a ThumbnailLoaded was sent for
          missing     \* history: files a FileStatusChanged(Missing) was sent for

work == <<task, pix>>
cache_history == <<asked, popped, finished, died, orphaned, loaded, missing>>
cache_vars == <<queue, running, pc, work, cache, present, cache_history>>

InSeq(x, s) == \E i \in DOMAIN s : s[i] = x

\* The places of execute(), those where the thread holds a task.
Busy == {"lookup", "load", "create", "save", "status", "notify"}

TypeOK ==
  /\ queue \in Seq(Request)
  /\ running \in BOOLEAN
  /\ pc \in [Loader -> {"none", "loop", "pop", "check"} \cup Busy]
  /\ task \in [Loader -> Request \cup {None}]
  /\ pix \in [Loader -> BOOLEAN]
  /\ cache \in [File -> {"absent", "partial", "full"}]
  /\ present \in [File -> BOOLEAN]
  /\ asked \in Seq(Request) /\ popped \in Seq(Request)
  /\ finished \subseteq Request /\ died \subseteq Request
  /\ orphaned \in BOOLEAN
  /\ loaded \subseteq File /\ missing \subseteq File

CacheInit ==
  /\ queue = <<>>
  /\ running = FALSE
  /\ pc = [w \in Loader |-> "none"]
  /\ task = [w \in Loader |-> None]
  /\ pix = [w \in Loader |-> FALSE]
  /\ cache \in [File -> {"absent", "partial", "full"}]
  /\ \A f \in File : cache[f] = "partial" <=> f \in Torn
  /\ present \in [File -> BOOLEAN]
  /\ \A f \in Nameless : cache[f] = "absent" /\ ~present[f]
  /\ asked = <<>> /\ popped = <<>>
  /\ finished = {} /\ died = {} /\ orphaned = FALSE
  /\ loaded = {} /\ missing = {}

-----------------------------------------------------------------------------
Goto(w, l) == pc' = [pc EXCEPT ![w] = l]
At(w, l) == pc[w] = l
fileOf(w) == FileOf[task[w]]

\* A thread is started exactly when the flag is down.
spawn(w) ==
  /\ At(w, "none")
  /\ running' = TRUE
  /\ orphaned' = FALSE
  /\ Goto(w, "loop")

\* Mutant: only the first request starts a thread.
schedule_first(r) ==
  /\ ~InSeq(r, asked)
  /\ queue' = Append(queue, r)
  /\ asked' = Append(asked, r)
  /\ IF asked # <<>> THEN UNCHANGED <<running, orphaned, pc>> ELSE \E w \in Loader : spawn(w)
  /\ UNCHANGED <<work, cache, present, popped, finished, died, loaded, missing>>

schedule(r) ==
  /\ ~InSeq(r, asked)
  /\ queue' = Append(queue, r)
  /\ asked' = Append(asked, r)
  /\ IF running THEN UNCHANGED <<running, orphaned, pc>> ELSE \E w \in Loader : spawn(w)
  /\ UNCHANGED <<work, cache, present, popped, finished, died, loaded, missing>>

-----------------------------------------------------------------------------
(* main()                                                                  *)

load_running(w) ==
  /\ At(w, "loop")
  /\ Goto(w, IF running THEN "pop" ELSE "none")
  /\ UNCHANGED <<queue, running, work, cache, present, cache_history>>

pop_front(w) ==
  /\ At(w, "pop")
  /\ IF queue = <<>>
     THEN Goto(w, "check") /\ UNCHANGED <<queue, task, popped>>
     ELSE /\ Goto(w, "lookup")
          /\ task' = [task EXCEPT ![w] = Head(queue)]
          /\ queue' = Tail(queue)
          /\ popped' = Append(popped, Head(queue))
  /\ UNCHANGED <<running, pix, cache, present, asked, finished, died, orphaned, loaded, missing>>

\* Mutant: the flag is lowered whatever the queue holds.
check_always_lower(w) ==
  /\ At(w, "check")
  /\ running' = FALSE
  /\ Goto(w, "loop")
  /\ UNCHANGED <<queue, work, cache, present, cache_history>>

check_empty(w) ==
  /\ At(w, "check")
  /\ running' = (running /\ queue # <<>>)
  /\ Goto(w, "loop")
  /\ UNCHANGED <<queue, work, cache, present, cache_history>>

-----------------------------------------------------------------------------
(* execute() and get_thumbnail()                                           *)

is_thumbnail_cached(f) == cache[f] # "absent"

lookup(w) ==
  /\ At(w, "lookup")
  /\ fileOf(w) \notin Nameless
  /\ Goto(w, IF is_thumbnail_cached(fileOf(w)) THEN "load" ELSE "create")
  /\ UNCHANGED <<queue, running, work, cache, present, cache_history>>

\* path_for_thumbnail unwraps the file name: the thread dies, its task is
\* dropped and the flag stays as it is.
lookup_panics(w) ==
  /\ At(w, "lookup")
  /\ fileOf(w) \in Nameless
  /\ died' = died \cup {task[w]}
  /\ orphaned' = TRUE
  /\ task' = [task EXCEPT ![w] = None]
  /\ Goto(w, "none")
  /\ UNCHANGED <<queue, running, pix, cache, present, asked, popped, finished, loaded, missing>>

\* Pixbuf::from_file fails on a PNG that is still being written.
load_cached(w) ==
  /\ At(w, "load")
  /\ pix' = [pix EXCEPT ![w] = (cache[fileOf(w)] = "full")]
  /\ Goto(w, "status")
  /\ UNCHANGED <<queue, running, task, cache, present, cache_history>>

\* Thumbnail::thumbnail_file; when it succeeds, save() truncates the file.
create(w) ==
  /\ At(w, "create")
  /\ LET ok == present[fileOf(w)] /\ fileOf(w) \in Readable
     IN  /\ pix' = [pix EXCEPT ![w] = ok]
         /\ cache' = IF ok THEN [cache EXCEPT ![fileOf(w)] = "partial"] ELSE cache
         /\ Goto(w, IF ok THEN "save" ELSE "status")
  /\ UNCHANGED <<queue, running, task, present, cache_history>>

\* save() ends, or fails half-way: its result is not looked at.
end_save(w) ==
  /\ At(w, "save")
  /\ \E s \in {"full", "partial"} : cache' = [cache EXCEPT ![fileOf(w)] = s]
  /\ Goto(w, "status")
  /\ UNCHANGED <<queue, running, work, present, cache_history>>

check_status(w) ==
  /\ At(w, "status")
  /\ missing' = IF present[fileOf(w)] THEN missing ELSE missing \cup {fileOf(w)}
  /\ Goto(w, "notify")
  /\ UNCHANGED <<queue, running, work, cache, present, asked, popped, finished, died, orphaned, loaded>>

\* Mutant: the thumbnail just made is read back from the cache.
notify_from_cache(w) ==
  /\ At(w, "notify")
  /\ loaded' = IF pix[w] /\ cache[fileOf(w)] = "full" THEN loaded \cup {fileOf(w)} ELSE loaded
  /\ finished' = finished \cup {task[w]}
  /\ task' = [task EXCEPT ![w] = None]
  /\ Goto(w, "check")
  /\ UNCHANGED <<queue, running, pix, cache, present, asked, popped, died, orphaned, missing>>

notify(w) ==
  /\ At(w, "notify")
  /\ loaded' = IF pix[w] THEN loaded \cup {fileOf(w)} ELSE loaded
  /\ finished' = finished \cup {task[w]}
  /\ task' = [task EXCEPT ![w] = None]
  /\ Goto(w, "check")
  /\ UNCHANGED <<queue, running, pix, cache, present, asked, popped, died, orphaned, missing>>

-----------------------------------------------------------------------------
\* The user moves or deletes a picture behind the program's back.
remove_picture(f) ==
  /\ present[f]
  /\ present' = [present EXCEPT ![f] = FALSE]
  /\ UNCHANGED <<queue, running, pc, work, cache, cache_history>>

Thread(w) ==
  \/ load_running(w) \/ pop_front(w) \/ check_empty(w)
  \/ lookup(w) \/ lookup_panics(w) \/ load_cached(w) \/ create(w) \/ end_save(w)
  \/ check_status(w) \/ notify(w)

CacheNext ==
  \/ \E r \in Request : schedule(r)
  \/ \E w \in Loader : Thread(w)
  \/ \E f \in File : remove_picture(f)

\* A started thread is scheduled by the system; requests and the removal of
\* pictures may or may not happen.
Fairness == \A w \in Loader : WF_cache_vars(Thread(w))

SafeSpec == CacheInit /\ [][CacheNext]_cache_vars
CacheSpec == SafeSpec /\ Fairness
-----------------------------------------------------------------------------
(* Properties.                                                             *)

\* A queued task has the flag up, and a thread that will read it up, unless
\* one died of its task since the flag was last raised.
NoStrandedTask ==
  queue # <<>> => running /\ (orphaned \/ \E w \in Loader : ~At(w, "none"))

\* However many threads serve the queue, each task is popped once, in order.
PoppedInOrder == asked = popped \o queue

\* A task popped is in the hands of exactly one thread, or executed, or has
\* killed its thread.
ExecutedOnce ==
  /\ \A v, w \in Loader : task[v] = task[w] /\ task[v] # None => v = w
  /\ \A r \in Request :
       InSeq(r, popped) <=> (r \in finished \cup died \/ \E w \in Loader : task[w] = r)
  /\ \A w \in Loader : task[w] \notin finished \cup died
  /\ finished \cap died = {}

\* A readable picture that was asked for gets its thumbnail once its
\* requests are executed, even if one of them read the cached file while
\* another was writing it, or a save failed.  (Not if an earlier session was
\* killed while saving: that file is never written again.)
ThumbnailDelivered ==
  \A f \in Readable \ Torn :
    /\ present[f]
    /\ \E r \in finished : FileOf[r] = f
    /\ \A w \in Loader : task[w] # None => fileOf(w) # f
    => f \in loaded

\* The threads died and left the flag up: no request starts another.
Stranded == running /\ orphaned /\ \A w \in Loader : At(w, "none")

\* Every request is executed in the end, or its thread dies of it, or the
\* queue was left to nobody by a thread that died of another.
EventuallyExecuted ==
  \A r \in Request : InSeq(r, asked) ~> r \in finished \cup died \/ Stranded

=============================================================================
